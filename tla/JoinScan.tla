------------------------------ MODULE JoinScan ------------------------------
(***************************************************************************)
(* q3 of vldb2023/query.c: join_row, join_col and join_rme.  The join      *)
(* columns of S are hashed row by row, then R is populated and each of its *)
(* rows is looked up.  All columns have four bytes.  The window holds what *)
(* the registers of a JOIN make the engine take: the selected column is in *)
(* the first register (SEL_COL), the join column in the second (JOIN_COL), *)
(* and both hold offsets from the start of the row.                        *)
(***************************************************************************)
EXTENDS ResultState, BucketTable

CONSTANTS
  JoinQuery,  \* [s, r: tables, s_sel, r_sel, s_join, r_join: columns]
  Stores,     \* the stores the queries are run on
  Garbage     \* what a word of memory nobody wrote may hold

ASSUME JoinAssumption ==
  /\ Stores \subseteq {"ROW", "COL", "RME"} /\ Limit \in Nat
  /\ \A q \in JoinQuery :
       /\ \A t \in {q.s, q.r} :
            IsTable(t) /\ ValuesFit(t) /\ \A c \in DOMAIN t.widths : t.widths[c] = 4
       /\ {q.s_sel, q.s_join} \subseteq 0..num_cols(q.s)-1
       /\ {q.r_sel, q.r_join} \subseteq 0..num_cols(q.r)-1

VARIABLES
  pc,        \* the loop
  ht,
  res_count

joinVars == <<store, query, mem, pc, i, row, ht, result, ptr, res_count, shown>>

\* The row store of t and what lies behind it: of the words the engine may
\* take from there, one at most is in the window.
Dram(t, g) ==
  LET db == db_populate_row(t)
  IN  [a \in {4*n : n \in 0..num_cols(t)*(t.rows+1)-1} |-> IF a \in DOMAIN db THEN db[a] ELSE g]

\* db_init, db2_init: what the memory of a side may hold when its scan starts.
JoinMem(t, sel, join) ==
  LET cols == <<sel, join>>
  IN  IF store = "RME"
        THEN {Window(Dram(t, g), t, cols, FromStart(t, cols)) : g \in Garbage}
        ELSE {Memory(store, t, cols)}

Stride(t) == CASE store = "ROW" -> 4 * num_cols(t) [] store = "COL" -> 0 [] store = "RME" -> 8

\* row[col] of join_row, key_col[i] and val_col[i] of join_col.
Element(t, col) ==
  IF store = "COL" THEN mem[calc_offset(t, col) * t.rows + 4 * i] ELSE mem[row + 4 * col]

JoinInit ==
  /\ store \in Stores
  /\ query \in JoinQuery
  /\ mem \in JoinMem(query.s, query.s_sel, query.s_join)
  /\ pc = "build" /\ i = 0 /\ row = 0
  /\ ht = ht_create
  /\ result = <<>> /\ ptr = 0 /\ res_count = 0
  /\ shown = <<>>

\* Broken variant of BuildPair: the pair of the window is never swapped.
Mut_BuildPair ==
  IF store # "RME"
    THEN <<Element(query.s, query.s_join), Element(query.s, query.s_sel)>>
    ELSE <<mem[row], mem[row+4]>>

\* join_rme reads the pair at `row` and swaps it if the selected column comes
\* before the join column.
BuildPair ==
  IF store # "RME"
    THEN <<Element(query.s, query.s_join), Element(query.s, query.s_sel)>>
  ELSE IF query.s_sel < query.s_join
    THEN <<mem[row+4], mem[row]>>
    ELSE <<mem[row], mem[row+4]>>

BuildRow ==
  /\ pc = "build" /\ i < query.s.rows
  /\ ht' = ht_insert(ht, BuildPair[1], BuildPair[2])
  /\ i' = i + 1
  /\ row' = row + Stride(query.s)
  /\ UNCHANGED <<store, query, mem, pc, result, ptr, res_count, shown>>

\* db2_init; the scan of R starts.
SecondTable ==
  /\ pc = "build" /\ i = query.s.rows
  /\ mem' \in JoinMem(query.r, query.r_sel, query.r_join)
  /\ pc' = "probe" /\ i' = 0 /\ row' = 0
  /\ UNCHANGED <<store, query, ht, result, ptr, res_count, shown>>

\* What word w of the result buffer may hold.
Word(w) == IF w \in DOMAIN result THEN {result[w]} ELSE Garbage

\* The key and the value of a row of R.  join_rme takes the value from the
\* result buffer, and never moves `row`.
ProbePairs ==
  IF store # "RME"
    THEN {<<Element(query.r, query.r_join), Element(query.r, query.r_sel)>>}
  ELSE IF query.r_sel < query.r_join
    THEN {<<w, mem[row]>> : w \in Word(ptr)}
    ELSE {<<mem[row], w>> : w \in Word(ptr)}

\* Broken variant of Out: every store moves `ptr` before the match is stored.
Mut_Out == ptr + 2

\* Where `ptr` is when the match is stored: join_rme has moved it before.
Out == IF store = "RME" THEN ptr + 2 ELSE ptr

Matched(val1, val2) ==
  /\ result' = [w \in DOMAIN result \cup {Out, Out+1} |->
                  IF w = Out THEN val1 ELSE IF w = Out+1 THEN val2 ELSE result[w]]
  /\ ptr' = Out + 2
  /\ res_count' = res_count + 1

ProbeRow ==
  /\ pc = "probe" /\ i < query.r.rows
  /\ \E p \in ProbePairs :
       \/ \E val1 \in ht_search(ht, p[1]) : Matched(val1, p[2])
       \/ ht_search(ht, p[1]) = {} /\ ptr' = Out /\ UNCHANGED <<result, res_count>>
  /\ i' = i + 1
  /\ row' = IF store = "RME" THEN row ELSE row + Stride(query.r)
  /\ UNCHANGED <<store, query, mem, pc, ht, shown>>

\* ht_free; the first `limit` pairs of the result buffer are printed.
JoinReport ==
  /\ pc = "probe" /\ i = query.r.rows
  /\ pc' = "done"
  /\ ht' = ht_create
  /\ \E g \in Garbage :
       LET at(w) == IF w \in DOMAIN result THEN result[w] ELSE g
           count == IF Limit < res_count THEN Limit ELSE res_count
       IN  shown' = [n \in 1..count |-> <<at(2*n-2), at(2*n-1)>>]
  /\ UNCHANGED <<store, query, mem, i, row, result, ptr, res_count>>

JoinNext == BuildRow \/ SecondTable \/ ProbeRow \/ JoinReport

JoinSpec == JoinInit /\ [][JoinNext]_joinVars

-----------------------------------------------------------------------------
\* The rows of SELECT S.sel, R.sel FROM S, R WHERE S.join = R.join, in the
\* order of R and, for one row of R, of S.
JoinedRows ==
  LET S(m, col) == FieldValue(query.s, m-1, col)
      R(n, col) == FieldValue(query.r, n-1, col)
      Row(m, n) == IF S(m, query.s_join) = R(n, query.r_join)
                     THEN <<<<S(m, query.s_sel), R(n, query.r_sel)>>>> ELSE <<>>
  IN  Concat([n \in 1..query.r.rows |-> Concat([m \in 1..query.s.rows |-> Row(m, n)], query.s.rows)],
             query.r.rows)

Answered ==
  LET n == Len(JoinedRows)
  IN  shown = SubSeq(JoinedRows, 1, IF Limit < n THEN Limit ELSE n)

\* In the row and the column store the join prints the first rows of the SQL
\* statement it stands for: no match is lost or made up when keys share a
\* bucket, repeat in R or meet in columns of different number.
ShowsTheJoin == pc = "done" /\ store # "RME" => Answered

\* So it does whatever the store, as RUNNING.md has it.
ShowsTheJoinInEveryStore == pc = "done" => Answered

\* After the loop over S a search finds, for every value of its join column,
\* the selected column of the row that holds it: in the row and the column
\* store always, over the window when the selected column is the first of a
\* row.  The second register then is the distance from the first, whichever
\* way the engine reads it, and the loop swaps the pair as the registers say.
HashedRight ==
  \A n \in 0..query.s.rows-1 :
    ht_search(ht, FieldValue(query.s, n, query.s_join)) = {FieldValue(query.s, n, query.s_sel)}

HashesS == pc = "probe" /\ (store # "RME" \/ query.s_sel = 0) => HashedRight

\* In the row and the column store the matches fit the result buffer, which
\* has two words per row of R.
PairsFit == store # "RME" => ptr <= 2 * query.r.rows

=============================================================================
