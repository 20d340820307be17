----------------------------- MODULE SelectScan -----------------------------
(***************************************************************************)
(* The three scans of q2 in vldb2023/query.c: slct_row over the row store, *)
(* slct_col over the column store and slct_rme over the window.  One step  *)
(* is one turn of the loop over the rows.  slct_row and slct_rme walk the  *)
(* rows with a pointer of their own, which they move only past a row they  *)
(* kept; slct_col indexes its columns with the loop counter.               *)
(***************************************************************************)
EXTENDS ResultState

CONSTANT Scan   \* pairs of a store and [s: table, cols: sequence of [col, project, op, k]]

MAX_GROUPS == 11   \* the options of one query

Option(t) ==
  [col : 0..num_cols(t)-1, project : BOOLEAN, k : Int,
   op : {"LT", "LTE", "GT", "GTE", "EQ", "NE", "NOP"}]

ASSUME SelectAssumption ==
  /\ Limit \in Nat
  /\ \A s \in Scan :
       LET t == s[2].s
           os == s[2].cols
       IN  /\ s[1] \in {"ROW", "COL", "RME"} /\ IsTable(t) /\ ValuesFit(t)
           /\ os \in Seq(Option(t)) /\ Len(os) \in 1..MAX_GROUPS

VARIABLE done

slctVars == <<store, query, mem, i, row, result, ptr, shown, done>>

Table == query.s
opts  == query.cols
Cols  == [o \in 1..Len(opts) |-> opts[o].col]

SlctMem(st, q) == Memory(st, q.s, [o \in 1..Len(q.cols) |-> q.cols[o].col])

\* The options with a condition and those to project, in option order.
conditions  == {o \in 1..Len(opts) : opts[o].op # "NOP"}
projections == InOrder({o \in 1..Len(opts) : opts[o].project}, Len(opts))

Width(o) == Table.widths[opts[o].col + 1]

\* offsets[o] of slct_row and slct_rme, cols[o] of slct_col.
Start(o) ==
  CASE store = "ROW" -> calc_offset(Table, opts[o].col)
    [] store = "COL" -> calc_offset(Table, opts[o].col) * Table.rows
    [] store = "RME" -> PackedOffset(Table, Cols, o-1)

\* The field the loop body reads for option o.
Field(o) ==
  IF store = "COL" THEN mem[Start(o) + i * Width(o)] ELSE mem[row + Start(o)]

RowStep ==
  CASE store = "ROW" -> row_size(Table)
    [] store = "COL" -> 0
    [] store = "RME" -> PackedRowSize(Table, Cols)

\* Broken variant of bad: the bound itself passes.
Mut_bad == \E o \in conditions : opts[o].op = "LT" /\ Field(o) > opts[o].k

\* Only O_LT is evaluated; the other operators let every row through.
bad == \E o \in conditions : opts[o].op = "LT" /\ Field(o) >= opts[o].k

\* Broken variant of RowBytes: the filtered columns are counted as well.
Mut_RowBytes == Sum([o \in 1..Len(opts) |-> Width(o)], Len(opts))

\* The bytes a kept row takes in the result buffer.
RowBytes ==
  Sum([n \in 1..Len(projections) |-> Width(projections[n])], Len(projections))

SlctInit ==
  /\ \E s \in Scan : store = s[1] /\ query = s[2]
  /\ mem = SlctMem(store, query)
  /\ i = 0 /\ row = 0
  /\ result = <<>> /\ ptr = 0
  /\ shown = <<>>
  /\ done = FALSE

\* `if (bad) continue;` leaves the row pointer where it is.
RejectRow ==
  /\ i < Table.rows
  /\ bad
  /\ i' = i + 1
  /\ UNCHANGED <<store, query, mem, row, result, ptr, shown, done>>

KeepRow ==
  /\ i < Table.rows
  /\ ~bad
  /\ result' = Append(result, [n \in DOMAIN projections |-> Field(projections[n])])
  /\ ptr' = ptr + RowBytes
  /\ i' = i + 1
  /\ row' = row + RowStep
  /\ UNCHANGED <<store, query, mem, shown, done>>

\* Broken variant of SlctReport: one row more than `limit` is printed.
Mut_SlctReport ==
  /\ i = Table.rows /\ ~done
  /\ shown' = SubSeq(result, 1, IF Limit < Len(result) THEN Limit + 1 ELSE Len(result))
  /\ done' = TRUE
  /\ UNCHANGED <<store, query, mem, i, row, result, ptr>>

\* The first `limit` rows of the result are printed.
SlctReport ==
  /\ i = Table.rows /\ ~done
  /\ shown' = SubSeq(result, 1, IF Limit < Len(result) THEN Limit ELSE Len(result))
  /\ done' = TRUE
  /\ UNCHANGED <<store, query, mem, i, row, result, ptr>>

SlctNext == RejectRow \/ KeepRow \/ SlctReport

SlctSpec == SlctInit /\ [][SlctNext]_slctVars

-----------------------------------------------------------------------------
Abstract == INSTANCE Selection WITH Query <- {s[2] : s \in Scan}, row <- i, answer <- result

\* A scan comes to row r with its pointer on it: a scan that walks with a
\* pointer stays at the first row it rejects.
Reached(r) == store = "COL" \/ \A p \in 0..r-1 : Abstract!Matches(query, p)

\* No row of the WHERE clause is behind one that is rejected.
Walkable == \A r \in 0..Table.rows-1 : Abstract!Matches(query, r) => Reached(r)

\* Every turn of the loop does to the answer what SELECT does with the row of
\* that number, in the column store, and in the other two if no row of the
\* WHERE clause is behind a rejected one (slct_row, slct_col, slct_rme).
ImplementsSelection == Abstract!Init /\ [][Walkable => Abstract!Next]_(Abstract!vars)

\* The rows kept fit the result buffer of db_size bytes (malloc(db_size) in
\* each scan) when no column is projected twice.
RowsFit ==
  (\A m, n \in DOMAIN projections :
     m # n => opts[projections[m]].col # opts[projections[n]].col)
  => ptr <= db_size(Table)

\* The first `limit` of the rows r-1 with r in R, projected.
Printed(R) ==
  LET rows == InOrder(R, Table.rows)
      all == [n \in 1..Len(rows) |-> Abstract!Project(query, rows[n] - 1)]
  IN  SubSeq(all, 1, IF Limit < Len(all) THEN Limit ELSE Len(all))

\* What a finished scan prints is the first rows of the WHERE clause in row
\* order: all of them from the column store, and from the row store and the
\* window those with no rejected row before them.  No other row is printed,
\* whatever the layout of the memory and the place of the selected columns
\* in a row (slct_row, slct_col, slct_rme).
ShowsTheRowsReached ==
  done => shown = Printed({r \in 1..Table.rows :
                             Abstract!Matches(query, r-1) /\ Reached(r-1)})

\* RUNNING.md of q2: the first rows of the WHERE clause, from every store
\* (slct_row, slct_col, slct_rme).
ShowsTheWhereRows ==
  done => shown = Printed({r \in 1..Table.rows : Abstract!Matches(query, r-1)})

=============================================================================
