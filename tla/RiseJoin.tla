------------------------------ MODULE RiseJoin ------------------------------
(***************************************************************************)
(* What RISE/sources_c/q5.c computes.  It populates a table, hashes it     *)
(* from the window and then from DRAM, populates a second table in its     *)
(* place, and probes with that one, again from both.  One step is one turn *)
(* of a loop over rows.  Memory is in words of sizeof(T): all columns are  *)
(* that wide, and offsets are words.                                       *)
(***************************************************************************)
EXTENDS RiseHash, Integers, FiniteSets

CONSTANTS
  Run,     \* [row_count, columns: words of a row, offsets: the enabled ones]
  TRange   \* T wraps at this value: 2^8 .. 2^128, by the build

\* Columns lie within a row, and are enabled in their order (q5.c:68).
ASSUME RiseJoinAssumption ==
  /\ TRange \in Nat \ {0}
  /\ \A r \in Run :
       /\ r.row_count \in Nat /\ r.columns \in Nat \ {0}
       /\ r.offsets \in Seq(0..r.columns-1) /\ r.offsets # <<>>
       /\ \A m, n \in DOMAIN r.offsets : m < n => r.offsets[m] < r.offsets[n]

VARIABLES
  run,
  pc, i,        \* the loop and its counter
  ht, ht2,      \* the table hashed from the window, and the one from DRAM
  join_result, join_result2

vars == <<run, pc, i, ht, ht2, join_result, join_result2>>

-----------------------------------------------------------------------------
row_count == run.row_count
enabled   == Len(run.offsets)
off(j)    == run.offsets[j+1]

\* What POPULATE 1 and POPULATE 2 give the j-th enabled column of row r.
Table1(r, j) == (1 + r*enabled + j) % TRange
Table2(r, j) ==
  (IF j = 0 THEN 1 + 4*r ELSE 100000 + r*(enabled-1) + j-1) % TRange

InWindow(p) == p \in {"build", "probe"}

\* The table that is in DRAM and behind the window.
Stored(r, j) == IF pc \in {"build", "build_dram"} THEN Table1(r, j) ELSE Table2(r, j)

dram ==
  [a \in 0..row_count*run.columns-1 |->
     LET at == {j \in 0..enabled-1 : off(j) = a % run.columns}
     IN  IF at = {} THEN 0 ELSE Stored(a \div run.columns, CHOOSE j \in at : TRUE)]

plim == [a \in 0..row_count*enabled-1 |-> Stored(a \div enabled, a % enabled)]

\* `data`, and the columns behind it.
key(r) == IF InWindow(pc) THEN plim[r*enabled] ELSE dram[r*run.columns]

arr(r) ==
  [j \in 1..enabled-1 |-> IF InWindow(pc) THEN plim[r*enabled + j]
                                          ELSE dram[r*run.columns + off(j)]]

-----------------------------------------------------------------------------
Init ==
  /\ run \in Run
  /\ pc = "build" /\ i = 0
  /\ ht = create_table /\ ht2 = create_table
  /\ join_result = <<>> /\ join_result2 = <<>>

\* A row of the first table is hashed.
Insert(table, new) ==
  /\ i < row_count
  /\ IF full(table, key(i))
       THEN pc' = "exit" /\ UNCHANGED i /\ new = table
       ELSE i' = i + 1 /\ UNCHANGED pc /\ new = ht_insert(table, key(i), arr(i))

Build ==
  \/ pc = "build" /\ Insert(ht, ht') /\ UNCHANGED ht2
  \/ pc = "build_dram" /\ Insert(ht2, ht2') /\ UNCHANGED ht

BuildRow == Build /\ UNCHANGED <<run, join_result, join_result2>>

\* The row a match appends: the key and the other columns of both tables.
\* Where both are found in join_result, the key is that of the second table.
Matches(table) ==
  {<<key(i)>> \o val \o <<key(i)>> \o arr(i) : val \in ht_search(table, key(i))}

Probed(table, result, new) ==
  \/ Matches(table) = {} /\ new = result
  \/ \E row \in Matches(table) : new = result \o row

Probe ==
  \/ pc = "probe" /\ Probed(ht, join_result, join_result') /\ UNCHANGED join_result2
  \/ pc = "probe_dram" /\ Probed(ht2, join_result2, join_result2') /\ UNCHANGED join_result

ProbeRow ==
  /\ i < row_count
  /\ Probe
  /\ i' = i + 1
  /\ UNCHANGED <<run, pc, ht, ht2>>

\* The next loop; between the second and the third the tables change places.
NextLoop ==
  /\ pc \notin {"exit", "done"} /\ i = row_count
  /\ i' = 0
  /\ pc' = CASE pc = "build" -> "build_dram" [] pc = "build_dram" -> "probe"
             [] pc = "probe" -> "probe_dram" [] OTHER -> "done"
  /\ UNCHANGED <<run, ht, ht2, join_result, join_result2>>

Next == BuildRow \/ ProbeRow \/ NextLoop

Spec == Init /\ [][Next]_vars

-----------------------------------------------------------------------------
\* The item of a row of the first table, and the columns it holds.
Columns(r) == [j \in 1..enabled-1 |-> Table1(r, j)]
Item(r)    == create_item(Table1(r, 0), Columns(r))

\* The rows of a bucket, of the first n, and those its slot does not answer for.
InBucket(b, n)  == {r \in 0..n-1 : hash_function(Table1(r, 0)) = b}
Beside(r, b, n) == {q \in InBucket(b, n) : Table1(q, 0) # Table1(r, 0)}

Least(r, R)    == r \in R /\ \A q \in R : r <= q
Greatest(r, R) == r \in R /\ \A q \in R : q <= r

ListOf(x, y) == IF x = y THEN <<Item(x)>> ELSE <<Item(x), Item(y)>>

\* A table of the first n rows: a bucket holds the first row that was hashed
\* to it and, of those with another key than that, the first and the last.
KeepsThree(table, n) ==
  \A b \in Bucket :
    \/ InBucket(b, n) = {} /\ table.items[b] = <<>> /\ table.overflow_buckets[b] = <<>>
    \/ \E f \in InBucket(b, n) :
         /\ Least(f, InBucket(b, n)) /\ table.items[b] = <<Item(f)>>
         /\ \/ Beside(f, b, n) = {} /\ table.overflow_buckets[b] = <<>>
            \/ \E x, y \in Beside(f, b, n) :
                 /\ Least(x, Beside(f, b, n)) /\ Greatest(y, Beside(f, b, n))
                 /\ table.overflow_buckets[b] = ListOf(x, y)

\* How many rows have been hashed from the window, and how many from DRAM.
Hashed  == IF pc = "build" THEN i ELSE row_count
Hashed2 == CASE pc = "build" -> 0 [] pc = "build_dram" -> i [] OTHER -> row_count

\* What was hashed to a bucket between the first and the last of its
\* collisions is lost, and nothing else; from DRAM as from the window, if the
\* first enabled column is the table's first, which `data` points to
\* (q5_header.h, linkedlist_insert, ht_insert).
HashKeepsThree ==
  /\ KeepsThree(ht, Hashed)
  /\ off(0) = 0 => KeepsThree(ht2, Hashed2)

\* The program never takes a table for full: there are as many items counted
\* as slots filled, and a row that finds its slot empty is not one too many
\* (q5_header.h, ht_insert).
NeverFull == pc # "exit"

\* The rows of S that match row r of R in S.A1 = R.A1, and the words of the
\* match: all columns of both, for a key that is not repeated in S.
Partners(r) == {q \in 0..row_count-1 : Table1(q, 0) = Table2(r, 0)}

JoinRow(r) ==
  IF Partners(r) = {} THEN <<>>
  ELSE LET q == CHOOSE q \in Partners(r) : TRUE
       IN  [m \in 1..2*enabled |-> IF m <= enabled THEN Table1(q, m-1)
                                                 ELSE Table2(r, m-enabled-1)]

\* SELECT * FROM S, R WHERE S.A1 = R.A1 for the first n rows of R, one match
\* after the other.
Joined(n) ==
  LET upTo[m \in 0..n] == IF m = 0 THEN <<>> ELSE upTo[m-1] \o JoinRow(m-1)
  IN  upTo[n]

\* What q5 needs of its tables: keys that T tells apart, at most three of them
\* in a bucket.
Hashable ==
  /\ \A r, q \in 0..row_count-1 : r # q => Table1(r, 0) # Table1(q, 0)
  /\ \A b \in Bucket : Cardinality(InBucket(b, row_count)) <= 3

\* Then both passes give the rows of the join, in the order of the second
\* table; the one over DRAM if the first enabled column is the table's first.
AnswersTheJoin ==
  Hashable =>
    /\ pc = "probe" => join_result = Joined(i)
    /\ pc \in {"probe_dram", "done"} => join_result = Joined(row_count)
    /\ pc = "probe_dram" /\ off(0) = 0 => join_result2 = Joined(i)
    /\ pc = "done" /\ off(0) = 0 => join_result2 = join_result

\* An insert that does not report a full table has inserted: every row of the
\* first table is found under its key.
InsertsUnlessFull ==
  pc = "probe" =>
    \A r \in 0..row_count-1 :
      (\A q \in 0..r-1 : Table1(q, 0) # Table1(r, 0)) =>
         ht_search(ht, Table1(r, 0)) = {Columns(r)}

=============================================================================
