------------------------------- MODULE AvgScan -------------------------------
(***************************************************************************)
(* q1 of vldb2023/query.c: the average of one column, summed row by row    *)
(* over the row store (avg_row), the column store (avg_col) or the window  *)
(* (avg_rme).  For columns of 1, 2 and 4 bytes the sum is a uint32_t; for  *)
(* columns of 8 bytes it is a uint64_t, which a table of 2^32 rows at most *)
(* cannot exceed with the values db_populate_* writes.                     *)
(***************************************************************************)
EXTENDS ScanState

CONSTANTS
  AvgQuery,  \* [s: table, col: column]
  SumMod     \* one more than the largest uint32_t (2^32 in the code)

ASSUME AvgAssumption ==
  /\ SumMod \in Nat \ {0}
  /\ \A q \in AvgQuery : /\ IsTable(q.s) /\ ValuesFit(q.s) /\ q.s.rows > 0
                     /\ q.col \in 0..num_cols(q.s)-1

VARIABLES
  sum,
  res     \* the average, or {} before it is known

avgVars == <<store, query, mem, i, sum, res>>

width == query.s.widths[query.col + 1]

AvgMem(st, q) == Memory(st, q.s, <<q.col>>)

\* `data + row_size` per row for the row store, `col[i]` for the others.
Address ==
  CASE store = "ROW" -> calc_offset(query.s, query.col) + i * row_size(query.s)
    [] store = "COL" -> calc_offset(query.s, query.col) * query.s.rows + i * width
    [] store = "RME" -> i * width

\* Broken variant of Accumulator: 32 bits for columns of every width.
Mut_Accumulator(n) == n % SumMod

\* What is kept of a sum in the accumulator of avg_uint8_row ... avg_uint64_col.
Accumulator(n) == IF width = 8 THEN n ELSE n % SumMod

AvgInit ==
  /\ store \in {"ROW", "COL", "RME"}
  /\ query \in AvgQuery
  /\ mem = AvgMem(store, query)
  /\ i = 0
  /\ sum = 0
  /\ res = {}

Accumulate ==
  /\ i < query.s.rows
  /\ sum' = Accumulator(sum + mem[Address])
  /\ i' = i + 1
  /\ UNCHANGED <<store, query, mem, res>>

\* The quotient is returned as an unsigned integer as wide as the column.
Return ==
  /\ i = query.s.rows /\ res = {}
  /\ res' = {Truncate(sum \div query.s.rows, width)}
  /\ UNCHANGED <<store, query, mem, i, sum>>

AvgNext == Accumulate \/ Return

AvgSpec == AvgInit /\ [][AvgNext]_avgVars

-----------------------------------------------------------------------------
\* The sum of the column over the first n rows, in no store at all.
ColumnSum(n) == Sum([r \in 1..n |-> FieldValue(query.s, r-1, query.col)], n)

\* SELECT AVG(c) FROM S, rounded down.
Average == ColumnSum(query.s.rows) \div query.s.rows

\* The three stores return the average, whatever the width, as long as the
\* sum of the column is below 2^32 or the column has 8 bytes.
AverageUnlessItWraps ==
  width = 8 \/ ColumnSum(query.s.rows) < SumMod => res \subseteq {Average}

=============================================================================
