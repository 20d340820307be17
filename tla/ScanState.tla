------------------------------ MODULE ScanState ------------------------------
(***************************************************************************)
(* What the three queries of vldb2023/query.c share: the store and the     *)
(* query of the command line, the memory that is scanned and the loop      *)
(* counter.                                                                *)
(***************************************************************************)
EXTENDS StoreLayout

VARIABLES
  store, query,
  mem,    \* `db`, `db2`, or `plim` for the RME store
  i

\* db_init: what the store's memory holds when the scan of t starts; for the
\* window, q1 and q2 have asked the engine for the columns `cols`.
Memory(st, t, cols) ==
  CASE st = "ROW" -> db_populate_row(t)
    [] st = "COL" -> db_populate_col(t)
    [] st = "RME" -> Window(db_populate_row(t), t, cols, Distances(t, cols))

=============================================================================
