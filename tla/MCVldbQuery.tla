----------------------------- MODULE MCVldbQuery -----------------------------
(***************************************************************************)
(* Command lines for VldbQuery: three tables of at most two rows, a        *)
(* projection whose columns descend (so an offset delta wraps), a JOIN     *)
(* whose sides use different columns, an average, and a column-store       *)
(* query that leaves its own layout in the same DRAM.                      *)
(***************************************************************************)
EXTENDS VldbQuery

T1 == [rows |-> 2, widths |-> <<4, 2>>]
T2 == [rows |-> 1, widths |-> <<4, 4>>]
T3 == [rows |-> 2, widths |-> <<4, 4, 4>>]

Cmd(store, query, s, cols, r, rcols) ==
  [store |-> store, query |-> query, s |-> s, r |-> r, cols |-> cols, rcols |-> rcols]

MCRequest ==
  {Cmd("RME", "SLCT", T1, <<1, 0>>, T1, <<>>),
   Cmd("RME", "JOIN", T2, <<1, 0>>, T3, <<0, 1>>),
   Cmd("COL", "SLCT", T2, <<0>>, T2, <<>>)}

MCRow == 0..1

=============================================================================
