---------------------------- MODULE MCEdbtBench ----------------------------
(***************************************************************************)
(* Experiments with tables of two rows and at most two columns, of 4 bytes *)
(* and of 8.                                                               *)
(***************************************************************************)
EXTENDS EdbtBench

Cmd(kind, offsets, samples, st, n, r_col) ==
  [kind |-> kind, offsets |-> offsets, samples |-> samples, store |-> st, num_columns |-> n,
   r_col |-> r_col]

MCRow == 0..1
MCRowSizes == <<4, 8>>
MCEnabled == <<1, 2>>

MCCommand ==
  {Cmd("row_size", <<0>>, 1, "r", 2, 4),
   Cmd("projectivity", <<4>>, 1, "r", 2, 4),
   Cmd("single", <<4, 0>>, 2, "r", 2, 4),
   Cmd("single", <<0>>, 1, "c", 1, 8)}

=============================================================================
