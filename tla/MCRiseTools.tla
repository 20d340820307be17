----------------------------- MODULE MCRiseTools -----------------------------
(***************************************************************************)
(* Rounds of two scripts, over the second column of a table of two and     *)
(* over a table of one column, and q5 over tables of one column.           *)
(***************************************************************************)
EXTENDS RiseTools

Tool(tool, st, columns, offsets, f) ==
  [tool |-> tool, store |-> st, row_size |-> 4 * columns, columns |-> columns,
   offsets |-> offsets, frame_offset |-> f]

Reset == <<Tool("db_reset_relcache", "r", 0, <<>>, 0), Tool("db_reset_relcache", "r", 0, <<>>, 1)>>

Round(q, st, columns, offsets) ==
  <<Tool("db_generate", st, columns, <<>>, 0),
    Tool("db_config_relcache", "r", columns, offsets, 0),
    Tool(q, st, columns, offsets, 0)>> \o Reset

MCScript ==
  {Round("q1", "r", 2, <<4>>), Round("q3", "r", 1, <<0>>),
   <<Tool("q5", "r", 1, <<0>>, 0)>>}

MCRow == 0..0

=============================================================================
