----------------------------- MODULE MCRiseJoin -----------------------------
(***************************************************************************)
(* Tables of up to ten rows of up to four words, with one to three columns *)
(* enabled.  With three buckets and three columns all keys collide; T      *)
(* wraps at 16, so keys repeat from row 5 to row 15 on.                    *)
(***************************************************************************)
EXTENDS RiseJoin

RunsOf(rows, offsets) == [row_count : rows, columns : {4}, offsets : offsets]

MCRun == RunsOf(0..10, {<<0>>, <<2>>, <<0, 1>>, <<0, 3>>, <<1, 2>>, <<0, 1, 2>>, <<0, 2, 3>>, <<1, 2, 3>>})

\* Five rows of three columns: their keys are 1, 4, 7, 10 and 13.
CrowdedRun == RunsOf({5}, {<<0, 1, 2>>})

=============================================================================
