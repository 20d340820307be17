---------------------------- MODULE MCEdbtQuery ----------------------------
(***************************************************************************)
(* Both programs on all small tables, under the offsets of the defaults    *)
(* (0,8 and 0,4,12 in exp_config.c, here columns 0,2 and 0,1,3) and        *)
(* others.  T wraps at 8, and a key is kept modulo 4, so that keys 1 and 5 *)
(* share their group.                                                      *)
(***************************************************************************)
EXTENDS EdbtQuery

\* Tables with the given values in each column.
TablesOf(rows, values) ==
  {[rows |-> rows, num_columns |-> Len(values), value |-> v] :
     v \in [0..rows-1 -> {w \in [0..Len(values)-1 -> UNION {values[n] : n \in DOMAIN values}] :
                            \A c \in DOMAIN w : w[c] \in values[c+1]}]}

RunsOf(program, queries, stores, offsets, ks, tables) ==
  [program : {program}, query : queries, store : stores, offsets : offsets, k : ks,
   table : tables]

Programs == {<<"EDBT", {"r", "c"}>>, <<"RISE", {"r"}>>}

Scans(p) == RunsOf(p[1], {"q1", "q2", "q3"}, p[2], {<<0, 1>>, <<0, 2>>, <<1, 2>>}, {2},
                   TablesOf(2, <<{1, 2, 5}, {1, 3, 5}, {2, 7}>>))
Groups(p) == RunsOf(p[1], {"q4"}, p[2], {<<0, 1, 2>>, <<0, 1, 3>>, <<1, 2, 3>>}, {1},
                    TablesOf(3, <<{1, 4}, {0, 1, 5}, {0, 2}, {2}>>))

MCRun == UNION {Scans(p) \cup Groups(p) : p \in Programs}

=============================================================================
