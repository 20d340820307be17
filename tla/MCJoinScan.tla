----------------------------- MODULE MCJoinScan -----------------------------
(***************************************************************************)
(* Joins of tables of up to three columns and four rows.  The values of a  *)
(* column are 100 apart, so with 150 buckets the rows i and i+3 collide.   *)
(***************************************************************************)
EXTENDS JoinScan

TableOf(rows, n) == [rows |-> rows, widths |-> [c \in 1..n |-> 4]]

Joins(S, R) ==
  UNION {[s : {s}, r : {r}, s_sel : 0..num_cols(s)-1, r_sel : 0..num_cols(r)-1,
          s_join : 0..num_cols(s)-1, r_join : 0..num_cols(r)-1] :
         s \in S, r \in R}

NarrowQuery == Joins({TableOf(n, 2) : n \in {1, 4}}, {TableOf(n, 3) : n \in {1, 4}})

\* Column 100 of a row of S holds what column 0 of the next row of R holds.
WideQuery ==
  {[s |-> TableOf(2, 101), r |-> TableOf(3, 2), s_sel |-> c, r_sel |-> 1,
    s_join |-> 100, r_join |-> 0] : c \in {0, 100}}

MCQuery == NarrowQuery \cup WideQuery

\* Joins of small tables whose first loop hashes S right over the window.
HashedQuery ==
  {[s |-> TableOf(2, 3), r |-> TableOf(2, 3), s_sel |-> 0, r_sel |-> 1, s_join |-> 1, r_join |-> c] :
   c \in {0, 2}}

MCGarbage == {0, 100}

=============================================================================
