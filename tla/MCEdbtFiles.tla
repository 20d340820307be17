---------------------------- MODULE MCEdbtFiles ----------------------------
(***************************************************************************)
(* Experiments of two and three runs, and two experiments in one process   *)
(* ("-p -r q2"), with descriptors from too few to open anything to more    *)
(* than enough for all.                                                    *)
(***************************************************************************)
EXTENDS EdbtFiles

MCCommand ==
  {<<[query |-> "q1", stores |-> <<"r", "c">>]>>,
   <<[query |-> "q2", stores |-> <<"b", "r", "c">>]>>,
   <<[query |-> "q1", stores |-> <<"r">>], [query |-> "q2", stores |-> <<"r">>]>>}

MCLimits == 3..20

=============================================================================
