------------------------------ MODULE MCAvgScan ------------------------------
(***************************************************************************)
(* Tables for AvgScan.  SumMod is 512 in the runs: single values stay      *)
(* below it, as they do below 2^32 in the tables RUNNING.md uses, and the  *)
(* sum of four rows exceeds it, as the sum of 32768 rows exceeds 2^32.     *)
(***************************************************************************)
EXTENDS AvgScan

MCQuery ==
  [s : [rows : 1..4, widths : {<<1, 4>>, <<2, 1>>, <<4, 8>>, <<8, 2, 4>>}], col : 0..1]

=============================================================================
