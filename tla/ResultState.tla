----------------------------- MODULE ResultState -----------------------------
(***************************************************************************)
(* What q2 and q3 of vldb2023/query.c have besides: a row pointer, a       *)
(* result buffer and what is printed of it.                                *)
(***************************************************************************)
EXTENDS ScanState

CONSTANT Limit   \* args->limit

VARIABLES
  row,     \* the row pointer, as an address into mem
  result,  \* the result buffer, as far as it is written
  ptr,     \* the place in it that is written next
  shown    \* what is printed

=============================================================================
