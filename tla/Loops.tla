------------------------------- MODULE Loops -------------------------------
(***************************************************************************)
(* What a loop over 1..n leaves that adds numbers up, that lists what it   *)
(* accepts, or that appends one sequence after the other.                  *)
(***************************************************************************)
EXTENDS Integers, Sequences

\* f[1] + .. + f[n].
Sum(f, n) ==
  LET sum[k \in 0..n] == IF k = 0 THEN 0 ELSE sum[k-1] + f[k]
  IN  sum[n]

\* f[1], .., f[n], one behind the other.
Concat(f, n) ==
  LET list[k \in 0..n] == IF k = 0 THEN <<>> ELSE list[k-1] \o f[k]
  IN  list[n]

\* The members of S among 1..n, in ascending order.
InOrder(S, n) == Concat([k \in 1..n |-> IF k \in S THEN <<k>> ELSE <<>>], n)

=============================================================================
