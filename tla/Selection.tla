------------------------------ MODULE Selection ------------------------------
(***************************************************************************)
(* What RUNNING.md promises of q2, whatever the store:                     *)
(*     SELECT <projected columns> FROM S WHERE <every < condition>         *)
(* The rows of S are considered one after the other; a row is added to the *)
(* answer exactly if it meets every condition, and the first Limit rows of *)
(* the answer are shown.                                                   *)
(***************************************************************************)
EXTENDS StoreLayout

CONSTANTS
  Query,   \* pairs of a table and a sequence of column options
  Limit    \* rows shown at most

VARIABLES query, row, answer, shown

vars == <<query, row, answer, shown>>

\* The options of a query that carry a condition, and those projected.
Conditions(q)  == {o \in 1..Len(q.cols) : q.cols[o].op = "LT"}
Projections(q) == InOrder({o \in 1..Len(q.cols) : q.cols[o].project}, Len(q.cols))

Matches(q, i) ==
  \A o \in Conditions(q) : FieldValue(q.s, i, q.cols[o].col) < q.cols[o].k

Project(q, i) ==
  LET ps == Projections(q)
  IN  [n \in 1..Len(ps) |-> FieldValue(q.s, i, q.cols[ps[n]].col)]

Init ==
  /\ query \in Query
  /\ row = 0
  /\ answer = <<>>
  /\ shown = <<>>

ConsiderRow ==
  /\ row < query.s.rows
  /\ answer' = IF Matches(query, row) THEN Append(answer, Project(query, row)) ELSE answer
  /\ row' = row + 1
  /\ UNCHANGED <<query, shown>>

Show ==
  /\ row = query.s.rows
  /\ shown' = SubSeq(answer, 1, IF Len(answer) < Limit THEN Len(answer) ELSE Limit)
  /\ UNCHANGED <<query, row, answer>>

Next == ConsiderRow \/ Show

Spec == Init /\ [][Next]_vars

=============================================================================
