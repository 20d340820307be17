----------------------------- MODULE Dictionary -----------------------------
(***************************************************************************)
(* What a join expects of the table it builds: the value last given to a   *)
(* key, and nothing for a key that was given none.                         *)
(***************************************************************************)
CONSTANTS Key, Value

VARIABLES
  dict,   \* [Key -> the value of the key, as a set of at most one]
  call    \* the last call

vars == <<dict, call>>

Init ==
  /\ dict = [k \in Key |-> {}]
  /\ call = <<"clear">>

Put(k, v) ==
  /\ call' = <<"put", k, v>>
  /\ dict' = [dict EXCEPT ![k] = {v}]

Clear ==
  /\ call' = <<"clear">>
  /\ dict' = [k \in Key |-> {}]

Next == Clear \/ \E k \in Key, v \in Value : Put(k, v)

Spec == Init /\ [][Next]_vars

=============================================================================
