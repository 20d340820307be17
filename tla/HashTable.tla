----------------------------- MODULE HashTable -----------------------------
(***************************************************************************)
(* One hash table of vldb2023/query.c over its life: created, filled by    *)
(* one insertion after the other, freed with its process.  Keys repeat and *)
(* share buckets.                                                          *)
(***************************************************************************)
EXTENDS BucketTable

CONSTANTS
  Key, Value,   \* what is inserted, unsigned 32-bit integers in the code
  MaxChain      \* longest chain a bucket has memory for

ASSUME HashTableAssumption == Key \subseteq Nat /\ MaxChain \in Nat

VARIABLES
  ht,     \* the table
  call    \* the last call, of which the table keeps no trace

vars == <<ht, call>>

Init ==
  /\ ht = ht_create
  /\ call = <<"clear">>

Insert(k, v) ==
  /\ Len(ht[hash_function(k)]) < MaxChain
  /\ ht' = ht_insert(ht, k, v)
  /\ call' = <<"put", k, v>>

\* ht_free, and the ht_create of the next join.
Renew ==
  /\ ht' = ht_create
  /\ call' = <<"clear">>

Next == Renew \/ \E k \in Key, v \in Value : Insert(k, v)

Spec == Init /\ [][Next]_vars

-----------------------------------------------------------------------------
Item == [key : Key, value : Value]

TypeOK ==
  /\ ht \in [Buckets -> Seq(Item)]
  /\ \A b \in Buckets : \A n \in 1..Len(ht[b]) : hash_function(ht[b][n].key) = b

AsDictionary == INSTANCE Dictionary WITH dict <- [k \in Key |-> ht_search(ht, k)]

\* A search returns the value inserted last under its key, however keys
\* collide and repeat, and finds nothing else (ht_insert, ht_search).
ImplementsDictionary == AsDictionary!Spec

=============================================================================
