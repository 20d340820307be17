---------------------------- MODULE BucketTable ----------------------------
(***************************************************************************)
(* The chained hash table of vldb2023/query.c as a value: a function from  *)
(* bucket numbers to lists of items, the head of a list first.             *)
(***************************************************************************)
EXTENDS Integers, Sequences

CONSTANT CAPACITY   \* number of buckets

ASSUME CapacityAssumption == CAPACITY \in Nat \ {0}

hash_function(key) == key % CAPACITY

Buckets == 0..CAPACITY-1

ht_create == [b \in Buckets |-> <<>>]

\* Broken variant of ll_insert: the new node goes to the end of the list.
Mut_ll_insert(list, item) == Append(list, item)

\* ll_insert puts the new node before the head.
ll_insert(list, item) == <<item>> \o list

\* Broken variant of ht_insert: the bucket is that of the value.
Mut_ht_insert(t, key, value) ==
  [t EXCEPT ![hash_function(value)] = ll_insert(@, [key |-> key, value |-> value])]

ht_insert(t, key, value) ==
  [t EXCEPT ![hash_function(key)] = ll_insert(@, [key |-> key, value |-> value])]

\* Broken variant of FirstWith: the key of the item is not compared.
Mut_FirstWith(list, key) == {n \in 1..Len(list) : n = 1}

\* The walk along a bucket stops at the first item with the key; the result
\* is the value found there, as a set of at most one element.
FirstWith(list, key) ==
  {n \in 1..Len(list) :
     list[n].key = key /\ \A m \in 1..n-1 : list[m].key # key}

ht_search(t, key) ==
  LET list == t[hash_function(key)]
  IN  {list[n].value : n \in FirstWith(list, key)}

=============================================================================
