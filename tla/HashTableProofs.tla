-------------------------- MODULE HashTableProofs --------------------------
(***************************************************************************)
(* For every number of buckets, every set of keys and every chain length,  *)
(* the hash table of query.c is a dictionary.                              *)
(***************************************************************************)
EXTENDS HashTable, TLAPS

USE CapacityAssumption, HashTableAssumption

\* A key has a bucket.
LEMMA HashRange == \A k \in Nat : hash_function(k) \in Buckets
BY DEF hash_function, Buckets

\* What is at each position of a list after an insertion at its head.
LEMMA InsertedList ==
  ASSUME NEW list \in Seq(Item), NEW item \in Item
  PROVE  /\ ll_insert(list, item) \in Seq(Item)
         /\ Len(ll_insert(list, item)) = Len(list) + 1
         /\ ll_insert(list, item)[1] = item
         /\ \A n \in 1..Len(list) : ll_insert(list, item)[n+1] = list[n]
BY DEF ll_insert

\* A list with a new head with key k answers k with the head ...
LEMMA FirstIsHead ==
  ASSUME NEW list \in Seq(Item), NEW item \in Item
  PROVE  FirstWith(ll_insert(list, item), item.key) = {1}
<1> DEFINE new == ll_insert(list, item)
<1>1. /\ Len(new) = Len(list) + 1 /\ Len(list) \in Nat
      /\ new[1] = item
  BY InsertedList
<1>2. 1 \in FirstWith(new, item.key)
  BY <1>1 DEF FirstWith
<1>3. ASSUME NEW n \in FirstWith(new, item.key) PROVE n = 1
  <2>1. n \in 1..Len(new) /\ \A m \in 1..n-1 : new[m].key # item.key
    BY DEF FirstWith
  <2>2. n > 1 => 1 \in 1..n-1
    BY <1>1, <2>1
  <2>3. QED
    BY <1>1, <2>1, <2>2
<1>4. QED
  BY <1>2, <1>3

\* ... and every other key as before, one position further on.
LEMMA FirstIsShifted ==
  ASSUME NEW list \in Seq(Item), NEW item \in Item, NEW key, key # item.key
  PROVE  FirstWith(ll_insert(list, item), key) = {n + 1 : n \in FirstWith(list, key)}
<1> DEFINE new == ll_insert(list, item)
<1>0. /\ Len(new) = Len(list) + 1
      /\ new[1] = item
      /\ \A n \in 1..Len(list) : new[n+1] = list[n]
  BY InsertedList
<1>1. /\ Len(new) = Len(list) + 1 /\ Len(list) \in Nat
      /\ new[1] = item
      /\ \A n \in 1..Len(list) : new[n+1] = list[n]
  BY <1>0
<1>2. ASSUME NEW n \in FirstWith(list, key) PROVE n + 1 \in FirstWith(new, key)
  <2>1. n \in 1..Len(list) /\ list[n].key = key /\ \A m \in 1..n-1 : list[m].key # key
    BY DEF FirstWith
  <2>2. n+1 \in 1..Len(new) /\ new[n+1].key = key
    BY <1>1, <2>1
  <2>3. ASSUME NEW m \in 1..(n+1)-1 PROVE new[m].key # key
    <3>1. CASE m = 1
      BY <1>1, <3>1
    <3>2. CASE m # 1
      <4>1. m-1 \in 1..n-1 /\ m-1 \in 1..Len(list) /\ (m-1)+1 = m
        BY <1>1, <2>1, <3>2
      <4>2. new[m] = list[m-1]
        BY <1>1, <4>1
      <4>3. QED
        BY <2>1, <4>1, <4>2
    <3>3. QED
      BY <3>1, <3>2
  <2>4. QED
    BY <2>2, <2>3 DEF FirstWith
<1>3. ASSUME NEW p \in FirstWith(new, key) PROVE \E n \in FirstWith(list, key) : p = n + 1
  <2>1. p \in 1..Len(new) /\ new[p].key = key /\ \A m \in 1..p-1 : new[m].key # key
    BY DEF FirstWith
  <2>2. p # 1
    BY <1>1, <2>1
  <2>3. p-1 \in 1..Len(list) /\ (p-1)+1 = p
    BY <1>1, <2>1, <2>2
  <2>4. list[p-1].key = key
    BY <1>1, <2>1, <2>3
  <2>5. ASSUME NEW m \in 1..(p-1)-1 PROVE list[m].key # key
    <3>1. m+1 \in 1..p-1 /\ m \in 1..Len(list)
      BY <1>1, <2>1
    <3>2. QED
      BY <1>1, <2>1, <3>1
  <2>6. p-1 \in FirstWith(list, key)
    BY <2>3, <2>4, <2>5 DEF FirstWith
  <2>7. QED
    BY <2>3, <2>6
<1>4. QED
  BY <1>2, <1>3

\* An insertion leaves every item in the bucket of its key.
LEMMA InsertTyped ==
  ASSUME TypeOK, NEW k \in Key, NEW v \in Value, ht' = ht_insert(ht, k, v)
  PROVE  TypeOK'
<1> DEFINE h == hash_function(k)
           item == [key |-> k, value |-> v]
           new == ll_insert(ht[h], item)
<1>1. h \in Buckets /\ ht[h] \in Seq(Item) /\ item \in Item
  BY HashRange DEF TypeOK, Item
<1>2. /\ new \in Seq(Item) /\ Len(new) = Len(ht[h]) + 1 /\ new[1] = item
      /\ \A n \in 1..Len(ht[h]) : new[n+1] = ht[h][n]
  BY <1>1, InsertedList
<1>3. ht' = [ht EXCEPT ![h] = new]
  BY DEF ht_insert
<1>4. ht' \in [Buckets -> Seq(Item)]
  BY <1>1, <1>2, <1>3 DEF TypeOK
<1>5. ASSUME NEW b \in Buckets, NEW n \in 1..Len(ht'[b])
      PROVE  hash_function(ht'[b][n].key) = b
  <2>1. CASE b # h
    BY <1>1, <1>3, <2>1 DEF TypeOK
  <2>2. CASE b = h /\ n = 1
    BY <1>1, <1>2, <1>3, <2>2 DEF TypeOK
  <2>3. CASE b = h /\ n # 1
    <3>1. ht'[b] = new /\ Len(ht[h]) \in Nat
      BY <1>1, <1>3, <2>3 DEF TypeOK
    <3>2. n-1 \in 1..Len(ht[h]) /\ (n-1)+1 = n
      BY <1>2, <2>3, <3>1
    <3>3. new[n] = ht[h][n-1]
      BY <1>2, <3>2
    <3>4. QED
      BY <1>1, <2>3, <3>1, <3>2, <3>3 DEF TypeOK
  <2>4. QED
    BY <2>1, <2>2, <2>3
<1>6. QED
  BY <1>4, <1>5 DEF TypeOK

\* The table is well typed and every item is in the bucket of its key.
THEOREM TypeCorrect == Spec => []TypeOK
<1>1. Init => TypeOK
  BY DEF Init, TypeOK, ht_create
<1>2. TypeOK /\ [Next]_vars => TypeOK'
  <2> SUFFICES ASSUME TypeOK, [Next]_vars PROVE TypeOK'
    OBVIOUS
  <2>1. CASE Renew
    BY <2>1 DEF Renew, TypeOK, ht_create
  <2>2. ASSUME NEW k \in Key, NEW v \in Value, Insert(k, v) PROVE TypeOK'
    BY <2>2, InsertTyped DEF Insert
  <2>3. CASE UNCHANGED vars
    BY <2>3 DEF TypeOK, vars
  <2>4. QED
    BY <2>1, <2>2, <2>3 DEF Next
<1>3. QED
  BY <1>1, <1>2, PTL DEF Spec

\* After an insertion a search finds the new value under the new key, and
\* under every other key what it found before.
LEMMA SearchAfterInsert ==
  ASSUME TypeOK, NEW k \in Key, NEW v \in Value, NEW q \in Key
  PROVE  ht_search(ht_insert(ht, k, v), q) = IF q = k THEN {v} ELSE ht_search(ht, q)
<1> DEFINE h == hash_function(k)
           item == [key |-> k, value |-> v]
           new == ll_insert(ht[h], item)
<1>1. /\ h \in Buckets /\ hash_function(q) \in Buckets /\ item \in Item
      /\ ht \in [Buckets -> Seq(Item)] /\ ht[h] \in Seq(Item)
  BY HashRange DEF TypeOK, Item
<1>2. ht_insert(ht, k, v) = [ht EXCEPT ![h] = new]
  BY DEF ht_insert
<1>3. CASE q = k
  <2>0. FirstWith(new, item.key) = {1}
    BY <1>1, FirstIsHead, Zenon
  <2>1. FirstWith(new, q) = {1} /\ new[1] = item
    BY <1>1, <1>3, <2>0, InsertedList
  <2>2. ht_insert(ht, k, v)[hash_function(q)] = new
    BY <1>1, <1>2, <1>3
  <2>3. ht_search(ht_insert(ht, k, v), q) = {new[n].value : n \in {1}}
    BY <2>1, <2>2 DEF ht_search
  <2>4. QED
    BY <1>3, <2>1, <2>3
<1>4. CASE q # k /\ hash_function(q) = h
  <2>1. FirstWith(new, q) = {n + 1 : n \in FirstWith(ht[h], q)}
    BY <1>1, <1>4, FirstIsShifted
  <2>2. \A n \in FirstWith(ht[h], q) : new[n+1] = ht[h][n]
    BY <1>1, InsertedList DEF FirstWith
  <2>3. ht_insert(ht, k, v)[hash_function(q)] = new
    BY <1>1, <1>2, <1>4
  <2>4. {new[p].value : p \in FirstWith(new, q)} = {ht[h][n].value : n \in FirstWith(ht[h], q)}
    BY <2>1, <2>2
  <2>5. QED
    BY <1>4, <2>3, <2>4 DEF ht_search
<1>5. CASE q # k /\ hash_function(q) # h
  BY <1>1, <1>2, <1>5 DEF ht_search
<1>6. QED
  BY <1>3, <1>4, <1>5

\* The chained table implements the dictionary a join looks its keys up in.
THEOREM TableIsDictionary == Spec => ImplementsDictionary
<1> DEFINE dict == [k \in Key |-> ht_search(ht, k)]
<1>1. Init => AsDictionary!Init
  BY HashRange DEF Init, AsDictionary!Init, ht_create, ht_search, FirstWith
<1>2. TypeOK /\ [Next]_vars => [AsDictionary!Next]_AsDictionary!vars
  <2> SUFFICES ASSUME TypeOK, [Next]_vars PROVE  AsDictionary!Next \/ UNCHANGED <<dict, call>>
    BY DEF AsDictionary!vars
  <2>1. CASE Renew
    <3>1. \A k \in Key : ht_search(ht', k) = {}
      BY <2>1, HashRange DEF Renew, ht_create, ht_search, FirstWith
    <3>2. AsDictionary!Clear
      BY <2>1, <3>1 DEF Renew, AsDictionary!Clear
    <3>3. QED
      BY <3>2 DEF AsDictionary!Next
  <2>2. ASSUME NEW k \in Key, NEW v \in Value, Insert(k, v) PROVE AsDictionary!Next
    <3>1. \A q \in Key : ht_search(ht', q) = IF q = k THEN {v} ELSE ht_search(ht, q)
      BY <2>2, SearchAfterInsert DEF Insert
    <3>2. AsDictionary!Put(k, v)
      BY <2>2, <3>1 DEF Insert, AsDictionary!Put
    <3>3. QED
      BY <3>2 DEF AsDictionary!Next
  <2>3. CASE UNCHANGED vars
    BY <2>3 DEF vars
  <2>4. QED
    BY <2>1, <2>2, <2>3 DEF Next
<1>3. QED
  BY <1>1, <1>2, TypeCorrect, PTL DEF Spec, ImplementsDictionary, AsDictionary!Spec

=============================================================================
