------------------------------ MODULE RiseHash ------------------------------
(***************************************************************************)
(* The hash table of RISE/sources_c/q5_header.h: a slot for each bucket    *)
(* and a list for those that collide with it.  A pointer is a sequence of  *)
(* at most one item.  handle_collision does not set the `next` of the      *)
(* first node of a list; nothing has been freed when q5 inserts, so the    *)
(* node comes from a fresh heap and its `next` is NULL.                    *)
(***************************************************************************)
EXTENDS Naturals, Sequences

CONSTANT CAPACITY   \* buckets: 50000 in the code

ASSUME RiseHashAssumption == CAPACITY \in Nat \ {0}

hash_function(key) == key % CAPACITY

Bucket == 0..CAPACITY-1

create_item(key, value) == [key |-> key, value |-> value]

create_table ==
  [items            |-> [b \in Bucket |-> <<>>],
   overflow_buckets |-> [b \in Bucket |-> <<>>],
   count            |-> 0]

\* Broken variant of linkedlist_insert: the new node replaces the first as well.
Mut_linkedlist_insert(list, item) ==
  IF list = <<>> THEN <<item>> ELSE [list EXCEPT ![Len(list)] = item]

\* handle_collision and linkedlist_insert: a list of one node grows, in a
\* longer one the new node takes the place of the last.
linkedlist_insert(list, item) ==
  IF Len(list) < 2 THEN Append(list, item) ELSE [list EXCEPT ![Len(list)] = item]

\* Broken variant of full: the last slot is never filled.
Mut_full(table, key) ==
  table.items[hash_function(key)] = <<>> /\ table.count + 1 = CAPACITY

\* "Insert Error: Hash Table is full!!!", after which the program exits.
full(table, key) ==
  table.items[hash_function(key)] = <<>> /\ table.count = CAPACITY

\* An item whose key is that of its slot is dropped.
ht_insert(table, key, value) ==
  LET index == hash_function(key)
      item  == create_item(key, value)
  IN  IF table.items[index] = <<>>
        THEN [table EXCEPT !.items[index] = <<item>>, !.count = @ + 1]
      ELSE IF table.items[index][1].key = key THEN table
      ELSE [table EXCEPT !.overflow_buckets[index] = linkedlist_insert(@, item)]

\* Broken variant of ht_search: the list is not searched.
Mut_ht_search(table, key) ==
  {item.value : item \in {i \in {table.items[hash_function(key)][n] :
                                   n \in DOMAIN table.items[hash_function(key)]} : i.key = key}}

\* The value of the first item with the key, in the slot and then in its
\* list, as a set: empty for NULL.
ht_search(table, key) ==
  LET index == hash_function(key)
      chain == IF table.items[index] = <<>> THEN <<>>
               ELSE table.items[index] \o table.overflow_buckets[index]
      hits  == {n \in DOMAIN chain : chain[n].key = key}
  IN  {chain[n].value : n \in {m \in hits : \A h \in hits : m <= h}}

=============================================================================
