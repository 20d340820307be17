---------------------------- MODULE MCHashTable ----------------------------
(***************************************************************************)
(* Three keys in two buckets, two of which collide, with two values.       *)
(***************************************************************************)
EXTENDS HashTable

MCKey == {0, 1, 3}
MCValue == {7, 8}

=============================================================================
