---------------------------- MODULE MCHashTable ----------------------------
(***************************************************************************)
(* The hash table on four keys.  A capacity of three is doubled twice on   *)
(* the way to four items, and the hash functions are the ways four keys    *)
(* can crowd: all on one slot, in chains that start next to one another,   *)
(* across the end of the index, apart until the table has been doubled.    *)
(***************************************************************************)
EXTENDS HashTable

Hash(a, b, c, e) == [k \in {"a", "b", "c", "e"} |->
  CASE k = "a" -> a [] k = "b" -> b [] k = "c" -> c [] k = "e" -> e]

Crowds == {Hash(0, 0, 0, 0), Hash(4, 5, 4, 0), Hash(11, 5, 8, 2)}

\* One key is put with two values.
FiveItems == [key : {"a"}, value : {1, 2}] \cup [key : {"b", "c", "e"}, value : {1}]
=============================================================================
