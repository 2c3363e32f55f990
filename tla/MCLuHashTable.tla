---------------------------- MODULE MCLuHashTable ----------------------------
(* The hash table with small keys and buckets, which soon become trees. *)
EXTENDS LuHashTable

CONSTANTS v1, v2

FewKeys == {-1, 1, 3}
=============================================================================
