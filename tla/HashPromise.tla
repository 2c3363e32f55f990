----------------------------- MODULE HashPromise -----------------------------
(***************************************************************************)
(* What the documentation of src/src/lu_hash_table.c promises: a           *)
(* dictionary.  An insertion sets the value of its key and of no other, a  *)
(* deletion removes its key and no other.                                  *)
(***************************************************************************)
CONSTANTS Keys, Values, NULL

VARIABLE dict  \* key -> the value a search for it finds, or NULL

Init == dict = [k \in Keys |-> NULL]

Insert(k, v) == dict' = [dict EXCEPT ![k] = v]

Delete(k) == dict' = [dict EXCEPT ![k] = NULL]

Destroy == dict' = [k \in Keys |-> NULL]

Next ==
  \/ \E k \in Keys, v \in Values : Insert(k, v)
  \/ \E k \in Keys : Delete(k)
  \/ Destroy

Spec == Init /\ [][Next]_dict
=============================================================================
