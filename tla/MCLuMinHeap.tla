----------------------------- MODULE MCLuMinHeap -----------------------------
(* The heap of timeouts with a few events, which are alike. *)
EXTENDS LuMinHeap, TLC

CONSTANTS a, b, c, d, e, f

EventsAlike == Permutations(Events)
=============================================================================
