--------------------------- MODULE MCLuEventThreads ---------------------------
(***************************************************************************)
(* Small instances of LuEventThreads for TLC: s is a signal event, r waits *)
(* for a descriptor.                                                       *)
(***************************************************************************)
EXTENDS LuEventThreads, TLC

CONSTANTS w1, w2, s, r

Do(kind, e, args) == [kind : {kind}, ev : {e}, arg : args]

\* For the signal event every operation that waits; for the other, which has
\* LU_EV_FINALIZE, a deletion that may not block and an activation.
MixedOps ==
  Do("del", s, {"AUTOBLOCK"}) \cup Do("active", s, {<<2, TRUE>>})
    \cup Do("add", s, {TRUE})
    \cup Do("del", r, {"AUTOBLOCK"}) \cup Do("active", r, {<<1, FALSE>>})

\* A callback deletes the signal event, its own or another, and its calls that are
\* left with it.
MixedOwnOps == Do("del", s, {"BLOCK"})
=============================================================================
