------------------------------ MODULE MCLuEvent ------------------------------
(***************************************************************************)
(* Small instances of LuEvent for TLC.  f0 is the number 0, which zeroed   *)
(* memory holds.                                                           *)
(***************************************************************************)
EXTENDS LuEvent, TLC

CONSTANTS e1, e2, i1, o1, f0, f1

Args(kinds) == [fd : {f0}, events : kinds]

\* Events that may come to share a descriptor; one of them may be persistent.
SharedDescriptor == Args({{"READ"}, {"READ", "WRITE", "PERSIST"}})

\* Timers, descriptors and signals, and the combination that is refused, for one
\* event and the internal one.
EveryKind == Args({{}, {"READ", "PERSIST"}, {"SIGNAL"}, {"SIGNAL", "PERSIST"},
                   {"SIGNAL", "READ"}})

OnlyRead == Args({{"READ"}})

OnceRead == Args({{}, {"READ"}})

ReadOnly == {{"READ"}}
ReadOrTimeout == {{"READ"}, {"TIMEOUT"}}
SignalOnly == {{"SIGNAL"}}

UserEventsAlike == Permutations({e1, e2})
=============================================================================
