------------------------------ MODULE MCLuLog ------------------------------
(* Small instances of LuLog for TLC: which calls threads make decides what a *)
(* run is about.  A length of -1 is that of a text that cannot be formatted. *)
EXTENDS LuLog, TLC

CONSTANTS s, t, f, g

SomeCalls == {<<"lu_event_debugx_", 10>>, <<"lu_event_error", 10>>,
              <<"lu_event_errorx", 1020>>}
=============================================================================
