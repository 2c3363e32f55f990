---------------------------- MODULE MCLuSignalPipe ----------------------------
(* Small instances of LuSignalPipe for TLC.                                  *)
EXTENDS LuSignalPipe, TLC

CONSTANT a
==============================================================================
