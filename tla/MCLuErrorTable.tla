--------------------------- MODULE MCLuErrorTable ---------------------------
(* Small instances of LuErrorTable for TLC.  The code 298 is the last the    *)
(* functions know, and has no text; 299 they do not know.                    *)
EXTENDS LuErrorTable, TLC

CONSTANTS s, t

AskedCodes == {256, 298, 299}
=============================================================================
