------------------------------ MODULE MCLuMmPool ------------------------------
(* Pools whose sizes are counted in units of 8 bytes: lu_mm_pool_t has 7,     *)
(* lu_mm_pool_data_t 4, lu_mm_pool_large_t 2, and the alignment is 2.         *)
EXTENDS LuMmPool, TLC

CONSTANTS p, q

PiecesAlike == Permutations(Pieces)
=============================================================================
