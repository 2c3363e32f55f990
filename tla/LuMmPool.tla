------------------------------- MODULE LuMmPool -------------------------------
(***************************************************************************)
(* The memory pool, src/src/lu_mm_pool_palloc.c: a list of blocks that     *)
(* small requests are cut from one after another, and a list of large      *)
(* pieces that come from malloc, whose nodes are cut from the blocks too.  *)
(*                                                                         *)
(* Blocks are numbered in the order of their list; addresses are offsets   *)
(* in a block, whose start is aligned.  A pool belongs to one thread.      *)
(* `regions' and `outside' are what the callers and the pool itself hold,  *)
(* not fields of the code.                                                 *)
(***************************************************************************)
EXTENDS Integers, Sequences

CONSTANTS
  PoolSize,   \* the argument of lu_mm_create_pool
  HeaderSize, \* sizeof(lu_mm_pool_t)
  DataSize,   \* sizeof(lu_mm_pool_data_t)
  NodeSize,   \* sizeof(lu_mm_pool_large_t)
  Align,      \* LU_MM_POOL_ALIGNMENT, 16
  MaxFromPool,\* LU_MM_MAX_ALLOC_FROM_POOL
  Patience,   \* how often a block may fail before it is skipped, 4
  ReuseLimit, \* how far the list of large pieces is searched for a free node, 3
  WordSize,   \* the number of values of size_t
  Sizes,      \* the sizes that are asked for
  MaxBlocks,  \* how many blocks the system has
  Pieces,     \* the large pieces malloc can return
  NULL

ASSUME PoolAssumption ==
  /\ PoolSize \in Nat /\ HeaderSize \in Nat /\ DataSize \in Nat /\ NodeSize \in Nat
  /\ Align \in Nat \ {0}
  /\ MaxFromPool \in Nat
  /\ Patience \in Nat /\ ReuseLimit \in Nat
  /\ WordSize \in Nat
  /\ Sizes \subseteq Nat
  /\ MaxBlocks \in Nat \ {0}
  /\ NULL \notin Pieces
\* The pool has at least LU_MM_MIN_POOL_SIZE bytes, and addresses fit a word.
ASSUME SizeAssumption ==
  /\ HeaderSize + 2 * NodeSize <= PoolSize
  /\ DataSize + Align <= HeaderSize + 1
  /\ 2 * (PoolSize + Align) < WordSize

VARIABLES
  nblocks,  \* the length of the list of blocks
  last,     \* block -> the offset of its first byte that is not in use
  failed,   \* block -> how often it had no room
  current,  \* the block the search begins at
  large,    \* the list of large pieces, the last one first; NULL once freed
  regions,  \* what is cut from the blocks: [block, from, to], to not included
  outside,  \* the large pieces malloc gave out that are not freed
  live      \* the pool was not destroyed

blockVars == <<nblocks, last, failed, current, regions>>
vars == <<blockVars, large, outside, live>>

Blocks == 1 .. MaxBlocks

-----------------------------------------------------------------------------
\* lu_mm_align_ptr.
AlignUp(x) == ((x + Align - 1) \div Align) * Align

\* pool->max, set when the pool is made.
PoolMax == IF PoolSize - HeaderSize < MaxFromPool THEN PoolSize - HeaderSize ELSE MaxFromPool

Init ==
  /\ nblocks = 1
  /\ last = [b \in Blocks |-> HeaderSize]
  /\ failed = [b \in Blocks |-> 0]
  /\ current = 1
  /\ large = <<>>
  /\ regions = {}
  /\ outside = {}
  /\ live = TRUE

\* Where a request would begin in block b.
From(b, aligned) == IF aligned THEN AlignUp(last[b]) ELSE last[b]

\* The difference is unsigned.
Fits(b, size, aligned) == (PoolSize - From(b, aligned)) % WordSize >= size

Region(b, from, size) == [block |-> b, from |-> from, to |-> from + size]

\* Mutated: last is moved by the size only, not by what the alignment skipped.
CutFromBlock_unaligned(size, aligned) ==
  \E b \in current .. nblocks :
    /\ Fits(b, size, aligned)
    /\ \A c \in current .. b - 1 : ~Fits(c, size, aligned)
    /\ last' = [last EXCEPT ![b] = @ + size]
    /\ regions' = regions \cup {Region(b, From(b, aligned), size)}
    /\ UNCHANGED <<nblocks, failed, current>>

\* lu_mm_palloc_small finds room in a block, the first one from current on.
CutFromBlock(size, aligned) ==
  \E b \in current .. nblocks :
    /\ Fits(b, size, aligned)
    /\ \A c \in current .. b - 1 : ~Fits(c, size, aligned)
    /\ last' = [last EXCEPT ![b] = From(b, aligned) + size]
    /\ regions' = regions \cup {Region(b, From(b, aligned), size)}
    /\ UNCHANGED <<nblocks, failed, current>>

\* The blocks of the search that have a block behind them.
Passed == current .. nblocks - 1

Tired == {b \in Passed : failed[b] > Patience}

\* Mutated: the block that has failed too often is skipped with the next one.
SkipTired_twoAhead ==
  \/ Tired = {} /\ current' = current
  \/ \E b \in Tired : (\A c \in Tired : c <= b) /\ current' = b + 2

\* The last block of the loop that was found tired moves current behind it.
SkipTired ==
  \/ Tired = {} /\ current' = current
  \/ \E b \in Tired : (\A c \in Tired : c <= b) /\ current' = b + 1

\* lu_mm_palloc_block: no block from current on has room, and a further one of
\* the same size is allocated, whose header is only the lu_mm_pool_data_t.
CutFromNewBlock(size, aligned) ==
  LET new == nblocks + 1
      m == AlignUp(DataSize)
  IN /\ \A b \in current .. nblocks : ~Fits(b, size, aligned)
     /\ nblocks < MaxBlocks
     /\ nblocks' = new
     /\ last' = [last EXCEPT ![new] = m + size]
     /\ failed' = [b \in Blocks |-> IF b \in Passed THEN failed[b] + 1 ELSE failed[b]]
     /\ SkipTired
     /\ regions' = regions \cup {Region(new, m, size)}

Cut(size, aligned) == CutFromBlock(size, aligned) \/ CutFromNewBlock(size, aligned)

\* lu_mm_pool_alloc (aligned; lu_mm_pool_calloc clears what it returns) and
\* lu_mm_pool_nalloc of a size the blocks may serve.
AllocSmall(size, aligned) ==
  /\ live
  /\ size <= PoolMax
  /\ Cut(size, aligned)
  /\ UNCHANGED <<large, outside, live>>

\* The first few nodes of the list are looked at, and the first free one taken.
Searched == 1 .. IF Len(large) < ReuseLimit + 2 THEN Len(large) ELSE ReuseLimit + 2
Reusable == {i \in Searched : large[i] = NULL}

\* lu_mm_palloc_large with a free node.
AllocLargeReusing(piece) ==
  /\ live
  /\ piece \notin outside
  /\ \E i \in Reusable :
       /\ \A j \in Reusable : i <= j
       /\ large' = [large EXCEPT ![i] = piece]
  /\ outside' = outside \cup {piece}
  /\ UNCHANGED <<blockVars, live>>

\* lu_mm_palloc_large without one; lu_mm_pool_memalign never looks for one.  The
\* node is cut from the blocks; when that fails the piece is freed again.
AllocLarge(piece, reuses) ==
  /\ live
  /\ piece \notin outside
  /\ reuses => Reusable = {}
  /\ Cut(NodeSize, TRUE)
  /\ large' = <<piece>> \o large
  /\ outside' = outside \cup {piece}
  /\ UNCHANGED live

\* lu_mm_pool_free of a large piece; of any other pointer it changes nothing and
\* returns LU_ERROR_LUEVENT_MEMORY_POOL_DECLINED.
FreeLarge(piece) ==
  /\ live
  /\ \E i \in DOMAIN large :
       /\ large[i] = piece
       /\ \A j \in 1 .. i - 1 : large[j] # piece
       /\ large' = [large EXCEPT ![i] = NULL]
  /\ outside' = outside \ {piece}
  /\ UNCHANGED <<blockVars, live>>

\* lu_mm_reset_pool: every pointer into the pool is dead.  The blocks stay, all
\* with the room of the first one.
Reset ==
  /\ live
  /\ last' = [b \in Blocks |-> HeaderSize]
  /\ failed' = [b \in Blocks |-> 0]
  /\ current' = 1
  /\ large' = <<>>
  /\ regions' = {}
  /\ outside' = outside \ {large[i] : i \in DOMAIN large}
  /\ UNCHANGED <<nblocks, live>>

\* lu_mm_destroy_pool.
Destroy ==
  /\ live
  /\ live' = FALSE
  /\ regions' = {}
  /\ large' = <<>>
  /\ outside' = outside \ {large[i] : i \in DOMAIN large}
  /\ UNCHANGED <<nblocks, last, failed, current>>

Next ==
  \/ \E size \in Sizes, aligned \in BOOLEAN : AllocSmall(size, aligned)
  \/ \E piece \in Pieces :
       \/ AllocLargeReusing(piece)
       \/ \E reuses \in BOOLEAN : AllocLarge(piece, reuses)
       \/ FreeLarge(piece)
  \/ Reset
  \/ Destroy

Spec == Init /\ [][Next]_vars

-----------------------------------------------------------------------------
(***************************************************************************)
(* Properties.                                                             *)
(***************************************************************************)

TypeOK ==
  /\ nblocks \in Blocks
  /\ last \in [Blocks -> Nat]
  /\ failed \in [Blocks -> Nat]
  /\ current \in Blocks
  /\ large \in Seq(Pieces \cup {NULL})
  /\ regions \subseteq [block : Blocks, from : Nat, to : Nat]
  /\ outside \subseteq Pieces
  /\ live \in BOOLEAN

\* What the pool hands out ends before its block does, and begins behind the
\* header the pool needs to go on working.
InsideBlock ==
  \A r \in regions : DataSize <= r.from /\ r.from <= r.to /\ r.to <= PoolSize

\* No byte is handed out twice before a reset, to callers or to the nodes of the
\* large pieces.
NoOverlap ==
  \A r, s \in regions : r # s /\ r.block = s.block => r.to <= s.from \/ s.to <= r.from

\* What was handed out lies in its block, apart from all else that was
\* (lu_mm_palloc_small, lu_mm_palloc_block_).
RegionsApart == InsideBlock /\ NoOverlap

\* The pool knows every large piece that was not freed, exactly once: freeing,
\* reset and destruction give each back once and miss none.
LargeOwned ==
  /\ \A i, j \in DOMAIN large : large[i] = large[j] /\ large[i] # NULL => i = j
  /\ outside = {large[i] : i \in DOMAIN large} \ {NULL}

\* A block is left out of the search only after requests found no room in it more
\* often than the limit, and the last block never is.
SkippedOnlyTired ==
  /\ current <= nblocks
  /\ \A b \in 1 .. current - 1 : failed[b] > Patience + 1

\* Every variable keeps its type, every large piece is known once, and no block
\* that may have room is passed over.
PoolInv == TypeOK /\ LargeOwned /\ SkippedOnlyTired

\* lu_mm_pool_palloc.h:44 says of `end' that it is where the block ends, and
\* :42 of `last' that what is asked for is cut from there on: nothing is handed
\* out behind the end.
EndsInBlock == \A r \in regions : r.to <= PoolSize
=============================================================================
