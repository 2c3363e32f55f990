---------------------------- MODULE LuMmPoolProofs ----------------------------
(***************************************************************************)
(* The blocks of LuMmPool, for every size of block, header, request and    *)
(* alignment.  First the arithmetic of aligning, then one lemma per way of *)
(* serving a request, then the theorems.                                   *)
(***************************************************************************)
EXTENDS LuMmPool, TLAPS

\* lu_mm_align_ptr moves an offset up to a multiple of the alignment, by less
\* than the alignment.
LEMMA AlignUpMoves ==
  ASSUME NEW x \in Nat
  PROVE  /\ AlignUp(x) \in Nat
         /\ x <= AlignUp(x)
         /\ AlignUp(x) < x + Align
         /\ \E k \in Nat : AlignUp(x) = k * Align
<1> DEFINE y == x + Align - 1
<1>1. Align \in Nat /\ Align > 0
  BY PoolAssumption
<1>2. y \in Nat
  BY <1>1
<1>3. /\ y \div Align \in Nat
      /\ y = Align * (y \div Align) + (y % Align)
      /\ y % Align \in 0 .. Align - 1
  BY <1>1, <1>2
<1>4. AlignUp(x) = (y \div Align) * Align
  BY DEF AlignUp
<1>5. (y \div Align) * Align \in Nat
  BY <1>1, <1>3
<1>. QED
  BY <1>1, <1>3, <1>4, <1>5

\* Aligning an offset inside a block whose size is a multiple of the alignment
\* does not leave the block.
LEMMA AlignUpStays ==
  ASSUME PoolSize % Align = 0, NEW x \in 0 .. PoolSize
  PROVE  AlignUp(x) <= PoolSize
<1>1. Align \in Nat /\ Align > 0 /\ PoolSize \in Nat
  BY PoolAssumption
<1>2. PICK k \in Nat : AlignUp(x) = k * Align
  BY AlignUpMoves
<1> DEFINE n == PoolSize \div Align
<1>3. n \in Nat /\ PoolSize = n * Align
  BY <1>1
<1>4. AlignUp(x) < PoolSize + Align
  BY <1>1, AlignUpMoves
<1>5. k * Align < (n + 1) * Align
  BY <1>1, <1>2, <1>3, <1>4
<1>6. k < n + 1
  BY <1>1, <1>3, <1>5
<1>7. k * Align <= n * Align
  BY <1>1, <1>3, <1>6
<1>. QED
  BY <1>2, <1>3, <1>7

-----------------------------------------------------------------------------
(***************************************************************************)
(* The offsets.                                                            *)
(***************************************************************************)

\* Every block has its first free byte inside it and behind its header, and what
\* was cut from a block lies before that byte.
Offsets ==
  /\ nblocks \in Blocks
  /\ current \in 1 .. nblocks
  /\ last \in [Blocks -> Nat]
  /\ \A b \in Blocks : DataSize <= last[b] /\ last[b] <= PoolSize
  /\ regions \subseteq [block : Blocks, from : Nat, to : Nat]
  /\ \A r \in regions : /\ r.block <= nblocks
                        /\ DataSize <= r.from
                        /\ r.from <= r.to
                        /\ r.to <= last[r.block]

BlocksSafe == Offsets /\ NoOverlap

\* A region that begins at or behind the first free byte of its block and ends
\* where that byte is afterwards keeps the offsets right and overlaps nothing.
LEMMA CuttingIsSafe ==
  ASSUME BlocksSafe,
         NEW b \in Blocks, NEW from \in Nat, NEW size \in Nat,
         b <= nblocks => last[b] <= from,
         b > nblocks => b = nblocks + 1,
         DataSize <= from, from + size <= PoolSize,
         nblocks' \in Blocks, nblocks <= nblocks', b <= nblocks',
         current' \in 1 .. nblocks',
         last' = [last EXCEPT ![b] = from + size],
         regions' = regions \cup {Region(b, from, size)}
  PROVE  BlocksSafe'
<1> DEFINE new == Region(b, from, size)
<1>1. /\ DataSize \in Nat /\ PoolSize \in Nat /\ MaxBlocks \in Nat
      /\ new \in [block : Blocks, from : Nat, to : Nat]
      /\ new.block = b /\ new.from = from /\ new.to = from + size
  BY PoolAssumption DEF Region
<1>2. /\ last \in [Blocks -> Nat] /\ nblocks \in Nat /\ b \in Nat
      /\ \A r \in regions : r \in [block : Blocks, from : Nat, to : Nat] /\ r.block \in Nat
  BY <1>1 DEF BlocksSafe, Offsets, Blocks
<1>3. /\ last' \in [Blocks -> Nat]
      /\ last'[b] = from + size
      /\ \A c \in Blocks \ {b} : last'[c] = last[c]
  BY <1>1, <1>2
<1>4. \A r \in regions : r.block = b => r.to <= from
  BY <1>1, <1>2 DEF BlocksSafe, Offsets
<1>5. \A r \in regions : r.to <= last'[r.block]
  BY <1>1, <1>2, <1>3, <1>4 DEF BlocksSafe, Offsets
<1>6. Offsets'
  <2>1. \A c \in Blocks : DataSize <= last'[c] /\ last'[c] <= PoolSize
    BY <1>1, <1>2, <1>3 DEF BlocksSafe, Offsets
  <2>2. \A r \in regions' : /\ r.block <= nblocks'
                           /\ DataSize <= r.from
                           /\ r.from <= r.to
                           /\ r.to <= last'[r.block]
    <3>1. ASSUME NEW r \in regions
          PROVE  /\ r.block <= nblocks' /\ DataSize <= r.from
                 /\ r.from <= r.to /\ r.to <= last'[r.block]
      <4>1. nblocks <= nblocks' /\ nblocks \in Nat /\ nblocks' \in Nat /\ r.block \in Nat
        BY <1>1, <1>2 DEF Blocks
      <4>2. r.block <= nblocks /\ DataSize <= r.from /\ r.from <= r.to
        BY DEF BlocksSafe, Offsets
      <4>. QED
        BY ONLY <1>5, <4>1, <4>2, r \in regions
    <3>2. /\ new.block <= nblocks' /\ DataSize <= new.from
          /\ new.from <= new.to /\ new.to <= last'[new.block]
      BY <1>1, <1>3
    <3>. QED
      BY <3>1, <3>2
  <2>. QED
    BY <1>1, <1>2, <1>3, <2>1, <2>2 DEF BlocksSafe, Offsets
<1>7. NoOverlap'
  BY <1>1, <1>2, <1>4 DEF BlocksSafe, NoOverlap
<1>. QED
  BY <1>6, <1>7 DEF BlocksSafe

\* The room compared is the real one: with blocks of a multiple of the alignment
\* the unsigned difference does not wrap around.
LEMMA FitsIsRoom ==
  ASSUME BlocksSafe, PoolSize % Align = 0,
         NEW b \in Blocks, NEW size \in Nat, NEW aligned \in BOOLEAN,
         Fits(b, size, aligned)
  PROVE  /\ From(b, aligned) \in Nat
         /\ last[b] <= From(b, aligned)
         /\ From(b, aligned) + size <= PoolSize
<1>1. /\ last[b] \in 0 .. PoolSize
      /\ PoolSize \in Nat /\ WordSize \in Nat /\ PoolSize < WordSize
      /\ Align \in Nat \ {0}
  BY PoolAssumption, SizeAssumption DEF BlocksSafe, Offsets
<1>2. /\ From(b, aligned) \in Nat
      /\ last[b] <= From(b, aligned)
      /\ From(b, aligned) <= PoolSize
  <2>1. /\ AlignUp(last[b]) \in Nat
        /\ last[b] <= AlignUp(last[b]) /\ AlignUp(last[b]) <= PoolSize
    <3>1. last[b] \in Nat
      BY <1>1
    <3>2. AlignUp(last[b]) <= PoolSize
      BY <1>1, AlignUpStays
    <3>. QED
      BY <3>1, <3>2, AlignUpMoves
  <2>. QED
    BY <1>1, <2>1 DEF From
<1>3. PoolSize - From(b, aligned) \in 0 .. WordSize - 1
  BY <1>1, <1>2
<1>4. (PoolSize - From(b, aligned)) % WordSize = PoolSize - From(b, aligned)
  BY <1>1, <1>3
<1>. QED
  BY <1>1, <1>2, <1>4 DEF Fits

LEMMA CutFromBlockIsSafe ==
  ASSUME BlocksSafe, PoolSize % Align = 0,
         NEW size \in Nat, NEW aligned \in BOOLEAN, CutFromBlock(size, aligned)
  PROVE  BlocksSafe'
<1>1. PICK b \in current .. nblocks :
        /\ Fits(b, size, aligned)
        /\ last' = [last EXCEPT ![b] = From(b, aligned) + size]
        /\ regions' = regions \cup {Region(b, From(b, aligned), size)}
        /\ UNCHANGED <<nblocks, failed, current>>
  BY DEF CutFromBlock
<1>2. /\ b \in Blocks /\ b <= nblocks /\ nblocks \in Blocks
      /\ current \in 1 .. nblocks
  BY PoolAssumption DEF BlocksSafe, Offsets, Blocks
<1>3. /\ From(b, aligned) \in Nat
      /\ last[b] <= From(b, aligned)
      /\ From(b, aligned) + size <= PoolSize
  BY <1>1, <1>2, FitsIsRoom
<1>4. DataSize <= From(b, aligned)
  BY <1>2, <1>3, PoolAssumption DEF BlocksSafe, Offsets
<1> DEFINE from == From(b, aligned)
<1>5. /\ nblocks' \in Blocks /\ nblocks <= nblocks' /\ b <= nblocks'
      /\ current' \in 1 .. nblocks'
  BY <1>1, <1>2 DEF Blocks
<1>6. /\ b <= nblocks => last[b] <= from
      /\ b > nblocks => b = nblocks + 1
  BY <1>2, <1>3 DEF Blocks
<1>7. /\ last' = [last EXCEPT ![b] = from + size]
      /\ regions' = regions \cup {Region(b, from, size)}
      /\ from \in Nat /\ DataSize <= from /\ from + size <= PoolSize
      /\ b \in Blocks
  BY <1>1, <1>2, <1>3, <1>4
<1> HIDE DEF from
<1>. QED
  BY <1>5, <1>6, <1>7, CuttingIsSafe

\* What a further block is asked for fits behind its smaller header.
LEMMA CutFromNewBlockIsSafe ==
  ASSUME BlocksSafe, NEW size \in Nat, NEW aligned \in BOOLEAN,
         size <= PoolSize - HeaderSize \/ size <= NodeSize,
         CutFromNewBlock(size, aligned)
  PROVE  BlocksSafe'
<1> DEFINE m == AlignUp(DataSize)
<1>1. m \in Nat /\ DataSize <= m /\ m < DataSize + Align
  BY AlignUpMoves, PoolAssumption
<1>2. m + size <= PoolSize
  BY <1>1, PoolAssumption, SizeAssumption
<1>3. /\ nblocks \in Blocks /\ current \in 1 .. nblocks
      /\ nblocks' = nblocks + 1 /\ nblocks < MaxBlocks
      /\ nblocks + 1 \in Blocks /\ nblocks \in Nat /\ MaxBlocks \in Nat
  BY PoolAssumption DEF BlocksSafe, Offsets, Blocks, CutFromNewBlock
<1>4. current' \in 1 .. nblocks'
  BY <1>3 DEF CutFromNewBlock, SkipTired, Tired, Passed
<1> DEFINE b == nblocks + 1
<1>5. /\ nblocks' \in Blocks /\ nblocks <= nblocks' /\ b <= nblocks'
  BY <1>3
<1>6. /\ b <= nblocks => last[b] <= m
      /\ b > nblocks => b = nblocks + 1
  BY <1>3
<1>7. /\ last' = [last EXCEPT ![b] = m + size]
      /\ regions' = regions \cup {Region(b, m, size)}
      /\ b \in Blocks
  BY <1>3 DEF CutFromNewBlock
<1> HIDE DEF m, b
<1>. QED
  BY <1>1, <1>2, <1>4, <1>5, <1>6, <1>7, CuttingIsSafe

LEMMA StepIsSafe ==
  ASSUME BlocksSafe, PoolSize % Align = 0, [Next]_vars
  PROVE  BlocksSafe'
<1>1. /\ Sizes \subseteq Nat /\ NodeSize \in Nat /\ HeaderSize \in Nat
      /\ PoolSize \in Nat /\ MaxFromPool \in Nat /\ DataSize \in Nat
      /\ DataSize <= HeaderSize /\ HeaderSize <= PoolSize
      /\ MaxBlocks \in Nat /\ 1 \in Blocks
  BY PoolAssumption, SizeAssumption DEF Blocks
<1>2. ASSUME NEW size \in Sizes, NEW aligned \in BOOLEAN, AllocSmall(size, aligned)
      PROVE  BlocksSafe'
  <2>1. size \in Nat /\ size <= PoolSize - HeaderSize /\ Cut(size, aligned)
    BY <1>1, <1>2 DEF AllocSmall, PoolMax
  <2>. QED
    BY <2>1, CutFromBlockIsSafe, CutFromNewBlockIsSafe DEF Cut
<1>3. ASSUME NEW piece \in Pieces, NEW reuses \in BOOLEAN, AllocLarge(piece, reuses)
      PROVE  BlocksSafe'
  <2>1. NodeSize \in Nat /\ NodeSize <= NodeSize /\ TRUE \in BOOLEAN
    BY <1>1
  <2>2. CutFromBlock(NodeSize, TRUE) \/ CutFromNewBlock(NodeSize, TRUE)
    BY <1>3 DEF AllocLarge, Cut
  <2>. QED
    BY <2>1, <2>2, CutFromBlockIsSafe, CutFromNewBlockIsSafe
<1>4. ASSUME NEW piece \in Pieces, AllocLargeReusing(piece) \/ FreeLarge(piece)
      PROVE  BlocksSafe'
  BY <1>4 DEF AllocLargeReusing, FreeLarge, BlocksSafe, Offsets, NoOverlap, blockVars
<1>5. CASE Reset
  BY <1>1, <1>5 DEF Reset, BlocksSafe, Offsets, NoOverlap, Blocks
<1>6. CASE Destroy
  BY <1>6 DEF Destroy, BlocksSafe, Offsets, NoOverlap
<1>7. CASE UNCHANGED vars
  BY <1>7 DEF vars, blockVars, BlocksSafe, Offsets, NoOverlap
<1>. QED
  BY <1>2, <1>3, <1>4, <1>5, <1>6, <1>7 DEF Next

LEMMA StartIsSafe == Init => BlocksSafe
  BY PoolAssumption, SizeAssumption DEF Init, BlocksSafe, Offsets, NoOverlap, Blocks

\* With blocks of a multiple of the alignment the pool never hands out a byte
\* twice, and whatever it hands out lies inside a block, behind its header
\* (lu_mm_palloc_small, lu_mm_palloc_block_).
THEOREM NeverTwice ==
  ASSUME PoolSize % Align = 0
  PROVE  Spec => []RegionsApart
<1>1. BlocksSafe /\ [Next]_vars => BlocksSafe'
  BY StepIsSafe
<1>2. BlocksSafe => NoOverlap
  BY DEF BlocksSafe
<1>3. BlocksSafe => InsideBlock
  BY PoolAssumption DEF BlocksSafe, Offsets, InsideBlock
<1>4. BlocksSafe => RegionsApart
  BY <1>2, <1>3 DEF RegionsApart
<1>. QED
  BY StartIsSafe, <1>1, <1>4, PTL DEF Spec
-----------------------------------------------------------------------------
(***************************************************************************)
(* The list of large pieces and the blocks that are skipped.               *)
(***************************************************************************)

\* The search forgets no block that has failed less often than one behind it: of
\* the blocks searched an earlier one has failed at least as often as a later
\* one, and the last one, like those that are not there yet, never.
EarlierFailMore ==
  /\ \A a, b \in current .. nblocks : a <= b => failed[b] <= failed[a]
  /\ \A b \in Blocks : nblocks <= b => failed[b] = 0

BlockTypes ==
  /\ nblocks \in Blocks /\ current \in 1 .. nblocks
  /\ last \in [Blocks -> Nat] /\ failed \in [Blocks -> Nat]
  /\ regions \subseteq [block : Blocks, from : Nat, to : Nat]

BlockInv == BlockTypes /\ EarlierFailMore /\ SkippedOnlyTired

LargeInv ==
  /\ large \in Seq(Pieces \cup {NULL}) /\ outside \subseteq Pieces
  /\ LargeOwned

\* What a piece in front of a list makes of it.
LEMMA InFront ==
  ASSUME NEW S, NEW s \in Seq(S), NEW e \in S
  PROVE  /\ <<e>> \o s \in Seq(S)
         /\ DOMAIN (<<e>> \o s) = 1 .. Len(s) + 1
         /\ (<<e>> \o s)[1] = e
         /\ \A i \in 2 .. Len(s) + 1 : (<<e>> \o s)[i] = s[i - 1]
         /\ DOMAIN s = 1 .. Len(s) /\ Len(s) \in Nat
<1>1. <<e>> \in Seq(S) /\ Len(<<e>>) = 1 /\ <<e>>[1] = e
      OBVIOUS
<1> QED BY <1>1

\* A piece that is not in the list is put at a place that had none.
LEMMA PieceTaken ==
  ASSUME LargeInv, NEW piece \in Pieces \ outside,
         NEW i \in DOMAIN large, large[i] = NULL,
         large' = [large EXCEPT ![i] = piece], outside' = outside \cup {piece}
  PROVE  LargeInv'
<1>1. /\ large' \in Seq(Pieces \cup {NULL}) /\ DOMAIN large' = DOMAIN large
      /\ large'[i] = piece
      /\ \A j \in DOMAIN large \ {i} : large'[j] = large[j]
      BY DEF LargeInv
<1>2. outside' \subseteq Pieces
      BY DEF LargeInv
<1>3. \A j \in DOMAIN large : large[j] # piece
      BY PoolAssumption DEF LargeInv, LargeOwned
<1>4. \A j, k \in DOMAIN large' : large'[j] = large'[k] /\ large'[j] # NULL => j = k
      BY <1>1, <1>3 DEF LargeInv, LargeOwned
<1>5. outside' = {large'[j] : j \in DOMAIN large'} \ {NULL}
  <2>1. outside = {large[j] : j \in DOMAIN large} \ {NULL} /\ piece # NULL
        BY PoolAssumption DEF LargeInv, LargeOwned
  <2> QED BY ONLY <1>1, <2>1, i \in DOMAIN large, large[i] = NULL,
             outside' = outside \cup {piece}
<1> QED BY <1>1, <1>2, <1>4, <1>5 DEF LargeInv, LargeOwned

LEMMA PieceInFront ==
  ASSUME LargeInv, NEW piece \in Pieces \ outside,
         large' = <<piece>> \o large, outside' = outside \cup {piece}
  PROVE  LargeInv'
<1>1. /\ large \in Seq(Pieces \cup {NULL}) /\ piece \in Pieces \cup {NULL}
      /\ piece # NULL
      BY PoolAssumption DEF LargeInv
<1>2. /\ large' \in Seq(Pieces \cup {NULL})
      /\ DOMAIN large' = 1 .. Len(large) + 1
      /\ large'[1] = piece
      /\ \A i \in 2 .. Len(large) + 1 : large'[i] = large[i - 1]
      /\ DOMAIN large = 1 .. Len(large) /\ Len(large) \in Nat
      BY <1>1, InFront
<1>3. outside = {large[j] : j \in DOMAIN large} \ {NULL}
      BY DEF LargeInv, LargeOwned
<1>4. \A j \in DOMAIN large : large[j] # piece
      BY <1>1, <1>3
<1>5. \A i, j \in DOMAIN large' : large'[i] = large'[j] /\ large'[i] # NULL => i = j
  <2> SUFFICES ASSUME NEW i \in DOMAIN large', NEW j \in DOMAIN large',
                      large'[i] = large'[j], large'[i] # NULL
               PROVE  i = j
      OBVIOUS
  <2>1. CASE i = 1 \/ j = 1
        BY <1>2, <1>4, <2>1
  <2>2. CASE i # 1 /\ j # 1
    <3>1. i - 1 \in DOMAIN large /\ j - 1 \in DOMAIN large
          BY <1>2, <2>2
    <3>2. large[i - 1] = large[j - 1] /\ large[i - 1] # NULL
          BY <1>2, <2>2
    <3> QED BY <1>2, <3>1, <3>2 DEF LargeInv, LargeOwned
  <2> QED BY <2>1, <2>2
<1>6. {large'[j] : j \in DOMAIN large'} = {large[j] : j \in DOMAIN large} \cup {piece}
  <2>1. ASSUME NEW j \in DOMAIN large
        PROVE  \E k \in DOMAIN large' : large'[k] = large[j]
    <3>1. j + 1 \in 2 .. Len(large) + 1 /\ (j + 1) - 1 = j /\ j + 1 \in DOMAIN large'
          BY <1>2
    <3>2. large'[j + 1] = large[j]
          BY <1>2, <3>1
    <3> QED BY ONLY <3>1, <3>2
  <2>2. ASSUME NEW j \in DOMAIN large'
        PROVE  large'[j] = piece \/ \E k \in DOMAIN large : large[k] = large'[j]
    <3>1. CASE j # 1
      <4>1. j - 1 \in DOMAIN large /\ large'[j] = large[j - 1]
            BY <1>2, <3>1
      <4> QED BY ONLY <4>1
    <3> QED BY ONLY <1>2, <3>1
  <2>3. 1 \in DOMAIN large' /\ large'[1] = piece
        BY <1>2
  <2> QED BY ONLY <2>1, <2>2, <2>3
<1>7. outside' = {large'[j] : j \in DOMAIN large'} \ {NULL} /\ outside' \subseteq Pieces
  <2>1. outside' = {large'[j] : j \in DOMAIN large'} \ {NULL}
        BY ONLY <1>1, <1>3, <1>6, outside' = outside \cup {piece}
  <2> QED BY <2>1 DEF LargeInv
<1> QED BY <1>2, <1>5, <1>7 DEF LargeInv, LargeOwned

LEMMA PieceFreed ==
  ASSUME LargeInv, NEW piece \in Pieces, FreeLarge(piece) PROVE LargeInv'
<1>1. PICK i \in DOMAIN large : large[i] = piece /\ large' = [large EXCEPT ![i] = NULL]
      BY DEF FreeLarge
<1>2. outside' = outside \ {piece}
      BY DEF FreeLarge
<1>3. /\ large' \in Seq(Pieces \cup {NULL}) /\ DOMAIN large' = DOMAIN large
      /\ large'[i] = NULL
      /\ \A j \in DOMAIN large \ {i} : large'[j] = large[j]
      BY <1>1 DEF LargeInv
<1>4. \A j \in DOMAIN large \ {i} : large[j] # piece
      BY <1>1, PoolAssumption DEF LargeInv, LargeOwned
<1>5. \A j, k \in DOMAIN large' : large'[j] = large'[k] /\ large'[j] # NULL => j = k
      BY <1>3 DEF LargeInv, LargeOwned
<1>6. outside' = {large'[j] : j \in DOMAIN large'} \ {NULL} /\ outside' \subseteq Pieces
  <2>1. outside = {large[j] : j \in DOMAIN large} \ {NULL} /\ outside \subseteq Pieces
        BY DEF LargeInv, LargeOwned
  <2> QED BY ONLY <1>1, <1>2, <1>3, <1>4, <2>1
<1> QED BY <1>3, <1>5, <1>6 DEF LargeInv, LargeOwned

LEMMA StepLargeInv ==
  ASSUME LargeInv, [Next]_vars PROVE LargeInv'
<1>1. ASSUME NEW size \in Sizes, NEW aligned \in BOOLEAN, AllocSmall(size, aligned)
      PROVE  UNCHANGED <<large, outside>>
      BY <1>1 DEF AllocSmall
<1>2. ASSUME NEW piece \in Pieces, AllocLargeReusing(piece) PROVE LargeInv'
  <2>1. Reusable \subseteq DOMAIN large /\ \A i \in Reusable : large[i] = NULL
    <3>1. DOMAIN large = 1 .. Len(large) /\ Len(large) \in Nat
          BY DEF LargeInv
    <3>2. Searched \subseteq 1 .. Len(large)
          BY <3>1, PoolAssumption DEF Searched
    <3> QED BY <3>1, <3>2 DEF Reusable
  <2>2. PICK i \in Reusable : large' = [large EXCEPT ![i] = piece]
        BY <1>2 DEF AllocLargeReusing
  <2>3. piece \in Pieces \ outside /\ outside' = outside \cup {piece}
        BY <1>2 DEF AllocLargeReusing
  <2> QED BY <2>1, <2>2, <2>3, PieceTaken
<1>3. ASSUME NEW piece \in Pieces, NEW reuses \in BOOLEAN, AllocLarge(piece, reuses)
      PROVE  LargeInv'
      BY <1>3, PieceInFront DEF AllocLarge
<1>4. ASSUME NEW piece \in Pieces, FreeLarge(piece) PROVE LargeInv'
      BY <1>4, PieceFreed
<1>5. ASSUME Reset \/ Destroy PROVE LargeInv'
  <2>1. large' = <<>> /\ outside' = outside \ {large[i] : i \in DOMAIN large}
        BY <1>5 DEF Reset, Destroy
  <2>2. outside' = {}
        BY <2>1 DEF LargeInv, LargeOwned
  <2> QED BY ONLY <2>1, <2>2 DEF LargeInv, LargeOwned
<1>6. CASE UNCHANGED <<large, outside>>
      BY <1>6 DEF LargeInv, LargeOwned
<1> QED BY <1>1, <1>2, <1>3, <1>4, <1>5, <1>6 DEF Next, vars

\* A further block: the blocks that were passed have failed once more, and those
\* left out of the next search are the first ones, each too often.
LEMMA SearchMovesOn ==
  ASSUME BlockInv, NEW size, NEW aligned, CutFromNewBlock(size, aligned)
  PROVE  current' \in 1 .. nblocks' /\ EarlierFailMore' /\ SkippedOnlyTired'
<1>1. /\ nblocks \in Nat /\ nblocks >= 1 /\ nblocks + 1 \in Blocks
      /\ nblocks' = nblocks + 1
      /\ current \in 1 .. nblocks
      /\ Patience \in Nat
      /\ Blocks \subseteq Nat
      BY PoolAssumption DEF BlockInv, BlockTypes, CutFromNewBlock, Blocks
<1>2. \A b \in Blocks :
        /\ failed[b] \in Nat
        /\ failed'[b] = IF current <= b /\ b < nblocks THEN failed[b] + 1 ELSE failed[b]
      BY <1>1 DEF CutFromNewBlock, Passed, BlockInv, BlockTypes
<1>3. 1 .. nblocks + 1 \subseteq Blocks
      BY ONLY <1>1, PoolAssumption DEF Blocks
<1>4. /\ current' \in current .. nblocks
      /\ \A b \in current .. current' - 1 : b < nblocks /\ failed[b] > Patience
  <2>1. CASE Tired = {} /\ current' = current
        BY <1>1, <2>1
  <2>2. ASSUME NEW b \in Tired, current' = b + 1
        PROVE  /\ current' \in current .. nblocks
               /\ \A c \in current .. current' - 1 : c < nblocks /\ failed[c] > Patience
    <3>1. b \in current .. nblocks - 1 /\ failed[b] > Patience
          BY DEF Tired, Passed
    <3>2. \A c \in current .. b : failed[b] <= failed[c]
          BY <1>1, <3>1 DEF BlockInv, EarlierFailMore
    <3>3. \A c \in current .. b : c \in Blocks
          BY <1>1, <1>3, <3>1
    <3> QED BY ONLY <1>1, <1>2, <1>3, <2>2, <3>1, <3>2, <3>3
  <2> QED BY <2>1, <2>2 DEF CutFromNewBlock, SkipTired
<1>5. EarlierFailMore'
  <2>1. \A b \in Blocks : nblocks <= b => failed[b] = 0 /\ failed'[b] = 0
        BY <1>1, <1>2 DEF BlockInv, EarlierFailMore
  <2>2. \A a, b \in current .. nblocks - 1 : a <= b => failed'[b] <= failed'[a]
    <3>1. \A a, b \in current .. nblocks - 1 : a <= b => failed[b] <= failed[a]
          BY <1>1 DEF BlockInv, EarlierFailMore
    <3> QED BY ONLY <1>1, <1>2, <1>3, <3>1
  <2>3. \A a, b \in current' .. nblocks' : a <= b => failed'[b] <= failed'[a]
    <3> SUFFICES ASSUME NEW a \in current' .. nblocks', NEW b \in current' .. nblocks',
                        a <= b
                 PROVE  failed'[b] <= failed'[a]
        OBVIOUS
    <3>1. a \in Blocks /\ b \in Blocks /\ a \in Nat /\ b \in Nat
          BY <1>1, <1>3, <1>4
    <3>2. failed'[a] \in Nat
          BY <1>2, <3>1
    <3>3. CASE nblocks <= b
          BY <2>1, <3>1, <3>2, <3>3
    <3>4. CASE b < nblocks
          BY <1>1, <1>4, <2>2, <3>1, <3>4
    <3> QED BY <1>1, <3>1, <3>3, <3>4
  <2> QED BY <1>1, <2>1, <2>3 DEF EarlierFailMore
<1>6. SkippedOnlyTired'
  <2>1. \A b \in 1 .. current - 1 : failed[b] > Patience + 1
        BY DEF BlockInv, SkippedOnlyTired
  <2>2. current \in Nat /\ current' <= nblocks'
        BY ONLY <1>1, <1>4
  <2>3. PICK m \in current .. nblocks : m = current'
        BY ONLY <1>4
  <2>4. \A b \in current .. m - 1 : b < nblocks /\ failed[b] > Patience
        BY ONLY <1>4, <2>3
  <2>5. ASSUME NEW b \in 1 .. m - 1 PROVE failed'[b] > Patience + 1
    <3>0. b \in Nat /\ 1 <= b /\ b < m /\ m <= nblocks /\ m \in Nat
          BY <1>1, <2>2
    <3>1. b \in Blocks
      <4>1. b \in 1 .. nblocks + 1
            BY ONLY <1>1, <3>0
      <4> QED BY ONLY <1>3, <4>1
    <3>2. CASE b < current
          BY ONLY <1>2, <2>1, <2>2, <3>0, <3>1, <3>2
    <3>3. CASE current <= b
      <4>1. b \in current .. m - 1
            BY ONLY <2>2, <3>0, <3>3
      <4>2. b < nblocks /\ failed[b] > Patience
            BY ONLY <2>4, <4>1
      <4>3. failed'[b] = failed[b] + 1 /\ failed[b] \in Nat
            BY ONLY <1>2, <3>1, <3>3, <4>2
      <4> QED BY ONLY <1>1, <4>2, <4>3
    <3> QED BY ONLY <2>2, <3>0, <3>2, <3>3
  <2> QED BY ONLY <2>2, <2>3, <2>5 DEF SkippedOnlyTired
<1> QED BY <1>1, <1>4, <1>5, <1>6

\* Where something is cut lies in a block, at an offset.
LEMMA CutTypes ==
  ASSUME BlockTypes, NEW size \in Nat, NEW aligned \in BOOLEAN, Cut(size, aligned)
  PROVE  /\ nblocks' \in Blocks /\ last' \in [Blocks -> Nat]
         /\ failed' \in [Blocks -> Nat]
         /\ regions' \subseteq [block : Blocks, from : Nat, to : Nat]
<1>1. /\ nblocks \in Blocks /\ current .. nblocks \subseteq Blocks
      /\ last \in [Blocks -> Nat] /\ failed \in [Blocks -> Nat]
      /\ regions \subseteq [block : Blocks, from : Nat, to : Nat]
      BY PoolAssumption DEF BlockTypes, Blocks
<1>2. CASE CutFromBlock(size, aligned)
  <2>1. PICK b \in current .. nblocks :
          /\ last' = [last EXCEPT ![b] = From(b, aligned) + size]
          /\ regions' = regions \cup {Region(b, From(b, aligned), size)}
          /\ UNCHANGED <<nblocks, failed, current>>
        BY <1>2 DEF CutFromBlock
  <2>2. b \in Blocks /\ From(b, aligned) \in Nat
        BY <1>1, AlignUpMoves DEF From
  <2>3. Region(b, From(b, aligned), size) \in [block : Blocks, from : Nat, to : Nat]
        BY <2>2 DEF Region
  <2> QED BY ONLY <1>1, <2>1, <2>2, <2>3, size \in Nat
<1>3. CASE CutFromNewBlock(size, aligned)
  <2>1. /\ nblocks' = nblocks + 1 /\ nblocks + 1 \in Blocks
        /\ last' = [last EXCEPT ![nblocks + 1] = AlignUp(DataSize) + size]
        /\ failed' = [b \in Blocks |-> IF b \in Passed THEN failed[b] + 1 ELSE failed[b]]
        /\ regions' = regions \cup {Region(nblocks + 1, AlignUp(DataSize), size)}
        BY <1>1, <1>3, PoolAssumption DEF CutFromNewBlock, Blocks
  <2>2. AlignUp(DataSize) \in Nat
        BY AlignUpMoves, PoolAssumption
  <2>3. Region(nblocks + 1, AlignUp(DataSize), size)
          \in [block : Blocks, from : Nat, to : Nat]
        BY <2>1, <2>2 DEF Region
  <2>4. failed' \in [Blocks -> Nat]
        BY ONLY <1>1, <2>1
  <2> QED BY ONLY <1>1, <2>1, <2>2, <2>3, <2>4, size \in Nat
<1> QED BY <1>2, <1>3 DEF Cut

LEMMA CutKeepsBlockInv ==
  ASSUME BlockInv, NEW size \in Nat, NEW aligned \in BOOLEAN, Cut(size, aligned)
  PROVE  BlockInv'
<1>1. /\ nblocks' \in Blocks /\ last' \in [Blocks -> Nat]
      /\ failed' \in [Blocks -> Nat]
      /\ regions' \subseteq [block : Blocks, from : Nat, to : Nat]
      BY CutTypes DEF BlockInv
<1>2. current' \in 1 .. nblocks' /\ EarlierFailMore' /\ SkippedOnlyTired'
  <2>1. CASE CutFromBlock(size, aligned)
    <3>1. UNCHANGED <<nblocks, failed, current>>
          BY <2>1 DEF CutFromBlock
    <3> QED BY <3>1 DEF BlockInv, BlockTypes, EarlierFailMore, SkippedOnlyTired
  <2>2. CASE CutFromNewBlock(size, aligned)
        BY <2>2, SearchMovesOn
  <2> QED BY <2>1, <2>2 DEF Cut
<1> QED BY <1>1, <1>2 DEF BlockInv, BlockTypes

LEMMA StepBlockInv ==
  ASSUME BlockInv, [Next]_vars PROVE BlockInv'
<1>1. ASSUME NEW size \in Sizes, NEW aligned \in BOOLEAN, AllocSmall(size, aligned)
      PROVE  BlockInv'
      BY <1>1, CutKeepsBlockInv, PoolAssumption DEF AllocSmall
<1>2. ASSUME NEW piece \in Pieces, NEW reuses \in BOOLEAN, AllocLarge(piece, reuses)
      PROVE  BlockInv'
  <2>1. Cut(NodeSize, TRUE) /\ NodeSize \in Nat /\ TRUE \in BOOLEAN
        BY <1>2, PoolAssumption DEF AllocLarge
  <2> QED BY <2>1, CutKeepsBlockInv
<1>3. CASE Reset
  <2>1. /\ nblocks' = nblocks /\ nblocks \in Blocks /\ current' = 1
        /\ last' = [b \in Blocks |-> HeaderSize] /\ HeaderSize \in Nat
        /\ failed' = [b \in Blocks |-> 0] /\ regions' = {}
        BY <1>3, PoolAssumption DEF Reset, BlockInv, BlockTypes
  <2>2. 1 .. nblocks \subseteq Blocks /\ nblocks \in Nat /\ nblocks >= 1
        BY <2>1, PoolAssumption DEF Blocks
  <2>3. BlockTypes'
        BY ONLY <2>1, <2>2 DEF BlockTypes
  <2>4. EarlierFailMore' /\ SkippedOnlyTired'
        BY ONLY <2>1, <2>2 DEF EarlierFailMore, SkippedOnlyTired
  <2> QED BY <2>3, <2>4 DEF BlockInv
<1>4. CASE Destroy
  <2>1. UNCHANGED <<nblocks, last, failed, current>> /\ regions' = {}
        BY <1>4 DEF Destroy
  <2> QED BY <2>1 DEF BlockInv, BlockTypes, EarlierFailMore, SkippedOnlyTired
<1>5. ASSUME NEW piece \in Pieces, AllocLargeReusing(piece) \/ FreeLarge(piece)
      PROVE  UNCHANGED blockVars
      BY <1>5 DEF AllocLargeReusing, FreeLarge
<1>6. CASE UNCHANGED blockVars
      BY <1>6 DEF blockVars, BlockInv, BlockTypes, EarlierFailMore, SkippedOnlyTired
<1> QED BY <1>1, <1>2, <1>3, <1>4, <1>5, <1>6 DEF Next, vars

\* Every variable keeps its type; the pool knows every large piece that was not
\* freed once, wherever in the list it was put; and a block is left out of the
\* search only when it has failed too often (lu_mm_palloc_large,
\* lu_mm_palloc_block_, lu_mm_pool_free).
THEOREM PoolKeepsItsLists == Spec => []PoolInv
<1> DEFINE Inv == BlockInv /\ LargeInv /\ live \in BOOLEAN
<1>1. Init => Inv
  <2> SUFFICES ASSUME Init PROVE Inv
      OBVIOUS
  <2>1. BlockInv
        BY PoolAssumption DEF Init, BlockInv, BlockTypes, EarlierFailMore,
           SkippedOnlyTired, Blocks
  <2>2. LargeInv
        BY DEF Init, LargeInv, LargeOwned
  <2>3. live \in BOOLEAN
        BY DEF Init
  <2> QED BY <2>1, <2>2, <2>3
<1>2. Inv /\ [Next]_vars => Inv'
  <2>1. live \in BOOLEAN /\ [Next]_vars => live' \in BOOLEAN
        BY DEF Next, AllocSmall, AllocLargeReusing, AllocLarge, FreeLarge, Reset,
           Destroy, vars
  <2> QED BY <2>1, StepBlockInv, StepLargeInv
<1>3. Inv => PoolInv
  <2> SUFFICES ASSUME BlockInv, LargeInv, live \in BOOLEAN PROVE PoolInv
      OBVIOUS
  <2>1. current \in Blocks
        BY PoolAssumption DEF BlockInv, BlockTypes, Blocks
  <2> QED BY <2>1 DEF BlockInv, BlockTypes, LargeInv, PoolInv, TypeOK
<1> HIDE DEF Inv
<1> QED BY <1>1, <1>2, <1>3, PTL DEF Spec
=============================================================================
