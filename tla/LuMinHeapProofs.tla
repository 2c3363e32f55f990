--------------------------- MODULE LuMinHeapProofs ---------------------------
(***************************************************************************)
(* Proofs about LuMinHeap for any finite set of events and any timeouts.   *)
(* The sifts are loops, whose turns a recursive function counts: each has  *)
(* an invariant of its own, and one induction over the turns serves all.   *)
(***************************************************************************)
EXTENDS LuMinHeap, FiniteSetTheorems, WellFoundedInduction, TLAPS

(***************************************************************************)
(* Induction, and functions that are defined by it.                        *)
(***************************************************************************)

LEMMA Induction ==
  ASSUME NEW T, 0 \in T, \A k \in Nat : k \in T => k + 1 \in T
  PROVE  Nat \subseteq T
<1> SUFFICES ASSUME Nat \ T # {} PROVE FALSE
    OBVIOUS
<1>1. PICK m \in Nat \ T : \A j \in Nat \ T : ~(<<j, m>> \in OpToRel(<, Nat))
      BY NatLessThanWellFounded, WFMin, Nat \ T \subseteq Nat
<1>2. \A j \in Nat \ T : ~(j < m)
      BY <1>1 DEF OpToRel
<1>3. m # 0 /\ m - 1 \in Nat /\ m - 1 < m
      OBVIOUS
<1>4. m - 1 \in T
      BY <1>2, <1>3
<1> QED BY <1>3, <1>4

\* The first p turns of a loop.
Turns(S, start, step, p) ==
  {g \in [0 .. p -> S] : g[0] = start /\ \A k \in 0 .. p - 1 : g[k + 1] = step[g[k]]}

LEMMA TurnsExist ==
  ASSUME NEW S, NEW start \in S, NEW step \in [S -> S]
  PROVE  \A p \in Nat : Turns(S, start, step, p) # {}
<1> DEFINE Good == {p \in Nat : Turns(S, start, step, p) # {}}
<1>1. 0 \in Good
  <2>1. [k \in 0 .. 0 |-> start] \in Turns(S, start, step, 0)
        BY DEF Turns
  <2> QED BY <2>1
<1>2. ASSUME NEW p \in Nat, p \in Good PROVE p + 1 \in Good
  <2>1. PICK g : g \in Turns(S, start, step, p)
        BY <1>2
  <2>2. /\ g \in [0 .. p -> S] /\ g[0] = start
        /\ \A k \in 0 .. p - 1 : g[k + 1] = step[g[k]]
        BY <2>1 DEF Turns
  <2> DEFINE f == [k \in 0 .. p + 1 |-> IF k = p + 1 THEN step[g[p]] ELSE g[k]]
  <2>3. f \in [0 .. p + 1 -> S] /\ f[0] = start
        BY <2>2
  <2>4. ASSUME NEW k \in 0 .. (p + 1) - 1 PROVE f[k + 1] = step[f[k]]
        BY <2>2
  <2>5. f \in Turns(S, start, step, p + 1)
        BY <2>3, <2>4 DEF Turns
  <2> QED BY <2>5
<1> HIDE DEF Good
<1>3. Nat \subseteq Good
      BY <1>1, <1>2, Induction
<1> QED BY <1>3 DEF Good

LEMMA TurnsAgree ==
  ASSUME NEW S, NEW start \in S, NEW step \in [S -> S], NEW p \in Nat, NEW q \in Nat,
         p <= q, NEW f \in Turns(S, start, step, p), NEW g \in Turns(S, start, step, q)
  PROVE  \A k \in 0 .. p : f[k] = g[k]
<1> DEFINE Same == {k \in Nat : k <= p => f[k] = g[k]}
<1>1. 0 \in Same
      BY DEF Turns
<1>2. ASSUME NEW k \in Nat, k \in Same PROVE k + 1 \in Same
  <2> SUFFICES ASSUME k + 1 <= p PROVE f[k + 1] = g[k + 1]
      OBVIOUS
  <2>1. k \in 0 .. p - 1 /\ k \in 0 .. q - 1
        OBVIOUS
  <2> QED BY <1>2, <2>1 DEF Turns
<1> HIDE DEF Same
<1>3. Nat \subseteq Same
      BY <1>1, <1>2, Induction
<1> QED BY <1>3 DEF Same

\* A loop whose turns stay in a set is a function.
LEMMA LoopExists ==
  ASSUME NEW S, NEW start \in S, NEW step \in [S -> S]
  PROVE  \E f \in [Nat -> S] :
           f = [k \in Nat |-> IF k = 0 THEN start ELSE step[f[k - 1]]]
<1> DEFINE Nth(p) == CHOOSE g : g \in Turns(S, start, step, p)
           f == [k \in Nat |-> Nth(k)[k]]
<1>1. ASSUME NEW p \in Nat PROVE Nth(p) \in Turns(S, start, step, p)
      BY TurnsExist
<1> HIDE DEF Nth
<1>2. f \in [Nat -> S]
      BY <1>1 DEF Turns
<1>3. f[0] = start
      BY <1>1 DEF Turns
<1>4. ASSUME NEW k \in Nat, k # 0 PROVE f[k] = step[f[k - 1]]
  <2>1. k - 1 \in Nat /\ k - 1 <= k /\ k - 1 \in 0 .. k - 1 /\ (k - 1) + 1 = k
        BY <1>4
  <2>2. Nth(k - 1)[k - 1] = Nth(k)[k - 1]
        BY <1>1, <2>1, TurnsAgree
  <2>3. Nth(k)[k] = step[Nth(k)[k - 1]]
        BY <1>1, <2>1 DEF Turns
  <2> QED BY <2>1, <2>2, <2>3
<1>5. f = [k \in Nat |-> IF k = 0 THEN start ELSE step[f[k - 1]]]
      BY <1>2, <1>3, <1>4
<1> QED BY <1>2, <1>5

-----------------------------------------------------------------------------
(***************************************************************************)
(* Types of the heap and of the loops.                                     *)
(***************************************************************************)

Heaps == [at : [Slots -> Events \cup {None}], idx : [Events -> Slots \cup {Absent}],
          due : [Events -> Timeouts], n : 0 .. Cardinality(Events)]
Rises == [heap : Heaps, hole : Slots]
Sinks == [heap : Heaps, hole : Slots, child : Nat \ {0}]

LEMMA EventsCounted == Cardinality(Events) \in Nat
BY HeapAssumption, FS_CardinalityType

LEMMA HeapFields ==
  ASSUME NEW h \in Heaps
  PROVE  /\ h.at \in [Slots -> Events \cup {None}]
         /\ h.idx \in [Events -> Slots \cup {Absent}]
         /\ h.due \in [Events -> Timeouts]
         /\ h.n \in 0 .. Cardinality(Events)
         /\ h.n \in Nat /\ 0 .. h.n - 1 \subseteq Slots
BY EventsCounted DEF Heaps, Slots

LEMMA PlaceIs ==
  ASSUME NEW h \in Heaps, NEW i \in Slots, NEW x
  PROVE  /\ \A j \in Slots : Place(h, i, x).at[j] = IF j = i THEN x ELSE h.at[j]
         /\ \A y \in Events : Place(h, i, x).idx[y] = IF y = x THEN i ELSE h.idx[y]
         /\ Place(h, i, x).due = h.due
         /\ Place(h, i, x).n = h.n
BY DEF Place, Heaps

LEMMA PlaceType ==
  ASSUME NEW h \in Heaps, NEW i \in Slots, NEW x \in Events \cup {None}
  PROVE  Place(h, i, x) \in Heaps
<1>1. [h.at EXCEPT ![i] = x] \in [Slots -> Events \cup {None}]
      BY HeapFields
<1>2. [h.idx EXCEPT ![x] = i] \in [Events -> Slots \cup {Absent}]
      BY HeapFields
<1> QED BY <1>1, <1>2 DEF Place, Heaps

LEMMA ParentSlot ==
  ASSUME NEW i \in Nat, i > 0
  PROVE  /\ Parent(i) \in Nat /\ Parent(i) < i
         /\ i \in Slots => Parent(i) \in Slots
BY EventsCounted DEF Parent, Slots

LEMMA RiseType ==
  ASSUME NEW s \in Rises, NEW e \in Events
  PROVE  Rise(s, e) \in Rises
<1>1. s.heap \in Heaps /\ s.hole \in Slots /\ s.hole \in Nat
      BY EventsCounted DEF Rises, Slots
<1>2. CASE s.hole > 0 /\ Later(s.heap, Parent(s.hole), e)
  <2>1. Parent(s.hole) \in Slots
        BY <1>1, <1>2, ParentSlot
  <2>2. s.heap.at[Parent(s.hole)] \in Events \cup {None}
        BY <1>1, <2>1, HeapFields
  <2>3. Place(s.heap, s.hole, s.heap.at[Parent(s.hole)]) \in Heaps
        BY <1>1, <2>2, PlaceType
  <2> QED BY <1>2, <2>1, <2>3 DEF Rise, Rises
<1>3. CASE ~(s.hole > 0 /\ Later(s.heap, Parent(s.hole), e))
      BY <1>3 DEF Rise
<1> QED BY <1>2, <1>3

\* The slot the sift down looks at.
Least(s) == IF Later(s.heap, s.child, s.heap.at[s.child - 1])
            THEN s.child - 1 ELSE s.child

LEMMA SinkIs ==
  \A s, e : Sink(s, e) =
    IF s.child < s.heap.n /\ s.heap.due[e] > s.heap.due[s.heap.at[Least(s)]]
    THEN [heap |-> Place(s.heap, s.hole, s.heap.at[Least(s)]),
          hole |-> Least(s), child |-> 2 * (Least(s) + 1)]
    ELSE s
BY DEF Sink, Least

LEMMA LeastSlot ==
  ASSUME NEW s \in Sinks, s.child < s.heap.n
  PROVE  /\ Least(s) \in 0 .. s.heap.n - 1 /\ Least(s) \in Slots
         /\ Least(s) \in {s.child - 1, s.child}
<1>1. s.heap \in Heaps /\ s.child \in Nat \ {0}
      BY DEF Sinks
<1>2. Least(s) \in {s.child - 1, s.child}
      BY DEF Least
<1> QED BY <1>1, <1>2, HeapFields

LEMMA SinkType ==
  ASSUME NEW s \in Sinks, NEW e \in Events
  PROVE  Sink(s, e) \in Sinks
<1>1. s.heap \in Heaps /\ s.hole \in Slots /\ s.child \in Nat \ {0}
      BY DEF Sinks
<1>2. CASE s.child < s.heap.n /\ s.heap.due[e] > s.heap.due[s.heap.at[Least(s)]]
  <2>1. Least(s) \in Slots
        BY <1>2, LeastSlot
  <2>2. s.heap.at[Least(s)] \in Events \cup {None}
        BY <1>1, <2>1, HeapFields
  <2>3. Place(s.heap, s.hole, s.heap.at[Least(s)]) \in Heaps
        BY <1>1, <2>2, PlaceType
  <2>4. 2 * (Least(s) + 1) \in Nat \ {0}
        BY <2>1, EventsCounted DEF Slots
  <2> QED BY <1>2, <2>1, <2>3, <2>4, SinkIs DEF Sinks
<1>3. CASE ~(s.child < s.heap.n /\ s.heap.due[e] > s.heap.due[s.heap.at[Least(s)]])
      BY <1>3, SinkIs
<1> QED BY <1>2, <1>3

LEMMA RisingLoop ==
  ASSUME NEW h \in Heaps, NEW hole \in Slots, NEW e \in Events
  PROVE  /\ \A k \in Nat : Rising(h, hole, e)[k] \in Rises
         /\ Rising(h, hole, e)[0] = [heap |-> h, hole |-> hole]
         /\ \A k \in Nat : Rising(h, hole, e)[k + 1] = Rise(Rising(h, hole, e)[k], e)
<1> DEFINE start == [heap |-> h, hole |-> hole]
           step == [s \in Rises |-> Rise(s, e)]
           Is(f) == f = [k \in Nat |-> IF k = 0 THEN start ELSE Rise(f[k - 1], e)]
<1>1. start \in Rises /\ step \in [Rises -> Rises]
      BY RiseType DEF Rises
<1> HIDE DEF start, step
<1>2. PICK g \in [Nat -> Rises] :
        g = [k \in Nat |-> IF k = 0 THEN start ELSE step[g[k - 1]]]
      BY <1>1, LoopExists
<1>3. \A k \in Nat : g[k] = IF k = 0 THEN start ELSE step[g[k - 1]]
      BY <1>2
<1>4. \A k \in Nat : g[k] = IF k = 0 THEN start ELSE Rise(g[k - 1], e)
      BY <1>2, <1>3 DEF step
<1>5. Is(g)
      BY <1>2, <1>4
<1>6. Rising(h, hole, e) = CHOOSE f : Is(f)
      BY DEF Rising, start
<1> DEFINE r == Rising(h, hole, e)
<1>7. Is(r)
      BY <1>5, <1>6
<1> HIDE DEF r
<1>8. r[0] = start /\ \A k \in Nat : r[k + 1] = Rise(r[k], e)
      BY <1>7
<1> DEFINE Typed == {k \in Nat : r[k] \in Rises}
<1>9. 0 \in Typed /\ \A k \in Nat : k \in Typed => k + 1 \in Typed
      BY <1>1, <1>8, RiseType
<1> HIDE DEF Typed
<1>10. Nat \subseteq Typed
      BY <1>9, Induction
<1>11. \A k \in Nat : r[k] \in Rises
      BY <1>10 DEF Typed
<1> QED BY <1>8, <1>11 DEF r, start

LEMMA SinkingLoop ==
  ASSUME NEW h \in Heaps, NEW hole \in Slots, NEW e \in Events
  PROVE  /\ \A k \in Nat : Sinking(h, hole, e)[k] \in Sinks
         /\ Sinking(h, hole, e)[0] = [heap |-> h, hole |-> hole, child |-> 2 * hole + 1]
         /\ \A k \in Nat : Sinking(h, hole, e)[k + 1] = Sink(Sinking(h, hole, e)[k], e)
<1> DEFINE start == [heap |-> h, hole |-> hole, child |-> 2 * hole + 1]
           step == [s \in Sinks |-> Sink(s, e)]
           Is(f) == f = [k \in Nat |-> IF k = 0 THEN start ELSE Sink(f[k - 1], e)]
<1>0. 2 * hole + 1 \in Nat \ {0}
      BY EventsCounted DEF Slots
<1>1. start \in Sinks /\ step \in [Sinks -> Sinks]
      BY <1>0, SinkType DEF Sinks
<1> HIDE DEF start, step
<1>2. PICK g \in [Nat -> Sinks] :
        g = [k \in Nat |-> IF k = 0 THEN start ELSE step[g[k - 1]]]
      BY <1>1, LoopExists
<1>3. \A k \in Nat : g[k] = IF k = 0 THEN start ELSE step[g[k - 1]]
      BY <1>2
<1>4. \A k \in Nat : g[k] = IF k = 0 THEN start ELSE Sink(g[k - 1], e)
      BY <1>2, <1>3 DEF step
<1>5. Is(g)
      BY <1>2, <1>4
<1>6. Sinking(h, hole, e) = CHOOSE f : Is(f)
      BY DEF Sinking, start
<1> DEFINE r == Sinking(h, hole, e)
<1>7. Is(r)
      BY <1>5, <1>6
<1> HIDE DEF r
<1>8. r[0] = start /\ \A k \in Nat : r[k + 1] = Sink(r[k], e)
      BY <1>7
<1> DEFINE Typed == {k \in Nat : r[k] \in Sinks}
<1>9. 0 \in Typed /\ \A k \in Nat : k \in Typed => k + 1 \in Typed
      BY <1>1, <1>8, SinkType
<1> HIDE DEF Typed
<1>10. Nat \subseteq Typed
      BY <1>9, Induction
<1>11. \A k \in Nat : r[k] \in Sinks
      BY <1>10 DEF Typed
<1> QED BY <1>8, <1>11 DEF r, start

\* What a loop does not change.
Alike(g, h) == g.due = h.due /\ g.n = h.n

LEMMA PlaceAlike ==
  ASSUME NEW g, NEW h \in Heaps, Alike(h, g), NEW i \in Slots, NEW x
  PROVE  Alike(Place(h, i, x), g)
<1>1. Place(h, i, x).due = h.due /\ Place(h, i, x).n = h.n
      BY PlaceIs
<1> QED BY <1>1 DEF Alike

LEMMA RisingAlike ==
  ASSUME NEW h \in Heaps, NEW hole \in Slots, NEW e \in Events
  PROVE  \A k \in Nat : Alike(Rising(h, hole, e)[k].heap, h)
<1> DEFINE r == Rising(h, hole, e)
           Good == {k \in Nat : Alike(r[k].heap, h)}
<1>1. /\ \A k \in Nat : r[k] \in Rises /\ r[0] = [heap |-> h, hole |-> hole]
      /\ \A k \in Nat : r[k + 1] = Rise(r[k], e)
      BY RisingLoop
<1> HIDE DEF r
<1>2. 0 \in Good
      BY <1>1 DEF Alike
<1>3. ASSUME NEW k \in Nat, k \in Good PROVE k + 1 \in Good
  <2>1. r[k].heap \in Heaps /\ r[k].hole \in Slots
        BY <1>1 DEF Rises
  <2>2. Alike(Rise(r[k], e).heap, h)
    <3> DEFINE x == r[k].heap.at[Parent(r[k].hole)]
    <3>1. Alike(Place(r[k].heap, r[k].hole, x), h)
          BY <1>3, <2>1, PlaceAlike
    <3> QED BY <1>3, <3>1 DEF Rise
  <2> QED BY <1>1, <2>2
<1> HIDE DEF Good
<1>4. Nat \subseteq Good
      BY <1>2, <1>3, Induction
<1> QED BY <1>4 DEF Good, r

LEMMA SinkingAlike ==
  ASSUME NEW h \in Heaps, NEW hole \in Slots, NEW e \in Events
  PROVE  \A k \in Nat : Alike(Sinking(h, hole, e)[k].heap, h)
<1> DEFINE r == Sinking(h, hole, e)
           Good == {k \in Nat : Alike(r[k].heap, h)}
<1>1. /\ \A k \in Nat : r[k] \in Sinks
      /\ r[0] = [heap |-> h, hole |-> hole, child |-> 2 * hole + 1]
      /\ \A k \in Nat : r[k + 1] = Sink(r[k], e)
      BY SinkingLoop
<1> HIDE DEF r
<1>2. 0 \in Good
      BY <1>1 DEF Alike
<1>3. ASSUME NEW k \in Nat, k \in Good PROVE k + 1 \in Good
  <2>1. r[k].heap \in Heaps /\ r[k].hole \in Slots
        BY <1>1 DEF Sinks
  <2>2. Alike(Sink(r[k], e).heap, h)
    <3> DEFINE x == r[k].heap.at[Least(r[k])]
    <3>1. Alike(Place(r[k].heap, r[k].hole, x), h)
          BY <1>3, <2>1, PlaceAlike
    <3> QED BY <1>3, <3>1 DEF Sink, Least
  <2> QED BY <1>1, <2>2
<1> HIDE DEF Good
<1>4. Nat \subseteq Good
      BY <1>2, <1>3, Induction
<1> QED BY <1>4 DEF Good, r

LEMMA ShiftUpType ==
  ASSUME NEW h \in Heaps, NEW hole \in Slots, NEW e \in Events
  PROVE  ShiftUp(h, hole, e) \in Heaps /\ Alike(ShiftUp(h, hole, e), h)
<1> DEFINE end == Rising(h, hole, e)[h.n]
<1>0. h.n \in Nat
      BY HeapFields
<1>1. end \in Rises
      BY <1>0, RisingLoop
<1>5. Alike(end.heap, h)
      BY <1>0, RisingAlike
<1>2. ShiftUp(h, hole, e) = Place(end.heap, end.hole, e)
      BY DEF ShiftUp
<1> HIDE DEF end
<1>3. end.heap \in Heaps /\ end.hole \in Slots
      BY <1>1 DEF Rises
<1>4. /\ Place(end.heap, end.hole, e) \in Heaps
      /\ Alike(Place(end.heap, end.hole, e), h)
      BY <1>3, <1>5, PlaceType, PlaceAlike
<1> QED BY <1>2, <1>4

LEMMA ShiftDownType ==
  ASSUME NEW h \in Heaps, NEW hole \in Slots, NEW e \in Events
  PROVE  ShiftDown(h, hole, e) \in Heaps /\ Alike(ShiftDown(h, hole, e), h)
<1> DEFINE end == Sinking(h, hole, e)[h.n]
<1>0. h.n \in Nat
      BY HeapFields
<1>1. end \in Sinks
      BY <1>0, SinkingLoop
<1>5. Alike(end.heap, h)
      BY <1>0, SinkingAlike
<1>2. ShiftDown(h, hole, e) = Place(end.heap, end.hole, e)
      BY DEF ShiftDown
<1> HIDE DEF end
<1>3. end.heap \in Heaps /\ end.hole \in Slots
      BY <1>1 DEF Sinks
<1>4. /\ Place(end.heap, end.hole, e) \in Heaps
      /\ Alike(Place(end.heap, end.hole, e), h)
      BY <1>3, <1>5, PlaceType, PlaceAlike
<1> QED BY <1>2, <1>4

LEMMA SettleType ==
  ASSUME NEW h \in Heaps, NEW hole \in Slots, NEW e \in Events
  PROVE  Settle(h, hole, e) \in Heaps /\ Alike(Settle(h, hole, e), h)
<1>1. CASE hole > 0 /\ Later(h, Parent(hole), e)
  <2>1. Parent(hole) \in Slots
        BY <1>1, ParentSlot, EventsCounted DEF Slots
  <2>2. h.at[Parent(hole)] \in Events \cup {None}
        BY <2>1, HeapFields
  <2> DEFINE g == Place(h, hole, h.at[Parent(hole)])
  <2>3. g \in Heaps /\ Alike(g, h)
        BY <2>2, PlaceType, PlaceIs DEF Alike
  <2>4. Settle(h, hole, e) = ShiftUp(g, Parent(hole), e)
        BY <1>1 DEF Settle, ShiftUpUnconditional
  <2> HIDE DEF g
  <2>5. /\ ShiftUp(g, Parent(hole), e) \in Heaps
        /\ Alike(ShiftUp(g, Parent(hole), e), g)
        BY <2>1, <2>3, ShiftUpType
  <2> QED BY <2>3, <2>4, <2>5 DEF Alike
<1>2. CASE ~(hole > 0 /\ Later(h, Parent(hole), e))
      BY <1>2, ShiftDownType DEF Settle
<1> QED BY <1>1, <1>2

-----------------------------------------------------------------------------
(***************************************************************************)
(* The calls: what the sifts are called with, and the types they leave.    *)
(***************************************************************************)

LEMMA HeapType ==
  ASSUME TypeOK, NEW due \in [Events -> Timeouts], NEW m \in 0 .. Cardinality(Events)
  PROVE  /\ [Heap(due) EXCEPT !.n = m] \in Heaps
         /\ [Heap(due) EXCEPT !.n = m]
              = [at |-> elements, idx |-> min_heap_idx, due |-> due, n |-> m]
         /\ Heap(due) \in Heaps
BY DEF TypeOK, Heap, Heaps

LEMMA BecomesType ==
  ASSUME NEW h \in Heaps, Becomes(h)
  PROVE  /\ elements' \in [Slots -> Events \cup {None}]
         /\ n' \in 0 .. Cardinality(Events)
         /\ min_heap_idx' \in [Events -> Slots \cup {Absent}]
         /\ ev_timeout' \in [Events -> Timeouts]
BY HeapFields DEF Becomes

\* An event that is in no slot leaves one free: the elements are different events.
LEMMA RoomForOneMore ==
  ASSUME TypeOK, Consistent, NEW e \in Events, min_heap_idx[e] = Absent
  PROVE  n < Cardinality(Events) /\ n \in Slots
<1> DEFINE f == [i \in 0 .. n - 1 |-> elements[i]]
           others == Events \ {e}
<1>1. /\ IsFiniteSet(others) /\ Cardinality(others) = Cardinality(Events) - 1
      BY HeapAssumption, FS_RemoveElement
<1>2. n \in Nat /\ Cardinality(Events) \in Nat
      BY EventsCounted DEF TypeOK
<1>3. \A i \in 0 .. n - 1 : elements[i] \in Events /\ min_heap_idx[elements[i]] = i
      BY DEF Consistent
<1>4. \A i \in 0 .. n - 1 : elements[i] # e
      BY <1>2, <1>3 DEF Absent
<1>5. f \in Injection(0 .. n - 1, others)
  <2>1. f \in [0 .. n - 1 -> others]
        BY <1>3, <1>4
  <2>2. \A i, j \in 0 .. n - 1 : f[i] = f[j] => i = j
        BY <1>3
  <2> QED BY <2>1, <2>2 DEF Injection, IsInjective
<1>6. Cardinality(0 .. n - 1) <= Cardinality(others)
      BY <1>1, <1>5, FS_Injection
<1>7. Cardinality(0 .. n - 1) = n
      BY <1>2, FS_Interval
<1> QED BY <1>1, <1>2, <1>6, <1>7 DEF Slots

LEMMA PushTypes ==
  ASSUME TypeOK, NEW e \in Events, NEW t \in Timeouts, Push(e, t)
  PROVE  TypeOK' /\ capacity' = Grown(n + 1) /\ n' = n + 1
<1> DEFINE due == [ev_timeout EXCEPT ![e] = t]
           h == [Heap(due) EXCEPT !.n = n + 1]
<1>1. n < Cardinality(Events) /\ n \in Slots
      BY RoomForOneMore DEF Push
<1>2. due \in [Events -> Timeouts] /\ n + 1 \in 0 .. Cardinality(Events)
      BY <1>1, EventsCounted DEF TypeOK
<1>3. Becomes(ShiftUp(h, n, e)) /\ capacity' = Grown(n + 1) /\ popped' = None
      BY DEF Push
<1> HIDE DEF due
<1>4. h \in Heaps /\ h.n = n + 1
      BY <1>2, HeapType
<1> HIDE DEF h
<1>5. ShiftUp(h, n, e) \in Heaps /\ ShiftUp(h, n, e).n = h.n
      BY <1>1, <1>4, ShiftUpType DEF Alike
<1>6. n' = n + 1
      BY <1>3, <1>4, <1>5 DEF Becomes
<1>7. Grown(n + 1) \in Nat
      BY HeapAssumption DEF Grown, TypeOK
<1> QED BY <1>3, <1>5, <1>6, <1>7, BecomesType DEF TypeOK

LEMMA AdjustTypes ==
  ASSUME TypeOK, NEW e \in Events, NEW t \in Timeouts, Adjust(e, t)
  PROVE  TypeOK' /\ n' = n
<1> DEFINE due == [ev_timeout EXCEPT ![e] = t]
           h == Heap(due)
<1>1. due \in [Events -> Timeouts] /\ min_heap_idx[e] \in Slots
      BY DEF TypeOK, Adjust
<1>2. h \in Heaps /\ h.n = n
      BY <1>1, HeapType DEF TypeOK, Heap
<1>3. Becomes(Settle(h, min_heap_idx[e], e)) /\ popped' = None /\ capacity' = capacity
      BY DEF Adjust
<1> HIDE DEF h
<1>4. Settle(h, min_heap_idx[e], e) \in Heaps /\ Settle(h, min_heap_idx[e], e).n = h.n
      BY <1>1, <1>2, SettleType DEF Alike
<1>5. n' = n
      BY <1>2, <1>3, <1>4 DEF Becomes
<1> QED BY <1>3, <1>4, <1>5, BecomesType DEF TypeOK

LEMMA ForgetType ==
  ASSUME NEW h \in Heaps, NEW e \in Events
  PROVE  /\ [h EXCEPT !.idx[e] = Absent] \in Heaps
         /\ [h EXCEPT !.idx[e] = Absent].n = h.n
         /\ [h EXCEPT !.idx[e] = Absent].at = h.at
         /\ [h EXCEPT !.idx[e] = Absent].due = h.due
         /\ [h EXCEPT !.idx[e] = Absent].idx = [h.idx EXCEPT ![e] = Absent]
BY DEF Heaps

LEMMA PopTypes ==
  ASSUME TypeOK, Pop
  PROVE  TypeOK' /\ n' = n - 1 /\ capacity' = capacity
<1> DEFINE h == [Heap(ev_timeout) EXCEPT !.n = n - 1]
           rest == ShiftDown(h, 0, elements[n - 1])
           top == elements[0]
<1>1. n \in Nat /\ n > 0 /\ n - 1 \in 0 .. Cardinality(Events) /\ 0 \in Slots
      BY EventsCounted DEF TypeOK, Pop, Slots
<1>2. h \in Heaps /\ h.n = n - 1
      BY <1>1, HeapType DEF TypeOK
<1>3. top \in Events /\ elements[n - 1] \in Events
      BY <1>1 DEF Pop, Consistent
<1>4. /\ Becomes([rest EXCEPT !.idx[top] = Absent])
      /\ popped' = top /\ capacity' = capacity
      BY DEF Pop
<1>5. rest \in Heaps /\ rest.n = n - 1
      BY <1>1, <1>2, <1>3, ShiftDownType DEF Alike
<1> HIDE DEF rest, top
<1>6. /\ [rest EXCEPT !.idx[top] = Absent] \in Heaps
      /\ [rest EXCEPT !.idx[top] = Absent].n = n - 1
      BY <1>3, <1>5, ForgetType
<1>7. n' = n - 1
      BY <1>4, <1>6 DEF Becomes
<1> QED BY <1>3, <1>4, <1>6, <1>7, BecomesType DEF TypeOK

LEMMA EraseTypes ==
  ASSUME TypeOK, NEW e \in Events, Erase(e)
  PROVE  TypeOK' /\ n' = n - 1 /\ capacity' = capacity
<1> DEFINE h == [Heap(ev_timeout) EXCEPT !.n = n - 1]
           rest == Settle(h, min_heap_idx[e], elements[n - 1])
<1>1. PICK i \in 0 .. n - 1 : elements[i] = e
      BY DEF Erase, Consistent, Members
<1>2. n \in Nat /\ n > 0 /\ n - 1 \in 0 .. Cardinality(Events)
      BY <1>1, EventsCounted DEF TypeOK
<1>3. h \in Heaps /\ h.n = n - 1
      BY <1>2, HeapType DEF TypeOK
<1>4. min_heap_idx[e] \in Slots /\ elements[n - 1] \in Events
      BY <1>2 DEF TypeOK, Erase, Consistent
<1>5. /\ Becomes([rest EXCEPT !.idx[e] = Absent])
      /\ popped' = None /\ capacity' = capacity
      BY DEF Erase
<1>6. rest \in Heaps /\ rest.n = n - 1
      BY <1>3, <1>4, SettleType DEF Alike
<1> HIDE DEF rest
<1>7. /\ [rest EXCEPT !.idx[e] = Absent] \in Heaps
      /\ [rest EXCEPT !.idx[e] = Absent].n = n - 1
      BY <1>6, ForgetType
<1>8. n' = n - 1
      BY <1>5, <1>7 DEF Becomes
<1> QED BY <1>5, <1>7, <1>8, BecomesType DEF TypeOK

LEMMA GrownIsEnough ==
  ASSUME TypeOK, NEW size \in Nat
  PROVE  Grown(size) \in Nat /\ size <= Grown(size) /\ capacity <= Grown(size)
BY HeapAssumption DEF Grown, TypeOK

(* However the array grows, by the first capacity, by doubling or to what  *)
(* was asked for, and whichever slots a sift visits, it is large enough    *)
(* for what is put into it and every variable keeps its type               *)
(* (lu_min_heap_reserve_, lu_min_heap_push_).                              *)
THEOREM ArrayIsLargeEnough == Spec => []HeapInv
<1>1. Init => HeapInv
  <2> SUFFICES ASSUME Init PROVE HeapInv
      OBVIOUS
  <2>1. (CHOOSE t \in Timeouts : TRUE) \in Timeouts
        BY HeapAssumption
  <2> QED BY <2>1, EventsCounted DEF Init, HeapInv, TypeOK, RoomForAll
<1>2. HeapInv /\ [Next]_vars => HeapInv'
  <2> SUFFICES ASSUME HeapInv, [Next]_vars PROVE HeapInv'
      OBVIOUS
  <2>0. TypeOK /\ n <= capacity /\ n \in Nat /\ capacity \in Nat
        BY EventsCounted DEF HeapInv, TypeOK, RoomForAll
  <2>1. ASSUME NEW e \in Events, NEW t \in Timeouts, Push(e, t) PROVE HeapInv'
        BY <2>0, <2>1, PushTypes, GrownIsEnough DEF HeapInv, RoomForAll
  <2>2. ASSUME NEW e \in Events, NEW t \in Timeouts, PushFails(e, t) PROVE HeapInv'
        BY <2>0, <2>2 DEF PushFails, HeapInv, RoomForAll, TypeOK
  <2>3. ASSUME NEW e \in Events, NEW t \in Timeouts, Adjust(e, t) PROVE HeapInv'
        BY <2>0, <2>3, AdjustTypes DEF Adjust, HeapInv, RoomForAll
  <2>4. ASSUME NEW e \in Events, Erase(e) PROVE HeapInv'
        BY <2>0, <2>4, EraseTypes DEF HeapInv, RoomForAll
  <2>5. CASE Pop
        BY <2>0, <2>5, PopTypes DEF HeapInv, RoomForAll
  <2>6. CASE Reserve
    <3>1. /\ Grown(n + 1) \in Nat /\ n <= Grown(n + 1)
          BY <2>0, GrownIsEnough
    <3> QED BY <2>0, <2>6, <3>1 DEF Reserve, HeapInv, RoomForAll, TypeOK
  <2>7. CASE Lost \/ UNCHANGED vars
        BY <2>0, <2>7 DEF Lost, vars, HeapInv, RoomForAll, TypeOK
  <2> QED BY <2>1, <2>2, <2>3, <2>4, <2>5, <2>6, <2>7 DEF Next
<1> QED BY <1>1, <1>2, PTL DEF Spec

-----------------------------------------------------------------------------
(***************************************************************************)
(* The positions.  While an event is sifted one slot is a hole: those of   *)
(* the others hold the events of a set M, which remember them, and nobody  *)
(* besides M and X remembers a slot.                                       *)
(***************************************************************************)

Tracks(h, hole, M, X) ==
  /\ M \subseteq Events
  /\ \A i \in 0 .. h.n - 1 : i # hole => h.at[i] \in M /\ h.idx[h.at[i]] = i
  /\ \A x \in M : \E i \in 0 .. h.n - 1 : i # hole /\ h.at[i] = x
  /\ \A x \in Events : h.idx[x] # Absent => x \in M \cup X

\* The hole moves to the slot of an event, which moves to the hole.
LEMMA MoveTracks ==
  ASSUME NEW h \in Heaps, NEW M, NEW X,
         NEW hole \in 0 .. h.n - 1, NEW new \in 0 .. h.n - 1,
         Tracks(h, hole, M, X),
         new = hole => h.at[new] \in Events \cap (X \ M)
  PROVE  Tracks(Place(h, hole, h.at[new]), new, M, X)
<1> DEFINE x == h.at[new]
           g == Place(h, hole, x)
<1>1. 0 .. h.n - 1 \subseteq Slots /\ h.n \in Nat
      BY HeapFields
<1>2. /\ \A j \in Slots : g.at[j] = IF j = hole THEN x ELSE h.at[j]
      /\ \A y \in Events : g.idx[y] = IF y = x THEN hole ELSE h.idx[y]
      /\ g.n = h.n
      BY <1>1, PlaceIs
<1> HIDE DEF g
<1>3. x \in Events /\ (new # hole => x \in M) /\ (new = hole => x \in X \ M)
      BY DEF Tracks
<1>4. ASSUME NEW i \in 0 .. g.n - 1, i # new
      PROVE  g.at[i] \in M /\ g.idx[g.at[i]] = i
  <2>1. CASE i = hole
        BY <1>1, <1>2, <1>3, <1>4, <2>1
  <2>2. CASE i # hole
    <3>1. g.at[i] = h.at[i] /\ h.at[i] \in M /\ h.at[i] \in Events /\ h.idx[h.at[i]] = i
          BY <1>1, <1>2, <2>2 DEF Tracks
    <3>2. h.at[i] # x
          BY <1>2, <1>3, <1>4, <2>2, <3>1 DEF Tracks
    <3> QED BY <1>2, <3>1, <3>2
  <2> QED BY <2>1, <2>2
<1>5. ASSUME NEW y \in M PROVE \E i \in 0 .. g.n - 1 : i # new /\ g.at[i] = y
  <2>1. PICK i \in 0 .. h.n - 1 : i # hole /\ h.at[i] = y
        BY DEF Tracks
  <2>2. CASE i = new
        BY <1>1, <1>2, <2>1, <2>2
  <2>3. CASE i # new
        BY <1>1, <1>2, <2>1, <2>3
  <2> QED BY <2>2, <2>3
<1>6. ASSUME NEW y \in Events, g.idx[y] # Absent PROVE y \in M \cup X
      BY <1>2, <1>3, <1>6 DEF Tracks
<1>7. M \subseteq Events
      BY DEF Tracks
<1> QED BY <1>4, <1>5, <1>6, <1>7 DEF Tracks, g

\* The event goes into the hole, and there is none any more.
LEMMA FillTracks ==
  ASSUME NEW h \in Heaps, NEW M, NEW X, NEW hole \in 0 .. h.n - 1,
         Tracks(h, hole, M, X), NEW e \in Events, e \in X \ M
  PROVE  Tracks(Place(h, hole, e), Absent, M \cup {e}, X)
<1> DEFINE g == Place(h, hole, e)
<1>1. 0 .. h.n - 1 \subseteq Slots /\ h.n \in Nat
      BY HeapFields
<1>2. /\ \A j \in Slots : g.at[j] = IF j = hole THEN e ELSE h.at[j]
      /\ \A y \in Events : g.idx[y] = IF y = e THEN hole ELSE h.idx[y]
      /\ g.n = h.n
      BY <1>1, PlaceIs
<1> HIDE DEF g
<1>3. ASSUME NEW i \in 0 .. g.n - 1
      PROVE  g.at[i] \in M \cup {e} /\ g.idx[g.at[i]] = i
  <2>1. CASE i = hole
        BY <1>1, <1>2, <2>1
  <2>2. CASE i # hole
    <3>1. g.at[i] = h.at[i] /\ h.at[i] \in M /\ h.at[i] \in Events /\ h.idx[h.at[i]] = i
          BY <1>1, <1>2, <2>2 DEF Tracks
    <3> QED BY <1>2, <3>1
  <2> QED BY <2>1, <2>2
<1>4. ASSUME NEW y \in M \cup {e}
      PROVE  \E i \in 0 .. g.n - 1 : i # Absent /\ g.at[i] = y
  <2>1. CASE y = e
        BY <1>1, <1>2, <2>1 DEF Absent
  <2>2. CASE y # e
    <3>1. PICK i \in 0 .. h.n - 1 : i # hole /\ h.at[i] = y
          BY <2>2 DEF Tracks
    <3> QED BY <1>1, <1>2, <3>1 DEF Absent
  <2> QED BY <2>1, <2>2
<1>5. ASSUME NEW y \in Events, g.idx[y] # Absent PROVE y \in (M \cup {e}) \cup X
      BY <1>2, <1>5 DEF Tracks
<1>6. M \cup {e} \subseteq Events
      BY DEF Tracks
<1> QED BY <1>3, <1>4, <1>5, <1>6 DEF Tracks, g

LEMMA ForgetTracks ==
  ASSUME NEW h \in Heaps, NEW M, NEW X, Tracks(h, Absent, M, X),
         NEW e \in Events, e \notin M
  PROVE  Tracks([h EXCEPT !.idx[e] = Absent], Absent, M, X \ {e})
<1> DEFINE g == [h EXCEPT !.idx[e] = Absent]
<1>1. g.at = h.at /\ g.n = h.n /\ g.idx = [h.idx EXCEPT ![e] = Absent]
      BY ForgetType
<1> HIDE DEF g
<1>2. \A y \in Events : g.idx[y] = IF y = e THEN Absent ELSE h.idx[y]
      BY <1>1, HeapFields
<1>3. ASSUME NEW i \in 0 .. g.n - 1, i # Absent
      PROVE  g.at[i] \in M /\ g.idx[g.at[i]] = i
      BY <1>1, <1>2, <1>3 DEF Tracks
<1>4. ASSUME NEW y \in M PROVE \E i \in 0 .. g.n - 1 : i # Absent /\ g.at[i] = y
      BY <1>1 DEF Tracks
<1>5. ASSUME NEW y \in Events, g.idx[y] # Absent PROVE y \in M \cup (X \ {e})
      BY <1>2, <1>5 DEF Tracks
<1>6. M \subseteq Events
      BY DEF Tracks
<1> QED BY <1>3, <1>4, <1>5, <1>6 DEF Tracks, g

LEMMA RisingTracks ==
  ASSUME NEW h \in Heaps, NEW M, NEW X, NEW hole \in 0 .. h.n - 1,
         Tracks(h, hole, M, X), NEW e \in Events
  PROVE  \A k \in Nat : LET s == Rising(h, hole, e)[k]
                        IN s.hole \in 0 .. h.n - 1 /\ Tracks(s.heap, s.hole, M, X)
<1> DEFINE r == Rising(h, hole, e)
           Keeps(s) == s.hole \in 0 .. h.n - 1 /\ Tracks(s.heap, s.hole, M, X)
           Good == {k \in Nat : Keeps(r[k])}
<1>0. hole \in Slots
      BY HeapFields
<1>1. /\ \A k \in Nat : r[k] \in Rises /\ Alike(r[k].heap, h)
      /\ r[0] = [heap |-> h, hole |-> hole]
      /\ \A k \in Nat : r[k + 1] = Rise(r[k], e)
      BY <1>0, RisingLoop, RisingAlike
<1> HIDE DEF r
<1>2. 0 \in Good
      BY <1>1
<1>3. ASSUME NEW k \in Nat, k \in Good PROVE k + 1 \in Good
  <2> DEFINE s == r[k]
             up == Parent(s.hole)
  <2>1. Keeps(s) /\ s.heap \in Heaps /\ s.heap.n = h.n
        BY <1>1, <1>3 DEF Rises, Alike
  <2> HIDE DEF s
  <2>2. CASE s.hole > 0 /\ Later(s.heap, up, e)
    <3>1. up \in 0 .. h.n - 1 /\ up # s.hole
          BY <2>1, <2>2, ParentSlot, HeapFields
    <3> HIDE DEF up
    <3>2. Tracks(Place(s.heap, s.hole, s.heap.at[up]), up, M, X)
          BY <2>1, <3>1, MoveTracks
    <3>3. Rise(s, e) = [heap |-> Place(s.heap, s.hole, s.heap.at[up]), hole |-> up]
          BY <2>2 DEF Rise, up
    <3>4. Keeps(Rise(s, e))
          BY <3>1, <3>2, <3>3
    <3> QED BY <1>1, <3>4 DEF s
  <2>3. CASE ~(s.hole > 0 /\ Later(s.heap, up, e))
    <3>1. Rise(s, e) = s
          BY <2>3 DEF Rise
    <3> QED BY <1>1, <2>1, <3>1 DEF s
  <2> QED BY <2>2, <2>3
<1> HIDE DEF Good
<1>4. Nat \subseteq Good
      BY <1>2, <1>3, Induction
<1> QED BY <1>4 DEF Good, r

\* Only in its first turn the sift down may look at its own hole, the root: what
\* the code left there is no event of M.
LEMMA SinkingTracks ==
  ASSUME NEW h \in Heaps, NEW M, NEW X, NEW hole \in 0 .. h.n - 1,
         Tracks(h, hole, M, X), h.at[hole] \in Events \cap (X \ M), NEW e \in Events
  PROVE  \A k \in Nat : LET s == Sinking(h, hole, e)[k]
                        IN s.hole \in 0 .. h.n - 1 /\ Tracks(s.heap, s.hole, M, X)
<1> DEFINE r == Sinking(h, hole, e)
           Keeps(s) ==
             /\ s.hole \in 0 .. h.n - 1 /\ Tracks(s.heap, s.hole, M, X)
             /\ s.hole <= s.child - 1
             /\ s.hole = s.child - 1 => s.heap.at[s.hole] \in Events \cap (X \ M)
           Good == {k \in Nat : Keeps(r[k])}
<1>0. hole \in Slots /\ hole \in Nat
      BY HeapFields
<1>1. /\ \A k \in Nat : r[k] \in Sinks /\ Alike(r[k].heap, h)
      /\ r[0] = [heap |-> h, hole |-> hole, child |-> 2 * hole + 1]
      /\ \A k \in Nat : r[k + 1] = Sink(r[k], e)
      BY <1>0, SinkingLoop, SinkingAlike
<1> HIDE DEF r
<1>2. 0 \in Good
      BY <1>0, <1>1
<1>3. ASSUME NEW k \in Nat, k \in Good PROVE k + 1 \in Good
  <2> DEFINE s == r[k]
             new == Least(s)
  <2>1. Keeps(s) /\ s \in Sinks /\ s.heap \in Heaps /\ s.heap.n = h.n /\ s.child \in Nat
        BY <1>1, <1>3 DEF Sinks, Alike
  <2> HIDE DEF s
  <2>2. CASE s.child < s.heap.n /\ s.heap.due[e] > s.heap.due[s.heap.at[Least(s)]]
    <3>1. /\ new \in 0 .. h.n - 1 /\ new \in Nat
          /\ new = s.hole => s.heap.at[new] \in Events \cap (X \ M)
          BY <2>1, <2>2, LeastSlot, HeapFields
    <3>2. Sink(s, e) = [heap |-> Place(s.heap, s.hole, s.heap.at[new]),
                        hole |-> new, child |-> 2 * (new + 1)]
          BY <2>2, SinkIs
    <3> HIDE DEF new
    <3>3. Tracks(Place(s.heap, s.hole, s.heap.at[new]), new, M, X)
          BY <2>1, <3>1, MoveTracks
    <3>4. new < 2 * (new + 1) - 1
          BY <3>1
    <3>5. Keeps(Sink(s, e))
          BY <3>1, <3>2, <3>3, <3>4
    <3> QED BY <1>1, <3>5 DEF s
  <2>3. CASE ~(s.child < s.heap.n /\ s.heap.due[e] > s.heap.due[s.heap.at[Least(s)]])
    <3>1. Sink(s, e) = s
          BY <2>3, SinkIs
    <3> QED BY <1>1, <2>1, <3>1 DEF s
  <2> QED BY <2>2, <2>3
<1> HIDE DEF Good
<1>4. Nat \subseteq Good
      BY <1>2, <1>3, Induction
<1> QED BY <1>4 DEF Good, r

LEMMA ShiftUpTracks ==
  ASSUME NEW h \in Heaps, NEW M, NEW X, NEW hole \in 0 .. h.n - 1,
         Tracks(h, hole, M, X), NEW e \in Events, e \in X \ M
  PROVE  Tracks(ShiftUp(h, hole, e), Absent, M \cup {e}, X)
<1> DEFINE end == Rising(h, hole, e)[h.n]
<1>1. h.n \in Nat /\ hole \in Slots
      BY HeapFields
<1>2. end \in Rises
      BY <1>1, RisingLoop
<1>3. Alike(end.heap, h)
      BY <1>1, RisingAlike
<1>4. end.hole \in 0 .. h.n - 1 /\ Tracks(end.heap, end.hole, M, X)
      BY <1>1, RisingTracks
<1>5. ShiftUp(h, hole, e) = Place(end.heap, end.hole, e)
      BY DEF ShiftUp
<1> HIDE DEF end
<1>6. end.heap \in Heaps /\ end.heap.n = h.n
      BY <1>2, <1>3 DEF Rises, Alike
<1> QED BY <1>4, <1>5, <1>6, FillTracks

LEMMA ShiftDownTracks ==
  ASSUME NEW h \in Heaps, NEW M, NEW X, NEW hole \in 0 .. h.n - 1,
         Tracks(h, hole, M, X), h.at[hole] \in Events \cap (X \ M),
         NEW e \in Events, e \in X \ M
  PROVE  Tracks(ShiftDown(h, hole, e), Absent, M \cup {e}, X)
<1> DEFINE end == Sinking(h, hole, e)[h.n]
<1>1. h.n \in Nat /\ hole \in Slots
      BY HeapFields
<1>2. end \in Sinks
      BY <1>1, SinkingLoop
<1>3. Alike(end.heap, h)
      BY <1>1, SinkingAlike
<1>4. end.hole \in 0 .. h.n - 1 /\ Tracks(end.heap, end.hole, M, X)
      BY <1>1, SinkingTracks
<1>5. ShiftDown(h, hole, e) = Place(end.heap, end.hole, e)
      BY DEF ShiftDown
<1> HIDE DEF end
<1>6. end.heap \in Heaps /\ end.heap.n = h.n
      BY <1>2, <1>3 DEF Sinks, Alike
<1> QED BY <1>4, <1>5, <1>6, FillTracks

LEMMA SettleTracks ==
  ASSUME NEW h \in Heaps, NEW M, NEW X, NEW hole \in 0 .. h.n - 1,
         Tracks(h, hole, M, X), h.at[hole] \in Events \cap (X \ M),
         NEW e \in Events, e \in X \ M
  PROVE  Tracks(Settle(h, hole, e), Absent, M \cup {e}, X)
<1>1. CASE hole > 0 /\ Later(h, Parent(hole), e)
  <2> DEFINE up == Parent(hole)
             g == Place(h, hole, h.at[up])
  <2>1. up \in 0 .. h.n - 1 /\ up # hole /\ hole \in Slots /\ up \in Slots
        BY <1>1, ParentSlot, HeapFields
  <2>2. Settle(h, hole, e) = ShiftUp(g, up, e)
        BY <1>1 DEF Settle, ShiftUpUnconditional
  <2>3. h.at[up] \in Events \cup {None}
        BY <2>1, HeapFields
  <2> HIDE DEF up
  <2>4. Tracks(g, up, M, X)
        BY <2>1, MoveTracks
  <2>5. g \in Heaps /\ g.n = h.n
        BY <2>1, <2>3, PlaceType, PlaceIs
  <2> HIDE DEF g
  <2> QED BY <2>1, <2>2, <2>4, <2>5, ShiftUpTracks
<1>2. CASE ~(hole > 0 /\ Later(h, Parent(hole), e))
      BY <1>2, ShiftDownTracks DEF Settle
<1> QED BY <1>1, <1>2

\* From behind the last element nothing is sifted down.
LEMMA ShiftDownBehind ==
  ASSUME NEW h \in Heaps, NEW hole \in Slots, h.n <= hole, NEW e \in Events
  PROVE  ShiftDown(h, hole, e) = Place(h, hole, e)
<1> DEFINE r == Sinking(h, hole, e)
           start == [heap |-> h, hole |-> hole, child |-> 2 * hole + 1]
           Good == {k \in Nat : r[k] = start}
<1>1. r[0] = start /\ \A k \in Nat : r[k + 1] = Sink(r[k], e)
      BY SinkingLoop
<1>2. h.n \in Nat /\ hole \in Nat
      BY HeapFields, EventsCounted DEF Slots
<1> HIDE DEF r
<1>3. Sink(start, e) = start
      BY <1>2 DEF Sink
<1>4. 0 \in Good /\ \A k \in Nat : k \in Good => k + 1 \in Good
      BY <1>1, <1>3
<1> HIDE DEF Good
<1>5. Nat \subseteq Good
      BY <1>4, Induction
<1>6. r[h.n] = start
      BY <1>2, <1>5 DEF Good
<1> QED BY <1>6 DEF ShiftDown, r

-----------------------------------------------------------------------------
(***************************************************************************)
(* The calls keep the positions.                                           *)
(***************************************************************************)

LEMMA BecomesTracks ==
  ASSUME NEW h \in Heaps, NEW M, NEW X, Tracks(h, Absent, M, X), X \subseteq M,
         Becomes(h)
  PROVE  Consistent' /\ Members' = M
<1>1. \A i \in 0 .. h.n - 1 : i \in Slots /\ i # Absent /\ i < h.n
      BY HeapFields DEF Absent
<1>2. n' = h.n /\ min_heap_idx' = h.idx
      BY DEF Becomes
<1>3. \A i \in 0 .. h.n - 1 : elements'[i] = h.at[i]
      BY <1>1 DEF Becomes
<1>4. \A i \in 0 .. n' - 1 :
        elements'[i] \in M /\ min_heap_idx'[elements'[i]] = i
      BY <1>1, <1>2, <1>3 DEF Tracks
<1>5. \A x \in M : \E i \in 0 .. n' - 1 : elements'[i] = x
      BY <1>1, <1>2, <1>3 DEF Tracks
<1>6. Members' = {elements'[i] : i \in 0 .. n' - 1}
      BY DEF Members
<1>7. Members' = M
      BY <1>4, <1>5, <1>6
<1>8. M \subseteq Events /\ \A x \in Events : min_heap_idx'[x] # Absent => x \in M
      BY <1>2 DEF Tracks
<1> QED BY <1>4, <1>7, <1>8 DEF Consistent

LEMMA MembersAre ==
  ASSUME TypeOK, Consistent
  PROVE  /\ Members \subseteq Events
         /\ \A e \in Members : min_heap_idx[e] \in 0 .. n - 1 /\ elements[min_heap_idx[e]] = e
         /\ \A e \in Events : min_heap_idx[e] # Absent => e \in Members
         /\ \A i \in 0 .. n - 1 : elements[i] \in Members /\ min_heap_idx[elements[i]] = i
BY DEF Members, Consistent

PushHeap(e, t) == [Heap([ev_timeout EXCEPT ![e] = t]) EXCEPT !.n = n + 1]

LEMMA PushStarts ==
  ASSUME TypeOK, NEW e \in Events, NEW t \in Timeouts, Push(e, t)
  PROVE  /\ PushHeap(e, t) \in Heaps /\ PushHeap(e, t).n = n + 1
         /\ PushHeap(e, t).at = elements
         /\ PushHeap(e, t).due = [ev_timeout EXCEPT ![e] = t]
         /\ n \in 0 .. PushHeap(e, t).n - 1 /\ n \in Slots /\ n \in Nat
         /\ Tracks(PushHeap(e, t), n, Members, {e}) /\ e \notin Members
         /\ Becomes(ShiftUp(PushHeap(e, t), n, e)) /\ Consistent
<1> DEFINE due == [ev_timeout EXCEPT ![e] = t]
           h == [Heap(due) EXCEPT !.n = n + 1]
<1>1. n < Cardinality(Events) /\ n \in Slots /\ n \in Nat
      BY RoomForOneMore DEF Push, TypeOK
<1>2. due \in [Events -> Timeouts] /\ n + 1 \in 0 .. Cardinality(Events)
      BY <1>1, EventsCounted DEF TypeOK
<1>3. Becomes(ShiftUp(h, n, e)) /\ Consistent /\ min_heap_idx[e] = Absent
      BY DEF Push
<1> HIDE DEF due
<1>4. /\ h \in Heaps /\ h.n = n + 1 /\ h.at = elements /\ h.idx = min_heap_idx
      /\ h.due = due
      BY <1>2, HeapType
<1> HIDE DEF h
<1>5. e \notin Members
      BY <1>1, <1>3, MembersAre DEF Absent
<1>6. Tracks(h, n, Members, {e})
      BY <1>1, <1>3, <1>4, MembersAre DEF Tracks
<1>7. n \in 0 .. h.n - 1
      BY <1>1, <1>4
<1>8. PushHeap(e, t) = h
      BY DEF PushHeap, h, due
<1>9. due = [ev_timeout EXCEPT ![e] = t]
      BY DEF due
<1> QED BY <1>1, <1>3, <1>4, <1>5, <1>6, <1>7, <1>8, <1>9

LEMMA PushTracks ==
  ASSUME TypeOK, NEW e \in Events, NEW t \in Timeouts, Push(e, t)
  PROVE  Consistent' /\ Members' = Members \cup {e}
<1> DEFINE h == PushHeap(e, t)
<1>1. /\ h \in Heaps /\ n \in 0 .. h.n - 1 /\ n \in Slots
      /\ Tracks(h, n, Members, {e}) /\ e \notin Members
      /\ Becomes(ShiftUp(h, n, e))
      BY PushStarts
<1> HIDE DEF h
<1>2. Tracks(ShiftUp(h, n, e), Absent, Members \cup {e}, {e})
      BY <1>1, ShiftUpTracks
<1>3. ShiftUp(h, n, e) \in Heaps
      BY <1>1, ShiftUpType
<1> QED BY <1>1, <1>2, <1>3, BecomesTracks

AdjustHeap(e, t) == Heap([ev_timeout EXCEPT ![e] = t])

LEMMA AdjustStarts ==
  ASSUME TypeOK, NEW e \in Events, NEW t \in Timeouts, Adjust(e, t)
  PROVE  /\ AdjustHeap(e, t) \in Heaps /\ AdjustHeap(e, t).n = n
         /\ AdjustHeap(e, t).at = elements
         /\ AdjustHeap(e, t).due = [ev_timeout EXCEPT ![e] = t]
         /\ min_heap_idx[e] \in 0 .. AdjustHeap(e, t).n - 1
         /\ min_heap_idx[e] \in Slots /\ elements[min_heap_idx[e]] = e
         /\ Tracks(AdjustHeap(e, t), min_heap_idx[e], Members \ {e}, {e})
         /\ e \in Members
         /\ Becomes(Settle(AdjustHeap(e, t), min_heap_idx[e], e)) /\ Consistent
<1> DEFINE due == [ev_timeout EXCEPT ![e] = t]
           h == Heap(due)
           hole == min_heap_idx[e]
<1>1. due \in [Events -> Timeouts] /\ hole \in Slots
      BY DEF TypeOK, Adjust
<1>2. Becomes(Settle(h, hole, e)) /\ Consistent /\ hole # Absent
      BY DEF Adjust
<1>3. e \in Members /\ hole \in 0 .. n - 1 /\ elements[hole] = e
      BY <1>2, MembersAre
<1>4. due = [ev_timeout EXCEPT ![e] = t]
      OBVIOUS
<1> HIDE DEF due
<1>5. /\ h \in Heaps /\ h.n = n /\ h.at = elements /\ h.idx = min_heap_idx
      /\ h.due = due
  <2>1. n \in 0 .. Cardinality(Events)
        BY DEF TypeOK
  <2>2. h \in Heaps
        BY <1>1, <2>1, HeapType
  <2> QED BY <2>2 DEF Heap
<1> HIDE DEF h
<1>6. Tracks(h, hole, Members \ {e}, {e})
      BY <1>2, <1>3, <1>5, MembersAre DEF Tracks
<1>7. AdjustHeap(e, t) = h
      BY DEF AdjustHeap, h, due
<1> QED BY <1>1, <1>2, <1>3, <1>4, <1>5, <1>6, <1>7

LEMMA AdjustTracks ==
  ASSUME TypeOK, NEW e \in Events, NEW t \in Timeouts, Adjust(e, t)
  PROVE  Consistent' /\ Members' = Members
<1> DEFINE h == AdjustHeap(e, t)
           hole == min_heap_idx[e]
<1>1. /\ h \in Heaps /\ hole \in 0 .. h.n - 1 /\ hole \in Slots
      /\ h.at = elements /\ elements[hole] = e /\ e \in Members
      /\ Tracks(h, hole, Members \ {e}, {e})
      /\ Becomes(Settle(h, hole, e))
      BY AdjustStarts
<1> HIDE DEF h, hole
<1>2. h.at[hole] \in Events \cap ({e} \ (Members \ {e}))
      BY <1>1
<1>3. Settle(h, hole, e) \in Heaps
      BY <1>1, SettleType
<1>4. Tracks(Settle(h, hole, e), Absent, (Members \ {e}) \cup {e}, {e})
      BY <1>1, <1>2, SettleTracks
<1>5. (Members \ {e}) \cup {e} = Members
      BY <1>1
<1> QED BY <1>1, <1>3, <1>4, <1>5, BecomesTracks

\* The last element is to take the slot of another, which goes.
Shrunk == [Heap(ev_timeout) EXCEPT !.n = n - 1]

LEMMA RemovalStarts ==
  ASSUME TypeOK, Consistent, NEW e \in Members
  PROVE  LET last == elements[n - 1]
         IN /\ n \in Nat /\ n > 0
            /\ Shrunk \in Heaps /\ Shrunk.n = n - 1 /\ Shrunk.at = elements
            /\ Shrunk.due = ev_timeout /\ ev_timeout \in [Events -> Timeouts]
            /\ Members \subseteq Events /\ last \in Members /\ min_heap_idx[last] = n - 1
            /\ min_heap_idx[e] \in 0 .. n - 1 /\ min_heap_idx[e] \in Slots
            /\ elements[min_heap_idx[e]] = e
            /\ Tracks(Shrunk, min_heap_idx[e], Members \ {e, last}, {e, last})
<1> DEFINE h == Shrunk
           hole == min_heap_idx[e]
           last == elements[n - 1]
           M == Members \ {e, last}
<1>1. hole \in 0 .. n - 1 /\ elements[hole] = e /\ Members \subseteq Events
      BY MembersAre
<1>2. /\ n \in Nat /\ n > 0 /\ n - 1 \in 0 .. Cardinality(Events)
      /\ ev_timeout \in [Events -> Timeouts]
      BY <1>1, EventsCounted DEF TypeOK
<1>3. hole \in Slots
      BY <1>1, <1>2, EventsCounted DEF TypeOK, Slots
<1>4. /\ h \in Heaps /\ h.n = n - 1 /\ h.at = elements /\ h.idx = min_heap_idx
      /\ h.due = ev_timeout
      BY <1>2, HeapType DEF Shrunk
<1>5. last \in Members /\ min_heap_idx[last] = n - 1
      BY <1>2, MembersAre
<1> HIDE DEF h, hole
<1>6. \A i \in 0 .. h.n - 1 : i # hole => h.at[i] \in M /\ h.idx[h.at[i]] = i
      BY <1>1, <1>2, <1>4, <1>5, MembersAre DEF hole
<1>7. ASSUME NEW x \in M PROVE \E i \in 0 .. h.n - 1 : i # hole /\ h.at[i] = x
  <2>1. min_heap_idx[x] \in 0 .. n - 1 /\ elements[min_heap_idx[x]] = x
        BY MembersAre
  <2>2. min_heap_idx[x] # hole /\ min_heap_idx[x] # n - 1
        BY <1>1, <2>1
  <2> QED BY <1>2, <1>4, <2>1, <2>2
<1>8. \A x \in Events : h.idx[x] # Absent => x \in M \cup {e, last}
      BY <1>4, MembersAre
<1>9. Tracks(h, hole, M, {e, last})
      BY <1>1, <1>6, <1>7, <1>8 DEF Tracks
<1> QED BY <1>1, <1>2, <1>3, <1>4, <1>5, <1>9 DEF h, hole

\* With one element the top is the last, and the heap is empty afterwards.
LEMMA PopTracks ==
  ASSUME TypeOK, Pop
  PROVE  Consistent' /\ Members' = Members \ {elements[0]} /\ popped' = elements[0]
<1> DEFINE h == Shrunk
           top == elements[0]
           last == elements[n - 1]
           rest == ShiftDown(h, 0, last)
           M == Members \ {top, last}
<1>1. n \in Nat /\ n > 0 /\ 0 \in 0 .. n - 1
      BY DEF TypeOK, Pop
<1>2. /\ Becomes([rest EXCEPT !.idx[top] = Absent])
      /\ Consistent /\ popped' = top
      BY DEF Pop, Shrunk
<1>3. top \in Members /\ min_heap_idx[top] = 0
      BY <1>1, <1>2, MembersAre
<1>4. /\ h \in Heaps /\ h.n = n - 1 /\ h.at = elements /\ 0 \in Slots
      /\ last \in Members /\ min_heap_idx[last] = n - 1
      /\ Members \subseteq Events
      /\ Tracks(h, 0, M, {top, last})
      BY <1>2, <1>3, RemovalStarts
<1> HIDE DEF h
<1>5. rest \in Heaps /\ rest.n = h.n
      BY <1>3, <1>4, ShiftDownType DEF Alike
<1>6. Tracks(h, 0, M, {top, last})
      BY <1>4
<1>7. Tracks(rest, Absent, Members \ {top}, {top})
  <2>1. CASE n = 1
    <3>1. top = last /\ h.n = 0 /\ h.n <= 0
          BY <1>4, <2>1
    <3>2. rest = Place(h, 0, last)
          BY <1>1, <1>3, <1>4, <3>1, ShiftDownBehind
    <3>3. /\ \A y \in Events : rest.idx[y] = IF y = last THEN 0 ELSE h.idx[y]
          /\ rest.n = h.n
          BY <1>4, <3>2, PlaceIs
    <3>4. M = {} /\ Members = {top}
          BY <1>2, <1>3, <1>4, <2>1, <3>1, MembersAre
    <3> QED BY <1>6, <3>1, <3>3, <3>4 DEF Tracks
  <2>2. CASE n # 1
    <3>1. 0 \in 0 .. h.n - 1 /\ top # last
          BY <1>1, <1>3, <1>4, <2>2
    <3>2. h.at[0] \in Events \cap ({top, last} \ M) /\ last \in {top, last} \ M /\ last \in Events
          BY <1>3, <1>4
    <3> HIDE DEF top, last, M
    <3>3. Tracks(rest, Absent, M \cup {last}, {top, last})
          BY <1>4, <1>6, <3>1, <3>2, ShiftDownTracks
    <3>4. M \cup {last} = Members \ {top}
          BY <1>3, <1>4, <3>1 DEF M
    <3> QED BY <3>1, <3>3, <3>4, <1>4 DEF Tracks
  <2> QED BY <2>1, <2>2
<1> HIDE DEF rest, top
<1>8. Tracks([rest EXCEPT !.idx[top] = Absent], Absent, Members \ {top}, {top} \ {top})
      BY <1>3, <1>4, <1>5, <1>7, ForgetTracks
<1>9. [rest EXCEPT !.idx[top] = Absent] \in Heaps
      BY <1>3, <1>4, <1>5, ForgetType
<1>10. {top} \ {top} \subseteq Members \ {top}
      OBVIOUS
<1>11. Consistent' /\ Members' = Members \ {top}
      BY <1>2, <1>8, <1>9, <1>10, BecomesTracks
<1> QED BY <1>2, <1>11 DEF top

\* In a heap that is in order the last element is not due before its parent: when
\* it is erased it goes behind the end, and stays there.
LEMMA EraseTracks ==
  ASSUME TypeOK, Ordered, NEW e \in Events, Erase(e)
  PROVE  Consistent' /\ Members' = Members \ {e}
<1> DEFINE h == Shrunk
           hole == min_heap_idx[e]
           last == elements[n - 1]
           rest == Settle(h, hole, last)
           M == Members \ {e, last}
<1>1. Becomes([rest EXCEPT !.idx[e] = Absent]) /\ Consistent /\ hole # Absent
      BY DEF Erase, Shrunk
<1>2. e \in Members
      BY <1>1, MembersAre
<1>3. /\ n \in Nat /\ n > 0 /\ hole \in Slots /\ hole \in 0 .. n - 1
      /\ elements[hole] = e /\ ev_timeout \in [Events -> Timeouts]
      BY <1>1, <1>2, RemovalStarts
<1>4. h \in Heaps /\ h.n = n - 1 /\ h.at = elements /\ h.due = ev_timeout
      BY <1>1, <1>2, RemovalStarts
<1>5. last \in Members /\ min_heap_idx[last] = n - 1 /\ Members \subseteq Events
      BY <1>1, <1>2, RemovalStarts
<1>7. Tracks(h, hole, M, {e, last})
      BY <1>1, <1>2, RemovalStarts
<1> HIDE DEF h, hole
<1>6. rest \in Heaps /\ rest.n = h.n
      BY <1>3, <1>4, <1>5, SettleType DEF Alike
<1>8. Tracks(rest, Absent, Members \ {e}, {e})
  <2>1. CASE e = last
    <3>1. hole = n - 1 /\ h.n <= hole /\ hole \in Nat
          BY <1>2, <1>3, <1>4, <1>5, <2>1 DEF hole
    <3>2. ~(hole > 0 /\ Later(h, Parent(hole), last))
      <4> SUFFICES ASSUME hole > 0 PROVE ~Later(h, Parent(hole), last)
          OBVIOUS
      <4>1. ev_timeout[elements[Parent(hole)]] <= ev_timeout[elements[hole]]
            BY <1>3, <3>1 DEF Ordered
      <4>2. Parent(hole) \in 0 .. n - 1
            BY <1>3, <3>1, ParentSlot
      <4>3. elements[Parent(hole)] \in Events /\ elements[hole] = last
            BY <1>1, <1>3, <1>5, <2>1, <4>2, MembersAre
      <4>4. /\ ev_timeout[elements[Parent(hole)]] \in Int
            /\ ev_timeout[last] \in Int
            BY <1>3, <1>5, <4>3, HeapAssumption
      <4> QED BY <1>4, <4>1, <4>3, <4>4 DEF Later
    <3>3. rest = Place(h, hole, last)
          BY <1>3, <1>4, <1>5, <3>1, <3>2, ShiftDownBehind DEF Settle
    <3>4. /\ \A j \in Slots : rest.at[j] = IF j = hole THEN last ELSE h.at[j]
          /\ \A y \in Events : rest.idx[y] = IF y = last THEN hole ELSE h.idx[y]
          /\ rest.n = h.n
          BY <1>3, <1>4, <3>3, PlaceIs
    <3>5. M = Members \ {e}
          BY <2>1
    <3>6. \A i \in 0 .. h.n - 1 : i # hole /\ i # Absent /\ i \in Slots
          BY <1>3, <1>4, <3>1, HeapFields DEF Absent
    <3> HIDE DEF rest
    <3> QED BY <1>5, <1>7, <2>1, <3>4, <3>5, <3>6 DEF Tracks
  <2>2. CASE e # last
    <3>1. hole \in 0 .. h.n - 1
          BY <1>2, <1>3, <1>4, <2>2
    <3>2. /\ h.at[hole] \in Events \cap ({e, last} \ M)
          /\ last \in {e, last} \ M /\ last \in Events
          BY <1>2, <1>3, <1>4, <1>5
    <3> HIDE DEF last, M
    <3>3. Tracks(rest, Absent, M \cup {last}, {e, last})
          BY <1>4, <1>7, <3>1, <3>2, SettleTracks
    <3>4. M \cup {last} = Members \ {e}
          BY <1>5, <2>2 DEF M
    <3> QED BY <2>2, <3>3, <3>4, <1>5 DEF Tracks
  <2> QED BY <2>1, <2>2
<1> HIDE DEF rest
<1>9. Tracks([rest EXCEPT !.idx[e] = Absent], Absent, Members \ {e}, {e} \ {e})
      BY <1>6, <1>8, ForgetTracks
<1>10. [rest EXCEPT !.idx[e] = Absent] \in Heaps
      BY <1>6, ForgetType
<1>11. {e} \ {e} \subseteq Members \ {e}
      OBVIOUS
<1> QED BY <1>1, <1>9, <1>10, <1>11, BecomesTracks

(* However many events there are: as long as the heap is in order, no      *)
(* branch of a call makes an event remember a slot it is not in, and only  *)
(* the event of the call comes or goes (lu_min_heap_push_, _pop_, _erase_, *)
(* _adjust_ and the three sifts).                                          *)
THEOREM PositionsAgree == Spec => KeepsTrack
<1> DEFINE Kept ==
      Ordered /\ Consistent =>
        /\ Consistent'
        /\ \A e \in Events : Erase(e) => Members' = Members \ {e}
        /\ Pop => Members' = Members \ {popped'}
        /\ \A e \in Events, t \in Timeouts :
             /\ Push(e, t) => Members' = Members \cup {e}
             /\ Adjust(e, t) => Members' = Members
<1>1. HeapInv /\ [Next]_vars => [Kept]_vars
  <2> SUFFICES ASSUME TypeOK, Next, Ordered, Consistent PROVE Kept
      BY DEF HeapInv
  <2>1. ASSUME NEW e \in Events, Erase(e)
        PROVE  Consistent' /\ Members' = Members \ {e}
        BY <2>1, EraseTracks
  <2>2. ASSUME Pop PROVE Consistent' /\ Members' = Members \ {popped'}
        BY <2>2, PopTracks
  <2>3. ASSUME NEW e \in Events, NEW t \in Timeouts, Push(e, t)
        PROVE  Consistent' /\ Members' = Members \cup {e}
        BY <2>3, PushTracks
  <2>4. ASSUME NEW e \in Events, NEW t \in Timeouts, Adjust(e, t)
        PROVE  Consistent' /\ Members' = Members
        BY <2>4, AdjustTracks
  <2>5. ASSUME NEW e \in Events, NEW t \in Timeouts, PushFails(e, t)
        PROVE  Consistent'
        BY <2>5 DEF PushFails, Consistent, Members
  <2>6. ASSUME Reserve PROVE Consistent'
        BY <2>6 DEF Reserve, Consistent, Members
  <2>7. ~Lost
        BY DEF Lost
  <2>8. Consistent'
        BY <2>1, <2>2, <2>3, <2>4, <2>5, <2>6, <2>7 DEF Next
  <2> QED BY <2>1, <2>2, <2>3, <2>4, <2>8
<1>2. KeepsTrack <=> [][Kept]_vars
      BY DEF KeepsTrack
<1> QED BY <1>1, <1>2, ArrayIsLargeEnough, PTL DEF Spec

-----------------------------------------------------------------------------
(***************************************************************************)
(* The order.  Around the hole it is kept for the event that is sifted:    *)
(* upwards its children are not due before it, downwards its parent is     *)
(* not due after it.                                                       *)
(***************************************************************************)

Due(h, i) == h.due[h.at[i]]
HeapOrdered(h) == \A i \in 1 .. h.n - 1 : Due(h, Parent(i)) <= Due(h, i)

\* The order of all slots but the hole, and that of the slots around it.
OrderAround(h, hole) ==
  /\ \A i \in 1 .. h.n - 1 :
       i # hole /\ Parent(i) # hole => Due(h, Parent(i)) <= Due(h, i)
  /\ hole > 0 => \A i \in 1 .. h.n - 1 :
       Parent(i) = hole => Due(h, Parent(hole)) <= Due(h, i)

OrderUp(h, hole, e) ==
  /\ OrderAround(h, hole)
  /\ \A i \in 1 .. h.n - 1 : Parent(i) = hole => h.due[e] <= Due(h, i)

OrderDown(h, hole, e) ==
  /\ OrderAround(h, hole)
  /\ hole > 0 => Due(h, Parent(hole)) <= h.due[e]

\* Every slot but the hole holds an event.
Filled(h, hole) == \A i \in 0 .. h.n - 1 : i # hole => h.at[i] \in Events

LEMMA Family ==
  ASSUME NEW i \in Nat, i > 0
  PROVE  /\ Parent(i) \in Nat /\ Parent(i) < i
         /\ \A j \in Nat : Parent(i) = j <=> i \in {2 * j + 1, 2 * j + 2}
BY DEF Parent

LEMMA DueIsInt ==
  ASSUME NEW h \in Heaps, NEW hole, Filled(h, hole)
  PROVE  /\ \A i \in 0 .. h.n - 1 : i # hole => Due(h, i) \in Int
         /\ \A e \in Events : h.due[e] \in Int
BY HeapFields, HeapAssumption DEF Filled, Due

\* What the slots are due at when x was put into the hole.
LEMMA DueAfter ==
  ASSUME NEW h \in Heaps, NEW hole \in 0 .. h.n - 1, NEW x
  PROVE  /\ \A i \in 0 .. h.n - 1 :
              Due(Place(h, hole, x), i) = IF i = hole THEN h.due[x] ELSE Due(h, i)
         /\ Place(h, hole, x).n = h.n /\ Place(h, hole, x).due = h.due
<1> DEFINE g == Place(h, hole, x)
<1>1. 0 .. h.n - 1 \subseteq Slots
      BY HeapFields
<1>2. /\ \A j \in Slots : g.at[j] = IF j = hole THEN x ELSE h.at[j]
      /\ g.n = h.n /\ g.due = h.due
      BY <1>1, PlaceIs
<1> HIDE DEF g
<1> QED BY <1>1, <1>2 DEF Due, g

\* The parent of the hole is due after e and moves into it.
LEMMA RiseKeepsOrder ==
  ASSUME NEW h \in Heaps, NEW hole \in 1 .. h.n - 1, NEW e \in Events,
         Filled(h, hole), OrderUp(h, hole, e), Due(h, Parent(hole)) > h.due[e]
  PROVE  OrderUp(Place(h, hole, h.at[Parent(hole)]), Parent(hole), e)
<1> DEFINE up == Parent(hole)
           g == Place(h, hole, h.at[up])
<1>1. h.n \in Nat /\ hole \in Nat /\ up \in 0 .. h.n - 1 /\ up < hole /\ up \in Nat
      BY HeapFields, Family
<1>2. /\ \A i \in 0 .. h.n - 1 : Due(g, i) = IF i = hole THEN Due(h, up) ELSE Due(h, i)
      /\ g.n = h.n /\ g.due = h.due
      BY <1>1, DueAfter DEF Due
<1>3. /\ \A i \in 0 .. h.n - 1 : i # hole => Due(h, i) \in Int
      /\ h.due[e] \in Int
      BY DueIsInt
<1>4. \A i \in 1 .. h.n - 1 : Parent(i) \in 0 .. h.n - 1 /\ Parent(i) < i /\ i \in Nat
      BY <1>1, Family
<1>5. Due(h, up) > h.due[e]
      OBVIOUS
<1> HIDE DEF g
<1>6. ASSUME NEW i \in 1 .. h.n - 1, i # up, Parent(i) # up
      PROVE  Due(g, Parent(i)) <= Due(g, i)
  <2>1. i # hole
        BY <1>6
  <2>2. CASE Parent(i) = hole
        BY <1>1, <1>2, <1>4, <2>1, <2>2 DEF OrderUp, OrderAround
  <2>3. CASE Parent(i) # hole
        BY <1>2, <1>4, <2>1, <2>3 DEF OrderUp, OrderAround
  <2> QED BY <2>2, <2>3
<1>7. ASSUME NEW i \in 1 .. h.n - 1, Parent(i) = up
      PROVE  Due(h, up) <= Due(g, i) /\ h.due[e] <= Due(g, i)
  <2>1. CASE i = hole
        BY <1>1, <1>2, <1>3, <1>5, <2>1
  <2>2. CASE i # hole
    <3>1. Due(h, up) <= Due(h, i) /\ Due(h, i) \in Int /\ Due(g, i) = Due(h, i)
          BY <1>1, <1>2, <1>3, <1>4, <1>7, <2>2 DEF OrderUp, OrderAround
    <3> QED BY <1>1, <1>3, <1>5, <3>1
  <2> QED BY <2>1, <2>2
<1>8. ASSUME up > 0, NEW i \in 1 .. h.n - 1, Parent(i) = up
      PROVE  Due(g, Parent(up)) <= Due(g, i)
  <2>1. up \in 1 .. h.n - 1 /\ Parent(up) < up /\ Parent(up) # hole /\ Parent(up) \in 0 .. h.n - 1
        BY <1>1, <1>4, <1>8
  <2>2. Due(h, Parent(up)) <= Due(h, up)
        BY <1>1, <2>1 DEF OrderUp, OrderAround
  <2>3. Due(g, Parent(up)) = Due(h, Parent(up))
        BY <1>2, <2>1
  <2>4. Due(h, up) <= Due(g, i) /\ Due(g, i) \in Int
        BY <1>1, <1>2, <1>3, <1>7, <1>8
  <2> QED BY <1>1, <1>3, <2>1, <2>2, <2>3, <2>4
<1> HIDE DEF up
<1>9. OrderUp(g, up, e)
      BY <1>2, <1>6, <1>7, <1>8 DEF OrderUp, OrderAround
<1> QED BY <1>9 DEF up, g

\* e goes into the hole when its parent is not due after it.
LEMMA FillFromBelow ==
  ASSUME NEW h \in Heaps, NEW hole \in 0 .. h.n - 1, NEW e \in Events,
         Filled(h, hole), OrderUp(h, hole, e),
         hole > 0 => Due(h, Parent(hole)) <= h.due[e]
  PROVE  HeapOrdered(Place(h, hole, e))
<1> DEFINE g == Place(h, hole, e)
<1>1. /\ \A i \in 0 .. h.n - 1 : Due(g, i) = IF i = hole THEN h.due[e] ELSE Due(h, i)
      /\ g.n = h.n
      BY DueAfter
<1>2. \A i \in 1 .. h.n - 1 : Parent(i) \in 0 .. h.n - 1 /\ Parent(i) < i
      BY HeapFields, Family
<1> HIDE DEF g
<1>3. ASSUME NEW i \in 1 .. h.n - 1 PROVE Due(g, Parent(i)) <= Due(g, i)
  <2>1. CASE i = hole
        BY <1>1, <1>2, <2>1
  <2>2. CASE i # hole /\ Parent(i) = hole
        BY <1>1, <1>2, <2>2 DEF OrderUp
  <2>3. CASE i # hole /\ Parent(i) # hole
        BY <1>1, <1>2, <2>3 DEF OrderUp, OrderAround
  <2> QED BY <2>1, <2>2, <2>3
<1> QED BY <1>1, <1>3 DEF HeapOrdered, g

LEMMA RisingOrder ==
  ASSUME NEW h \in Heaps, NEW M, NEW X, NEW hole \in 0 .. h.n - 1, Tracks(h, hole, M, X),
         NEW e \in Events, OrderUp(h, hole, e)
  PROVE  \A k \in Nat : LET s == Rising(h, hole, e)[k]
                        IN /\ OrderUp(s.heap, s.hole, e)
                           /\ s.hole + k <= hole \/ Rise(s, e) = s
<1> DEFINE r == Rising(h, hole, e)
           Keeps(s, k) == OrderUp(s.heap, s.hole, e)
                          /\ (s.hole + k <= hole \/ Rise(s, e) = s)
           Good == {k \in Nat : Keeps(r[k], k)}
<1>0. hole \in Slots /\ hole \in Nat
      BY HeapFields
<1>1. /\ \A k \in Nat : r[k] \in Rises /\ Alike(r[k].heap, h)
      /\ r[0] = [heap |-> h, hole |-> hole]
      /\ \A k \in Nat : r[k + 1] = Rise(r[k], e)
      BY <1>0, RisingLoop, RisingAlike
<1>2. \A k \in Nat : r[k].hole \in 0 .. h.n - 1 /\ Tracks(r[k].heap, r[k].hole, M, X)
      BY RisingTracks
<1> HIDE DEF r
<1>3. 0 \in Good
      BY <1>0, <1>1
<1>4. ASSUME NEW k \in Nat, k \in Good PROVE k + 1 \in Good
  <2> DEFINE s == r[k]
             up == Parent(s.hole)
  <2>1. /\ Keeps(s, k) /\ s.heap \in Heaps /\ s.heap.n = h.n
        /\ s.hole \in 0 .. h.n - 1 /\ s.hole \in Nat
        /\ Filled(s.heap, s.hole)
    <3>1. Keeps(s, k)
          BY <1>4
    <3>2. s \in Rises /\ Alike(s.heap, h)
          BY <1>1
    <3>3. s.hole \in 0 .. h.n - 1 /\ Tracks(s.heap, s.hole, M, X)
          BY <1>2
    <3> HIDE DEF Keeps, s
    <3>4. s.heap \in Heaps /\ s.heap.n = h.n
          BY <3>2 DEF Rises, Alike
    <3>5. Filled(s.heap, s.hole)
          BY <3>3, <3>4 DEF Filled, Tracks
    <3> QED BY <1>0, <3>1, <3>3, <3>4, <3>5, HeapFields
  <2>2. r[k + 1] = Rise(s, e)
        BY <1>1
  <2> HIDE DEF s
  <2>3. CASE s.hole > 0 /\ Later(s.heap, up, e)
    <3>1. up \in Nat /\ up < s.hole /\ s.hole \in 1 .. s.heap.n - 1
          BY <2>1, <2>3, Family
    <3>2. Due(s.heap, up) > s.heap.due[e]
          BY <2>3 DEF Later, Due
    <3>3. OrderUp(Place(s.heap, s.hole, s.heap.at[up]), up, e)
          BY <2>1, <3>1, <3>2, RiseKeepsOrder
    <3>4. Rise(s, e) = [heap |-> Place(s.heap, s.hole, s.heap.at[up]), hole |-> up]
          BY <2>3 DEF Rise
    <3> HIDE DEF up
    <3>5. Rise(s, e) # s
          BY <3>1, <3>4
    <3>6. up + (k + 1) <= hole
          BY <1>0, <2>1, <3>1, <3>5
    <3> QED BY <2>2, <3>3, <3>4, <3>6
  <2>4. CASE ~(s.hole > 0 /\ Later(s.heap, up, e))
    <3>1. Rise(s, e) = s
          BY <2>4 DEF Rise
    <3> QED BY <2>1, <2>2, <3>1
  <2> QED BY <2>3, <2>4
<1> HIDE DEF Good
<1>5. Nat \subseteq Good
      BY <1>3, <1>4, Induction
<1> QED BY <1>5 DEF Good, r

LEMMA ShiftUpOrder ==
  ASSUME NEW h \in Heaps, NEW M, NEW X, NEW hole \in 0 .. h.n - 1, Tracks(h, hole, M, X),
         NEW e \in Events, OrderUp(h, hole, e)
  PROVE  HeapOrdered(ShiftUp(h, hole, e))
<1> DEFINE end == Rising(h, hole, e)[h.n]
<1>1. h.n \in Nat /\ hole \in Slots
      BY HeapFields
<1>2. end \in Rises /\ Alike(end.heap, h)
      BY <1>1, RisingLoop, RisingAlike
<1>3. end.hole \in 0 .. h.n - 1 /\ Tracks(end.heap, end.hole, M, X)
      BY <1>1, RisingTracks
<1>4. OrderUp(end.heap, end.hole, e) /\ (end.hole + h.n <= hole \/ Rise(end, e) = end)
      BY <1>1, RisingOrder
<1>5. ShiftUp(h, hole, e) = Place(end.heap, end.hole, e)
      BY DEF ShiftUp
<1> HIDE DEF end
<1>6. end.heap \in Heaps /\ end.heap.n = h.n /\ Filled(end.heap, end.hole)
      BY <1>2, <1>3 DEF Rises, Alike, Filled, Tracks
<1>7. Rise(end, e) = end
      BY <1>1, <1>3, <1>4
<1>8. end.hole > 0 => Due(end.heap, Parent(end.hole)) <= end.heap.due[e]
  <2> SUFFICES ASSUME end.hole > 0 PROVE Due(end.heap, Parent(end.hole)) <= end.heap.due[e]
      OBVIOUS
  <2>1. Parent(end.hole) \in 0 .. end.heap.n - 1 /\ Parent(end.hole) < end.hole
    <3>1. end.hole \in Nat /\ end.hole < h.n
          BY <1>1, <1>3
    <3>2. Parent(end.hole) \in Nat /\ Parent(end.hole) < end.hole
          BY <3>1, Family
    <3> QED BY <1>1, <1>6, <3>1, <3>2
  <2>2. ~Later(end.heap, Parent(end.hole), e)
        BY <1>7, <2>1 DEF Rise
  <2>3. Due(end.heap, Parent(end.hole)) \in Int /\ end.heap.due[e] \in Int
        BY <1>3, <1>6, <2>1, DueIsInt
  <2> QED BY <2>2, <2>3 DEF Later, Due
<1> QED BY <1>3, <1>4, <1>5, <1>6, <1>8, FillFromBelow

\* The child that is due first is due before e and moves into the hole.
LEMMA SinkKeepsOrder ==
  ASSUME NEW h \in Heaps, NEW hole \in 0 .. h.n - 1, NEW e \in Events,
         Filled(h, hole), OrderDown(h, hole, e),
         NEW new \in 1 .. h.n - 1, Parent(new) = hole, Due(h, new) < h.due[e],
         \A i \in 1 .. h.n - 1 : Parent(i) = hole => Due(h, new) <= Due(h, i)
  PROVE  OrderDown(Place(h, hole, h.at[new]), new, e)
<1> DEFINE g == Place(h, hole, h.at[new])
<1>1. h.n \in Nat /\ hole \in Nat /\ new \in Nat /\ new \in 0 .. h.n - 1
      BY HeapFields
<1>2. /\ \A i \in 0 .. h.n - 1 : Due(g, i) = IF i = hole THEN Due(h, new) ELSE Due(h, i)
      /\ g.n = h.n /\ g.due = h.due
      BY <1>1, DueAfter DEF Due
<1>3. \A i \in 1 .. h.n - 1 : Parent(i) \in 0 .. h.n - 1 /\ Parent(i) < i /\ i \in Nat
      BY <1>1, Family
<1>4. hole < new
      BY <1>3
<1>5. /\ \A i \in 0 .. h.n - 1 : i # hole => Due(h, i) \in Int
      /\ h.due[e] \in Int
      BY DueIsInt
<1> HIDE DEF g
<1>6. ASSUME NEW i \in 1 .. h.n - 1, i # new, Parent(i) # new
      PROVE  Due(g, Parent(i)) <= Due(g, i)
  <2>1. CASE i = hole
    <3>1. Due(h, Parent(hole)) <= Due(h, new) /\ Parent(hole) # hole
          BY <1>1, <1>3, <2>1 DEF OrderDown, OrderAround
    <3> QED BY <1>2, <1>3, <2>1, <3>1
  <2>2. CASE i # hole /\ Parent(i) = hole
        BY <1>1, <1>2, <1>3, <2>2
  <2>3. CASE i # hole /\ Parent(i) # hole
        BY <1>2, <1>3, <2>3 DEF OrderDown, OrderAround
  <2> QED BY <2>1, <2>2, <2>3
<1>7. ASSUME NEW i \in 1 .. h.n - 1, Parent(i) = new
      PROVE  Due(g, Parent(new)) <= Due(g, i)
  <2>1. i # hole /\ new # hole /\ i \in 0 .. h.n - 1
        BY <1>3, <1>4, <1>7
  <2>2. Due(h, new) <= Due(h, i)
        BY <1>7, <2>1 DEF OrderDown, OrderAround
  <2> QED BY <1>1, <1>2, <2>1, <2>2
<1>8. Due(g, Parent(new)) <= g.due[e]
      BY <1>1, <1>2, <1>4, <1>5
<1> QED BY <1>2, <1>6, <1>7, <1>8 DEF OrderDown, OrderAround, g

\* e goes into the hole when no child is due before it.
LEMMA FillFromAbove ==
  ASSUME NEW h \in Heaps, NEW hole \in 0 .. h.n - 1, NEW e \in Events,
         Filled(h, hole), OrderDown(h, hole, e),
         \A i \in 1 .. h.n - 1 : Parent(i) = hole => h.due[e] <= Due(h, i)
  PROVE  HeapOrdered(Place(h, hole, e))
BY FillFromBelow DEF OrderDown, OrderUp

\* A heap of an odd number of elements has no child without a brother.
LEMMA Brothers ==
  ASSUME NEW m \in Nat, m % 2 = 1, NEW i \in Nat, 2 * i + 1 < m
  PROVE  2 * i + 2 < m
<1>1. m # 2 * i + 2
      OBVIOUS
<1> QED BY <1>1

\* The first turn of a sift down from the root, where the root is still an event
\* that is not due after the others; and every further turn.
First(s) ==
  /\ s.hole = 0 /\ s.child = 1
  /\ s.heap.at[0] \in Events /\ HeapOrdered(s.heap)
Further(s) == s.child = 2 * (s.hole + 1)

\* The further turns find the child that is due first; so does the first turn,
\* unless it stays at the root and leaves the choice to the next.
LEMMA LeastIsFirstChild ==
  ASSUME NEW s \in Sinks, s.hole \in 0 .. s.heap.n - 1, Filled(s.heap, s.hole),
         First(s) \/ Further(s), s.heap.n % 2 = 1, s.child < s.heap.n
  PROVE  \/ /\ Least(s) \in 1 .. s.heap.n - 1 /\ Parent(Least(s)) = s.hole
            /\ \A i \in 1 .. s.heap.n - 1 :
                 Parent(i) = s.hole => Due(s.heap, Least(s)) <= Due(s.heap, i)
         \/ First(s) /\ Least(s) = 0
<1> DEFINE h == s.heap
<1>1. h \in Heaps /\ h.n \in Nat /\ s.hole \in Nat /\ s.child \in Nat
      BY HeapFields DEF Sinks
<1>2. /\ \A i \in 0 .. h.n - 1 : i # s.hole => Due(h, i) \in Int
      BY <1>1, DueIsInt
<1>3. Least(s) = IF Due(h, s.child) > Due(h, s.child - 1) THEN s.child - 1 ELSE s.child
      BY DEF Least, Later, Due
<1>4. \A i \in 1 .. h.n - 1 : Parent(i) = s.hole <=> i \in {2 * s.hole + 1, 2 * s.hole + 2}
      BY <1>1, Family
<1>5. s.child < h.n
      OBVIOUS
<1> HIDE DEF h
<1>6. CASE Further(s)
  <2>1. /\ s.child = 2 * s.hole + 2 /\ s.child - 1 = 2 * s.hole + 1
        /\ s.child \in 1 .. h.n - 1 /\ s.child - 1 \in 1 .. h.n - 1
        BY <1>1, <1>5, <1>6 DEF Further
  <2>2. Due(h, s.child) \in Int /\ Due(h, s.child - 1) \in Int
        BY <1>1, <1>2, <2>1
  <2>3. Least(s) \in {s.child - 1, s.child}
        BY <1>3
  <2>4. Due(h, Least(s)) <= Due(h, s.child) /\ Due(h, Least(s)) <= Due(h, s.child - 1)
        BY <1>3, <2>2
  <2> QED BY <1>4, <2>1, <2>3, <2>4 DEF h
<1>7. CASE First(s)
  <2>1. s.child = 1 /\ s.hole = 0 /\ h.at[0] \in Events /\ HeapOrdered(h)
        BY <1>7 DEF First, h
  <2>2. 2 < h.n
        BY <1>1, <1>5, <2>1, Brothers DEF h
  <2>3. Due(h, 0) \in Int /\ Due(h, 1) \in Int /\ Due(h, 2) \in Int
    <3>1. h.due \in [Events -> Int]
          BY <1>1, HeapFields, HeapAssumption
    <3>2. Due(h, 0) \in Int
          BY <2>1, <3>1 DEF Due
    <3>3. 1 \in 0 .. h.n - 1 /\ 2 \in 0 .. h.n - 1 /\ s.hole # 1 /\ s.hole # 2
          BY <1>1, <2>1, <2>2
    <3> QED BY <1>2, <3>2, <3>3
  <2>4. Parent(1) = 0 /\ Parent(2) = 0
        BY DEF Parent
  <2>5. Due(h, 0) <= Due(h, 1) /\ Due(h, 0) <= Due(h, 2)
        BY <1>1, <2>1, <2>2, <2>4 DEF HeapOrdered
  <2>6. Least(s) = IF Due(h, 1) > Due(h, 0) THEN 0 ELSE 1
        BY <1>3, <2>1
  <2>7. CASE Due(h, 1) > Due(h, 0)
        BY <1>7, <2>6, <2>7
  <2>8. CASE ~(Due(h, 1) > Due(h, 0))
    <3>1. Least(s) = 1 /\ Due(h, 1) <= Due(h, 2)
          BY <2>3, <2>5, <2>6, <2>8
    <3> QED BY <1>1, <1>4, <2>1, <2>2, <2>3, <2>4, <3>1 DEF h
  <2> QED BY <2>7, <2>8
<1> QED BY <1>6, <1>7

\* A turn that moves the hole, or stays at the root once.
LEMMA TurnKeepsOrder ==
  ASSUME NEW s \in Sinks, s.hole \in 0 .. s.heap.n - 1, Filled(s.heap, s.hole),
         First(s) \/ Further(s), s.heap.n % 2 = 1, NEW e \in Events,
         OrderDown(s.heap, s.hole, e), s.child < s.heap.n,
         s.heap.due[e] > s.heap.due[s.heap.at[Least(s)]]
  PROVE  /\ OrderDown(Place(s.heap, s.hole, s.heap.at[Least(s)]), Least(s), e)
         /\ First(s) \/ Least(s) > s.hole
<1>1. s.heap \in Heaps /\ s.heap.n \in Nat /\ s.hole \in Nat
      BY HeapFields DEF Sinks
<1>2. CASE /\ Least(s) \in 1 .. s.heap.n - 1 /\ Parent(Least(s)) = s.hole
           /\ \A i \in 1 .. s.heap.n - 1 :
                Parent(i) = s.hole => Due(s.heap, Least(s)) <= Due(s.heap, i)
  <2>1. Least(s) \in 0 .. s.heap.n - 1 /\ Least(s) > s.hole
        BY <1>1, <1>2, Family
  <2>2. Due(s.heap, Least(s)) \in Int /\ s.heap.due[e] \in Int
        BY <1>1, <2>1, DueIsInt
  <2>3. Due(s.heap, Least(s)) < s.heap.due[e]
        BY <2>2 DEF Due
  <2> QED BY <1>1, <1>2, <2>1, <2>3, SinkKeepsOrder
<1>3. CASE First(s) /\ Least(s) = 0
  <2> DEFINE g == Place(s.heap, s.hole, s.heap.at[Least(s)])
  <2>1. s.hole = 0 /\ Least(s) = 0
        BY <1>3 DEF First
  <2>2. /\ \A i \in 0 .. s.heap.n - 1 : Due(g, i) = Due(s.heap, i)
        /\ g.n = s.heap.n /\ g.due = s.heap.due
        BY <1>1, <2>1, DueAfter DEF Due
  <2>3. \A i \in 1 .. s.heap.n - 1 : Parent(i) \in 0 .. s.heap.n - 1
        BY <1>1, Family
  <2> HIDE DEF g
  <2>4. OrderDown(g, 0, e)
        BY <2>1, <2>2, <2>3 DEF OrderDown, OrderAround
  <2> QED BY <1>3, <2>1, <2>4 DEF g
<1> QED BY <1>2, <1>3, LeastIsFirstChild

\* A turn that finds the place of e.
LEMMA TurnFindsPlace ==
  ASSUME NEW s \in Sinks, s.hole \in 0 .. s.heap.n - 1, Filled(s.heap, s.hole),
         First(s) \/ Further(s), s.heap.n % 2 = 1, NEW e \in Events,
         OrderDown(s.heap, s.hole, e),
         ~(s.child < s.heap.n /\ s.heap.due[e] > s.heap.due[s.heap.at[Least(s)]])
  PROVE  HeapOrdered(Place(s.heap, s.hole, e))
<1>1. s.heap \in Heaps /\ s.heap.n \in Nat /\ s.hole \in Nat /\ s.child \in Nat
      BY HeapFields DEF Sinks
<1>2. \A i \in 1 .. s.heap.n - 1 :
        Parent(i) = s.hole <=> i \in {2 * s.hole + 1, 2 * s.hole + 2}
      BY <1>1, Family
<1>3. s.child \in {2 * s.hole + 1, 2 * s.hole + 2}
      BY <1>1 DEF First, Further
<1>4. CASE s.child >= s.heap.n
  <2>1. ~(2 * s.hole + 1 < s.heap.n)
    <3> SUFFICES ASSUME 2 * s.hole + 1 < s.heap.n PROVE FALSE
        OBVIOUS
    <3>1. 2 * s.hole + 2 < s.heap.n
          BY <1>1, Brothers
    <3> QED BY <1>1, <1>3, <1>4, <3>1
  <2>2. \A i \in 1 .. s.heap.n - 1 : Parent(i) # s.hole
        BY <1>1, <1>2, <2>1
  <2> QED BY <1>1, <2>2, FillFromAbove
<1>5. CASE s.child < s.heap.n
  <2>1. ~(s.heap.due[e] > Due(s.heap, Least(s)))
        BY <1>5 DEF Due
  <2>2. /\ \A i \in 0 .. s.heap.n - 1 : i # s.hole => Due(s.heap, i) \in Int
        /\ s.heap.due[e] \in Int
        BY <1>1, DueIsInt
  <2>3. \A i \in 1 .. s.heap.n - 1 : i \in 0 .. s.heap.n - 1 /\ (Parent(i) = s.hole => i # s.hole)
        BY <1>1, Family
  <2>4. ASSUME NEW i \in 1 .. s.heap.n - 1, Parent(i) = s.hole
        PROVE  s.heap.due[e] <= Due(s.heap, i)
    <3>1. CASE /\ Least(s) \in 1 .. s.heap.n - 1 /\ Parent(Least(s)) = s.hole
               /\ Due(s.heap, Least(s)) <= Due(s.heap, i)
          BY <2>1, <2>2, <2>3, <2>4, <3>1
    <3>2. CASE First(s) /\ Least(s) = 0
      <4>1. /\ s.hole = 0 /\ s.heap.at[0] \in Events
            /\ Due(s.heap, 0) <= Due(s.heap, i)
            BY <2>4, <3>2 DEF First, HeapOrdered
      <4>2. Due(s.heap, 0) \in Int /\ Due(s.heap, i) \in Int
            BY <1>1, <2>2, <2>3, <2>4, <4>1, HeapFields, HeapAssumption DEF Due
      <4> QED BY <2>1, <2>2, <3>2, <4>1, <4>2
    <3> QED BY <1>5, <2>4, <3>1, <3>2, LeastIsFirstChild
  <2> QED BY <1>1, <2>4, FillFromAbove
<1> QED BY <1>1, <1>4, <1>5

LEMMA SinkingOrder ==
  ASSUME NEW h \in Heaps, NEW M, NEW X, 0 \in 0 .. h.n - 1, Tracks(h, 0, M, X),
         h.at[0] \in Events \cap (X \ M), NEW e \in Events,
         HeapOrdered(h), h.n % 2 = 1
  PROVE  \A k \in Nat : LET s == Sinking(h, 0, e)[k]
                        IN /\ OrderDown(s.heap, s.hole, e)
                           /\ First(s) \/ Further(s)
                           /\ k <= s.hole + 1 \/ Sink(s, e) = s
<1> DEFINE r == Sinking(h, 0, e)
           Keeps(s, k) == /\ OrderDown(s.heap, s.hole, e)
                          /\ First(s) \/ Further(s)
                          /\ \/ k = 0
                             \/ k <= s.hole + 1 /\ Further(s)
                             \/ Sink(s, e) = s
           Good == {k \in Nat : Keeps(r[k], k)}
<1>0. 0 \in Slots /\ h.n \in Nat
      BY HeapFields
<1>1. /\ \A k \in Nat : r[k] \in Sinks /\ Alike(r[k].heap, h)
      /\ r[0] = [heap |-> h, hole |-> 0, child |-> 2 * 0 + 1]
      /\ \A k \in Nat : r[k + 1] = Sink(r[k], e)
      BY <1>0, SinkingLoop, SinkingAlike
<1>2. \A k \in Nat : r[k].hole \in 0 .. h.n - 1 /\ Tracks(r[k].heap, r[k].hole, M, X)
      BY SinkingTracks
<1> HIDE DEF r
<1>3. 0 \in Good
  <2>1. First(r[0])
        BY <1>1 DEF First
  <2>2. \A i \in 1 .. h.n - 1 : Due(h, Parent(i)) <= Due(h, i)
        BY DEF HeapOrdered
  <2>3. OrderDown(h, 0, e)
        BY <2>2 DEF OrderDown, OrderAround
  <2> QED BY <1>1, <2>1, <2>3
<1>4. ASSUME NEW k \in Nat, k \in Good PROVE k + 1 \in Good
  <2> DEFINE s == r[k]
  <2>1. /\ Keeps(s, k) /\ s \in Sinks /\ s.heap \in Heaps /\ s.heap.n = h.n
        /\ s.hole \in 0 .. s.heap.n - 1 /\ s.hole \in Nat /\ s.child \in Nat \ {0}
        /\ Filled(s.heap, s.hole) /\ s.heap.n % 2 = 1
    <3>1. Keeps(s, k)
          BY <1>4
    <3>2. s \in Sinks /\ Alike(s.heap, h)
          BY <1>1
    <3>3. s.hole \in 0 .. h.n - 1 /\ Tracks(s.heap, s.hole, M, X)
          BY <1>2
    <3> HIDE DEF Keeps, s
    <3>4. s.heap \in Heaps /\ s.heap.n = h.n /\ s.child \in Nat \ {0}
          BY <3>2 DEF Sinks, Alike
    <3>5. Filled(s.heap, s.hole)
          BY <3>3 DEF Filled, Tracks
    <3> QED BY <1>0, <3>1, <3>2, <3>3, <3>4, <3>5
  <2>2. r[k + 1] = Sink(s, e)
        BY <1>1
  <2> HIDE DEF s
  <2>3. CASE s.child < s.heap.n /\ s.heap.due[e] > s.heap.due[s.heap.at[Least(s)]]
    <3> DEFINE g == Place(s.heap, s.hole, s.heap.at[Least(s)])
    <3>1. OrderDown(g, Least(s), e) /\ (First(s) \/ Least(s) > s.hole)
          BY <2>1, <2>3, TurnKeepsOrder
    <3>2. Sink(s, e) = [heap |-> g, hole |-> Least(s), child |-> 2 * (Least(s) + 1)]
          BY <2>3, SinkIs
    <3>3. Least(s) \in Nat /\ Least(s) \in {s.child - 1, s.child}
          BY <1>0, <2>1, <2>3, LeastSlot
    <3> HIDE DEF g
    <3>4. Further(Sink(s, e)) /\ OrderDown(Sink(s, e).heap, Sink(s, e).hole, e)
          BY <3>1, <3>2 DEF Further
    <3>5. Sink(s, e).child # s.child
          BY <2>1, <3>2, <3>3
    <3>6. k + 1 <= Least(s) + 1
      <4>1. CASE k = 0
            BY <3>3, <4>1
      <4>2. CASE k <= s.hole + 1 /\ Further(s)
            BY <2>1, <3>3, <4>2 DEF Further
      <4> QED BY <2>1, <3>5, <4>1, <4>2
    <3>7. Sink(s, e).hole = Least(s)
          BY <3>2
    <3> QED BY <2>2, <3>4, <3>6, <3>7
  <2>4. CASE ~(s.child < s.heap.n /\ s.heap.due[e] > s.heap.due[s.heap.at[Least(s)]])
    <3>1. Sink(s, e) = s
          BY <2>4, SinkIs
    <3> QED BY <2>1, <2>2, <3>1
  <2> QED BY <2>3, <2>4
<1> HIDE DEF Good
<1>5. Nat \subseteq Good
      BY <1>3, <1>4, Induction
<1>6. \A k \in Nat : Keeps(r[k], k)
      BY <1>5 DEF Good
<1>7. \A k \in Nat : r[k].hole \in Nat
      BY <1>0, <1>2
<1>8. \A k \in Nat : k <= r[k].hole + 1 \/ Sink(r[k], e) = r[k]
      BY <1>6, <1>7
<1> HIDE DEF Keeps
<1>9. \A k \in Nat : OrderDown(r[k].heap, r[k].hole, e) /\ (First(r[k]) \/ Further(r[k]))
      BY <1>6 DEF Keeps
<1> QED BY <1>8, <1>9 DEF r

LEMMA ShiftDownOrder ==
  ASSUME NEW h \in Heaps, NEW M, NEW X, 0 \in 0 .. h.n - 1, Tracks(h, 0, M, X),
         h.at[0] \in Events \cap (X \ M), NEW e \in Events,
         HeapOrdered(h), h.n % 2 = 1
  PROVE  HeapOrdered(ShiftDown(h, 0, e))
<1> DEFINE end == Sinking(h, 0, e)[h.n]
<1>1. h.n \in Nat /\ 0 \in Slots
      BY HeapFields
<1>2. end \in Sinks
      BY <1>1, SinkingLoop
<1>3. Alike(end.heap, h)
      BY <1>1, SinkingAlike
<1>4. end.hole \in 0 .. h.n - 1 /\ Tracks(end.heap, end.hole, M, X)
      BY <1>1, SinkingTracks
<1>5. /\ OrderDown(end.heap, end.hole, e) /\ (First(end) \/ Further(end))
      /\ h.n <= end.hole + 1 \/ Sink(end, e) = end
      BY <1>1, SinkingOrder
<1>6. ShiftDown(h, 0, e) = Place(end.heap, end.hole, e)
      BY DEF ShiftDown
<1> HIDE DEF end
<1>7. /\ end.heap \in Heaps /\ end.heap.n = h.n /\ Filled(end.heap, end.hole)
      /\ end.child \in Nat \ {0} /\ end.hole \in Nat
      BY <1>2, <1>3, <1>4 DEF Sinks, Alike, Filled, Tracks
<1>8. ~(end.child < end.heap.n /\ end.heap.due[e] > end.heap.due[end.heap.at[Least(end)]])
  <2> SUFFICES ASSUME end.child < end.heap.n,
                      end.heap.due[e] > end.heap.due[end.heap.at[Least(end)]]
               PROVE  FALSE
      OBVIOUS
  <2>1. Sink(end, e).child = 2 * (Least(end) + 1)
        BY SinkIs
  <2>2. Least(end) \in Nat /\ Least(end) \in {end.child - 1, end.child}
        BY <1>1, <1>2, <1>7, LeastSlot
  <2>3. Sink(end, e) # end
        BY <1>7, <2>1, <2>2
  <2>4. h.n <= end.hole + 1 /\ end.child < h.n
        BY <1>5, <1>7, <2>3
  <2>5. end.child >= end.hole + 1
    <3>1. CASE First(end)
          BY <3>1 DEF First
    <3>2. CASE Further(end)
          BY <1>7, <3>2 DEF Further
    <3> QED BY <1>5, <3>1, <3>2
  <2> QED BY <1>1, <1>7, <2>4, <2>5
<1> QED BY <1>2, <1>4, <1>5, <1>6, <1>7, <1>8, TurnFindsPlace

-----------------------------------------------------------------------------
(***************************************************************************)
(* The calls that keep the order.                                          *)
(***************************************************************************)

LEMMA BecomesOrdered ==
  ASSUME NEW h \in Heaps, HeapOrdered(h), Becomes(h)
  PROVE  Ordered'
<1>1. \A i \in 0 .. h.n - 1 : i \in Slots /\ i < h.n
      BY HeapFields
<1>2. n' = h.n /\ ev_timeout' = h.due
      BY DEF Becomes
<1>3. \A i \in 0 .. h.n - 1 : elements'[i] = h.at[i]
      BY <1>1 DEF Becomes
<1>4. ASSUME NEW i \in 1 .. n' - 1
      PROVE  ev_timeout'[elements'[Parent(i)]] <= ev_timeout'[elements'[i]]
  <2>1. h.n \in Nat
        BY HeapFields
  <2>2. i \in 1 .. h.n - 1 /\ i \in 0 .. h.n - 1 /\ Parent(i) \in 0 .. h.n - 1
        BY <1>2, <2>1, Family
  <2>3. Due(h, Parent(i)) <= Due(h, i)
        BY <2>2 DEF HeapOrdered
  <2> QED BY <1>2, <1>3, <2>2, <2>3 DEF Due
<1> QED BY <1>4 DEF Ordered, Parent

\* The new slot has no children.
LEMMA PushOrder ==
  ASSUME TypeOK, Ordered, NEW e \in Events, NEW t \in Timeouts, Push(e, t)
  PROVE  Ordered'
<1> DEFINE h == PushHeap(e, t)
<1>1. /\ h \in Heaps /\ h.n = n + 1 /\ h.at = elements
      /\ h.due = [ev_timeout EXCEPT ![e] = t]
      /\ n \in 0 .. h.n - 1 /\ n \in Slots /\ n \in Nat
      /\ Tracks(h, n, Members, {e}) /\ e \notin Members
      /\ Becomes(ShiftUp(h, n, e)) /\ Consistent
      BY PushStarts
<1> HIDE DEF h
<1>2. \A i \in 0 .. n - 1 : elements[i] \in Events /\ elements[i] # e
      BY <1>1, MembersAre
<1>3. \A i \in 0 .. n - 1 : Due(h, i) = ev_timeout[elements[i]]
      BY <1>1, <1>2 DEF TypeOK, Due
<1>4. \A i \in 1 .. h.n - 1 : Parent(i) \in 0 .. n - 1
      BY <1>1, Family
<1>5. \A i \in 1 .. h.n - 1 : i # n => i \in 1 .. n - 1 /\ i \in 0 .. n - 1
      BY <1>1
<1>6. \A i \in 1 .. h.n - 1 : i # n => Due(h, Parent(i)) <= Due(h, i)
      BY <1>3, <1>4, <1>5 DEF Ordered
<1>7. \A i \in 1 .. h.n - 1 : Parent(i) # n
      BY <1>1, <1>4
<1>8. OrderUp(h, n, e)
      BY <1>6, <1>7 DEF OrderUp, OrderAround
<1>9. HeapOrdered(ShiftUp(h, n, e)) /\ ShiftUp(h, n, e) \in Heaps
      BY <1>1, <1>8, ShiftUpOrder, ShiftUpType
<1> QED BY <1>1, <1>9, BecomesOrdered

\* The parent of e is due after it, and so are its children.
LEMMA RaisesOrder ==
  ASSUME TypeOK, Ordered, NEW e \in Events, NEW t \in Timeouts, Raises(e, t)
  PROVE  Ordered'
<1> DEFINE h == AdjustHeap(e, t)
           hole == min_heap_idx[e]
           up == Parent(hole)
           g == Place(h, hole, h.at[up])
           M == Members \ {e}
<1>1. hole > 0 /\ t < ev_timeout[elements[up]] /\ Adjust(e, t)
      BY DEF Raises
<1>2. /\ h \in Heaps /\ h.n = n /\ h.at = elements
      /\ h.due = [ev_timeout EXCEPT ![e] = t]
      /\ hole \in 0 .. h.n - 1 /\ hole \in Slots /\ elements[hole] = e
      /\ Tracks(h, hole, M, {e})
      /\ Becomes(Settle(h, hole, e)) /\ Consistent
      BY <1>1, AdjustStarts
<1>3. /\ n \in Nat /\ hole \in Nat /\ up \in 0 .. h.n - 1 /\ up \in Slots
      /\ up \in Nat /\ up < hole
      BY <1>1, <1>2, HeapFields, Family
<1> HIDE DEF h, hole
<1>4. \A i \in 0 .. n - 1 : /\ elements[i] \in Events
                            /\ i # hole => elements[i] # e
      BY <1>2, MembersAre DEF hole
<1>5. /\ \A i \in 0 .. n - 1 : i # hole => Due(h, i) = ev_timeout[elements[i]]
      /\ h.due[e] = t
      BY <1>2, <1>4 DEF TypeOK, Due
<1>6. \A i \in 0 .. n - 1 : ev_timeout[elements[i]] \in Int
      BY <1>4, HeapAssumption DEF TypeOK
<1>7. \A i \in 1 .. n - 1 : /\ Parent(i) \in 0 .. n - 1 /\ Parent(i) < i
                            /\ i \in 0 .. n - 1
                            /\ ev_timeout[elements[Parent(i)]] <= ev_timeout[elements[i]]
      BY <1>3, Family DEF Ordered
<1>8. Due(h, up) > h.due[e] /\ t \in Int
      BY <1>1, <1>2, <1>3, <1>5, HeapAssumption
<1>9. OrderUp(h, hole, e)
  <2>1. ASSUME NEW i \in 1 .. h.n - 1, i # hole, Parent(i) # hole
        PROVE  Due(h, Parent(i)) <= Due(h, i)
        BY <1>2, <1>5, <1>7, <2>1
  <2>2. ASSUME NEW i \in 1 .. h.n - 1, Parent(i) = hole
        PROVE  Due(h, up) <= Due(h, i) /\ h.due[e] <= Due(h, i)
    <3>1. i \in 0 .. n - 1 /\ i # hole /\ hole \in 1 .. n - 1 /\ up # hole
          BY <1>1, <1>2, <1>3, <1>7, <2>2
    <3>2. /\ ev_timeout[elements[up]] <= ev_timeout[elements[hole]]
          /\ ev_timeout[elements[hole]] <= ev_timeout[elements[i]]
          BY <1>2, <1>7, <2>2, <3>1
    <3>3. /\ Due(h, i) = ev_timeout[elements[i]] /\ Due(h, up) = ev_timeout[elements[up]]
          /\ ev_timeout[elements[i]] \in Int /\ ev_timeout[elements[up]] \in Int
          /\ ev_timeout[elements[hole]] \in Int
          BY <1>2, <1>3, <1>5, <1>6, <3>1
    <3> HIDE DEF up
    <3> QED BY <1>5, <1>8, <3>2, <3>3
  <2> QED BY <2>1, <2>2 DEF OrderUp, OrderAround
<1>10. Later(h, up, e)
       BY <1>8 DEF Later, Due
<1>11. Settle(h, hole, e) = ShiftUp(g, up, e)
       BY <1>1, <1>10 DEF Settle, ShiftUpUnconditional, hole
<1>12. g \in Heaps /\ g.n = h.n
  <2>1. h.at[up] \in Events \cup {None}
        BY <1>2, <1>3, HeapFields
  <2> QED BY <1>2, <2>1, PlaceType, PlaceIs
<1>13. Tracks(g, up, M, {e})
       BY <1>2, <1>3, MoveTracks
<1>14. Filled(h, hole) /\ hole \in 1 .. h.n - 1
       BY <1>1, <1>2, <1>3 DEF Filled, Tracks, hole
<1>15. OrderUp(g, up, e)
       BY <1>2, <1>8, <1>9, <1>14, RiseKeepsOrder
<1> HIDE DEF g, up
<1>16. HeapOrdered(ShiftUp(g, up, e)) /\ ShiftUp(g, up, e) \in Heaps
       BY <1>3, <1>12, <1>13, <1>15, ShiftUpOrder, ShiftUpType
<1> QED BY <1>2, <1>11, <1>16, BecomesOrdered

\* The last element goes to the root, and down from there.
LEMMA RemovalOrder ==
  ASSUME TypeOK, Consistent, Ordered, n > 0, (n - 1) % 2 = 1
  PROVE  LET rest == ShiftDown(Shrunk, 0, elements[n - 1])
         IN /\ rest \in Heaps /\ elements[0] \in Events
            /\ rest.n = n - 1 /\ HeapOrdered(rest)
<1> DEFINE h == Shrunk
           top == elements[0]
           last == elements[n - 1]
           M == Members \ {top, last}
<1>1. n \in Nat /\ n - 1 > 0 /\ 0 \in 0 .. n - 1 /\ 0 \in 0 .. (n - 1) - 1
      BY DEF TypeOK
<1>2. top \in Members /\ min_heap_idx[top] = 0
      BY <1>1, MembersAre
<1>3. /\ h \in Heaps /\ h.n = n - 1 /\ h.at = elements /\ h.due = ev_timeout /\ 0 \in Slots
      /\ last \in Members /\ Members \subseteq Events
      /\ Tracks(h, 0, M, {top, last})
      BY <1>2, RemovalStarts
<1> HIDE DEF h
<1>4. \A i \in 1 .. h.n - 1 : Due(h, Parent(i)) <= Due(h, i)
      BY <1>1, <1>3 DEF Ordered, Due
<1>5. HeapOrdered(h)
      BY <1>4 DEF HeapOrdered
<1>6. h.at[0] \in Events \cap ({top, last} \ M) /\ last \in Events /\ h.n % 2 = 1
      /\ 0 \in 0 .. h.n - 1
      BY <1>1, <1>2, <1>3
<1> HIDE DEF top, last, M
<1>7. HeapOrdered(ShiftDown(h, 0, last))
      BY <1>3, <1>5, <1>6, ShiftDownOrder
<1>8. ShiftDown(h, 0, last) \in Heaps /\ ShiftDown(h, 0, last).n = n - 1
      BY <1>3, <1>6, ShiftDownType DEF Alike
<1> QED BY <1>2, <1>3, <1>7, <1>8 DEF h, top, last

LEMMA ForgetOrdered ==
  ASSUME NEW h \in Heaps, NEW e \in Events, HeapOrdered(h)
  PROVE  /\ [h EXCEPT !.idx[e] = Absent] \in Heaps
         /\ HeapOrdered([h EXCEPT !.idx[e] = Absent])
<1> DEFINE g == [h EXCEPT !.idx[e] = Absent]
<1>1. g \in Heaps /\ g.n = h.n /\ g.at = h.at /\ g.due = h.due
      BY ForgetType
<1> HIDE DEF g
<1> QED BY <1>1 DEF HeapOrdered, Due, g

LEMMA PopOrder ==
  ASSUME TypeOK, Ordered, Pop, n' % 2 = 1
  PROVE  Ordered'
<1> DEFINE rest == ShiftDown(Shrunk, 0, elements[n - 1])
           top == elements[0]
<1>1. Becomes([rest EXCEPT !.idx[top] = Absent]) /\ Consistent /\ n > 0
      BY DEF Pop, Shrunk
<1>2. (n - 1) % 2 = 1
      BY PopTypes
<1>3. rest \in Heaps /\ top \in Events /\ HeapOrdered(rest)
      BY <1>1, <1>2, RemovalOrder
<1> HIDE DEF rest, top
<1> QED BY <1>1, <1>3, ForgetOrdered, BecomesOrdered

LEMMA EraseTopOrder ==
  ASSUME TypeOK, Ordered, NEW e \in Events, min_heap_idx[e] = 0, Erase(e), n' % 2 = 1
  PROVE  Ordered'
<1> DEFINE rest == ShiftDown(Shrunk, 0, elements[n - 1])
<1>1. /\ Becomes([Settle(Shrunk, 0, elements[n - 1]) EXCEPT !.idx[e] = Absent])
      /\ Consistent /\ min_heap_idx[e] # Absent
      BY DEF Erase, Shrunk
<1>2. Settle(Shrunk, 0, elements[n - 1]) = rest
      BY DEF Settle
<1>3. (n - 1) % 2 = 1
      BY EraseTypes
<1>4. n > 0
      BY <1>1, MembersAre, RemovalStarts
<1>5. rest \in Heaps /\ HeapOrdered(rest)
      BY <1>1, <1>3, <1>4, RemovalOrder
<1> HIDE DEF rest
<1> QED BY <1>1, <1>2, <1>5, ForgetOrdered, BecomesOrdered

(* However many events there are and whenever they are due: a push, an     *)
(* adjust that brings an event before its parent, and the pop or the       *)
(* erasure of the top that leaves an odd number of elements keep a heap in *)
(* order (lu_min_heap_shift_up_ always, and lu_min_heap_shift_down_ from   *)
(* the root where every left child has a brother).                         *)
THEOREM OrderIsKept == Spec => OrderSurvives
<1> DEFINE Kept ==
      Ordered /\ Consistent =>
        /\ \A e \in Events, t \in Timeouts : Push(e, t) \/ Raises(e, t) => Ordered'
        /\ n' % 2 = 1 /\ (Pop \/ \E e \in Events : min_heap_idx[e] = 0 /\ Erase(e))
             => Ordered'
<1>1. HeapInv /\ [Next]_vars => [Kept]_vars
  <2> SUFFICES ASSUME TypeOK, Ordered PROVE Kept
      BY DEF HeapInv
  <2>1. ASSUME NEW e \in Events, NEW t \in Timeouts, Push(e, t) \/ Raises(e, t)
        PROVE  Ordered'
        BY <2>1, PushOrder, RaisesOrder
  <2>2. ASSUME n' % 2 = 1, Pop PROVE Ordered'
        BY <2>2, PopOrder
  <2>3. ASSUME n' % 2 = 1, NEW e \in Events, min_heap_idx[e] = 0, Erase(e)
        PROVE  Ordered'
        BY <2>3, EraseTopOrder
  <2> QED BY <2>1, <2>2, <2>3
<1>2. OrderSurvives <=> [][Kept]_vars
      BY DEF OrderSurvives
<1> QED BY <1>1, <1>2, ArrayIsLargeEnough, PTL DEF Spec
==============================================================================
