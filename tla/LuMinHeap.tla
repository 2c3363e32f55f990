------------------------------ MODULE LuMinHeap ------------------------------
(***************************************************************************)
(* The heap of timeouts, src/src/lu_min_heap.c: an array of events that    *)
(* keeps, in each event, the event's own position in the array.            *)
(*                                                                         *)
(* Every function is called with the lock of the base held, so each is one *)
(* action.  What lies in the array behind the last element is never read   *)
(* and is kept at None.  The event's ev_timeout is written by the caller   *)
(* of push and adjust just before the call; lu_event.c does neither yet,   *)
(* and these two writes are modelled as part of the call.                  *)
(***************************************************************************)
EXTENDS Integers, FiniteSets

CONSTANTS
  Events,        \* the lu_event_t objects
  Timeouts,      \* the values of ev_timeout: any numbers, they are only compared
  FirstCapacity, \* the capacity of the first allocation, 8
  None           \* what an unused slot of the array holds

ASSUME HeapAssumption ==
  /\ IsFiniteSet(Events)
  /\ Timeouts \subseteq Int /\ Timeouts # {}
  /\ FirstCapacity \in Nat \ {0}
  /\ None \notin Events

VARIABLES
  elements,      \* slot -> event
  n,
  capacity,
  min_heap_idx,  \* event -> its slot, or Absent
  ev_timeout,    \* event -> when it is due
  popped         \* the event the last call handed out, or None

vars == <<elements, n, capacity, min_heap_idx, ev_timeout, popped>>

Slots == 0 .. Cardinality(Events) - 1
Absent == -1     \* LU_SIZE_MAX
Members == {elements[i] : i \in 0 .. n - 1}
Parent(i) == (i - 1) \div 2

Init ==
  /\ elements = [i \in Slots |-> None]
  /\ n = 0
  /\ capacity = 0
  /\ min_heap_idx = [e \in Events |-> Absent]
  /\ ev_timeout \in [Events -> {CHOOSE t \in Timeouts : TRUE}]
  /\ popped = None

-----------------------------------------------------------------------------
(***************************************************************************)
(* Sifting.  A heap h is a record of the array, the positions the events   *)
(* remember, the timeouts and the number of elements.                      *)
(***************************************************************************)

Heap(due) == [at |-> elements, idx |-> min_heap_idx, due |-> due, n |-> n]

\* lu_min_heap_element_greater, of the event in slot i and e.
Later(h, i, e) == h.due[h.at[i]] > h.due[e]

Place(h, i, e) == [h EXCEPT !.at[i] = e, !.idx[e] = i]

\* One turn of the loop of lu_min_heap_shift_up_; s is the heap and its hole.
Rise(s, e) ==
  IF s.hole > 0 /\ Later(s.heap, Parent(s.hole), e)
  THEN [heap |-> Place(s.heap, s.hole, s.heap.at[Parent(s.hole)]),
        hole |-> Parent(s.hole)]
  ELSE s

\* A loop is over after as many turns as there are elements: every turn but
\* the first of the sift down moves the hole.
Rising(h, hole, e) ==
  LET loop[k \in Nat] == IF k = 0 THEN [heap |-> h, hole |-> hole]
                         ELSE Rise(loop[k - 1], e)
  IN loop

ShiftUp(h, hole, e) ==
  LET end == Rising(h, hole, e)[h.n] IN Place(end.heap, end.hole, e)

\* The first step up is taken without looking.
ShiftUpUnconditional(h, hole, e) ==
  ShiftUp(Place(h, hole, h.at[Parent(hole)]), Parent(hole), e)

\* One turn of the loop of lu_min_heap_shift_down_.  child is what the code calls
\* min_child; the slot before it is compared with it, whether or not that slot
\* is a child of the hole.
Sink(s, e) ==
  LET least == IF Later(s.heap, s.child, s.heap.at[s.child - 1])
               THEN s.child - 1 ELSE s.child
  IN IF s.child < s.heap.n /\ s.heap.due[e] > s.heap.due[s.heap.at[least]]
     THEN [heap |-> Place(s.heap, s.hole, s.heap.at[least]),
           hole |-> least, child |-> 2 * (least + 1)]
     ELSE s

Sinking(h, hole, e) ==
  LET loop[k \in Nat] == IF k = 0 THEN [heap |-> h, hole |-> hole, child |-> 2 * hole + 1]
                         ELSE Sink(loop[k - 1], e)
  IN loop

ShiftDown(h, hole, e) ==
  LET end == Sinking(h, hole, e)[h.n] IN Place(end.heap, end.hole, e)

\* Mutated: down only, whatever its parent is.
Settle_downOnly(h, hole, e) == ShiftDown(h, hole, e)

\* Mutated: the first step up is not made, only the further ones.
Settle_staysPut(h, hole, e) ==
  IF hole > 0 /\ Later(h, Parent(hole), e)
  THEN ShiftUp(h, Parent(hole), e)
  ELSE ShiftDown(h, hole, e)

\* e goes to the hole, and from there up if it is due before its parent, down
\* otherwise: the common part of erase and adjust.
Settle(h, hole, e) ==
  IF hole > 0 /\ Later(h, Parent(hole), e)
  THEN ShiftUpUnconditional(h, hole, e)
  ELSE ShiftDown(h, hole, e)

-----------------------------------------------------------------------------
(***************************************************************************)
(* The calls.                                                              *)
(***************************************************************************)

\* The array and the positions still agree.  After a call that broke this
\* nothing is modelled: the next one may read any event, or memory that is no
\* event at all.
Consistent ==
  /\ \A i \in 0 .. n - 1 : elements[i] \in Events /\ min_heap_idx[elements[i]] = i
  /\ \A e \in Events : min_heap_idx[e] # Absent => e \in Members

\* The heap is h from now on.
Becomes(h) ==
  /\ elements' = [i \in Slots |-> IF i < h.n THEN h.at[i] ELSE None]
  /\ min_heap_idx' = h.idx
  /\ n' = h.n
  /\ ev_timeout' = h.due

\* Mutated: the array is never made larger than it was.
Grown_never(size) == IF capacity = 0 THEN FirstCapacity ELSE capacity

Grown(size) ==
  LET doubled == IF capacity = 0 THEN FirstCapacity ELSE 2 * capacity
  IN IF capacity >= size THEN capacity
     ELSE IF doubled < size THEN size ELSE doubled

\* lu_min_heap_reserve_(n + 1) and then the sift up.
Push(e, t) ==
  LET h == Heap([ev_timeout EXCEPT ![e] = t])
  IN /\ Consistent
     /\ min_heap_idx[e] = Absent
     /\ capacity' = Grown(n + 1)
     /\ Becomes(ShiftUp([h EXCEPT !.n = n + 1], n, e))
     /\ popped' = None

\* mm_realloc fails: -1, and only ev_timeout has changed.
PushFails(e, t) ==
  /\ Consistent
  /\ min_heap_idx[e] = Absent
  /\ capacity < n + 1
  /\ ev_timeout' = [ev_timeout EXCEPT ![e] = t]
  /\ popped' = None
  /\ UNCHANGED <<elements, n, capacity, min_heap_idx>>

\* lu_event_add_nolock_ reserves room before it knows whether it will push.
Reserve ==
  /\ Consistent
  /\ n < Cardinality(Events)
  /\ capacity' = Grown(n + 1)
  /\ popped' = None
  /\ UNCHANGED <<elements, n, min_heap_idx, ev_timeout>>

Pop ==
  LET h == [Heap(ev_timeout) EXCEPT !.n = n - 1]
      top == elements[0]
      rest == ShiftDown(h, 0, elements[n - 1])
  IN /\ Consistent
     /\ n > 0
     /\ Becomes([rest EXCEPT !.idx[top] = Absent])
     /\ popped' = top
     /\ UNCHANGED capacity

\* lu_min_heap_adjust_ of an event that is in the heap; of another it is Push.
Adjust(e, t) ==
  /\ Consistent
  /\ min_heap_idx[e] # Absent
  /\ Becomes(Settle(Heap([ev_timeout EXCEPT ![e] = t]), min_heap_idx[e], e))
  /\ popped' = None
  /\ UNCHANGED capacity

\* The last element is put where e was, even when it is e itself.
Erase(e) ==
  LET h == [Heap(ev_timeout) EXCEPT !.n = n - 1]
      rest == Settle(h, min_heap_idx[e], elements[n - 1])
  IN /\ Consistent
     /\ min_heap_idx[e] # Absent
     /\ Becomes([rest EXCEPT !.idx[e] = Absent])
     /\ popped' = None
     /\ UNCHANGED capacity

\* The heap has lost track of an event.
Lost == ~Consistent /\ UNCHANGED vars

Next ==
  \/ \E e \in Events, t \in Timeouts : Push(e, t) \/ PushFails(e, t) \/ Adjust(e, t)
  \/ \E e \in Events : Erase(e)
  \/ Pop
  \/ Reserve
  \/ Lost

Spec == Init /\ [][Next]_vars

-----------------------------------------------------------------------------
(***************************************************************************)
(* Properties.                                                             *)
(***************************************************************************)

TypeOK ==
  /\ elements \in [Slots -> Events \cup {None}]
  /\ n \in 0 .. Cardinality(Events)
  /\ capacity \in Nat
  /\ min_heap_idx \in [Events -> Slots \cup {Absent}]
  /\ ev_timeout \in [Events -> Timeouts]
  /\ popped \in Events \cup {None}

\* No event is due before its parent.
Ordered ==
  \A i \in 1 .. n - 1 : ev_timeout[elements[Parent(i)]] <= ev_timeout[elements[i]]

\* The array lu_min_heap_reserve_ allocated has a slot for every element:
\* shift_up writes into the slot behind the last one without looking.
RoomForAll == n <= capacity

\* Every variable keeps its type, and nothing lies behind the end of the array.
HeapInv == TypeOK /\ RoomForAll

\* As long as the heap is in order, no branch of erase, adjust, pop or push,
\* the ones for the last element and for the only one included, makes an event
\* remember a slot it is not in, or loses one: the positions agree after the
\* call, and the call changed the membership of its own event only.
KeepsTrack ==
  [][Ordered /\ Consistent =>
       /\ Consistent'
       /\ \A e \in Events : Erase(e) => Members' = Members \ {e}
       /\ Pop => Members' = Members \ {popped'}
       /\ \A e \in Events, t \in Timeouts :
            /\ Push(e, t) => Members' = Members \cup {e}
            /\ Adjust(e, t) => Members' = Members]_vars

\* An event moves towards the root and overtakes its parent.
Raises(e, t) ==
  /\ min_heap_idx[e] > 0
  /\ t < ev_timeout[elements[Parent(min_heap_idx[e])]]
  /\ Adjust(e, t)

\* A push, an adjust that brings an event before its parent, and the pop or the
\* erasure of the top that leaves no left child without a brother, keep a heap
\* in order: the sift towards the leaves goes wrong in no other case.
OrderSurvives ==
  [][Ordered /\ Consistent =>
       /\ \A e \in Events, t \in Timeouts : Push(e, t) \/ Raises(e, t) => Ordered'
       /\ n' % 2 = 1 /\ (Pop \/ \E e \in Events : min_heap_idx[e] = 0 /\ Erase(e))
            => Ordered']_vars

\* What lu_min_heap.c:31 relies on whenever an event is erased or moved: "the
\* children are known to be less than the parent".
AlwaysOrdered == Ordered

\* lu_min_heap.c:29 says of lu_min_heap_erase_ "we replace e with the last
\* element in the heap": afterwards e is in no slot and no other event has lost
\* its own.
AlwaysConsistent == Consistent
=============================================================================
