---------------------------- MODULE EventPromise ----------------------------
(***************************************************************************)
(* What a base promises its program, in terms of sets and queues: no       *)
(* flags, no counters, no maps and no errors.                              *)
(*                                                                         *)
(* A program adds events, each with the items it waits for (a kind of io   *)
(* on a descriptor, or a signal).  While an event is added the system      *)
(* watches its items, and it stops watching an item only when no event     *)
(* waits for it.  Events become ready and leave their queue by firing, in  *)
(* order, or because the program took them back; none is lost or doubled.  *)
(***************************************************************************)
EXTENDS Integers, SequencesExt

CONSTANTS
  Events,     \* what a program can add
  Items,      \* what an event can wait for
  Priorities  \* the numbers a queue can have, from 0

VARIABLES
  added,     \* the events added and not taken back
  interest,  \* the items each of them waits for
  watched,   \* the items the system watches
  ready,     \* the queue of each priority
  queues,    \* how many queues there are
  open       \* the base exists

vars == <<added, interest, watched, ready, queues, open>>

Init ==
  /\ added = {}
  /\ interest = [e \in Events |-> {}]
  /\ watched = {}
  /\ ready = [p \in Priorities |-> <<>>]
  /\ queues = 1
  /\ open = TRUE

Queued(e, p) == e \in ToSet(ready[p])
Ready(e) == \E p \in Priorities : Queued(e, p)

\* The items that only e waits for.
Sole(e) == {i \in interest[e] : \A d \in Events \ {e} : i \notin interest[d]}

\* Event e is added and waits for items.
Add(e, items) ==
  /\ e \notin added
  /\ ~Ready(e)
  /\ added' = added \cup {e}
  /\ interest' = [interest EXCEPT ![e] = items]
  /\ watched' = watched \cup items
  /\ UNCHANGED <<ready, queues>>

\* Event e waits no longer.  The system may fail to stop watching.
Unregister(e) ==
  /\ added' = added \ {e}
  /\ interest' = [interest EXCEPT ![e] = {}]
  /\ watched' \in {watched, watched \ Sole(e)}

\* Event e leaves its queue, if it is in one.
Unready(e) ==
  \/ ~Ready(e) /\ UNCHANGED ready
  \/ \E p \in Priorities :
       /\ Queued(e, p)
       /\ ready' = [ready EXCEPT ![p] = RemoveFirst(@, e)]

Delete(e) == Unregister(e) /\ Unready(e) /\ UNCHANGED queues

\* Event e is taken back from its queue and stays added.
Withdraw(e) ==
  /\ Ready(e)
  /\ Unready(e)
  /\ UNCHANGED <<added, interest, watched, queues>>

\* Event e becomes ready, behind the others of its priority.
Activate(e, p) ==
  /\ ~Ready(e)
  /\ p < queues
  /\ ready' = [ready EXCEPT ![p] = Append(@, e)]
  /\ UNCHANGED <<added, interest, watched, queues>>

\* The most urgent event fires; it may stay added.
Fire(p) ==
  /\ ready[p] # <<>>
  /\ \A q \in 0 .. p - 1 : ready[q] = <<>>
  /\ ready' = [ready EXCEPT ![p] = Tail(@)]
  /\ \/ UNCHANGED <<added, interest, watched>>
     \/ Unregister(Head(ready[p]))
  /\ UNCHANGED queues

\* The number of queues changes, which it must not under a ready event.
Resize(n) ==
  /\ \A p \in Priorities : ready[p] = <<>>
  /\ queues' = n
  /\ UNCHANGED <<added, interest, watched, ready>>

\* The base goes, and with it whatever it watched or had ready.
Close ==
  /\ open' = FALSE
  /\ added' \subseteq added
  /\ interest' = [e \in Events |-> {}]
  /\ watched' = {}
  /\ ready' = [p \in Priorities |-> <<>>]
  /\ UNCHANGED queues

Next ==
  /\ open
  /\ \/ /\ UNCHANGED open
        /\ \/ \E e \in Events :
                \/ \E items \in SUBSET Items : Add(e, items)
                \/ Delete(e)
                \/ Withdraw(e)
                \/ \E p \in Priorities : Activate(e, p)
           \/ \E p \in Priorities : Fire(p) \/ Resize(p)
     \/ Close

Spec == Init /\ [][Next]_vars
=============================================================================
