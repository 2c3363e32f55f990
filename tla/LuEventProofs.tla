---------------------------- MODULE LuEventProofs ----------------------------
(***************************************************************************)
(* IInv is an inductive invariant of LuEvent for every value of its        *)
(* constants.  First the sequences behind the active queues, then what each*)
(* part of an operation does to the part of the invariant it touches, then *)
(* one lemma per operation, then the theorems, and last that every step of *)
(* LuEvent is one EventPromise allows.                                     *)
(***************************************************************************)
EXTENDS LuEvent, SequenceTheorems, FiniteSetTheorems, TLAPS

\* TAILQ_REMOVE of a callback: in a queue without repetition, taking the first
\* occurrence of an element out is taking out its only position.
LEMMA RemoveFirstIsRemoveAt ==
  ASSUME NEW S, NEW q \in Seq(S), IsInjective(q), NEW i \in 1 .. Len(q)
  PROVE  RemoveFirst(q, q[i]) = RemoveAt(q, i)
<1> DEFINE I == {j \in 1 .. Len(q) : q[j] = q[i]}
<1>1. I = {i}
  BY DEF IsInjective
<1>2. Min(I) = i
  BY <1>1 DEF Min
<1>3. SelectInSeq(q, LAMBDA v : v = q[i]) = Min(I)
  BY <1>1 DEF SelectInSeq
<1>. QED
  BY <1>2, <1>3 DEF RemoveFirst

\* Taking position i out of a queue moves the later elements one place forward
\* and leaves the earlier ones alone.
LEMMA RemoveAtElements ==
  ASSUME NEW S, NEW q \in Seq(S), NEW i \in 1 .. Len(q)
  PROVE  /\ RemoveAt(q, i) \in Seq(S)
         /\ Len(RemoveAt(q, i)) = Len(q) - 1
         /\ \A j \in 1 .. Len(q) - 1 :
              RemoveAt(q, i)[j] = IF j < i THEN q[j] ELSE q[j + 1]
<1> DEFINE a == SubSeq(q, 1, i - 1)
           b == SubSeq(q, i + 1, Len(q))
<1>1. /\ a \in Seq(S)
      /\ Len(a) = i - 1
      /\ \A j \in 1 .. i - 1 : a[j] = q[j]
  BY SubSeqProperties, ElementOfSeq
<1>2. /\ b \in Seq(S)
      /\ Len(b) = Len(q) - i
      /\ \A j \in 1 .. Len(q) - i : b[j] = q[i + j]
  BY SubSeqProperties, ElementOfSeq
<1>. HIDE DEF a, b
<1>3. /\ a \o b \in Seq(S)
      /\ Len(a \o b) = Len(a) + Len(b)
      /\ \A j \in 1 .. Len(a) + Len(b) :
           (a \o b)[j] = IF j <= Len(a) THEN a[j] ELSE b[j - Len(a)]
  BY <1>1, <1>2, ConcatProperties
<1>4. RemoveAt(q, i) = a \o b
  BY DEF RemoveAt, a, b
<1>5. Len(q) \in Nat
  BY LenProperties
<1>6. Len(a \o b) = Len(q) - 1
  BY <1>1, <1>2, <1>3, <1>5
<1>7. ASSUME NEW j \in 1 .. Len(q) - 1
      PROVE  (a \o b)[j] = IF j < i THEN q[j] ELSE q[j + 1]
  <2>1. CASE j < i
    BY <1>1, <1>2, <1>3, <1>5, <2>1
  <2>2. CASE ~(j < i)
    <3>1. j - Len(a) \in 1 .. Len(q) - i
      BY <1>1, <1>5, <2>2
    <3>2. (a \o b)[j] = b[j - Len(a)]
      BY <1>1, <1>2, <1>3, <1>5, <2>2
    <3>3. i + (j - Len(a)) = j + 1
      BY <1>1, <1>5
    <3>. QED
      BY <1>2, <2>2, <3>1, <3>2, <3>3
  <2>. QED
    BY <2>1, <2>2
<1>. QED
  BY <1>3, <1>4, <1>6, <1>7

\* A queue without repetition has none after a removal either, and has lost
\* exactly the element removed.
LEMMA RemoveFirstElements ==
  ASSUME NEW S, NEW q \in Seq(S), IsInjective(q), NEW e \in ToSet(q)
  PROVE  /\ RemoveFirst(q, e) \in Seq(S)
         /\ IsInjective(RemoveFirst(q, e))
         /\ ToSet(RemoveFirst(q, e)) = ToSet(q) \ {e}
<1>1. PICK i \in 1 .. Len(q) : q[i] = e
  BY LenProperties DEF ToSet
<1> DEFINE r == RemoveFirst(q, e)
<1>2. r = RemoveAt(q, i)
  BY <1>1, RemoveFirstIsRemoveAt
<1>3. /\ r \in Seq(S)
      /\ Len(r) = Len(q) - 1
      /\ \A j \in 1 .. Len(q) - 1 : r[j] = IF j < i THEN q[j] ELSE q[j + 1]
  BY <1>2, RemoveAtElements
<1>. HIDE DEF r
<1>4. /\ Len(q) \in Nat
      /\ DOMAIN q = 1 .. Len(q)
      /\ DOMAIN r = 1 .. Len(q) - 1
  BY <1>3, LenProperties
<1>5. IsInjective(r)
  <2>1. SUFFICES ASSUME NEW j \in 1 .. Len(q) - 1, NEW k \in 1 .. Len(q) - 1, r[j] = r[k]
                 PROVE  j = k
    BY <1>4 DEF IsInjective
  <2> DEFINE jj == IF j < i THEN j ELSE j + 1
             kk == IF k < i THEN k ELSE k + 1
  <2>2. jj \in 1 .. Len(q) /\ kk \in 1 .. Len(q) /\ q[jj] = q[kk]
    BY <1>3, <1>4, <2>1
  <2>3. jj = kk
    BY <1>4, <2>2 DEF IsInjective
  <2>. QED
    BY <2>3
<1>6. ASSUME NEW x \in ToSet(r) PROVE x \in ToSet(q) \ {e}
  <2>1. PICK j \in 1 .. Len(q) - 1 : r[j] = x
    BY <1>4 DEF ToSet
  <2> DEFINE jj == IF j < i THEN j ELSE j + 1
  <2>2. jj \in 1 .. Len(q) /\ q[jj] = x /\ jj # i
    BY <1>3, <1>4, <2>1
  <2>. QED
    BY <1>1, <1>4, <2>2 DEF ToSet, IsInjective
<1>7. ASSUME NEW x \in ToSet(q) \ {e} PROVE x \in ToSet(r)
  <2>1. PICK j \in 1 .. Len(q) : q[j] = x /\ j # i
    BY <1>1, <1>4 DEF ToSet
  <2> DEFINE jj == IF j < i THEN j ELSE j - 1
  <2>2. jj \in 1 .. Len(q) - 1 /\ r[jj] = x
    BY <1>3, <1>4, <2>1
  <2>. QED
    BY <1>4, <2>2 DEF ToSet
<1>. QED
  BY <1>3, <1>5, <1>6, <1>7 DEF r

\* TAILQ_INSERT_TAIL of an event that is not in the queue keeps the queue without
\* repetition and adds exactly that event.
LEMMA AppendElements ==
  ASSUME NEW S, NEW q \in Seq(S), IsInjective(q), NEW e \in S \ ToSet(q)
  PROVE  /\ Append(q, e) \in Seq(S)
         /\ IsInjective(Append(q, e))
         /\ ToSet(Append(q, e)) = ToSet(q) \cup {e}
<1> DEFINE r == Append(q, e)
<1>1. /\ r \in Seq(S)
      /\ Len(q) \in Nat
      /\ DOMAIN q = 1 .. Len(q)
      /\ DOMAIN r = 1 .. Len(q) + 1
      /\ \A j \in 1 .. Len(q) : r[j] = q[j]
      /\ r[Len(q) + 1] = e
  BY LenProperties
<1>. HIDE DEF r
<1>2. IsInjective(r)
  BY <1>1 DEF IsInjective, ToSet
<1>3. ToSet(r) = ToSet(q) \cup {e}
  BY <1>1 DEF ToSet
<1>. QED
  BY <1>1, <1>2, <1>3 DEF r

-----------------------------------------------------------------------------
(***************************************************************************)
(* The active queues.                                                      *)
(***************************************************************************)

\* Removing an event from the queue of its priority keeps the queues right.
LEMMA QueueRemoval ==
  ASSUME EventTypes, QueueTypes, QueuesMatchFlags,
         NEW e \in On("ACTIVE"), RemoveActive(e),
         On("ACTIVE")' = On("ACTIVE") \ {e},
         ev_pri' = ev_pri, nactivequeues' = nactivequeues
  PROVE  QueueTypes' /\ QueuesMatchFlags'
<1> DEFINE P == ev_pri[e]
<1>1. e \in Events /\ P \in Priorities
  BY DEF EventTypes, On
<1>2. e \in ToSet(activequeues[P]) /\ IsInjective(activequeues[P])
  BY <1>1 DEF QueuesMatchFlags
<1>3. activequeues[P] \in Seq(Events)
  BY <1>1 DEF QueueTypes
<1> DEFINE r == RemoveFirst(activequeues[P], e)
<1>4. r \in Seq(Events) /\ IsInjective(r) /\ ToSet(r) = ToSet(activequeues[P]) \ {e}
  BY <1>2, <1>3, RemoveFirstElements
<1>5. /\ activequeues' = [activequeues EXCEPT ![P] = r]
      /\ event_count_active' = event_count_active - 1
  BY DEF RemoveActive
<1>. HIDE DEF r
<1>6. QueueTypes'
  BY <1>1, <1>4, <1>5 DEF QueueTypes
<1>7. ASSUME NEW p \in Priorities
      PROVE  /\ ToSet(activequeues'[p]) = {d \in On("ACTIVE")' : ev_pri[d] = p}
             /\ IsInjective(activequeues'[p])
  <2>1. CASE p = P
    BY <1>4, <1>5, <2>1 DEF QueueTypes, QueuesMatchFlags
  <2>2. CASE p # P
    BY <1>5, <2>2 DEF QueueTypes, QueuesMatchFlags
  <2>. QED
    BY <2>1, <2>2
<1>8. \A d \in On("ACTIVE")' : ev_pri[d] < nactivequeues
  BY DEF QueuesMatchFlags
<1>9. QueuesMatchFlags'
  BY <1>7, <1>8 DEF QueuesMatchFlags
<1>. QED
  BY <1>6, <1>9

\* So does appending an event that was not active to an existing queue.
LEMMA QueueAppend ==
  ASSUME EventTypes, QueueTypes, QueuesMatchFlags,
         NEW e \in Events, ~Is("ACTIVE", e), NEW pri \in Priorities, QueueActive(e, pri),
         ev_pri' = [ev_pri EXCEPT ![e] = pri], nactivequeues' = nactivequeues
  PROVE  QueueTypes' /\ QueuesMatchFlags' /\ On("ACTIVE")' = On("ACTIVE") \cup {e}
<1> DEFINE r == Append(activequeues[pri], e)
<1>1. On("ACTIVE")' = On("ACTIVE") \cup {e}
  BY DEF QueueActive, On, Is, EventTypes
<1>2. activequeues[pri] \in Seq(Events) /\ IsInjective(activequeues[pri])
  BY DEF QueueTypes, QueuesMatchFlags
<1>3. e \notin ToSet(activequeues[pri])
  BY DEF QueuesMatchFlags, On
<1>4. r \in Seq(Events) /\ IsInjective(r) /\ ToSet(r) = ToSet(activequeues[pri]) \cup {e}
  BY <1>2, <1>3, AppendElements
<1>5. activequeues' = [activequeues EXCEPT ![pri] = r]
  BY DEF QueueActive
<1>. HIDE DEF r
<1>6. QueueTypes'
  BY <1>4, <1>5 DEF QueueTypes, QueueActive
<1>7. e \notin On("ACTIVE")
  BY DEF On
<1>8. /\ \A d \in On("ACTIVE") : ev_pri'[d] = ev_pri[d]
      /\ ev_pri'[e] = pri
  BY <1>7 DEF EventTypes, On
<1>9. ASSUME NEW p \in Priorities
      PROVE  /\ ToSet(activequeues'[p]) = {d \in On("ACTIVE")' : ev_pri'[d] = p}
             /\ IsInjective(activequeues'[p])
  <2>1. CASE p = pri
    BY <1>1, <1>4, <1>5, <1>8, <2>1 DEF QueueTypes, QueuesMatchFlags
  <2>2. CASE p # pri
    BY <1>1, <1>5, <1>8, <2>2 DEF QueueTypes, QueuesMatchFlags
  <2>. QED
    BY <2>1, <2>2
<1>10. \A d \in On("ACTIVE")' : ev_pri'[d] < nactivequeues'
  BY <1>1, <1>8 DEF QueuesMatchFlags, QueueActive
<1>11. QueuesMatchFlags'
  BY <1>9, <1>10 DEF QueuesMatchFlags
<1>. QED
  BY <1>1, <1>6, <1>11

\* An operation that touches no active event leaves them right.
LEMMA QueueUnchanged ==
  ASSUME EventTypes, QueueTypes, QueuesMatchFlags,
         UNCHANGED queueVars, On("ACTIVE")' = On("ACTIVE"),
         \A e \in On("ACTIVE") : ev_pri'[e] = ev_pri[e]
  PROVE  QueueTypes' /\ QueuesMatchFlags'
  BY DEF QueueTypes, QueuesMatchFlags, queueVars

-----------------------------------------------------------------------------
(***************************************************************************)
(* The counters.                                                           *)
(***************************************************************************)

\* Every set of events is finite; one event more or less counts as its weight.
LEMMA EventSets ==
  ASSUME NEW S \in SUBSET Events
  PROVE  /\ IsFiniteSet(S)
         /\ Cardinality(S) \in Nat
         /\ \A e \in S : /\ Cardinality(S \ {e}) = Cardinality(S) - 1
                        /\ Cardinality(S) > 0
         /\ \A e \in Events \ S : Cardinality(S \cup {e}) = Cardinality(S) + 1
<1>1. IsFiniteSet(S)
  BY EventsAssumption, FS_Subset
<1>2. Cardinality(S) \in Nat
  BY <1>1, FS_CardinalityType
<1>3. \A e \in S : Cardinality(S \ {e}) = Cardinality(S) - 1
  BY <1>1, FS_RemoveElement
<1>4. \A e \in S : Cardinality(S) > 0
  BY <1>1, <1>2, FS_EmptySet
<1>5. \A e \in Events \ S : Cardinality(S \cup {e}) = Cardinality(S) + 1
  BY <1>1, FS_AddElement
<1>. QED
  BY <1>1, <1>2, <1>3, <1>4, <1>5

\* What event_count counts of a set of events changes by the weight of an event
\* that joins or leaves the set: 0 for an internal event, 1 for another.
LEMMA WeighedSets ==
  ASSUME NEW S \in SUBSET Events, NEW e \in Events
  PROVE  /\ Weight(e) \in Int
         /\ Weights(S) \in Nat
         /\ e \in S => Weights(S \ {e}) = Weights(S) - Weight(e)
         /\ e \notin S => Weights(S \cup {e}) = Weights(S) + Weight(e)
<1>1. S \ Internal \in SUBSET Events
  OBVIOUS
<1>2. CASE e \in Internal
  <2>1. (S \ {e}) \ Internal = S \ Internal /\ (S \cup {e}) \ Internal = S \ Internal
    BY <1>2
  <2>2. Weight(e) = 0
    BY <1>2 DEF Weight
  <2>3. Cardinality(S \ Internal) \in Nat
    BY <1>1, EventSets
  <2>. QED
    BY <2>1, <2>2, <2>3 DEF Weights
<1>3. CASE e \notin Internal
  <2>1. /\ (S \ {e}) \ Internal = (S \ Internal) \ {e}
        /\ (S \cup {e}) \ Internal = (S \ Internal) \cup {e}
    BY <1>3
  <2>2. (e \in S => e \in S \ Internal) /\ (e \notin S => e \in Events \ (S \ Internal))
    BY <1>3
  <2>3. Weight(e) = 1
    BY <1>3 DEF Weight
  <2>. QED
    BY <1>1, <2>1, <2>2, <2>3, EventSets DEF Weights
<1>. QED
  BY <1>2, <1>3

-----------------------------------------------------------------------------
(***************************************************************************)
(* The fd and signal maps.                                                 *)
(***************************************************************************)

Args == [fd : Fds \cup {NoFd}, events : SUBSET EventKinds]

MapsRight == MapTypes /\ EvmapMatchesFlags /\ KernelCoversInterest

\* The events that wait for kind k of descriptor f.
Waiting(f, k) == {d \in io_events[f] : k \in ev_events[d]}

\* lu_evmap_io_add_ keeps the maps right.
LEMMA IoAddition ==
  ASSUME EventTypes, MapsRight,
         NEW e \in Events, ~Is("INSERTED", e), NEW c \in Args,
         Polls(c.events), c.fd \in Fds, IoAdd(e, c),
         ev_fd' = [ev_fd EXCEPT ![e] = c.fd],
         ev_events' = [ev_events EXCEPT ![e] = c.events],
         On("INSERTED")' = On("INSERTED") \cup {e}
  PROVE  MapsRight'
<1> DEFINE F == c.fd
<1>1. /\ io_events' = [io_events EXCEPT ![F] = @ \cup {e}]
      /\ io_count' = [io_count EXCEPT ![F] =
                        [k \in IoKinds |-> IF k \in c.events THEN @[k] + 1 ELSE @[k]]]
      /\ kernel' = [kernel EXCEPT ![F] = @ \cup NewKinds(c)]
      /\ sig_events' = sig_events
      /\ kernel_sigs' = kernel_sigs
      /\ \A k \in c.events \cap IoKinds : io_count[F][k] # CountMax
  BY DEF IoAdd, TooMany
<1>2. e \notin On("INSERTED")
  BY DEF On
<1>3. \A d \in Events \ {e} : ev_fd'[d] = ev_fd[d] /\ ev_events'[d] = ev_events[d]
  BY DEF EventTypes
<1>4. ev_fd'[e] = F /\ ev_events'[e] = c.events
  BY DEF EventTypes
<1>5. On("INSERTED") \subseteq Events
  BY DEF On
<1>6. \A f \in Fds :
        io_events'[f] = {d \in On("INSERTED")' : ev_fd'[d] = f /\ Polls(ev_events'[d])}
  <2>1. TAKE f \in Fds
  <2>2. io_events[f] = {d \in On("INSERTED") : ev_fd[d] = f /\ Polls(ev_events[d])}
    BY DEF MapsRight, EvmapMatchesFlags
  <2>3. io_events'[f] = IF f = F THEN io_events[f] \cup {e} ELSE io_events[f]
    BY <1>1 DEF MapsRight, MapTypes
  <2>. QED
    BY <1>2, <1>3, <1>4, <1>5, <2>2, <2>3
<1>7. \A s \in Sigs :
        sig_events'[s] = {d \in On("INSERTED")' : ev_fd'[d] = s /\ ~Polls(ev_events'[d])}
  BY <1>1, <1>2, <1>3, <1>4, <1>5 DEF MapsRight, EvmapMatchesFlags
<1>8. \A d \in On("INSERTED")' : Polls(ev_events'[d]) \/ ev_fd'[d] \in Sigs
  BY <1>2, <1>3, <1>4, <1>5 DEF MapsRight, EvmapMatchesFlags
<1>9. ASSUME NEW f \in Fds, NEW k \in IoKinds
      PROVE  /\ io_count'[f][k] = Cardinality(Waiting(f, k)')
             /\ io_count'[f][k] \in 0 .. CountMax
  <2>1. /\ io_count[f][k] = Cardinality(Waiting(f, k))
        /\ io_count[f][k] \in 0 .. CountMax
        /\ io_events[f] \subseteq Events
    BY DEF MapsRight, MapTypes, EvmapMatchesFlags, Waiting
  <2>2. e \notin io_events[f]
    BY <1>2 DEF MapsRight, EvmapMatchesFlags
  <2>3. CASE f = F /\ k \in c.events
    <3>1. Waiting(f, k)' = Waiting(f, k) \cup {e}
      BY <1>1, <1>3, <1>4, <2>1, <2>2, <2>3 DEF Waiting, MapsRight, MapTypes
    <3>2. io_count'[f][k] = io_count[f][k] + 1
      BY <1>1, <2>3 DEF MapsRight, MapTypes
    <3>3. Cardinality(Waiting(f, k) \cup {e}) = Cardinality(Waiting(f, k)) + 1
      BY <2>1, <2>2, EventSets DEF Waiting
    <3>4. io_count[f][k] # CountMax
      BY <1>1, <2>3
    <3>. QED
      BY <2>1, <3>1, <3>2, <3>3, <3>4, BoundsAssumption
  <2>4. CASE ~(f = F /\ k \in c.events)
    <3>1. Waiting(f, k)' = Waiting(f, k)
      BY <1>1, <1>3, <1>4, <2>1, <2>2, <2>4 DEF Waiting, MapsRight, MapTypes
    <3>2. io_count'[f][k] = io_count[f][k]
      BY <1>1, <2>4 DEF MapsRight, MapTypes
    <3>. QED
      BY <2>1, <3>1, <3>2
  <2>. QED
    BY <2>3, <2>4
<1>10. EvmapMatchesFlags'
  BY <1>6, <1>7, <1>8, <1>9 DEF EvmapMatchesFlags, Waiting
<1>11. MapTypes'
  <2>1. io_count' \in [Fds -> [IoKinds -> 0 .. CountMax]]
    <3>1. io_count' = [f \in Fds |-> [k \in IoKinds |-> io_count'[f][k]]]
      BY <1>1 DEF MapsRight, MapTypes
    <3>. QED
      BY <1>9, <3>1
  <2>2. NewKinds(c) \subseteq IoKinds
    BY DEF NewKinds
  <2>. QED
    BY <1>1, <2>1, <2>2 DEF MapsRight, MapTypes
<1>12. KernelCoversInterest'
  <2>1. ASSUME NEW f \in Fds, NEW d \in io_events'[f], NEW k \in ev_events'[d] \cap IoKinds
        PROVE  k \in kernel'[f]
    <3>1. CASE d = e
      <4>1. f = F /\ k \in c.events
        BY <1>4, <1>6, <3>1
      <4>2. CASE io_count[F][k] = 0
        BY <1>1, <4>1, <4>2 DEF NewKinds, MapsRight, MapTypes
      <4>3. CASE io_count[F][k] # 0
        <5>1. Cardinality(Waiting(F, k)) # 0
          BY <4>3 DEF MapsRight, EvmapMatchesFlags, Waiting
        <5>2. PICK w \in io_events[F] : k \in ev_events[w]
          BY <5>1, FS_EmptySet DEF Waiting
        <5>. QED
          BY <1>1, <4>1, <5>2 DEF MapsRight, MapTypes, KernelCoversInterest
      <4>. QED
        BY <4>2, <4>3
    <3>2. CASE d # e
      <4>1. d \in io_events[f] /\ d \in Events
        BY <1>1, <3>2 DEF MapsRight, MapTypes
      <4>. QED
        BY <1>1, <1>3, <3>2, <4>1 DEF MapsRight, MapTypes, KernelCoversInterest
    <3>. QED
      BY <3>1, <3>2
  <2>. QED
    BY <1>1, <2>1 DEF KernelCoversInterest, MapsRight
<1>. QED
  BY <1>10, <1>11, <1>12 DEF MapsRight

\* lu_evmap_signal_add_ keeps the maps right.
LEMMA SignalAddition ==
  ASSUME EventTypes, MapsRight,
         NEW e \in Events, ~Is("INSERTED", e), NEW c \in Args,
         ~Polls(c.events), c.fd \in Sigs, SignalAdd(e, c),
         ev_fd' = [ev_fd EXCEPT ![e] = c.fd],
         ev_events' = [ev_events EXCEPT ![e] = c.events],
         On("INSERTED")' = On("INSERTED") \cup {e}
  PROVE  MapsRight'
<1>1. /\ sig_events' = [sig_events EXCEPT ![c.fd] = @ \cup {e}]
      /\ kernel_sigs' = kernel_sigs \cup {c.fd}
      /\ UNCHANGED <<io_events, io_count, kernel>>
  BY DEF SignalAdd
<1>2. e \notin On("INSERTED") /\ On("INSERTED") \subseteq Events
  BY DEF On
<1>3. /\ \A d \in Events \ {e} : ev_fd'[d] = ev_fd[d] /\ ev_events'[d] = ev_events[d]
      /\ ev_fd'[e] = c.fd /\ ev_events'[e] = c.events
  BY DEF EventTypes
<1>4. \A f \in Fds :
        io_events'[f] = {d \in On("INSERTED")' : ev_fd'[d] = f /\ Polls(ev_events'[d])}
  BY <1>1, <1>2, <1>3 DEF MapsRight, EvmapMatchesFlags
<1>5. \A s \in Sigs :
        sig_events'[s] = {d \in On("INSERTED")' : ev_fd'[d] = s /\ ~Polls(ev_events'[d])}
  <2>1. TAKE s \in Sigs
  <2>2. sig_events[s] = {d \in On("INSERTED") : ev_fd[d] = s /\ ~Polls(ev_events[d])}
    BY DEF MapsRight, EvmapMatchesFlags
  <2>3. sig_events'[s] = IF s = c.fd THEN sig_events[s] \cup {e} ELSE sig_events[s]
    BY <1>1 DEF MapsRight, MapTypes
  <2>. QED
    BY <1>2, <1>3, <2>2, <2>3
<1>6. \A d \in On("INSERTED")' : Polls(ev_events'[d]) \/ ev_fd'[d] \in Sigs
  BY <1>2, <1>3 DEF MapsRight, EvmapMatchesFlags
<1>7. \A f \in Fds : \A d \in io_events[f] : ev_events'[d] = ev_events[d]
  BY <1>2, <1>3 DEF MapsRight, EvmapMatchesFlags
<1>8. \A f \in Fds, k \in IoKinds :
        io_count'[f][k] = Cardinality({d \in io_events'[f] : k \in ev_events'[d]})
  <2>1. TAKE f \in Fds, k \in IoKinds
  <2>2. {d \in io_events'[f] : k \in ev_events'[d]} = {d \in io_events[f] : k \in ev_events[d]}
    BY <1>1, <1>7
  <2>. QED
    BY <1>1, <2>2 DEF MapsRight, EvmapMatchesFlags
<1>9. EvmapMatchesFlags'
  BY <1>4, <1>5, <1>6, <1>8 DEF EvmapMatchesFlags
<1>10. MapTypes' /\ KernelCoversInterest'
  BY <1>1, <1>7 DEF MapsRight, MapTypes, KernelCoversInterest
<1>. QED
  BY <1>9, <1>10 DEF MapsRight

\* An operation that touches no inserted event leaves the maps right.
LEMMA MapsUnchanged ==
  ASSUME EventTypes, MapsRight, UNCHANGED mapVars, On("INSERTED")' = On("INSERTED"),
         \A e \in On("INSERTED") : ev_fd'[e] = ev_fd[e] /\ ev_events'[e] = ev_events[e]
  PROVE  MapsRight'
<1>1. UNCHANGED <<io_events, io_count, sig_events, kernel, kernel_sigs>>
  BY DEF mapVars
<1>2. \A f \in Fds : \A d \in io_events[f] : ev_events'[d] = ev_events[d]
  BY DEF MapsRight, EvmapMatchesFlags
<1>3. \A f \in Fds, k \in IoKinds :
        io_count'[f][k] = Cardinality({d \in io_events'[f] : k \in ev_events'[d]})
  <2>1. TAKE f \in Fds, k \in IoKinds
  <2>2. {d \in io_events'[f] : k \in ev_events'[d]} = {d \in io_events[f] : k \in ev_events[d]}
    BY <1>1, <1>2
  <2>. QED
    BY <1>1, <2>2 DEF MapsRight, EvmapMatchesFlags
<1>4. EvmapMatchesFlags'
  BY <1>1, <1>3 DEF MapsRight, EvmapMatchesFlags
<1>5. MapTypes' /\ KernelCoversInterest'
  BY <1>1, <1>2 DEF MapsRight, MapTypes, KernelCoversInterest
<1>. QED
  BY <1>4, <1>5 DEF MapsRight

\* An io event without a descriptor is on no list.
LEMMA NoAddition ==
  ASSUME EventTypes, MapsRight,
         NEW e \in Events, ~Is("INSERTED", e), NEW c \in Args,
         Polls(c.events), c.fd = NoFd, UNCHANGED mapVars,
         ev_fd' = [ev_fd EXCEPT ![e] = c.fd],
         ev_events' = [ev_events EXCEPT ![e] = c.events],
         On("INSERTED")' = On("INSERTED") \cup {e}
  PROVE  MapsRight'
<1>1. UNCHANGED <<io_events, io_count, sig_events, kernel, kernel_sigs>>
  BY DEF mapVars
<1>2. e \notin On("INSERTED") /\ On("INSERTED") \subseteq Events
  BY DEF On
<1>3. /\ \A d \in Events \ {e} : ev_fd'[d] = ev_fd[d] /\ ev_events'[d] = ev_events[d]
      /\ ev_fd'[e] = NoFd /\ ev_events'[e] = c.events
  BY DEF EventTypes
<1>4. NoFd \notin Fds /\ NoFd \notin Sigs
  BY DescriptorsAssumption
<1>5. \A f \in Fds :
        io_events'[f] = {d \in On("INSERTED")' : ev_fd'[d] = f /\ Polls(ev_events'[d])}
  BY <1>1, <1>2, <1>3, <1>4 DEF MapsRight, EvmapMatchesFlags
<1>6. \A s \in Sigs :
        sig_events'[s] = {d \in On("INSERTED")' : ev_fd'[d] = s /\ ~Polls(ev_events'[d])}
  BY <1>1, <1>2, <1>3, <1>4 DEF MapsRight, EvmapMatchesFlags
<1>7. \A d \in On("INSERTED")' : Polls(ev_events'[d]) \/ ev_fd'[d] \in Sigs
  BY <1>2, <1>3 DEF MapsRight, EvmapMatchesFlags
<1>8. \A f \in Fds : \A d \in io_events[f] : ev_events'[d] = ev_events[d]
  BY <1>2, <1>3 DEF MapsRight, EvmapMatchesFlags
<1>9. \A f \in Fds, k \in IoKinds :
        io_count'[f][k] = Cardinality({d \in io_events'[f] : k \in ev_events'[d]})
  <2>1. TAKE f \in Fds, k \in IoKinds
  <2>2. {d \in io_events'[f] : k \in ev_events'[d]} = {d \in io_events[f] : k \in ev_events[d]}
    BY <1>1, <1>8
  <2>. QED
    BY <1>1, <2>2 DEF MapsRight, EvmapMatchesFlags
<1>10. EvmapMatchesFlags'
  BY <1>5, <1>6, <1>7, <1>9 DEF EvmapMatchesFlags
<1>11. MapTypes' /\ KernelCoversInterest'
  BY <1>1, <1>8 DEF MapsRight, MapTypes, KernelCoversInterest
<1>. QED
  BY <1>10, <1>11 DEF MapsRight

\* The addition of an event to the maps, whatever it waits for.
LEMMA MapAddition ==
  ASSUME EventTypes, MapsRight,
         NEW e \in Events, ~Is("INSERTED", e), NEW c \in Args, EvmapAdd(e, c),
         ev_fd' = [ev_fd EXCEPT ![e] = c.fd],
         ev_events' = [ev_events EXCEPT ![e] = c.events],
         On("INSERTED")' = On("INSERTED") \cup {e}
  PROVE  MapsRight'
<1>1. CASE Polls(c.events) /\ c.fd \in Fds /\ IoAdd(e, c)
  BY <1>1, IoAddition
<1>2. CASE Polls(c.events) /\ c.fd = NoFd /\ UNCHANGED <<mapVars, is_notify_pending>>
  <2>1. UNCHANGED mapVars
    BY <1>2
  <2>. QED
    BY <1>2, <2>1, NoAddition
<1>3. CASE ~Polls(c.events) /\ c.fd \in Sigs /\ SignalAdd(e, c)
  BY <1>3, SignalAddition
<1>. QED
  BY <1>1, <1>2, <1>3 DEF EvmapAdd

\* lu_evmap_io_del_ keeps the maps right, and in particular takes no kind from
\* the backend that another event of the descriptor waits for.
LEMMA IoDeletion ==
  ASSUME EventTypes, MapsRight, NEW idle, NEW foreign,
         NEW e \in On("INSERTED"),
         Polls(ev_events[e]), ev_fd[e] \in Fds, IoDel(e, idle, foreign),
         UNCHANGED <<ev_fd, ev_events>>,
         On("INSERTED")' = On("INSERTED") \ {e}
  PROVE  MapsRight'
<1> DEFINE F == ev_fd[e]
<1>1. /\ io_events' = [io_events EXCEPT ![F] = @ \ {e}]
      /\ io_count' = [io_count EXCEPT ![F] =
                        [k \in IoKinds |-> IF k \in ev_events[e] THEN @[k] - 1 ELSE @[k]]]
      /\ \/ kernel' = [kernel EXCEPT ![F] = @ \ LastKinds(e)]
         \/ kernel' = kernel
      /\ sig_events' = sig_events
      /\ kernel_sigs' = kernel_sigs
  BY DEF IoDel
<1>2. On("INSERTED") \subseteq Events
  BY DEF On
<1>3. e \in io_events[F]
  BY DEF MapsRight, EvmapMatchesFlags
<1>4. \A f \in Fds :
        io_events'[f] = {d \in On("INSERTED")' : ev_fd'[d] = f /\ Polls(ev_events'[d])}
  <2>1. TAKE f \in Fds
  <2>2. io_events[f] = {d \in On("INSERTED") : ev_fd[d] = f /\ Polls(ev_events[d])}
    BY DEF MapsRight, EvmapMatchesFlags
  <2>3. io_events'[f] = IF f = F THEN io_events[f] \ {e} ELSE io_events[f]
    BY <1>1 DEF MapsRight, MapTypes
  <2>. QED
    BY <2>2, <2>3
<1>5. \A s \in Sigs :
        sig_events'[s] = {d \in On("INSERTED")' : ev_fd'[d] = s /\ ~Polls(ev_events'[d])}
  BY <1>1 DEF MapsRight, EvmapMatchesFlags
<1>6. \A d \in On("INSERTED")' : Polls(ev_events'[d]) \/ ev_fd'[d] \in Sigs
  BY DEF MapsRight, EvmapMatchesFlags
<1>7. ASSUME NEW f \in Fds, NEW k \in IoKinds
      PROVE  /\ io_count'[f][k] = Cardinality(Waiting(f, k)')
             /\ io_count'[f][k] \in 0 .. CountMax
  <2>1. /\ io_count[f][k] = Cardinality(Waiting(f, k))
        /\ io_count[f][k] \in 0 .. CountMax
        /\ Waiting(f, k) \in SUBSET Events
    BY DEF MapsRight, MapTypes, EvmapMatchesFlags, Waiting
  <2>2. CASE f = F /\ k \in ev_events[e]
    <3>1. Waiting(f, k)' = Waiting(f, k) \ {e}
      BY <1>1, <2>2 DEF Waiting, MapsRight, MapTypes
    <3>2. io_count'[f][k] = io_count[f][k] - 1
      BY <1>1, <2>2 DEF MapsRight, MapTypes
    <3>3. e \in Waiting(f, k)
      BY <1>3, <2>2 DEF Waiting
    <3>4. /\ Cardinality(Waiting(f, k) \ {e}) = Cardinality(Waiting(f, k)) - 1
          /\ Cardinality(Waiting(f, k)) > 0
      BY <2>1, <3>3, EventSets
    <3>. QED
      BY <2>1, <3>1, <3>2, <3>4, BoundsAssumption
  <2>3. CASE ~(f = F /\ k \in ev_events[e])
    <3>1. Waiting(f, k)' = Waiting(f, k)
      BY <1>1, <2>3 DEF Waiting, MapsRight, MapTypes
    <3>2. io_count'[f][k] = io_count[f][k]
      BY <1>1, <2>3 DEF MapsRight, MapTypes
    <3>. QED
      BY <2>1, <3>1, <3>2
  <2>. QED
    BY <2>2, <2>3
<1>8. EvmapMatchesFlags'
  BY <1>4, <1>5, <1>6, <1>7 DEF EvmapMatchesFlags, Waiting
<1>9. MapTypes'
  <2>1. io_count' = [f \in Fds |-> [k \in IoKinds |-> io_count'[f][k]]]
    BY <1>1 DEF MapsRight, MapTypes
  <2>2. io_count' \in [Fds -> [IoKinds -> 0 .. CountMax]]
    BY <1>7, <2>1
  <2>. QED
    BY <1>1, <2>2 DEF MapsRight, MapTypes
<1>10. ASSUME NEW f \in Fds, NEW d \in io_events'[f], NEW k \in ev_events'[d] \cap IoKinds
       PROVE  k \in kernel'[f]
  <2>1. d \in io_events[f] /\ d # e
    BY <1>1, <1>4 DEF MapsRight, MapTypes
  <2>2. k \in kernel[f]
    BY <2>1 DEF MapsRight, KernelCoversInterest
  <2>3. ~(f = F /\ k \in LastKinds(e))
    <3>1. SUFFICES ASSUME f = F, k \in LastKinds(e) PROVE FALSE
      OBVIOUS
    <3>2. Cardinality(Waiting(F, k)) = 1
      BY <3>1 DEF LastKinds, Waiting, MapsRight, EvmapMatchesFlags
    <3>3. e \in Waiting(F, k) /\ d \in Waiting(F, k) \ {e}
      BY <1>3, <2>1, <3>1 DEF LastKinds, Waiting
    <3>4. Waiting(F, k) \in SUBSET Events
      BY DEF Waiting, MapsRight, MapTypes
    <3>5. Cardinality(Waiting(F, k) \ {e}) = 0
      BY <3>2, <3>3, <3>4, EventSets
    <3>6. Cardinality(Waiting(F, k) \ {e}) > 0
      BY <3>3, <3>4, EventSets
    <3>. QED
      BY <3>5, <3>6
  <2>. QED
    BY <1>1, <2>2, <2>3 DEF MapsRight, MapTypes
<1>11. KernelCoversInterest'
  BY <1>1, <1>10 DEF KernelCoversInterest, MapsRight
<1>. QED
  BY <1>8, <1>9, <1>11 DEF MapsRight

\* lu_evmap_signal_del_ keeps the maps right.
LEMMA SignalDeletion ==
  ASSUME EventTypes, MapsRight, NEW foreign,
         NEW e \in On("INSERTED"),
         ~Polls(ev_events[e]), ev_fd[e] \in Sigs, SignalDel(e, foreign),
         UNCHANGED <<ev_fd, ev_events>>,
         On("INSERTED")' = On("INSERTED") \ {e}
  PROVE  MapsRight'
<1> DEFINE s0 == ev_fd[e]
<1>1. /\ sig_events' = [sig_events EXCEPT ![s0] = @ \ {e}]
      /\ \/ kernel_sigs' = IF sig_events[s0] = {e} THEN kernel_sigs \ {s0} ELSE kernel_sigs
         \/ kernel_sigs' = kernel_sigs
      /\ UNCHANGED <<io_events, io_count, kernel>>
  BY DEF SignalDel
<1>2. \A f \in Fds :
        io_events'[f] = {d \in On("INSERTED")' : ev_fd'[d] = f /\ Polls(ev_events'[d])}
  BY <1>1 DEF MapsRight, EvmapMatchesFlags
<1>3. \A s \in Sigs :
        sig_events'[s] = {d \in On("INSERTED")' : ev_fd'[d] = s /\ ~Polls(ev_events'[d])}
  <2>1. TAKE s \in Sigs
  <2>2. sig_events[s] = {d \in On("INSERTED") : ev_fd[d] = s /\ ~Polls(ev_events[d])}
    BY DEF MapsRight, EvmapMatchesFlags
  <2>3. sig_events'[s] = IF s = s0 THEN sig_events[s] \ {e} ELSE sig_events[s]
    BY <1>1 DEF MapsRight, MapTypes
  <2>. QED
    BY <2>2, <2>3
<1>4. \A d \in On("INSERTED")' : Polls(ev_events'[d]) \/ ev_fd'[d] \in Sigs
  BY DEF MapsRight, EvmapMatchesFlags
<1>5. EvmapMatchesFlags'
  BY <1>1, <1>2, <1>3, <1>4 DEF MapsRight, EvmapMatchesFlags
<1>6. MapTypes' /\ KernelCoversInterest'
  BY <1>1 DEF MapsRight, MapTypes, KernelCoversInterest
<1>. QED
  BY <1>5, <1>6 DEF MapsRight

\* The deletion of an event from the maps, whatever it waits for.
LEMMA MapDeletion ==
  ASSUME EventTypes, MapsRight, NEW idle, NEW foreign,
         NEW e \in On("INSERTED"), EvmapDel(e, idle, foreign),
         UNCHANGED <<ev_fd, ev_events>>,
         On("INSERTED")' = On("INSERTED") \ {e}
  PROVE  MapsRight'
<1>1. CASE Polls(ev_events[e]) /\ ev_fd[e] \in Fds /\ IoDel(e, idle, foreign)
  BY <1>1, IoDeletion
<1>2. CASE Polls(ev_events[e]) /\ ev_fd[e] = NoFd /\ UNCHANGED mapVars
  <2>1. UNCHANGED <<io_events, io_count, sig_events, kernel, kernel_sigs>>
    BY <1>2 DEF mapVars
  <2>2. ev_fd[e] \notin Fds /\ ev_fd[e] \notin Sigs
    BY <1>2, DescriptorsAssumption
  <2>3. EvmapMatchesFlags'
    BY <2>1, <2>2 DEF MapsRight, EvmapMatchesFlags
  <2>4. MapTypes' /\ KernelCoversInterest'
    BY <2>1 DEF MapsRight, MapTypes, KernelCoversInterest
  <2>. QED
    BY <2>3, <2>4 DEF MapsRight
<1>3. CASE ~Polls(ev_events[e]) /\ ev_fd[e] \in Sigs /\ SignalDel(e, foreign)
  BY <1>3, SignalDeletion
<1>. QED
  BY <1>1, <1>2, <1>3 DEF EvmapDel

-----------------------------------------------------------------------------
(***************************************************************************)
(* Steps that several operations share.                                    *)
(***************************************************************************)

QueuesRight == QueueTypes /\ QueuesMatchFlags

\* An event becomes active.
LEMMA Activation ==
  ASSUME IInv, phase = "live", phase' = "live",
         NEW e \in Events, ~Is("ACTIVE", e), NEW pri \in Priorities, QueueActive(e, pri),
         ev_pri' = [ev_pri EXCEPT ![e] = pri], nactivequeues' = nactivequeues
  PROVE  /\ QueuesRight'
         /\ CountsExact'
         /\ event_count' \in Int
         /\ is_notify_pending' \in BOOLEAN
         /\ On("ACTIVE")' = On("ACTIVE") \cup {e}
         /\ On("INSERTED")' = On("INSERTED")
<1>1. /\ QueueTypes' /\ QueuesMatchFlags'
      /\ On("ACTIVE")' = On("ACTIVE") \cup {e}
  BY QueueAppend DEF IInv, TypeOK
<1>2. On("INSERTED")' = On("INSERTED")
  BY DEF QueueActive, On, Is, IInv, TypeOK, EventTypes
<1>3. /\ event_count_active' = event_count_active + 1
      /\ event_count' = event_count + Weight(e)
  BY DEF QueueActive
<1>4. On("ACTIVE") \in SUBSET Events /\ On("INSERTED") \in SUBSET Events /\ e \notin On("ACTIVE")
  BY DEF On
<1>5. /\ Cardinality(On("ACTIVE")') = Cardinality(On("ACTIVE")) + 1
      /\ Cardinality(On("ACTIVE")) \in Nat
  BY <1>1, <1>4, EventSets
<1>6. /\ Weights(On("ACTIVE")') = Weights(On("ACTIVE")) + Weight(e)
      /\ Weights(On("ACTIVE")) \in Nat
      /\ Weights(On("INSERTED")) \in Nat
      /\ Weight(e) \in Int
  BY <1>1, <1>4, WeighedSets
<1>7. /\ event_count = Weights(On("INSERTED")) + Weights(On("ACTIVE"))
      /\ event_count_active = Cardinality(On("ACTIVE"))
  BY DEF IInv, CountsExact
<1>10. CountsExact'
  BY <1>2, <1>3, <1>5, <1>6, <1>7 DEF CountsExact
<1>8. is_notify_pending' \in BOOLEAN
  BY DEF QueueActive, NotifyBase
<1>9. event_count' \in Int
  BY <1>3, <1>6 DEF IInv, TypeOK, BaseTypes
<1>. QED
  BY <1>1, <1>2, <1>8, <1>9, <1>10 DEF QueuesRight

\* An event stops being active and stays where else it is.
LEMMA Deactivation ==
  ASSUME IInv, phase = "live",
         NEW e \in On("ACTIVE"), RemoveActive(e),
         event_count' = event_count - Weight(e),
         On("ACTIVE")' = On("ACTIVE") \ {e}, On("INSERTED")' = On("INSERTED"),
         ev_pri' = ev_pri, nactivequeues' = nactivequeues
  PROVE  QueuesRight' /\ CountsExact' /\ event_count' \in Int
<1>1. QueueTypes' /\ QueuesMatchFlags'
  BY QueueRemoval DEF IInv, TypeOK
<1>2. event_count_active' = event_count_active - 1
  BY DEF RemoveActive
<1>3. On("ACTIVE") \in SUBSET Events /\ On("INSERTED") \in SUBSET Events /\ e \in Events
  BY DEF On
<1>4. /\ Cardinality(On("ACTIVE")') = Cardinality(On("ACTIVE")) - 1
      /\ Cardinality(On("ACTIVE")) \in Nat
  BY <1>3, EventSets
<1>5. /\ Weights(On("ACTIVE")') = Weights(On("ACTIVE")) - Weight(e)
      /\ Weights(On("ACTIVE")) \in Nat
      /\ Weights(On("INSERTED")) \in Nat
      /\ Weight(e) \in Int
  BY <1>3, WeighedSets
<1>6. /\ event_count = Weights(On("INSERTED")) + Weights(On("ACTIVE"))
      /\ event_count_active = Cardinality(On("ACTIVE"))
  BY DEF IInv, CountsExact
<1>8. CountsExact'
  BY <1>2, <1>4, <1>5, <1>6 DEF CountsExact
<1>7. event_count' \in Int
  BY <1>5 DEF IInv, TypeOK, BaseTypes
<1>. QED
  BY <1>1, <1>7, <1>8 DEF QueuesRight

\* An event is inserted.
LEMMA Insertion ==
  ASSUME IInv, phase = "live",
         NEW e \in Events, ~Is("INSERTED", e), NEW c \in Args, Insert(e, c),
         ev_fd' = [ev_fd EXCEPT ![e] = c.fd],
         ev_events' = [ev_events EXCEPT ![e] = c.events],
         UNCHANGED <<activequeues, nactivequeues, event_count_active>>,
         \A d \in On("ACTIVE") : ev_pri'[d] = ev_pri[d]
  PROVE  /\ QueuesRight'
         /\ MapsRight'
         /\ CountsExact'
         /\ event_count' \in Int
         /\ is_notify_pending' \in BOOLEAN
         /\ On("ACTIVE")' = On("ACTIVE")
         /\ On("INSERTED")' = On("INSERTED") \cup {e}
<1>1. On("INSERTED")' = On("INSERTED") \cup {e} /\ On("ACTIVE")' = On("ACTIVE")
  BY DEF Insert, On, Is, IInv, TypeOK, EventTypes
<1>2. EvmapAdd(e, c) /\ event_count' = event_count + Weight(e)
  BY DEF Insert
<1>3. MapsRight'
  BY <1>1, <1>2, MapAddition DEF IInv, TypeOK, MapsRight
<1>4. QueuesRight'
  BY <1>1, QueueUnchanged DEF IInv, TypeOK, QueuesRight, queueVars
<1>5. /\ On("INSERTED") \in SUBSET Events /\ On("ACTIVE") \in SUBSET Events
      /\ e \notin On("INSERTED")
  BY DEF On
<1>6. /\ Weights(On("INSERTED")') = Weights(On("INSERTED")) + Weight(e)
      /\ Weights(On("INSERTED")) \in Nat
      /\ Weights(On("ACTIVE")) \in Nat
      /\ Weight(e) \in Int
  BY <1>1, <1>5, WeighedSets
<1>7. /\ event_count = Weights(On("INSERTED")) + Weights(On("ACTIVE"))
      /\ event_count_active = Cardinality(On("ACTIVE"))
  BY DEF IInv, CountsExact
<1>10. CountsExact'
  BY <1>1, <1>2, <1>6, <1>7 DEF CountsExact
<1>8. is_notify_pending' \in BOOLEAN
  BY <1>2 DEF EvmapAdd, IoAdd, SignalAdd, NotifyBase, IInv, TypeOK, BaseTypes
<1>9. event_count' \in Int
  BY <1>2, <1>6 DEF IInv, TypeOK, BaseTypes
<1>. QED
  BY <1>1, <1>3, <1>4, <1>8, <1>9, <1>10

\* The list memberships lu_event_del_nolock_ takes an event out of.
LEMMA Memberships ==
  ASSUME EventTypes, NEW e \in Events
  PROVE  Cardinality(ev_flags[e] \ {"INIT"}) =
           (IF Is("INSERTED", e) THEN 1 ELSE 0) + (IF Is("ACTIVE", e) THEN 1 ELSE 0)
<1>1. ev_flags[e] \ {"INIT"} \subseteq {"INSERTED", "ACTIVE"}
  BY DEF EventTypes, Flags
<1>2. CASE Is("INSERTED", e) /\ Is("ACTIVE", e)
  <2>1. ev_flags[e] \ {"INIT"} = {"INSERTED"} \cup {"ACTIVE"}
    BY <1>1, <1>2 DEF Is
  <2>2. Cardinality({"INSERTED"}) = 1 /\ IsFiniteSet({"INSERTED"})
    BY FS_Singleton
  <2>3. Cardinality({"INSERTED"} \cup {"ACTIVE"}) = 2
    BY <2>2, FS_AddElement
  <2>. QED
    BY <1>2, <2>1, <2>3
<1>3. CASE Is("INSERTED", e) /\ ~Is("ACTIVE", e)
  <2>1. ev_flags[e] \ {"INIT"} = {"INSERTED"}
    BY <1>1, <1>3 DEF Is
  <2>. QED
    BY <1>3, <2>1, FS_Singleton
<1>4. CASE ~Is("INSERTED", e) /\ Is("ACTIVE", e)
  <2>1. ev_flags[e] \ {"INIT"} = {"ACTIVE"}
    BY <1>1, <1>4 DEF Is
  <2>. QED
    BY <1>4, <2>1, FS_Singleton
<1>5. CASE ~Is("INSERTED", e) /\ ~Is("ACTIVE", e)
  <2>1. ev_flags[e] \ {"INIT"} = {}
    BY <1>1, <1>5 DEF Is
  <2>. QED
    BY <1>5, <2>1, FS_EmptySet
<1>. QED
  BY <1>2, <1>3, <1>4, <1>5

\* An event is taken off every list it is on.
LEMMA Unlinking ==
  ASSUME IInv, phase = "live", NEW e \in Events, NEW foreign \in BOOLEAN, Unlink(e, foreign),
         On("ACTIVE")' = On("ACTIVE") \ {e}, On("INSERTED")' = On("INSERTED") \ {e},
         UNCHANGED <<ev_fd, ev_events, ev_pri, nactivequeues>>
  PROVE  /\ QueuesRight'
         /\ MapsRight'
         /\ CountsExact'
         /\ event_count' \in Int
         /\ is_notify_pending' \in BOOLEAN
         /\ ret' \in {-1, 0}
<1>1. EventTypes /\ QueueTypes /\ QueuesMatchFlags /\ MapsRight /\ BaseTypes
  BY DEF IInv, TypeOK, MapsRight
<1>2. e \in On("ACTIVE") <=> Is("ACTIVE", e)
  BY DEF On
<1>3. e \in On("INSERTED") <=> Is("INSERTED", e)
  BY DEF On
<1>4. QueuesRight'
  <2>1. CASE Is("ACTIVE", e)
    <3>1. RemoveActive(e)
      BY <2>1 DEF Unlink
    <3>. QED
      BY <1>1, <1>2, <2>1, <3>1, QueueRemoval DEF QueuesRight
  <2>2. CASE ~Is("ACTIVE", e)
    <3>1. UNCHANGED queueVars /\ On("ACTIVE")' = On("ACTIVE")
      BY <1>2, <2>2 DEF Unlink, queueVars
    <3>. QED
      BY <1>1, <3>1, QueueUnchanged DEF QueuesRight
  <2>. QED
    BY <2>1, <2>2
<1>5. MapsRight'
  <2>1. CASE Is("INSERTED", e)
    BY <1>1, <1>3, <2>1, MapDeletion DEF Unlink
  <2>2. CASE ~Is("INSERTED", e)
    <3>1. UNCHANGED mapVars /\ On("INSERTED")' = On("INSERTED")
      BY <1>3, <2>2 DEF Unlink
    <3>. QED
      BY <1>1, <3>1, MapsUnchanged
  <2>. QED
    BY <2>1, <2>2
<1>6. ret' \in {-1, 0}
  BY DEF Unlink, EvmapDel, IoDel, SignalDel
<1>7. is_notify_pending' \in BOOLEAN
  BY <1>1 DEF Unlink, EvmapDel, IoDel, SignalDel, NotifyBase, BaseTypes
<1>8. /\ On("ACTIVE") \in SUBSET Events
      /\ On("INSERTED") \in SUBSET Events
  BY DEF On
<1> DEFINE i == IF Is("INSERTED", e) THEN 1 ELSE 0
           a == IF Is("ACTIVE", e) THEN 1 ELSE 0
           A == Weights(On("ACTIVE"))
           I == Weights(On("INSERTED"))
<1>9. event_count' = event_count - Weight(e) * (i + a)
  BY <1>1, Memberships DEF Unlink
<1>10. event_count_active' = event_count_active - a
  BY <1>1 DEF Unlink, RemoveActive, QueueTypes
<1>11. Weight(e) \in Int /\ A \in Nat /\ I \in Nat /\ Cardinality(On("ACTIVE")) \in Nat
  BY <1>8, WeighedSets, EventSets
<1>12. Cardinality(On("ACTIVE")') = Cardinality(On("ACTIVE")) - a
  <2>1. CASE Is("ACTIVE", e)
    BY <1>2, <1>8, <2>1, EventSets
  <2>2. CASE ~Is("ACTIVE", e)
    <3>1. On("ACTIVE")' = On("ACTIVE")
      BY <1>2, <2>2
    <3>. QED
      BY <1>11, <2>2, <3>1
  <2>. QED
    BY <2>1, <2>2
<1>13. Weights(On("ACTIVE")') = A - Weight(e) * a
  <2>1. CASE Is("ACTIVE", e)
    BY <1>2, <1>8, <1>11, <2>1, WeighedSets
  <2>2. CASE ~Is("ACTIVE", e)
    <3>1. On("ACTIVE")' = On("ACTIVE")
      BY <1>2, <2>2
    <3>2. Weight(e) * a = 0
      BY <1>11, <2>2
    <3>. QED
      BY <1>11, <3>1, <3>2
  <2>. QED
    BY <2>1, <2>2
<1>14. Weights(On("INSERTED")') = I - Weight(e) * i
  <2>1. CASE Is("INSERTED", e)
    BY <1>3, <1>8, <1>11, <2>1, WeighedSets
  <2>2. CASE ~Is("INSERTED", e)
    <3>1. On("INSERTED")' = On("INSERTED")
      BY <1>3, <2>2
    <3>2. Weight(e) * i = 0
      BY <1>11, <2>2
    <3>. QED
      BY <1>11, <3>1, <3>2
  <2>. QED
    BY <2>1, <2>2
<1>15. i \in {0, 1} /\ a \in {0, 1}
  OBVIOUS
<1>16. event_count = I + A /\ event_count_active = Cardinality(On("ACTIVE"))
  BY DEF IInv, CountsExact
<1>. HIDE DEF i, a, A, I
<1>17. event_count' = (I - Weight(e) * i) + (A - Weight(e) * a)
  BY <1>9, <1>11, <1>15, <1>16
<1>18. event_count' \in Int
  BY <1>11, <1>15, <1>17
<1>19. CountsExact'
  BY <1>10, <1>12, <1>13, <1>14, <1>16, <1>17 DEF CountsExact
<1>. QED
  BY <1>4, <1>5, <1>6, <1>7, <1>18, <1>19

-----------------------------------------------------------------------------
(***************************************************************************)
(* The operations, one lemma each.                                         *)
(***************************************************************************)

\* What the lemmas use of the invariant, part by part.
LEMMA Parts ==
  ASSUME IInv
  PROVE  /\ EventTypes /\ BaseTypes /\ QueueTypes /\ QueuesMatchFlags /\ MapsRight
         /\ CountsExact /\ OnceBlocksOwned /\ InternalActiveIsAdded
  BY DEF IInv, TypeOK, MapsRight

\* The converse of Parts, for the state after a step.
LEMMA Whole ==
  ASSUME EventTypes', BaseTypes', QueuesRight', MapsRight',
         CountsExact', OnceBlocksOwned', InternalActiveIsAdded'
  PROVE  IInv'
  BY DEF IInv, TypeOK, MapsRight, QueuesRight

\* An operation that changes no list, no counter and no descriptor leaves the
\* queues, the maps and the counters right.
LEMMA ListsUnchanged ==
  ASSUME IInv, UNCHANGED <<queueVars, mapVars, event_count, phase>>,
         On("ACTIVE")' = On("ACTIVE"), On("INSERTED")' = On("INSERTED"),
         \A e \in On("ACTIVE") : ev_pri'[e] = ev_pri[e],
         \A e \in On("INSERTED") : ev_fd'[e] = ev_fd[e] /\ ev_events'[e] = ev_events[e]
  PROVE  QueuesRight' /\ MapsRight' /\ CountsExact'
<1>1. QueuesRight'
  BY Parts, QueueUnchanged DEF QueuesRight
<1>2. MapsRight'
  BY Parts, MapsUnchanged
<1>3. CountsExact'
  BY Parts DEF CountsExact, queueVars
<1>. QED
  BY <1>1, <1>2, <1>3

\* Memory that is on no list may be overwritten without harm to the base.
LEMMA RecyclePreserves ==
  ASSUME IInv, NEW e \in Events, NEW fd \in Fds \cup {NoFd}, Recycle(e, fd)
  PROVE  IInv'
<1>1. On("ACTIVE")' = On("ACTIVE") /\ On("INSERTED")' = On("INSERTED")
  BY Parts DEF Recycle, Idle, On, Is, EventTypes
<1>2. /\ \A d \in On("ACTIVE") : ev_pri'[d] = ev_pri[d]
      /\ \A d \in On("INSERTED") : ev_fd'[d] = ev_fd[d] /\ ev_events'[d] = ev_events[d]
  BY Parts DEF Recycle, Idle, On, EventTypes
<1>3. UNCHANGED <<queueVars, mapVars, event_count, phase>>
  BY DEF Recycle, baseVars
<1>4. QueuesRight' /\ MapsRight' /\ CountsExact'
  BY <1>1, <1>2, <1>3, ListsUnchanged
<1>5. EventTypes' /\ BaseTypes'
  BY Parts DEF Recycle, EventTypes, BaseTypes, baseVars
<1>6. OnceBlocksOwned'
  BY Parts, EventsAssumption DEF Recycle, Idle, OnceBlocksOwned, Is, EventTypes, baseVars
<1>7. InternalActiveIsAdded'
  BY Parts, EventsAssumption DEF Recycle, Idle, InternalActiveIsAdded, Is, EventTypes
<1>. QED
  BY <1>4, <1>5, <1>6, <1>7, Whole

\* lu_event_assign of an event on no list disturbs no list and no counter.
LEMMA AssignPreserves ==
  ASSUME IInv, NEW e \in Events, NEW c \in Configs, Assign(e, c)
  PROVE  IInv'
<1>1. On("ACTIVE")' = On("ACTIVE") /\ On("INSERTED")' = On("INSERTED")
  BY Parts DEF Assign, Idle, On, Is, EventTypes
<1>2. /\ \A d \in On("ACTIVE") : ev_pri'[d] = ev_pri[d]
      /\ \A d \in On("INSERTED") : ev_fd'[d] = ev_fd[d] /\ ev_events'[d] = ev_events[d]
  BY Parts DEF Assign, Idle, On, EventTypes
<1>3. UNCHANGED <<queueVars, mapVars, event_count, phase>>
  BY DEF Assign, baseVars
<1>4. QueuesRight' /\ MapsRight' /\ CountsExact'
  BY <1>1, <1>2, <1>3, ListsUnchanged
<1>5. EventTypes'
  <2>1. c.events \in SUBSET EventKinds
    BY KindsAssumption
  <2>2. nactivequeues \div 2 \in Priorities
    BY Parts, BoundsAssumption DEF QueueTypes, Priorities
  <2>3. ev_pri' \in [Events -> Priorities]
    BY Parts, <2>2 DEF Assign, EventTypes
  <2>. QED
    BY Parts, <2>1, <2>3 DEF Assign, EventTypes, Flags
<1>6. BaseTypes'
  BY Parts DEF Assign, BaseTypes, baseVars
<1>7. OnceBlocksOwned'
  BY Parts, EventsAssumption DEF Assign, Idle, OnceBlocksOwned, Is, EventTypes, baseVars
<1>8. InternalActiveIsAdded'
  BY Parts, EventsAssumption DEF Assign, Idle, InternalActiveIsAdded, Is, EventTypes
<1>. QED
  BY <1>4, <1>5, <1>6, <1>7, <1>8, Whole

\* lu_event_priority_set leaves the active events where they are, because it
\* refuses to touch one.
LEMMA PrioritySetPreserves ==
  ASSUME IInv, NEW e \in Events, NEW pri \in Priorities, PrioritySet(e, pri)
  PROVE  IInv'
<1>1. /\ On("ACTIVE")' = On("ACTIVE") /\ On("INSERTED")' = On("INSERTED")
      /\ \A d \in On("ACTIVE") : ev_pri'[d] = ev_pri[d]
      /\ \A d \in On("INSERTED") : ev_fd'[d] = ev_fd[d] /\ ev_events'[d] = ev_events[d]
  BY Parts DEF PrioritySet, On, Is, EventTypes
<1>2. UNCHANGED <<queueVars, mapVars, event_count, phase>>
  BY DEF PrioritySet, baseVars
<1>3. QueuesRight' /\ MapsRight' /\ CountsExact'
  BY <1>1, <1>2, ListsUnchanged
<1>4. EventTypes' /\ BaseTypes'
  BY Parts DEF PrioritySet, EventTypes, BaseTypes, baseVars
<1>5. OnceBlocksOwned' /\ InternalActiveIsAdded'
  BY Parts DEF PrioritySet, OnceBlocksOwned, InternalActiveIsAdded, Is, baseVars
<1>. QED
  BY <1>3, <1>4, <1>5, Whole

\* lu_event_base_priority_init throws queues away only when no event is active,
\* so that no event loses its queue.
LEMMA PriorityInitPreserves ==
  ASSUME IInv, NEW n \in 0 .. MaxPriorities, PriorityInit(n)
  PROVE  IInv'
<1>1. /\ On("ACTIVE")' = On("ACTIVE") /\ On("INSERTED")' = On("INSERTED")
      /\ UNCHANGED <<eventVars, mapVars, event_count, event_count_active, phase>>
  BY DEF PriorityInit, On, Is, eventVars, baseVars
<1>2. CASE UNCHANGED <<activequeues, nactivequeues>>
  <2>1. QueuesRight' /\ MapsRight' /\ CountsExact'
    BY <1>1, <1>2, ListsUnchanged DEF queueVars, eventVars
  <2>2. EventTypes' /\ BaseTypes' /\ OnceBlocksOwned' /\ InternalActiveIsAdded'
    BY Parts DEF PriorityInit, EventTypes, BaseTypes, OnceBlocksOwned,
                 InternalActiveIsAdded, Is, eventVars, baseVars
  <2>. QED
    BY <2>1, <2>2, Whole
<1>3. CASE /\ event_count_active = 0
           /\ activequeues' = [p \in Priorities |-> <<>>]
           /\ nactivequeues' \in Priorities
  <2>1. On("ACTIVE") = {}
    <3>1. On("ACTIVE") \in SUBSET Events
      BY DEF On
    <3>2. Cardinality(On("ACTIVE")) = 0
      BY <1>3, Parts DEF PriorityInit, Callable, CountsExact
    <3>. QED
      BY <3>1, <3>2, EventSets, FS_EmptySet
  <2>2. QueuesRight'
    <3>1. \A p \in Priorities : activequeues'[p] = <<>>
      BY <1>3
    <3>2. ToSet(<<>>) = {} /\ IsInjective(<<>>)
      BY DEF ToSet, IsInjective
    <3>3. QueuesMatchFlags'
      BY <1>1, <2>1, <3>1, <3>2 DEF QueuesMatchFlags
    <3>4. <<>> \in Seq(Events)
      OBVIOUS
    <3>5. event_count_active' \in Int
      BY <1>1, Parts DEF QueueTypes
    <3>6. QueueTypes'
      BY <1>3, <3>4, <3>5 DEF QueueTypes
    <3>. QED
      BY <3>3, <3>6 DEF QueuesRight
  <2>3. MapsRight'
    BY <1>1, Parts, MapsUnchanged DEF eventVars
  <2>4. CountsExact'
    BY <1>1, Parts DEF CountsExact
  <2>5. EventTypes' /\ BaseTypes' /\ OnceBlocksOwned' /\ InternalActiveIsAdded'
    BY Parts DEF PriorityInit, EventTypes, BaseTypes, OnceBlocksOwned,
                 InternalActiveIsAdded, Is, eventVars, baseVars
  <2>. QED
    BY <2>2, <2>3, <2>4, <2>5, Whole
<1>4. 1 .. MaxPriorities - 1 \subseteq Priorities /\ 0 \in Priorities
  BY BoundsAssumption DEF Priorities
<1>. QED
  BY <1>2, <1>3, <1>4 DEF PriorityInit

\* Reading the wake-up changes nothing else.
LEMMA DrainPreserves ==
  ASSUME IInv, Drain
  PROVE  IInv'
<1>1. /\ UNCHANGED <<eventVars, queueVars, mapVars, event_count, once_events, lock_leaked, phase, ret>>
      /\ is_notify_pending' = FALSE
  BY DEF Drain
<1>2. /\ On("ACTIVE")' = On("ACTIVE") /\ On("INSERTED")' = On("INSERTED")
      /\ UNCHANGED <<ev_fd, ev_events, ev_pri>>
  BY <1>1 DEF On, Is, eventVars
<1>3. QueuesRight' /\ MapsRight' /\ CountsExact'
  BY <1>1, <1>2, ListsUnchanged
<1>4. EventTypes' /\ BaseTypes' /\ OnceBlocksOwned' /\ InternalActiveIsAdded'
  BY <1>1, Parts DEF EventTypes, BaseTypes, OnceBlocksOwned, InternalActiveIsAdded, Is, eventVars
<1>. QED
  BY <1>3, <1>4, Whole

\* A failed assertion ends the process; what it leaves is as it was.
LEMMA AssertPreserves ==
  ASSUME IInv, NEW pri \in Priorities, AssertPriority(pri)
  PROVE  IInv'
<1>1. UNCHANGED <<eventVars, queueVars, mapVars, event_count, once_events,
                  is_notify_pending, lock_leaked, ret>> /\ phase' = "aborted"
  BY DEF AssertPriority
<1>. QED
  BY <1>1 DEF IInv, TypeOK, EventTypes, QueueTypes, MapTypes, BaseTypes, QueuesMatchFlags,
         CountsExact, EvmapMatchesFlags, KernelCoversInterest, OnceBlocksOwned,
         InternalActiveIsAdded, On, Is, eventVars, queueVars, mapVars

\* lu_event_active_nolock_ queues an event that was on no queue, under a priority
\* that has a queue, and counts it once.
LEMMA ActivePreserves ==
  ASSUME IInv, NEW e \in Events, NEW res \in Results, Active(e, res)
  PROVE  IInv'
<1>1. CASE /\ Is("ACTIVE", e)
           /\ ev_res' = [ev_res EXCEPT ![e] = @ \cup res]
           /\ UNCHANGED <<ev_fd, ev_events, ev_flags, ev_pri, activequeues, nactivequeues,
                          event_count_active, mapVars, event_count, is_notify_pending,
                          once_events, lock_leaked, phase>>
           /\ ret' = 0
  <2>1. On("ACTIVE")' = On("ACTIVE") /\ On("INSERTED")' = On("INSERTED")
    BY <1>1 DEF On, Is
  <2>2. QueuesRight' /\ MapsRight' /\ CountsExact'
    BY <1>1, <2>1, ListsUnchanged DEF queueVars
  <2>3. EventTypes'
    BY <1>1, Parts, KindsAssumption DEF EventTypes
  <2>4. BaseTypes' /\ OnceBlocksOwned' /\ InternalActiveIsAdded'
    BY <1>1, Parts DEF BaseTypes, OnceBlocksOwned, InternalActiveIsAdded, Is
  <2>. QED
    BY <2>2, <2>3, <2>4, Whole
<1>2. CASE /\ ~Is("ACTIVE", e)
           /\ ev_res' = [ev_res EXCEPT ![e] = res]
           /\ QueueActive(e, ev_pri[e])
           /\ UNCHANGED <<ev_fd, ev_events, ev_pri, nactivequeues, mapVars,
                          once_events, lock_leaked, phase>>
           /\ ret' = 0
  <2>1. /\ phase = "live" /\ phase' = "live" /\ Is("INIT", e)
        /\ e \in Internal => Is("INSERTED", e)
    BY <1>2 DEF Active, Callable, Assigned
  <2>2. ev_pri[e] \in Priorities /\ ev_pri' = [ev_pri EXCEPT ![e] = ev_pri[e]]
    BY <1>2, Parts DEF EventTypes
  <2>3. /\ QueuesRight'
        /\ CountsExact'
        /\ event_count' \in Int
        /\ is_notify_pending' \in BOOLEAN
        /\ On("ACTIVE")' = On("ACTIVE") \cup {e}
        /\ On("INSERTED")' = On("INSERTED")
    BY <1>2, <2>1, <2>2, Activation
  <2>4. MapsRight'
    BY <1>2, <2>3, Parts, MapsUnchanged
  <2>5. ev_flags' = [ev_flags EXCEPT ![e] = @ \cup {"INIT", "ACTIVE"}]
    BY <1>2 DEF QueueActive
  <2>6. EventTypes'
    BY <1>2, <2>5, Parts, KindsAssumption DEF EventTypes, Flags
  <2>7. BaseTypes'
    BY <1>2, <2>3, Parts DEF BaseTypes
  <2>8. OnceBlocksOwned'
    BY <1>2, <2>1, <2>5, Parts DEF OnceBlocksOwned, Is, EventTypes
  <2>9. InternalActiveIsAdded'
    BY <1>2, <2>1, <2>5, Parts DEF InternalActiveIsAdded, Is, EventTypes
  <2>. QED
    BY <2>3, <2>4, <2>6, <2>7, <2>8, <2>9, Whole
<1>3. CASE AssertPriority(ev_pri[e])
  BY <1>3, Parts, AssertPreserves DEF EventTypes
<1>. QED
  BY <1>1, <1>2, <1>3 DEF Active

\* lu_event_del_nolock_ takes the event off every list its flags name, and off
\* the counters as often.
LEMMA DelPreserves ==
  ASSUME IInv, NEW e \in Events, Del(e)
  PROVE  IInv'
<1>1. /\ phase = "live" /\ e \notin OnceStore
      /\ ev_flags' = [ev_flags EXCEPT ![e] = @ \ {"INSERTED", "ACTIVE"}]
      /\ Unlink(e, ForeignLoop)
      /\ UNCHANGED <<ev_fd, ev_events, ev_pri, ev_res, nactivequeues,
                     once_events, lock_leaked, phase>>
  BY DEF Del, Callable
<1>2. /\ On("ACTIVE")' = On("ACTIVE") \ {e}
      /\ On("INSERTED")' = On("INSERTED") \ {e}
  BY <1>1, Parts DEF On, Is, EventTypes
<1>3. /\ QueuesRight' /\ MapsRight' /\ CountsExact'
      /\ event_count' \in Int
      /\ is_notify_pending' \in BOOLEAN
      /\ ret' \in {-1, 0}
  BY <1>1, <1>2, ModesAssumption, Unlinking
<1>4. EventTypes'
  BY <1>1, Parts DEF EventTypes
<1>5. BaseTypes'
  BY <1>1, <1>3, Parts DEF BaseTypes
<1>6. OnceBlocksOwned' /\ InternalActiveIsAdded'
  BY <1>1, Parts DEF OnceBlocksOwned, InternalActiveIsAdded, Is, EventTypes
<1>. QED
  BY <1>3, <1>4, <1>5, <1>6, Whole

\* lu_event_add_nolock_ preserves the invariant whether it fails, inserts, takes
\* a timeout off the active queue, or does nothing.
LEMMA AddPreserves ==
  ASSUME IInv, NEW e \in Events, NEW tv \in BOOLEAN, Add(e, tv)
  PROVE  IInv'
<1> DEFINE c == [fd |-> ev_fd[e], events |-> ev_events[e]]
<1>1. /\ phase = "live" /\ Is("INIT", e) /\ e \notin OnceStore
      /\ UNCHANGED <<ev_fd, ev_events, ev_pri, ev_res, nactivequeues, once_events,
                     lock_leaked, phase>>
  BY DEF Add, Callable, Assigned
<1>2. c \in Args
  BY Parts DEF Args, EventTypes
<1>3. CASE /\ ret' \in {-1, 0}
           /\ UNCHANGED <<ev_flags, activequeues, event_count_active, mapVars,
                          event_count, is_notify_pending>>
  <2>1. On("ACTIVE")' = On("ACTIVE") /\ On("INSERTED")' = On("INSERTED")
    BY <1>3 DEF On, Is
  <2>2. QueuesRight' /\ MapsRight' /\ CountsExact'
    BY <1>1, <1>3, <2>1, ListsUnchanged DEF queueVars
  <2>3. EventTypes' /\ BaseTypes' /\ OnceBlocksOwned' /\ InternalActiveIsAdded'
    BY <1>1, <1>3, Parts DEF EventTypes, BaseTypes, OnceBlocksOwned, InternalActiveIsAdded, Is
  <2>. QED
    BY <2>2, <2>3, Whole
<1>4. CASE /\ Inserts(e)
           /\ Insert(e, c)
           /\ ret' = 0
           /\ UNCHANGED <<activequeues, event_count_active>>
  <2>1. /\ ~Is("INSERTED", e) /\ ~Is("ACTIVE", e)
        /\ ev_flags' = [ev_flags EXCEPT ![e] = @ \cup {"INIT", "INSERTED"}]
    BY <1>4 DEF Inserts, Insert
  <2>2. /\ ev_fd' = [ev_fd EXCEPT ![e] = c.fd]
        /\ ev_events' = [ev_events EXCEPT ![e] = c.events]
        /\ \A d \in On("ACTIVE") : ev_pri'[d] = ev_pri[d]
    BY <1>1, Parts DEF EventTypes
  <2>. HIDE DEF c
  <2>3. /\ QueuesRight' /\ MapsRight' /\ CountsExact'
        /\ event_count' \in Int
        /\ is_notify_pending' \in BOOLEAN
    BY <1>1, <1>2, <1>4, <2>1, <2>2, Insertion
  <2>4. EventTypes'
    BY <1>1, <2>1, Parts DEF EventTypes, Flags
  <2>5. BaseTypes'
    BY <1>1, <1>4, <2>3, Parts DEF BaseTypes
  <2>6. OnceBlocksOwned'
    BY <1>1, <2>1, Parts DEF OnceBlocksOwned, Is, EventTypes
  <2>7. InternalActiveIsAdded'
    BY <1>1, <2>1, Parts DEF InternalActiveIsAdded, Is, EventTypes
  <2>. QED
    BY <2>3, <2>4, <2>5, <2>6, <2>7, Whole
<1>5. CASE /\ Reschedules(e, tv)
           /\ RemoveActive(e)
           /\ ev_flags' = [ev_flags EXCEPT ![e] = @ \ {"ACTIVE"}]
           /\ event_count' = event_count - Weight(e)
           /\ ret' = 0
           /\ UNCHANGED <<mapVars, is_notify_pending>>
  <2>1. e \in On("ACTIVE")
    BY <1>5 DEF Reschedules, On
  <2>2. On("ACTIVE")' = On("ACTIVE") \ {e} /\ On("INSERTED")' = On("INSERTED")
    BY <1>5, Parts DEF On, Is, EventTypes
  <2>3. QueuesRight' /\ CountsExact' /\ event_count' \in Int
    BY <1>1, <1>5, <2>1, <2>2, Deactivation
  <2>4. MapsRight'
    BY <1>1, <1>5, <2>2, Parts, MapsUnchanged
  <2>5. EventTypes'
    BY <1>1, <1>5, Parts DEF EventTypes
  <2>6. BaseTypes'
    BY <1>1, <1>5, <2>3, Parts DEF BaseTypes
  <2>7. OnceBlocksOwned' /\ InternalActiveIsAdded'
    BY <1>1, <1>5, Parts DEF OnceBlocksOwned, InternalActiveIsAdded, Is, EventTypes
  <2>. QED
    BY <2>3, <2>4, <2>5, <2>6, <2>7, Whole
<1>. QED
  BY <1>3, <1>4, <1>5 DEF Add, AddFails

\* What a successful lu_event_base_once leaves in its block has the right types,
\* and the block is on the list of the base.
LEMMA OnceSetUp ==
  ASSUME IInv, NEW o \in OnceStore, NEW events \in SUBSET IoKinds, NEW res,
         res \in {{}, {"TIMEOUT"}}, SetUpOnce(o, events, res),
         NEW flags \in SUBSET Flags, ev_flags' = [ev_flags EXCEPT ![o] = flags],
         "INIT" \in flags, event_count' \in Int, is_notify_pending' \in BOOLEAN
  PROVE  EventTypes' /\ BaseTypes' /\ OnceBlocksOwned' /\ InternalActiveIsAdded'
<1>1. o \in Events /\ o \notin Internal
  BY EventsAssumption
<1>2. nactivequeues \div 2 \in Priorities
  BY Parts, BoundsAssumption DEF QueueTypes, Priorities
<1>3. Zero \in Fds
  BY DescriptorsAssumption
<1>4. ev_fd' \in [Events -> Fds \cup {NoFd}] /\ ev_events' \in [Events -> SUBSET EventKinds]
  BY <1>1, <1>3, Parts DEF SetUpOnce, EventTypes, EventKinds
<1>5. ev_pri' \in [Events -> Priorities]
  BY <1>1, <1>2, Parts DEF SetUpOnce, EventTypes
<1>6. /\ ev_res' \in [Events -> SUBSET (IoKinds \cup {"TIMEOUT", "SIGNAL"})]
      /\ ev_flags' \in [Events -> SUBSET Flags]
  BY <1>1, Parts DEF SetUpOnce, EventTypes
<1>7. BaseTypes'
  BY Parts DEF SetUpOnce, BaseTypes
<1>8. OnceBlocksOwned'
  BY <1>1, EventsAssumption, Parts DEF SetUpOnce, OnceBlocksOwned, Is, EventTypes
<1>9. InternalActiveIsAdded'
  BY <1>1, EventsAssumption, Parts DEF SetUpOnce, InternalActiveIsAdded, Is, EventTypes
<1>. QED
  BY <1>4, <1>5, <1>6, <1>7, <1>8, <1>9 DEF EventTypes

\* lu_event_base_once lists the block it keeps, and keeps none when it fails.
LEMMA BaseOncePreserves ==
  ASSUME IInv, NEW o \in OnceStore, NEW c \in OnceConfigs, NEW tv \in BOOLEAN,
         BaseOnce(o, c, tv)
  PROVE  IInv'
<1> DEFINE pri == nactivequeues \div 2
<1>1. /\ phase = "live" /\ ev_flags[o] = {}
      /\ o \in Events /\ o \notin Internal
      /\ ~Is("INSERTED", o) /\ ~Is("ACTIVE", o)
      /\ o \notin On("INSERTED") /\ o \notin On("ACTIVE")
  BY EventsAssumption DEF BaseOnce, Callable, Is, On
<1>2. pri \in Priorities
  BY Parts, BoundsAssumption DEF QueueTypes, Priorities
<1>3. c.events \in SUBSET IoKinds /\ {} \in SUBSET IoKinds
  BY KindsAssumption
<1>4. CASE QueueActive(o, pri) /\ SetUpOnce(o, {}, {"TIMEOUT"}) /\ UNCHANGED mapVars
  <2>1. /\ phase' = "live" /\ nactivequeues' = nactivequeues
        /\ ev_pri' = [ev_pri EXCEPT ![o] = pri]
        /\ ev_fd' = [ev_fd EXCEPT ![o] = Zero]
        /\ ev_events' = [ev_events EXCEPT ![o] = {}]
        /\ ev_flags' = [ev_flags EXCEPT ![o] = {"INIT", "ACTIVE"}]
    BY <1>1, <1>4, Parts DEF SetUpOnce, QueueActive, EventTypes
  <2>. HIDE DEF pri
  <2>2. /\ QueuesRight'
        /\ CountsExact'
        /\ event_count' \in Int
        /\ is_notify_pending' \in BOOLEAN
        /\ On("ACTIVE")' = On("ACTIVE") \cup {o}
        /\ On("INSERTED")' = On("INSERTED")
    BY <1>1, <1>2, <1>4, <2>1, Activation
  <2>3. \A d \in On("INSERTED") : ev_fd'[d] = ev_fd[d] /\ ev_events'[d] = ev_events[d]
    BY <1>1, <2>1, Parts DEF EventTypes, On
  <2>4. MapsRight'
    BY <1>4, <2>2, <2>3, Parts, MapsUnchanged
  <2>5. EventTypes' /\ BaseTypes' /\ OnceBlocksOwned' /\ InternalActiveIsAdded'
    <3>1. {"INIT", "ACTIVE"} \in SUBSET Flags /\ "INIT" \in {"INIT", "ACTIVE"}
      BY DEF Flags
    <3>. QED
      BY <1>3, <1>4, <2>1, <2>2, <3>1, OnceSetUp
  <2>. QED
    BY <2>2, <2>4, <2>5, Whole
<1>5. CASE /\ SetUpOnce(o, {}, {})
           /\ ev_flags' = [ev_flags EXCEPT ![o] = {"INIT"}]
           /\ UNCHANGED <<activequeues, event_count_active, event_count,
                          is_notify_pending, mapVars>>
  <2>1. /\ On("ACTIVE")' = On("ACTIVE") /\ On("INSERTED")' = On("INSERTED")
    BY <1>1, <1>5, Parts DEF On, Is, EventTypes
  <2>2. /\ \A d \in On("ACTIVE") : ev_pri'[d] = ev_pri[d]
        /\ \A d \in On("INSERTED") : ev_fd'[d] = ev_fd[d] /\ ev_events'[d] = ev_events[d]
        /\ UNCHANGED <<nactivequeues, phase>>
    BY <1>1, <1>5, Parts DEF SetUpOnce, EventTypes, On
  <2>3. QueuesRight' /\ MapsRight' /\ CountsExact'
    BY <1>5, <2>1, <2>2, ListsUnchanged DEF queueVars
  <2>4. EventTypes' /\ BaseTypes' /\ OnceBlocksOwned' /\ InternalActiveIsAdded'
    <3>1. {"INIT"} \in SUBSET Flags /\ "INIT" \in {"INIT"}
      BY DEF Flags
    <3>2. event_count' \in Int /\ is_notify_pending' \in BOOLEAN
      BY <1>5, Parts DEF BaseTypes
    <3>. QED
      BY <1>3, <1>5, <3>1, <3>2, OnceSetUp
  <2>. QED
    BY <2>3, <2>4, Whole
<1>6. CASE OnceIo(o, c.events)
  <2> DEFINE a == [fd |-> Zero, events |-> c.events]
  <2>1. /\ Insert(o, a)
        /\ SetUpOnce(o, c.events, {})
        /\ UNCHANGED <<activequeues, event_count_active>>
    BY <1>6 DEF OnceIo
  <2>2. a \in Args
    BY <1>3, DescriptorsAssumption DEF Args, EventKinds
  <2>3. /\ UNCHANGED nactivequeues
        /\ ev_fd' = [ev_fd EXCEPT ![o] = a.fd]
        /\ ev_events' = [ev_events EXCEPT ![o] = a.events]
        /\ \A d \in On("ACTIVE") : ev_pri'[d] = ev_pri[d]
    BY <1>1, <2>1, Parts DEF SetUpOnce, EventTypes, On
  <2>4. ev_flags' = [ev_flags EXCEPT ![o] = {"INIT", "INSERTED"}]
    BY <1>1, <2>1, Parts DEF Insert, EventTypes
  <2>. HIDE DEF a
  <2>5. /\ QueuesRight' /\ MapsRight' /\ CountsExact'
        /\ event_count' \in Int
        /\ is_notify_pending' \in BOOLEAN
    BY <1>1, <2>1, <2>2, <2>3, Insertion
  <2>6. EventTypes' /\ BaseTypes' /\ OnceBlocksOwned' /\ InternalActiveIsAdded'
    <3>1. {"INIT", "INSERTED"} \in SUBSET Flags /\ "INIT" \in {"INIT", "INSERTED"}
      BY DEF Flags
    <3>. QED
      BY <1>3, <2>1, <2>4, <2>5, <3>1, OnceSetUp
  <2>. QED
    BY <2>5, <2>6, Whole
<1>7. CASE OnceFails(c.events, tv)
  <2>1. /\ UNCHANGED <<eventVars, queueVars, mapVars, event_count, once_events,
                       is_notify_pending, phase>>
        /\ lock_leaked' = Locking /\ ret' = -1
    BY <1>7 DEF OnceFails
  <2>2. /\ On("ACTIVE")' = On("ACTIVE") /\ On("INSERTED")' = On("INSERTED")
        /\ UNCHANGED <<ev_fd, ev_events, ev_pri>>
    BY <2>1 DEF On, Is, eventVars
  <2>3. QueuesRight' /\ MapsRight' /\ CountsExact'
    BY <2>1, <2>2, ListsUnchanged
  <2>4. EventTypes' /\ BaseTypes' /\ OnceBlocksOwned' /\ InternalActiveIsAdded'
    BY <2>1, Parts, ModesAssumption
       DEF EventTypes, BaseTypes, OnceBlocksOwned, InternalActiveIsAdded, Is, eventVars
  <2>. QED
    BY <2>3, <2>4, Whole
<1>8. CASE AssertPriority(pri)
  BY <1>2, <1>8, AssertPreserves
<1>. QED
  BY <1>4, <1>5, <1>6, <1>7, <1>8 DEF BaseOnce, OnceNow, OnceLater

\* Running the foremost active event takes it off its queue, and off the maps
\* unless it is persistent; the block of a once event is unlisted and freed.
LEMMA RunPreserves ==
  ASSUME IInv, NEW e \in Events, Run(e)
  PROVE  IInv'
<1>1. /\ phase = "live"
      /\ UNCHANGED <<ev_fd, ev_events, ev_pri, ev_res, nactivequeues, lock_leaked, phase>>
  BY DEF Run, Callable
<1>2. e \in On("ACTIVE")
  <2>1. PICK p \in Priorities : activequeues[p] # <<>> /\ Head(activequeues[p]) = e
    BY DEF Run, Foremost
  <2>2. activequeues[p] \in Seq(Events)
    BY Parts DEF QueueTypes
  <2>3. e \in ToSet(activequeues[p])
    BY <2>1, <2>2, EmptySeq, LenProperties DEF ToSet
  <2>. QED
    BY <2>3, Parts DEF QueuesMatchFlags
<1>3. CASE /\ RemoveActive(e)
           /\ ev_flags' = [ev_flags EXCEPT ![e] = @ \ {"ACTIVE"}]
           /\ event_count' = event_count - Weight(e)
           /\ ret' = 0
           /\ UNCHANGED <<mapVars, is_notify_pending, once_events>>
  <2>1. On("ACTIVE")' = On("ACTIVE") \ {e} /\ On("INSERTED")' = On("INSERTED")
    BY <1>3, Parts DEF On, Is, EventTypes
  <2>2. QueuesRight' /\ CountsExact' /\ event_count' \in Int
    BY <1>1, <1>2, <1>3, <2>1, Deactivation
  <2>3. MapsRight'
    BY <1>1, <1>3, <2>1, Parts, MapsUnchanged
  <2>4. EventTypes'
    BY <1>1, <1>3, Parts DEF EventTypes
  <2>5. BaseTypes'
    BY <1>1, <1>3, <2>2, Parts DEF BaseTypes
  <2>6. OnceBlocksOwned' /\ InternalActiveIsAdded'
    BY <1>1, <1>3, Parts DEF OnceBlocksOwned, InternalActiveIsAdded, Is, EventTypes
  <2>. QED
    BY <2>2, <2>3, <2>4, <2>5, <2>6, Whole
<1>4. CASE /\ Unlink(e, FALSE)
           /\ ev_flags' = [ev_flags EXCEPT ![e] =
                             IF e \in OnceStore THEN {} ELSE @ \ {"INSERTED", "ACTIVE"}]
           /\ once_events' = once_events \ {e}
  <2>1. On("ACTIVE")' = On("ACTIVE") \ {e} /\ On("INSERTED")' = On("INSERTED") \ {e}
    BY <1>4, Parts DEF On, Is, EventTypes
  <2>2. /\ QueuesRight' /\ MapsRight' /\ CountsExact'
        /\ event_count' \in Int
        /\ is_notify_pending' \in BOOLEAN
        /\ ret' \in {-1, 0}
    BY <1>1, <1>4, <2>1, Unlinking
  <2>3. EventTypes'
    BY <1>1, <1>4, Parts DEF EventTypes
  <2>4. BaseTypes'
    BY <1>1, <1>4, <2>2, Parts DEF BaseTypes
  <2>5. OnceBlocksOwned'
    BY <1>1, <1>4, Parts DEF OnceBlocksOwned, Is, EventTypes
  <2>6. InternalActiveIsAdded'
    BY <1>1, <1>4, Parts, EventsAssumption DEF InternalActiveIsAdded, Is, EventTypes
  <2>. QED
    BY <2>2, <2>3, <2>4, <2>5, <2>6, Whole
<1>. QED
  BY <1>3, <1>4 DEF Run

\* lu_event_base_free_ leaves no event flagged as on a list of the base it was
\* on: only events without a descriptor, on no list, stay flagged INSERTED.
LEMMA BaseFreePreserves ==
  ASSUME IInv, BaseFree
  PROVE  IInv'
<1> DEFINE mapped == (UNION {io_events[f] : f \in Fds}) \cup (UNION {sig_events[s] : s \in Sigs})
           deleted == mapped \cup (On("ACTIVE") \ Internal)
<1>1. /\ \A e \in Events : e \in once_events => ev_flags'[e] = {}
      /\ \A e \in Events : e \notin once_events /\ e \in deleted
                             => ev_flags'[e] = ev_flags[e] \ {"INSERTED", "ACTIVE"}
      /\ \A e \in Events : e \notin once_events /\ e \notin deleted
                             => ev_flags'[e] = ev_flags[e]
      /\ DOMAIN ev_flags' = Events
      /\ ev_flags' = [e \in Events |-> ev_flags'[e]]
  BY DEF BaseFree
<1>2. /\ phase' = IF On("ACTIVE") \subseteq deleted THEN "freed" ELSE "aborted"
      /\ activequeues' = [p \in Priorities |-> <<>>]
      /\ event_count_active' = 0
      /\ event_count' = 0
      /\ io_events' = [f \in Fds |-> {}]
      /\ io_count' = [f \in Fds |-> [k \in IoKinds |-> 0]]
      /\ sig_events' = [s \in Sigs |-> {}]
      /\ kernel' = [f \in Fds |-> {}]
      /\ kernel_sigs' = {}
      /\ once_events' = {}
      /\ is_notify_pending' = FALSE
      /\ ret' = 0
      /\ UNCHANGED <<ev_fd, ev_events, ev_pri, ev_res, nactivequeues, lock_leaked>>
  BY DEF BaseFree
<1>3. On("ACTIVE") \subseteq deleted
  <2>1. ASSUME NEW i \in Internal, i \in On("ACTIVE") PROVE i \in mapped
    <3>1. i \in On("INSERTED") /\ ev_fd[i] = Zero /\ Polls(ev_events[i])
      BY <2>1, Parts DEF InternalActiveIsAdded, On
    <3>2. Zero \in Fds
      BY DescriptorsAssumption
    <3>3. i \in io_events[Zero]
      BY <3>1, <3>2, Parts DEF MapsRight, EvmapMatchesFlags
    <3>. QED
      BY <3>2, <3>3
  <2>. QED
    BY <2>1
<1>4. phase' = "freed"
  BY <1>2, <1>3
<1>5. On("ACTIVE")' = {}
  BY <1>1, <1>3 DEF On, Is
<1>6. ASSUME NEW e \in On("INSERTED")'
      PROVE  e \in On("INSERTED") /\ e \notin mapped
  BY <1>1 DEF On, Is
<1>7. \A e \in On("INSERTED") :
        e \notin mapped => /\ \A f \in Fds : e \notin io_events[f]
                          /\ \A s \in Sigs : e \notin sig_events[s]
  <2>1. TAKE e \in On("INSERTED")
  <2>2. ASSUME NEW f \in Fds, e \in io_events[f] PROVE e \in mapped
    BY <2>2
  <2>3. ASSUME NEW s \in Sigs, e \in sig_events[s] PROVE e \in mapped
    BY <2>3
  <2>. QED
    BY <2>2, <2>3
<1>. HIDE DEF mapped
<1>8. EventTypes'
  <2>1. ASSUME NEW e \in Events PROVE ev_flags'[e] \in SUBSET Flags
    <3>1. ev_flags[e] \in SUBSET Flags
      BY Parts DEF EventTypes
    <3>2. CASE e \in once_events
      BY <1>1, <3>2
    <3>3. CASE e \notin once_events /\ e \in deleted
      BY <1>1, <3>1, <3>3
    <3>4. CASE e \notin once_events /\ e \notin deleted
      BY <1>1, <3>1, <3>4
    <3>. QED
      BY <3>2, <3>3, <3>4
  <2>2. ev_flags' \in [Events -> SUBSET Flags]
    BY <1>1, <2>1
  <2>. QED
    BY <1>2, <2>2, Parts DEF EventTypes
<1>9. BaseTypes'
  <2>1. event_count' = 0 /\ once_events' = {} /\ is_notify_pending' = FALSE /\ ret' = 0
    BY <1>2
  <2>2. lock_leaked' \in BOOLEAN
    BY <1>2, Parts DEF BaseTypes
  <2>3. event_count' \in Int /\ once_events' \subseteq OnceStore /\ ret' \in {-1, 0}
    BY <2>1
  <2>4. is_notify_pending' \in BOOLEAN /\ phase' \in {"live", "freed", "aborted"}
    BY <1>4, <2>1
  <2>. QED
    BY <2>2, <2>3, <2>4 DEF BaseTypes
<1>10. QueuesRight'
  <2>1. \A p \in Priorities : activequeues'[p] = <<>>
    BY <1>2
  <2>2. ToSet(<<>>) = {} /\ IsInjective(<<>>)
    BY DEF ToSet, IsInjective
  <2>3. QueuesMatchFlags'
    BY <1>5, <2>1, <2>2 DEF QueuesMatchFlags
  <2>4. <<>> \in Seq(Events)
    OBVIOUS
  <2>5. QueueTypes'
    BY <1>2, <2>4, Parts DEF QueueTypes
  <2>. QED
    BY <2>3, <2>5 DEF QueuesRight
<1>11. MapsRight'
  <2>1. /\ \A f \in Fds : io_events'[f] = {} /\ kernel'[f] = {}
        /\ \A f \in Fds, k \in IoKinds : io_count'[f][k] = 0
        /\ \A s \in Sigs : sig_events'[s] = {}
    BY <1>2
  <2>2. \A f \in Fds :
          io_events'[f] = {e \in On("INSERTED")' : ev_fd'[e] = f /\ Polls(ev_events'[e])}
    BY <1>2, <1>6, <1>7, <2>1, Parts DEF MapsRight, EvmapMatchesFlags
  <2>3. \A s \in Sigs :
          sig_events'[s] = {e \in On("INSERTED")' : ev_fd'[e] = s /\ ~Polls(ev_events'[e])}
    BY <1>2, <1>6, <1>7, <2>1, Parts DEF MapsRight, EvmapMatchesFlags
  <2>4. \A e \in On("INSERTED")' : Polls(ev_events'[e]) \/ ev_fd'[e] \in Sigs
    BY <1>2, <1>6, Parts DEF MapsRight, EvmapMatchesFlags
  <2>5. \A f \in Fds, k \in IoKinds :
          io_count'[f][k] = Cardinality({e \in io_events'[f] : k \in ev_events'[e]})
    <3>1. TAKE f \in Fds, k \in IoKinds
    <3>2. {e \in io_events'[f] : k \in ev_events'[e]} = {}
      BY <2>1
    <3>3. Cardinality({}) = 0
      BY FS_EmptySet
    <3>. QED
      BY <2>1, <3>2, <3>3
  <2>6. EvmapMatchesFlags'
    BY <2>2, <2>3, <2>4, <2>5 DEF EvmapMatchesFlags
  <2>7. MapTypes'
    BY <1>2, BoundsAssumption DEF MapTypes
  <2>8. KernelCoversInterest'
    BY <2>1 DEF KernelCoversInterest
  <2>. QED
    BY <2>6, <2>7, <2>8 DEF MapsRight
<1>12. CountsExact'
  BY <1>4 DEF CountsExact
<1>13. OnceBlocksOwned'
  <2>1. \A o \in OnceStore : o \in Events /\ (o \in once_events <=> "INIT" \in ev_flags[o])
    BY Parts, EventsAssumption DEF OnceBlocksOwned, Is
  <2>2. \A o \in OnceStore : "INIT" \notin ev_flags'[o]
    BY <1>1, <2>1
  <2>. QED
    BY <1>2, <2>2 DEF OnceBlocksOwned, Is
<1>14. InternalActiveIsAdded'
  BY <1>2, <1>5, Parts, EventsAssumption DEF InternalActiveIsAdded, On
<1>. QED
  BY <1>8, <1>9, <1>10, <1>11, <1>12, <1>13, <1>14, Whole

-----------------------------------------------------------------------------
(***************************************************************************)
(* The theorems.                                                           *)
(***************************************************************************)

\* A new base satisfies the invariant.
LEMMA InitEstablishes == Init => IInv
<1> SUFFICES ASSUME Init PROVE IInv
  OBVIOUS
<1>1. On("ACTIVE") = {} /\ On("INSERTED") = {}
  BY DEF Init, On, Is
<1>2. Zero \in Fds /\ 0 \in Priorities /\ 1 \in Priorities
  BY DescriptorsAssumption, BoundsAssumption DEF Priorities
<1>3. EventTypes
  BY <1>2, KindsAssumption DEF Init, EventTypes, Flags, EventKinds
<1>4. QueueTypes
  <2>1. <<>> \in Seq(Events)
    OBVIOUS
  <2>. QED
    BY <1>2, <2>1 DEF Init, QueueTypes
<1>5. MapTypes
  BY BoundsAssumption DEF Init, MapTypes
<1>6. BaseTypes
  <2>1. /\ event_count = 0 /\ once_events = {} /\ is_notify_pending = FALSE
        /\ lock_leaked = FALSE /\ phase = "live" /\ ret = 0
    BY DEF Init
  <2>2. event_count \in Int /\ once_events \subseteq OnceStore /\ ret \in {-1, 0}
    BY <2>1
  <2>3. /\ is_notify_pending \in BOOLEAN /\ lock_leaked \in BOOLEAN
        /\ phase \in {"live", "freed", "aborted"}
    BY <2>1
  <2>. QED
    BY <2>2, <2>3 DEF BaseTypes
<1>7. QueuesMatchFlags
  <2>1. \A p \in Priorities : activequeues[p] = <<>>
    BY DEF Init
  <2>2. ToSet(<<>>) = {} /\ IsInjective(<<>>)
    BY DEF ToSet, IsInjective
  <2>. QED
    BY <1>1, <2>1, <2>2 DEF QueuesMatchFlags
<1>8. CountsExact
  <2>1. Cardinality({}) = 0
    BY FS_EmptySet
  <2>2. Weights({}) = 0
    <3>1. {} \ Internal = {}
      OBVIOUS
    <3>. QED
      BY <2>1, <3>1 DEF Weights
  <2>3. /\ Weights(On("INSERTED")) = 0 /\ Weights(On("ACTIVE")) = 0
        /\ Cardinality(On("ACTIVE")) = 0
    BY <1>1, <2>1, <2>2
  <2>4. event_count = 0 /\ event_count_active = 0
    BY DEF Init
  <2>. QED
    BY <2>3, <2>4 DEF CountsExact
<1>9. EvmapMatchesFlags
  <2>1. /\ \A f \in Fds : io_events[f] = {}
        /\ \A f \in Fds, k \in IoKinds : io_count[f][k] = 0
        /\ \A s \in Sigs : sig_events[s] = {}
    BY DEF Init
  <2>2. \A f \in Fds, k \in IoKinds :
          io_count[f][k] = Cardinality({e \in io_events[f] : k \in ev_events[e]})
    <3>1. TAKE f \in Fds, k \in IoKinds
    <3>2. {e \in io_events[f] : k \in ev_events[e]} = {}
      BY <2>1
    <3>3. Cardinality({}) = 0
      BY FS_EmptySet
    <3>. QED
      BY <2>1, <3>2, <3>3
  <2>. QED
    BY <1>1, <2>1, <2>2 DEF EvmapMatchesFlags
<1>10. KernelCoversInterest
  BY DEF Init, KernelCoversInterest
<1>11. OnceBlocksOwned
  BY EventsAssumption DEF Init, OnceBlocksOwned, Is
<1>12. InternalActiveIsAdded
  BY EventsAssumption, KindsAssumption DEF Init, InternalActiveIsAdded, Is, Polls
<1>. QED
  BY <1>3, <1>4, <1>5, <1>6, <1>7, <1>8, <1>9, <1>10, <1>11, <1>12 DEF IInv, TypeOK

\* Every operation preserves it.
LEMMA NextPreserves == IInv /\ [Next]_vars => IInv'
<1> SUFFICES ASSUME IInv, [Next]_vars PROVE IInv'
  OBVIOUS
<1>1. CASE UNCHANGED vars
  <2>1. UNCHANGED <<eventVars, queueVars, mapVars, baseVars, ret>>
    BY <1>1 DEF vars
  <2>2. /\ On("ACTIVE")' = On("ACTIVE") /\ On("INSERTED")' = On("INSERTED")
        /\ UNCHANGED <<ev_fd, ev_events, ev_pri, event_count, phase>>
    BY <2>1 DEF On, Is, eventVars, baseVars
  <2>3. QueuesRight' /\ MapsRight' /\ CountsExact'
    BY <2>1, <2>2, ListsUnchanged
  <2>4. EventTypes' /\ BaseTypes' /\ OnceBlocksOwned' /\ InternalActiveIsAdded'
    BY <2>1, Parts
       DEF EventTypes, BaseTypes, OnceBlocksOwned, InternalActiveIsAdded, Is, eventVars, baseVars
  <2>. QED
    BY <2>3, <2>4, Whole
<1>2. ASSUME NEW e \in Events, NEW fd \in Fds \cup {NoFd}, Recycle(e, fd) PROVE IInv'
  BY <1>2, RecyclePreserves
<1>3. ASSUME NEW e \in Events, NEW c \in Configs, Assign(e, c) PROVE IInv'
  BY <1>3, AssignPreserves
<1>4. ASSUME NEW e \in Events, NEW pri \in Priorities, PrioritySet(e, pri) PROVE IInv'
  BY <1>4, PrioritySetPreserves
<1>5. ASSUME NEW e \in Events, NEW res \in Results, Active(e, res) PROVE IInv'
  BY <1>5, ActivePreserves
<1>6. ASSUME NEW e \in Events, NEW tv \in BOOLEAN, Add(e, tv) PROVE IInv'
  BY <1>6, AddPreserves
<1>7. ASSUME NEW e \in Events, Del(e) PROVE IInv'
  BY <1>7, DelPreserves
<1>8. ASSUME NEW e \in Events, Run(e) PROVE IInv'
  BY <1>8, RunPreserves
<1>9. ASSUME NEW o \in OnceStore, NEW c \in OnceConfigs, NEW tv \in BOOLEAN, BaseOnce(o, c, tv)
      PROVE  IInv'
  BY <1>9, BaseOncePreserves
<1>10. ASSUME NEW n \in 0 .. MaxPriorities, PriorityInit(n) PROVE IInv'
  BY <1>10, PriorityInitPreserves
<1>11. CASE Drain
  BY <1>11, DrainPreserves
<1>12. CASE BaseFree
  BY <1>12, BaseFreePreserves
<1>. QED
  BY <1>1, <1>2, <1>3, <1>4, <1>5, <1>6, <1>7, <1>8, <1>9, <1>10, <1>11, <1>12 DEF Next

\* Every state of the event core satisfies the inductive invariant.
THEOREM InvariantHolds == Spec => []IInv
  BY InitEstablishes, NextPreserves, PTL DEF Spec

\* Every field has its type; the counts of a descriptor never leave 0 .. CountMax.
THEOREM TypeCorrect == Spec => []TypeOK
<1>1. IInv => TypeOK
  BY DEF IInv
<1>. QED
  BY <1>1, InvariantHolds, PTL

\* The active queues hold the events flagged active, each once and under the
\* priority it has, in queues that exist.
THEOREM ActiveQueuesRight == Spec => []QueuesMatchFlags
<1>1. IInv => QueuesMatchFlags
  BY DEF IInv
<1>. QED
  BY <1>1, InvariantHolds, PTL

\* event_count and event_count_active never drift from the lists.
THEOREM CountersExact == Spec => []CountsExact
<1>1. IInv => CountsExact
  BY DEF IInv
<1>. QED
  BY <1>1, InvariantHolds, PTL

\* The fd and signal maps hold the inserted events, and nread, nwrite and nclose
\* count them.
THEOREM MapsMatch == Spec => []EvmapMatchesFlags
<1>1. IInv => EvmapMatchesFlags
  BY DEF IInv
<1>. QED
  BY <1>1, InvariantHolds, PTL

\* Whatever calls fail, no event loses the interest the backend has in it.
THEOREM NoInterestLost == Spec => []KernelCoversInterest
<1>1. IInv => KernelCoversInterest
  BY DEF IInv
<1>. QED
  BY <1>1, InvariantHolds, PTL

\* The blocks of lu_event_base_once are allocated exactly while they are listed.
THEOREM OnceBlocksSafe == Spec => []OnceBlocksOwned
<1>1. IInv => OnceBlocksOwned
  BY DEF IInv
<1>. QED
  BY <1>1, InvariantHolds, PTL

\* An addition that reports failure has changed nothing.
THEOREM AddIsAtomic == Spec => FailedAddChangesNothing
<1>1. ASSUME NEW e \in Events, NEW tv \in BOOLEAN, Add(e, tv), ret' = -1
      PROVE  UNCHANGED <<eventVars, queueVars, mapVars, baseVars>>
  <2>1. UNCHANGED <<ev_flags, activequeues, event_count_active, mapVars,
                    event_count, is_notify_pending>>
    BY <1>1 DEF Add, AddFails
  <2>2. UNCHANGED <<ev_fd, ev_events, ev_pri, ev_res, nactivequeues, once_events,
                    lock_leaked, phase>>
    BY <1>1 DEF Add
  <2>. QED
    BY <2>1, <2>2 DEF eventVars, queueVars, baseVars
<1>2. [Next]_vars =>
        [\A e \in Events, tv \in BOOLEAN :
           Add(e, tv) /\ ret' = -1 => UNCHANGED <<eventVars, queueVars, mapVars, baseVars>>]_vars
  BY <1>1
<1>. QED
  BY <1>2, PTL DEF Spec, FailedAddChangesNothing

-----------------------------------------------------------------------------
(***************************************************************************)
(* The wake-ups.                                                           *)
(***************************************************************************)

\* A step gives the loop something to do, or changes what its backend watches.
GivesWork ==
  \/ ~(On("ACTIVE")' \subseteq On("ACTIVE"))
  \/ <<kernel, kernel_sigs>>' # <<kernel, kernel_sigs>>

\* What the kernel is told in an addition comes with a wake-up.
LEMMA AdditionWakes ==
  ASSUME MapTypes, NEW e, NEW c, ForeignLoop, EvmapAdd(e, c),
         <<kernel, kernel_sigs>>' # <<kernel, kernel_sigs>>
  PROVE  is_notify_pending'
<1>1. CASE Polls(c.events) /\ c.fd \in Fds /\ IoAdd(e, c)
  <2>1. NewKinds(c) # {}
    <3>1. SUFFICES ASSUME NewKinds(c) = {}
                   PROVE  FALSE
      OBVIOUS
    <3>2. kernel' = [kernel EXCEPT ![c.fd] = @ \cup {}] /\ kernel_sigs' = kernel_sigs
      BY <1>1, <3>1 DEF IoAdd
    <3>3. kernel' = kernel
      BY <3>2 DEF MapTypes
    <3>. QED
      BY <3>2, <3>3
  <2>. QED
    BY <1>1, <2>1 DEF IoAdd, NotifyBase
<1>2. CASE Polls(c.events) /\ c.fd = NoFd /\ UNCHANGED <<mapVars, is_notify_pending>>
  BY <1>2 DEF mapVars
<1>3. CASE ~Polls(c.events) /\ c.fd \in Sigs /\ SignalAdd(e, c)
  BY <1>3 DEF SignalAdd, NotifyBase
<1>. QED
  BY <1>1, <1>2, <1>3 DEF EvmapAdd

\* So does what it is told in a deletion by another thread.
LEMMA DeletionWakes ==
  ASSUME MapTypes, NEW e, ForeignLoop, Unlink(e, ForeignLoop),
         <<kernel, kernel_sigs>>' # <<kernel, kernel_sigs>>
  PROVE  is_notify_pending'
<1> DEFINE idle == event_count' = 0 /\ event_count_active' = 0
<1>1. EvmapDel(e, idle, ForeignLoop)
  BY DEF Unlink, mapVars
<1>. HIDE DEF idle
<1>2. CASE Polls(ev_events[e]) /\ ev_fd[e] \in Fds /\ IoDel(e, idle, ForeignLoop)
  <2>1. kernel_sigs' = kernel_sigs /\ kernel' # kernel
    BY <1>2 DEF IoDel
  <2>2. /\ kernel' = [kernel EXCEPT ![ev_fd[e]] = @ \ LastKinds(e)]
        /\ NotifyBase(ForeignLoop /\ (LastKinds(e) # {} \/ idle))
    BY <1>2, <2>1 DEF IoDel
  <2>3. LastKinds(e) # {}
    <3>1. SUFFICES ASSUME LastKinds(e) = {}
                   PROVE  FALSE
      OBVIOUS
    <3>. QED
      BY <2>1, <2>2, <3>1 DEF MapTypes
  <2>. QED
    BY <2>2, <2>3 DEF NotifyBase
<1>3. CASE UNCHANGED mapVars
  BY <1>3 DEF mapVars
<1>4. CASE ~Polls(ev_events[e]) /\ ev_fd[e] \in Sigs /\ SignalDel(e, ForeignLoop)
  BY <1>4 DEF SignalDel, NotifyBase
<1>. QED
  BY <1>1, <1>2, <1>3, <1>4 DEF EvmapDel

\* A call that gives a loop in another thread work leaves a wake-up pending.
LEMMA StepWakes ==
  ASSUME IInv, [Next]_vars, ForeignLoop, phase' = "live",
         ~\E e \in Events : Run(e), GivesWork
  PROVE  is_notify_pending'
<1>1. MapTypes /\ EventTypes
  BY DEF IInv, TypeOK
<1>2. CASE UNCHANGED <<ev_flags, mapVars>>
  BY <1>2 DEF GivesWork, On, Is, mapVars
<1>3. ASSUME NEW e \in Events, NEW fd \in Fds \cup {NoFd}, Recycle(e, fd)
      PROVE  FALSE
  BY <1>1, <1>3 DEF Recycle, GivesWork, On, Is, mapVars, EventTypes
<1>4. ASSUME NEW e \in Events, NEW c \in Configs, Assign(e, c)
      PROVE  FALSE
  BY <1>1, <1>4 DEF Assign, GivesWork, On, Is, mapVars, EventTypes
<1>5. ASSUME NEW e \in Events, NEW res \in Results, Active(e, res)
      PROVE  is_notify_pending'
  <2>1. CASE QueueActive(e, ev_pri[e])
    BY <2>1 DEF QueueActive, NotifyBase
  <2>2. CASE AssertPriority(ev_pri[e])
    BY <2>2 DEF AssertPriority
  <2>. QED
    BY <1>2, <1>5, <2>1, <2>2 DEF Active
<1>6. ASSUME NEW e \in Events, NEW tv \in BOOLEAN, Add(e, tv)
      PROVE  is_notify_pending'
  <2>1. On("ACTIVE")' \subseteq On("ACTIVE")
    BY <1>1, <1>6 DEF Add, AddFails, Insert, On, Is, EventTypes
  <2>2. <<kernel, kernel_sigs>>' # <<kernel, kernel_sigs>>
    BY <2>1 DEF GivesWork
  <2>3. EvmapAdd(e, [fd |-> ev_fd[e], events |-> ev_events[e]])
    BY <1>6, <2>2 DEF Add, AddFails, Insert, mapVars
  <2>. QED
    BY <1>1, <2>2, <2>3, AdditionWakes
<1>7. ASSUME NEW e \in Events, Del(e)
      PROVE  is_notify_pending'
  <2>1. On("ACTIVE")' \subseteq On("ACTIVE")
    BY <1>1, <1>7 DEF Del, On, Is, EventTypes
  <2>. QED
    BY <1>1, <1>7, <2>1, DeletionWakes DEF GivesWork, Del
<1>8. ASSUME NEW o \in OnceStore, NEW c \in OnceConfigs, NEW tv \in BOOLEAN,
             BaseOnce(o, c, tv)
      PROVE  is_notify_pending'
  <2>0. o \in Events /\ ev_flags[o] = {}
    BY <1>8, EventsAssumption DEF BaseOnce
  <2>1. CASE OnceNow(o)
    BY <2>1 DEF OnceNow, QueueActive, NotifyBase, AssertPriority
  <2>2. CASE OnceLater(o)
    BY <1>1, <2>2 DEF OnceLater, GivesWork, On, Is, mapVars, EventTypes
  <2>3. CASE OnceIo(o, c.events)
    <3>1. On("ACTIVE")' \subseteq On("ACTIVE")
      BY <1>1, <2>0, <2>3 DEF OnceIo, Insert, On, Is, EventTypes
    <3>. QED
      BY <1>1, <2>3, <3>1, AdditionWakes DEF GivesWork, OnceIo, Insert
  <2>4. CASE OnceFails(c.events, tv)
    BY <1>2, <2>4 DEF OnceFails, eventVars
  <2>. QED
    BY <1>8, <2>1, <2>2, <2>3, <2>4 DEF BaseOnce
<1>9. CASE UNCHANGED vars
  BY <1>2, <1>9 DEF vars, eventVars
<1>10. ASSUME NEW e \in Events, NEW pri \in Priorities, PrioritySet(e, pri)
       PROVE  is_notify_pending'
  BY <1>2, <1>10 DEF PrioritySet
<1>11. ASSUME NEW n \in 0 .. MaxPriorities, PriorityInit(n)
       PROVE  is_notify_pending'
  BY <1>2, <1>11 DEF PriorityInit, eventVars
<1>12. CASE Drain
  BY <1>2, <1>12 DEF Drain, eventVars
<1>13. CASE BaseFree
  BY <1>13 DEF BaseFree
<1>. QED
  BY <1>3, <1>4, <1>5, <1>6, <1>7, <1>8, <1>9, <1>10, <1>11, <1>12, <1>13 DEF Next

\* No call leaves a loop in another thread asleep with work to do.
THEOREM WakeUpsSent == Spec => LoopIsWoken
<1>1. IInv /\ [Next]_vars
        => [/\ ForeignLoop
            /\ phase' = "live"
            /\ ~\E e \in Events : Run(e)
            /\ \/ ~(On("ACTIVE")' \subseteq On("ACTIVE"))
               \/ <<kernel, kernel_sigs>>' # <<kernel, kernel_sigs>>
            => is_notify_pending']_vars
  BY StepWakes DEF GivesWork
<1>. QED
  BY <1>1, InvariantHolds, PTL DEF Spec, LoopIsWoken

-----------------------------------------------------------------------------
(***************************************************************************)
(* The order of activation.                                                *)
(***************************************************************************)

\* Whatever is ahead of an element of q in r is ahead of it in q.
Ordered(q, r) ==
  \A i \in 1 .. Len(q), m, n \in 1 .. Len(r) :
    r[n] = q[i] /\ m < n => \E h \in 1 .. i - 1 : r[m] = q[h]

\* It is so in a queue that stays.
LEMMA OrderOfSame ==
  ASSUME NEW S, NEW q \in Seq(S), IsInjective(q)
  PROVE  Ordered(q, q)
<1>1. DOMAIN q = 1 .. Len(q) /\ Len(q) \in Nat
  BY LenProperties
<1>2. \A i, n \in 1 .. Len(q) : q[n] = q[i] => n = i
  BY <1>1 DEF IsInjective
<1>. QED
  BY <1>1, <1>2 DEF Ordered

\* It is so in a queue that gets a new last element.
LEMMA OrderOfAppend ==
  ASSUME NEW S, NEW q \in Seq(S), IsInjective(q), NEW e \in S \ ToSet(q)
  PROVE  Ordered(q, Append(q, e))
<1> DEFINE r == Append(q, e)
<1>1. /\ DOMAIN q = 1 .. Len(q) /\ Len(q) \in Nat /\ Len(r) = Len(q) + 1
      /\ \A j \in 1 .. Len(q) : r[j] = q[j]
      /\ r[Len(q) + 1] = e
  BY LenProperties
<1>. HIDE DEF r
<1>2. \A i, n \in 1 .. Len(q) : q[n] = q[i] => n = i
  BY <1>1 DEF IsInjective
<1>3. \A i \in 1 .. Len(q) : q[i] # e
  BY <1>1 DEF ToSet
<1>4. \A i \in 1 .. Len(q), n \in 1 .. Len(r) : r[n] = q[i] => n = i
  BY <1>1, <1>2, <1>3
<1>5. Ordered(q, r)
  BY <1>1, <1>4 DEF Ordered
<1>. QED
  BY <1>5 DEF r

\* It is so in a queue that loses an element, wherever it is.
LEMMA OrderOfRemoval ==
  ASSUME NEW S, NEW q \in Seq(S), IsInjective(q), NEW e \in ToSet(q)
  PROVE  Ordered(q, RemoveFirst(q, e))
<1>1. DOMAIN q = 1 .. Len(q) /\ Len(q) \in Nat
  BY LenProperties
<1>2. PICK k \in 1 .. Len(q) : q[k] = e
  BY <1>1 DEF ToSet
<1> DEFINE r == RemoveFirst(q, e)
<1>3. r = RemoveAt(q, k)
  BY <1>2, RemoveFirstIsRemoveAt
<1>4. /\ Len(r) = Len(q) - 1
      /\ \A j \in 1 .. Len(q) - 1 : r[j] = IF j < k THEN q[j] ELSE q[j + 1]
  BY <1>3, RemoveAtElements
<1>. HIDE DEF r
<1>5. \A i, n \in 1 .. Len(q) : q[n] = q[i] => n = i
  BY <1>1 DEF IsInjective
<1>6. Ordered(q, r)
  <2>1. SUFFICES ASSUME NEW i \in 1 .. Len(q), NEW m \in 1 .. Len(r), NEW n \in 1 .. Len(r),
                        r[n] = q[i], m < n
                 PROVE  \E h \in 1 .. i - 1 : r[m] = q[h]
    BY DEF Ordered
  <2> DEFINE nn == IF n < k THEN n ELSE n + 1
             mm == IF m < k THEN m ELSE m + 1
  <2>2. nn \in 1 .. Len(q) /\ r[n] = q[nn] /\ mm \in 1 .. Len(q) /\ r[m] = q[mm] /\ mm < nn
    BY <1>1, <1>4, <2>1
  <2>3. nn = i
    BY <1>5, <2>1, <2>2
  <2>4. mm \in 1 .. i - 1
    BY <2>2, <2>3
  <2>. QED
    BY <2>2, <2>4
<1>. QED
  BY <1>6 DEF r

\* The queues change in one of four ways.
QueueStep ==
  \/ UNCHANGED activequeues
  \/ \E e \in Events, p \in Priorities :
       ~Is("ACTIVE", e) /\ activequeues' = [activequeues EXCEPT ![p] = Append(@, e)]
  \/ \E e \in On("ACTIVE") : RemoveActive(e)
  \/ activequeues' = [p \in Priorities |-> <<>>]

\* They keep their order in each of them.
LEMMA QueueStepKeepsOrder ==
  ASSUME IInv, QueueStep, NEW p \in Priorities
  PROVE  Ordered(activequeues[p], activequeues'[p])
<1>1. /\ activequeues[p] \in Seq(Events) /\ IsInjective(activequeues[p])
      /\ activequeues \in [Priorities -> Seq(Events)]
  BY DEF IInv, TypeOK, QueueTypes, QueuesMatchFlags
<1>2. CASE activequeues'[p] = activequeues[p]
  BY <1>1, <1>2, OrderOfSame
<1>3. ASSUME NEW e \in Events, NEW pri \in Priorities, ~Is("ACTIVE", e),
             activequeues' = [activequeues EXCEPT ![pri] = Append(@, e)]
      PROVE  Ordered(activequeues[p], activequeues'[p])
  <2>1. CASE p # pri
    BY <1>1, <1>2, <1>3, <2>1
  <2>2. CASE p = pri
    <3>1. e \notin ToSet(activequeues[p])
      BY <1>3 DEF IInv, QueuesMatchFlags, On
    <3>2. activequeues'[p] = Append(activequeues[p], e)
      BY <1>1, <1>3, <2>2
    <3>. QED
      BY <1>1, <3>1, <3>2, OrderOfAppend
  <2>. QED
    BY <2>1, <2>2
<1>4. ASSUME NEW e \in On("ACTIVE"), RemoveActive(e)
      PROVE  Ordered(activequeues[p], activequeues'[p])
  <2>1. CASE p # ev_pri[e]
    BY <1>1, <1>2, <1>4, <2>1 DEF RemoveActive
  <2>2. CASE p = ev_pri[e]
    <3>1. e \in ToSet(activequeues[p])
      BY <2>2 DEF IInv, QueuesMatchFlags
    <3>2. activequeues'[p] = RemoveFirst(activequeues[p], e)
      BY <1>1, <1>4, <2>2 DEF RemoveActive
    <3>. QED
      BY <1>1, <3>1, <3>2, OrderOfRemoval
  <2>. QED
    BY <2>1, <2>2
<1>5. CASE activequeues' = [q \in Priorities |-> <<>>]
  <2>1. activequeues'[p] = <<>>
    BY <1>5
  <2>. QED
    BY <2>1 DEF Ordered
<1>. QED
  BY <1>2, <1>3, <1>4, <1>5 DEF QueueStep

\* Every step is one of them.
LEMMA NextIsQueueStep ==
  ASSUME IInv, [Next]_vars
  PROVE  QueueStep
<1>1. CASE UNCHANGED activequeues
  BY <1>1 DEF QueueStep
<1>2. CASE activequeues' = [p \in Priorities |-> <<>>]
  BY <1>2 DEF QueueStep
<1>3. ASSUME NEW e \in Events, NEW pri \in Priorities, ~Is("ACTIVE", e), QueueActive(e, pri)
      PROVE  QueueStep
  BY <1>3 DEF QueueStep, QueueActive
<1>4. ASSUME NEW e \in Events, NEW foreign, Unlink(e, foreign)
      PROVE  QueueStep
  BY <1>4 DEF QueueStep, Unlink, On
<1>5. ASSUME NEW e \in Events, NEW res \in Results, Active(e, res)
      PROVE  QueueStep
  <2>1. ev_pri[e] \in Priorities
    BY DEF IInv, TypeOK, EventTypes
  <2>. QED
    BY <1>1, <1>3, <1>5, <2>1 DEF Active, AssertPriority, queueVars
<1>6. ASSUME NEW e \in Events, NEW tv \in BOOLEAN, Add(e, tv)
      PROVE  QueueStep
  <2>1. CASE Is("ACTIVE", e) /\ RemoveActive(e)
    BY <2>1 DEF QueueStep, On
  <2>. QED
    BY <1>1, <1>6, <2>1 DEF Add, AddFails, Reschedules
<1>7. ASSUME NEW o \in OnceStore, NEW c \in OnceConfigs, NEW tv \in BOOLEAN,
             BaseOnce(o, c, tv)
      PROVE  QueueStep
  <2>1. o \in Events /\ ~Is("ACTIVE", o)
    BY <1>7, EventsAssumption DEF BaseOnce, Is
  <2>2. nactivequeues \div 2 \in Priorities
    BY BoundsAssumption DEF IInv, TypeOK, QueueTypes, Priorities
  <2>. QED
    BY <1>1, <1>3, <1>7, <2>1, <2>2
       DEF BaseOnce, OnceNow, OnceLater, OnceIo, OnceFails, AssertPriority, queueVars
<1>8. ASSUME NEW e \in Events, Run(e)
      PROVE  QueueStep
  <2>1. CASE Unlink(e, FALSE)
    BY <1>4, <2>1
  <2>2. CASE RemoveActive(e)
    <3>1. PICK p \in Priorities : activequeues[p] # <<>> /\ Head(activequeues[p]) = e
      BY <1>8 DEF Run, Foremost
    <3>2. activequeues[p] \in Seq(Events)
      BY DEF IInv, TypeOK, QueueTypes
    <3>3. Len(activequeues[p]) \in Nat \ {0} /\ e = activequeues[p][1]
      BY <3>1, <3>2, EmptySeq, LenProperties
    <3>4. 1 \in DOMAIN activequeues[p]
      BY <3>2, <3>3, LenProperties
    <3>5. e \in On("ACTIVE")
      BY <3>3, <3>4 DEF ToSet, IInv, QueuesMatchFlags
    <3>. QED
      BY <2>2, <3>5 DEF QueueStep
  <2>. QED
    BY <1>8, <2>1, <2>2 DEF Run
<1>9. ASSUME NEW e \in Events, Del(e)
      PROVE  QueueStep
  BY <1>4, <1>9 DEF Del
<1>10. ASSUME NEW e \in Events,
              \/ \E fd \in Fds \cup {NoFd} : Recycle(e, fd)
              \/ \E c \in Configs : Assign(e, c)
              \/ \E pri \in Priorities : PrioritySet(e, pri)
       PROVE  QueueStep
  BY <1>1, <1>10 DEF Recycle, Assign, PrioritySet, queueVars
<1>11. ASSUME NEW n \in 0 .. MaxPriorities, PriorityInit(n)
       PROVE  QueueStep
  BY <1>1, <1>2, <1>11 DEF PriorityInit
<1>12. CASE Drain
  BY <1>1, <1>12 DEF Drain, queueVars
<1>13. CASE BaseFree
  BY <1>2, <1>13 DEF BaseFree
<1>14. CASE UNCHANGED vars
  BY <1>1, <1>14 DEF vars, queueVars
<1>. QED
  BY <1>5, <1>6, <1>7, <1>8, <1>9, <1>10, <1>11, <1>12, <1>13, <1>14 DEF Next

\* No step lets an event overtake another of its priority.
THEOREM NoOvertaking == Spec => ActivationOrder
<1>1. IInv /\ [Next]_vars
        => [\A p \in Priorities :
              \A i \in 1 .. Len(activequeues[p]), m, n \in 1 .. Len(activequeues'[p]) :
                activequeues'[p][n] = activequeues[p][i] /\ m < n
                  => \E h \in 1 .. i - 1 : activequeues'[p][m] = activequeues[p][h]]_vars
  BY NextIsQueueStep, QueueStepKeepsOrder DEF Ordered
<1>. QED
  BY <1>1, InvariantHolds, PTL DEF Spec, ActivationOrder

-----------------------------------------------------------------------------
(***************************************************************************)
(* LuEvent implements EventPromise for every value of its constants: the   *)
(* inductive invariant lets each operation of the code be read as an       *)
(* operation on sets, or as one that changes none of them.                 *)
(***************************************************************************)

\* A step the program cannot see.
Stutters ==
  /\ On("INSERTED")' = On("INSERTED")
  /\ Interest' = Interest
  /\ WatchedItems' = WatchedItems
  /\ UNCHANGED <<activequeues, nactivequeues>>
  /\ (phase # "freed")' = (phase # "freed")

-----------------------------------------------------------------------------
(***************************************************************************)
(* The queues.                                                             *)
(***************************************************************************)

\* EventPromise has the same operators on sequences.
LEMMA SameOperators ==
  ASSUME NEW q, NEW e
  PROVE  /\ Promise!ToSet(q) = ToSet(q)
         /\ Promise!RemoveFirst(q, e) = RemoveFirst(q, e)
<1>1. Promise!ToSet(q) = ToSet(q)
  BY DEF Promise!ToSet, ToSet
<1>2. Promise!RemoveFirst(q, e) = RemoveFirst(q, e)
  BY DEF Promise!RemoveFirst, RemoveFirst, Promise!SelectInSeq, SelectInSeq,
         Promise!RemoveAt, RemoveAt, Promise!Min, Min
<1>. QED
  BY <1>1, <1>2

\* An event is in a queue exactly if it is flagged active, and then in the queue
\* of its priority.
LEMMA ReadyIsActive ==
  ASSUME EventTypes, QueuesMatchFlags, NEW e \in Events
  PROVE  /\ Promise!Ready(e) <=> e \in On("ACTIVE")
         /\ e \in On("ACTIVE") => Promise!Queued(e, ev_pri[e])
<1>1. \A p \in Priorities : Promise!Queued(e, p) <=> e \in On("ACTIVE") /\ ev_pri[e] = p
  BY SameOperators DEF QueuesMatchFlags, Promise!Queued
<1>2. ev_pri[e] \in Priorities
  BY DEF EventTypes
<1>. QED
  BY <1>1, <1>2 DEF Promise!Ready

\* lu_event_queue_remove_active takes an event out of the queue it is in.
LEMMA RemovalIsUnready ==
  ASSUME EventTypes, QueuesMatchFlags, NEW e \in On("ACTIVE"), RemoveActive(e)
  PROVE  Promise!Unready(e)
<1>1. e \in Events /\ ev_pri[e] \in Priorities
  BY DEF On, EventTypes
<1>2. Promise!Queued(e, ev_pri[e])
  BY <1>1, ReadyIsActive
<1>. QED
  BY <1>1, <1>2, SameOperators DEF RemoveActive, Promise!Unready

\* The head of a queue without repetition is what TAILQ_REMOVE takes first: what
\* stays is the tail.
LEMMA RemoveHead ==
  ASSUME NEW S, NEW q \in Seq(S), IsInjective(q), q # <<>>
  PROVE  RemoveFirst(q, Head(q)) = Tail(q)
<1>1. Len(q) \in Nat \ {0} /\ Head(q) = q[1] /\ 1 \in 1 .. Len(q)
  BY EmptySeq, LenProperties
<1>2. RemoveFirst(q, Head(q)) = RemoveAt(q, 1)
  BY <1>1, RemoveFirstIsRemoveAt
<1> DEFINE r == RemoveAt(q, 1)
<1>3. /\ r \in Seq(S) /\ Len(r) = Len(q) - 1
      /\ \A j \in 1 .. Len(q) - 1 : r[j] = q[j + 1]
  BY <1>1, RemoveAtElements
<1>4. Tail(q) \in Seq(S) /\ Len(Tail(q)) = Len(q) - 1
      /\ \A j \in 1 .. Len(q) - 1 : Tail(q)[j] = q[j + 1]
  BY <1>1, HeadTailProperties
<1>. HIDE DEF r
<1>5. r = Tail(q)
  BY <1>1, <1>3, <1>4, SeqEqual
<1>. QED
  BY <1>2, <1>5 DEF r

-----------------------------------------------------------------------------
(***************************************************************************)
(* The maps.                                                               *)
(***************************************************************************)

\* The items event e waits for, read from its flags and fields alone.
ItemsAsked(e) ==
  {i \in Fds \X IoKinds : Is("INSERTED", e) /\ ev_fd[e] = i[1] /\ i[2] \in ev_events[e]}
    \cup ({s \in Sigs : Is("INSERTED", e) /\ ev_fd[e] = s /\ ~Polls(ev_events[e])} \X {"SIGNAL"})

\* The maps hold what the flags and fields of the events say.
LEMMA ItemsFromFlags == MapsRight => \A e \in Events : ItemsOf(e) = ItemsAsked(e)
<1>. SUFFICES ASSUME MapsRight, NEW e \in Events
              PROVE  ItemsOf(e) = ItemsAsked(e)
  OBVIOUS
<1>1. ASSUME NEW i \in Fds \X IoKinds
      PROVE  e \in io_events[i[1]] /\ i[2] \in ev_events[e]
               <=> Is("INSERTED", e) /\ ev_fd[e] = i[1] /\ i[2] \in ev_events[e]
  <2>1. i[1] \in Fds /\ i[2] \in IoKinds
    OBVIOUS
  <2>2. io_events[i[1]] = {d \in On("INSERTED") : ev_fd[d] = i[1] /\ Polls(ev_events[d])}
    BY <2>1 DEF MapsRight, EvmapMatchesFlags
  <2>3. i[2] \in ev_events[e] => Polls(ev_events[e])
    BY <2>1 DEF Polls
  <2>. QED
    BY <2>2, <2>3 DEF On
<1>2. {s \in Sigs : e \in sig_events[s]}
        = {s \in Sigs : Is("INSERTED", e) /\ ev_fd[e] = s /\ ~Polls(ev_events[e])}
  BY DEF MapsRight, EvmapMatchesFlags, On
<1>. QED
  BY <1>1, <1>2 DEF ItemsOf, ItemsAsked

\* So they do after a step.
LEMMA ItemsFromNewFlags == MapsRight' => \A e \in Events : ItemsOf(e)' = ItemsAsked(e)'
<1>1. (MapsRight => \A e \in Events : ItemsOf(e) = ItemsAsked(e))'
  BY ItemsFromFlags, PTL
<1>. QED
  BY <1>1

\* An event whose flag and fields do not change waits for the same items.
LEMMA SameItemsOf ==
  ASSUME MapsRight, MapsRight', NEW e \in Events,
         Is("INSERTED", e)' <=> Is("INSERTED", e),
         Is("INSERTED", e) => ev_fd'[e] = ev_fd[e] /\ ev_events'[e] = ev_events[e]
  PROVE  ItemsOf(e)' = ItemsOf(e)
<1>1. ItemsOf(e)' = ItemsAsked(e)' /\ ItemsOf(e) = ItemsAsked(e)
  BY ItemsFromFlags, ItemsFromNewFlags
<1>. QED
  BY <1>1 DEF ItemsAsked

\* An operation that changes no map and no listed event leaves the interest of
\* every event alone.
LEMMA SameItems ==
  ASSUME MapsRight, MapsRight', UNCHANGED mapVars, On("INSERTED")' = On("INSERTED"),
         \A e \in On("INSERTED") : ev_fd'[e] = ev_fd[e] /\ ev_events'[e] = ev_events[e]
  PROVE  Interest' = Interest /\ WatchedItems' = WatchedItems
<1>1. \A e \in Events : ItemsOf(e)' = ItemsOf(e)
  BY SameItemsOf DEF On
<1>2. Interest' = Interest
  BY <1>1 DEF Interest
<1>3. WatchedItems' = WatchedItems
  BY DEF WatchedItems, mapVars
<1>. QED
  BY <1>2, <1>3

\* A listed event waits only for what the backends watch.
LEMMA ItemsAreWatched == MapsRight => \A e \in Events : ItemsOf(e) \subseteq WatchedItems
<1>. SUFFICES ASSUME MapsRight, NEW e \in Events
              PROVE  ItemsOf(e) \subseteq WatchedItems
  OBVIOUS
<1>1. ASSUME NEW i \in Fds \X IoKinds, e \in io_events[i[1]], i[2] \in ev_events[e]
      PROVE  i[2] \in kernel[i[1]]
  BY <1>1 DEF MapsRight, KernelCoversInterest
<1>2. {s \in Sigs : e \in sig_events[s]} \subseteq kernel_sigs
  BY DEF MapsRight, KernelCoversInterest
<1>. QED
  BY <1>1, <1>2 DEF ItemsOf, WatchedItems

\* So it does after a step.
LEMMA NewItemsAreWatched == MapsRight' => \A e \in Events : ItemsOf(e)' \subseteq WatchedItems'
<1>1. (MapsRight => \A e \in Events : ItemsOf(e) \subseteq WatchedItems)'
  BY ItemsAreWatched, PTL
<1>. QED
  BY <1>1

\* The successful insertion of event e registers what it asks for.
LEMMA Registration ==
  ASSUME MapsRight, MapsRight', EventTypes,
         NEW e \in Events, ~Is("INSERTED", e), NEW c \in Args, EvmapAdd(e, c),
         ev_fd' = [ev_fd EXCEPT ![e] = c.fd],
         ev_events' = [ev_events EXCEPT ![e] = c.events],
         On("INSERTED")' = On("INSERTED") \cup {e}
  PROVE  /\ Interest' = [Interest EXCEPT ![e] = ItemsOf(e)']
         /\ WatchedItems' = WatchedItems \cup ItemsOf(e)'
<1>1. \A d \in Events \ {e} : ItemsOf(d)' = ItemsOf(d)
  <2>. TAKE d \in Events \ {e}
  <2>1. Is("INSERTED", d)' <=> Is("INSERTED", d)
    BY DEF On
  <2>2. ev_fd'[d] = ev_fd[d] /\ ev_events'[d] = ev_events[d]
    BY DEF EventTypes
  <2>. QED
    BY <2>1, <2>2, SameItemsOf
<1>2. Interest' = [Interest EXCEPT ![e] = ItemsOf(e)']
  BY <1>1 DEF Interest
<1>3. /\ ItemsOf(e)' = ItemsAsked(e)' /\ Is("INSERTED", e)'
      /\ ev_fd'[e] = c.fd /\ ev_events'[e] = c.events
  BY ItemsFromNewFlags DEF EventTypes, On
<1>4. ItemsOf(e)' \subseteq WatchedItems'
  BY NewItemsAreWatched
<1>5. CASE Polls(c.events) /\ c.fd \in Fds /\ IoAdd(e, c)
  <2>1. kernel' = [kernel EXCEPT ![c.fd] = @ \cup NewKinds(c)] /\ kernel_sigs' = kernel_sigs
    BY <1>5 DEF IoAdd
  <2>2. kernel \in [Fds -> SUBSET IoKinds]
    BY DEF MapsRight, MapTypes
  <2>3. NewKinds(c) \subseteq c.events \cap IoKinds
    BY DEF NewKinds
  <2>4. WatchedItems \subseteq WatchedItems'
    BY <2>1, <2>2 DEF WatchedItems
  <2>5. \A i \in Fds \X IoKinds :
          i[2] \in kernel'[i[1]] => i[2] \in kernel[i[1]] \/ i \in ItemsAsked(e)'
    BY <1>3, <1>5, <2>1, <2>2, <2>3 DEF ItemsAsked
  <2>6. WatchedItems' \subseteq WatchedItems \cup ItemsOf(e)'
    BY <1>3, <2>1, <2>5 DEF WatchedItems
  <2>. QED
    BY <1>2, <1>4, <2>4, <2>6
<1>6. CASE Polls(c.events) /\ c.fd = NoFd /\ UNCHANGED <<mapVars, is_notify_pending>>
  <2>1. WatchedItems' = WatchedItems
    BY <1>6 DEF WatchedItems, mapVars
  <2>. QED
    BY <1>2, <1>4, <2>1
<1>7. CASE ~Polls(c.events) /\ c.fd \in Sigs /\ SignalAdd(e, c)
  <2>1. kernel' = kernel /\ kernel_sigs' = kernel_sigs \cup {c.fd}
    BY <1>7 DEF SignalAdd
  <2>2. <<c.fd, "SIGNAL">> \in ItemsOf(e)'
    BY <1>3, <1>7 DEF ItemsAsked
  <2>3. WatchedItems \subseteq WatchedItems'
    BY <2>1 DEF WatchedItems
  <2>4. WatchedItems' \subseteq WatchedItems \cup {<<c.fd, "SIGNAL">>}
    BY <2>1 DEF WatchedItems
  <2>. QED
    BY <1>2, <1>4, <2>2, <2>3, <2>4
<1>. QED
  BY <1>5, <1>6, <1>7 DEF EvmapAdd

\* lu_evmap_io_del_ stops watching what no other event of the descriptor waits
\* for, which the counters tell, or fails and watches it still.
LEMMA IoDeletionUnwatches ==
  ASSUME MapsRight, EventTypes, NEW e \in On("INSERTED"), NEW idle, NEW foreign,
         Polls(ev_events[e]), ev_fd[e] \in Fds, IoDel(e, idle, foreign)
  PROVE  WatchedItems' \in {WatchedItems, WatchedItems \ Promise!Sole(e)}
<1> DEFINE f == ev_fd[e]
<1>0. e \in Events
  BY DEF On
<1>1. kernel_sigs' = kernel_sigs
  BY DEF IoDel
<1>2. CASE kernel' = kernel
  BY <1>1, <1>2 DEF WatchedItems
<1>3. CASE kernel' = [kernel EXCEPT ![f] = @ \ LastKinds(e)]
  <2>1. \A d \in Events, i \in Fds \X IoKinds :
          i \in Interest[d] <=> d \in On("INSERTED") /\ ev_fd[d] = i[1] /\ i[2] \in ev_events[d]
    BY ItemsFromFlags, KindsAssumption DEF Interest, ItemsAsked, On
  <2>2. \A s \in Sigs : <<s, "SIGNAL">> \notin Interest[e]
    BY <1>0, ItemsFromFlags, KindsAssumption DEF Interest, ItemsAsked
  <2>3. ASSUME NEW k \in IoKinds, k \in ev_events[e]
        PROVE  io_count[f][k] = 1
                 <=> \A d \in Events \ {e} : <<f, k>> \notin Interest[d]
    <3> DEFINE S == {d \in io_events[f] : k \in ev_events[d]}
    <3>1. io_events[f] = {d \in On("INSERTED") : ev_fd[d] = f /\ Polls(ev_events[d])}
      BY DEF MapsRight, EvmapMatchesFlags
    <3>2. S = {d \in On("INSERTED") : ev_fd[d] = f /\ k \in ev_events[d]}
      BY <3>1 DEF Polls
    <3>3. io_count[f][k] = Cardinality(S)
      BY DEF MapsRight, EvmapMatchesFlags
    <3>4. S \in SUBSET Events /\ e \in S
      BY <2>3, <3>2 DEF On
    <3>5. \A d \in Events : d \in S <=> <<f, k>> \in Interest[d]
      BY <2>1, <3>2
    <3>. HIDE DEF S
    <3>6. Cardinality(S \ {e}) = Cardinality(S) - 1 /\ Cardinality(S) \in Nat
      BY <3>4, EventSets
    <3>7. IsFiniteSet(S \ {e})
      BY <3>4, EventSets, FS_Subset
    <3>8. Cardinality(S \ {e}) = 0 <=> S \ {e} = {}
      BY <3>7, FS_EmptySet
    <3>9. S \ {e} = {} <=> \A d \in Events \ {e} : <<f, k>> \notin Interest[d]
      BY <3>4, <3>5
    <3>. QED
      BY <3>3, <3>6, <3>8, <3>9
  <2>4. kernel \in [Fds -> SUBSET IoKinds]
    BY DEF MapsRight, MapTypes
  <2>5. ASSUME NEW i \in Fds \X IoKinds
        PROVE  i[2] \in kernel'[i[1]] <=> i[2] \in kernel[i[1]] /\ i \notin Promise!Sole(e)
    <3>1. i = <<i[1], i[2]>> /\ i[1] \in Fds /\ i[2] \in IoKinds
      OBVIOUS
    <3>2. i \in Promise!Sole(e)
            <=> i \in Interest[e] /\ \A d \in Events \ {e} : i \notin Interest[d]
      BY DEF Promise!Sole
    <3>3. i \in Interest[e] <=> i[1] = f /\ i[2] \in ev_events[e]
      BY <1>0, <2>1
    <3>4. CASE i[1] = f
      <4>1. i[2] \in LastKinds(e) <=> i[2] \in ev_events[e] /\ io_count[f][i[2]] = 1
        BY <3>1 DEF LastKinds
      <4>2. i[2] \in LastKinds(e) <=> i \in Promise!Sole(e)
        BY <2>3, <3>1, <3>2, <3>3, <3>4, <4>1
      <4>3. kernel'[f] = kernel[f] \ LastKinds(e)
        BY <1>3, <2>4
      <4>. QED
        BY <3>4, <4>2, <4>3
    <3>5. CASE i[1] # f
      <4>1. kernel'[i[1]] = kernel[i[1]]
        BY <1>3, <2>4, <3>1, <3>5
      <4>. QED
        BY <3>2, <3>3, <3>5, <4>1
    <3>. QED
      BY <3>4, <3>5
  <2>6. \A s \in Sigs : <<s, "SIGNAL">> \notin Promise!Sole(e)
    BY <2>2 DEF Promise!Sole
  <2>7. kernel_sigs \subseteq Sigs
    BY DEF MapsRight, MapTypes
  <2>8. {i \in Fds \X IoKinds : i[2] \in kernel'[i[1]]}
          = {i \in Fds \X IoKinds : i[2] \in kernel[i[1]]} \ Promise!Sole(e)
    BY <2>5
  <2>9. kernel_sigs \X {"SIGNAL"} = (kernel_sigs \X {"SIGNAL"}) \ Promise!Sole(e)
    BY <2>6, <2>7
  <2>10. WatchedItems' = WatchedItems \ Promise!Sole(e)
    BY <1>1, <2>8, <2>9 DEF WatchedItems
  <2>. QED
    BY <2>10
<1>. QED
  BY <1>2, <1>3 DEF IoDel

\* So does lu_evmap_signal_del_, which looks whether its list is empty.
LEMMA SignalDeletionUnwatches ==
  ASSUME MapsRight, NEW e \in On("INSERTED"), NEW foreign,
         ~Polls(ev_events[e]), ev_fd[e] \in Sigs, SignalDel(e, foreign)
  PROVE  WatchedItems' \in {WatchedItems, WatchedItems \ Promise!Sole(e)}
<1> DEFINE s == ev_fd[e]
           i == <<s, "SIGNAL">>
<1>1. e \in Events /\ kernel' = kernel
  BY DEF On, SignalDel
<1>2. CASE kernel_sigs' = kernel_sigs
  BY <1>1, <1>2 DEF WatchedItems
<1>3. CASE sig_events[s] = {e} /\ kernel_sigs' = kernel_sigs \ {s}
  <2>1. \A d \in Events : ItemsOf(d) = ItemsAsked(d)
    BY ItemsFromFlags
  <2>2. Interest[e] = {i}
    BY <1>1, <2>1 DEF Interest, ItemsAsked, On, Polls
  <2>3. \A d \in Events \ {e} : d \notin sig_events[s]
    BY <1>3
  <2>4. \A d \in Events \ {e} : i \notin Interest[d]
    BY <2>3, KindsAssumption DEF Interest, ItemsOf
  <2>5. Promise!Sole(e) = {i}
    BY <2>2, <2>4 DEF Promise!Sole
  <2>6. \A j \in Fds \X IoKinds : j # i
    BY KindsAssumption
  <2>7. (kernel_sigs \ {s}) \X {"SIGNAL"} = (kernel_sigs \X {"SIGNAL"}) \ {i}
    OBVIOUS
  <2>8. WatchedItems' = WatchedItems \ {i}
    BY <1>1, <1>3, <2>6, <2>7 DEF WatchedItems
  <2>. QED
    BY <2>5, <2>8
<1>. QED
  BY <1>2, <1>3 DEF SignalDel

\* The deletion of an event, added or not, takes its interest away.
LEMMA Unregistration ==
  ASSUME MapsRight, MapsRight', EventTypes,
         NEW e \in Events, NEW foreign, Unlink(e, foreign),
         UNCHANGED <<ev_fd, ev_events>>, On("INSERTED")' = On("INSERTED") \ {e}
  PROVE  Promise!Unregister(e)
<1>1. \A d \in Events \ {e} : ItemsOf(d)' = ItemsOf(d)
  <2>. TAKE d \in Events \ {e}
  <2>1. Is("INSERTED", d)' <=> Is("INSERTED", d)
    BY DEF On
  <2>. QED
    BY <2>1, SameItemsOf
<1>2. ItemsOf(e)' = {}
  <2>1. ItemsOf(e)' = ItemsAsked(e)' /\ ~Is("INSERTED", e)'
    BY ItemsFromNewFlags DEF On
  <2>. QED
    BY <2>1 DEF ItemsAsked
<1>3. Interest' = [Interest EXCEPT ![e] = {}]
  BY <1>1, <1>2 DEF Interest
<1>4. WatchedItems' \in {WatchedItems, WatchedItems \ Promise!Sole(e)}
  <2>1. CASE ~Is("INSERTED", e)
    BY <2>1 DEF Unlink, WatchedItems, mapVars
  <2>2. CASE Is("INSERTED", e)
    <3>1. e \in On("INSERTED")
      BY <2>2 DEF On
    <3>2. EvmapDel(e, event_count' = 0 /\ event_count_active' = 0, foreign)
      BY <2>2 DEF Unlink
    <3>3. CASE UNCHANGED mapVars
      BY <3>3 DEF WatchedItems, mapVars
    <3>. QED
      BY <3>1, <3>2, <3>3, IoDeletionUnwatches, SignalDeletionUnwatches DEF EvmapDel
  <2>. QED
    BY <2>1, <2>2
<1>. QED
  BY <1>3, <1>4 DEF Promise!Unregister

-----------------------------------------------------------------------------
(***************************************************************************)
(* The operations, one lemma each.                                         *)
(***************************************************************************)

\* What a step of the code is in EventPromise.
Allowed == Promise!Next \/ UNCHANGED Promise!vars

\* Such a step is no step of EventPromise.
LEMMA StuttersIsAllowed == Stutters => Allowed
BY DEF Stutters, Allowed, Promise!vars

\* An operation that touches only events that are on no list is not seen.
LEMMA UnlistedIsAllowed ==
  ASSUME MapsRight, MapsRight', UNCHANGED mapVars,
         UNCHANGED <<activequeues, nactivequeues, phase>>,
         On("INSERTED")' = On("INSERTED"),
         \A e \in On("INSERTED") : ev_fd'[e] = ev_fd[e] /\ ev_events'[e] = ev_events[e]
  PROVE  Allowed
BY SameItems, StuttersIsAllowed DEF Stutters

\* The memory of an event that is on no list may hold anything.
LEMMA RecycleIsAllowed ==
  ASSUME IInv, IInv', NEW e \in Events, NEW fd, Recycle(e, fd)
  PROVE  Allowed
<1>1. \A d \in On("INSERTED") : ev_fd'[d] = ev_fd[d] /\ ev_events'[d] = ev_events[d]
  BY DEF Recycle, Idle, On, IInv, TypeOK, EventTypes
<1>2. On("INSERTED")' = On("INSERTED")
  BY DEF Recycle, Idle, On, Is, IInv, TypeOK, EventTypes
<1>. QED
  BY <1>1, <1>2, UnlistedIsAllowed
     DEF Recycle, queueVars, mapVars, baseVars, IInv, TypeOK, MapsRight

\* So may what lu_event_assign writes into it.
LEMMA AssignIsAllowed ==
  ASSUME IInv, IInv', NEW e \in Events, NEW c, Assign(e, c)
  PROVE  Allowed
<1>1. \A d \in On("INSERTED") : ev_fd'[d] = ev_fd[d] /\ ev_events'[d] = ev_events[d]
  BY DEF Assign, Idle, On, IInv, TypeOK, EventTypes
<1>2. On("INSERTED")' = On("INSERTED")
  BY DEF Assign, Idle, On, Is, IInv, TypeOK, EventTypes
<1>. QED
  BY <1>1, <1>2, UnlistedIsAllowed
     DEF Assign, queueVars, mapVars, baseVars, IInv, TypeOK, MapsRight

\* The priority of an event is in no set until the event is active.
LEMMA PrioritySetIsAllowed ==
  ASSUME IInv, IInv', NEW e \in Events, NEW pri, PrioritySet(e, pri)
  PROVE  Allowed
<1>1. On("INSERTED")' = On("INSERTED")
  BY DEF PrioritySet, On, Is
<1>. QED
  BY <1>1, UnlistedIsAllowed
     DEF PrioritySet, queueVars, mapVars, baseVars, IInv, TypeOK, MapsRight

\* A wake-up read by the loop is not seen by the program.
LEMMA DrainIsAllowed ==
  ASSUME IInv, IInv', Drain
  PROVE  Allowed
<1>1. On("INSERTED")' = On("INSERTED")
  BY DEF Drain, On, Is, eventVars
<1>. QED
  BY <1>1, UnlistedIsAllowed
     DEF Drain, eventVars, queueVars, mapVars, IInv, TypeOK, MapsRight

\* The counter of active events tells when the queues can be thrown away: they
\* are all empty.
LEMMA PriorityInitIsAllowed ==
  ASSUME IInv, IInv', NEW n \in 0 .. MaxPriorities, PriorityInit(n)
  PROVE  Allowed
<1>1. /\ Interest' = Interest /\ WatchedItems' = WatchedItems
      /\ On("INSERTED")' = On("INSERTED") /\ phase' = phase /\ phase = "live"
  <2>1. UNCHANGED <<eventVars, mapVars, baseVars>> /\ phase = "live"
    BY DEF PriorityInit, Callable
  <2>2. On("INSERTED")' = On("INSERTED")
    BY <2>1 DEF On, Is, eventVars
  <2>. QED
    BY <2>1, <2>2, SameItems DEF eventVars, baseVars, IInv, TypeOK, MapsRight
<1>2. CASE UNCHANGED <<activequeues, nactivequeues>>
  BY <1>1, <1>2, StuttersIsAllowed DEF Stutters
<1>3. CASE /\ event_count_active = 0 /\ activequeues' = [p \in Priorities |-> <<>>]
           /\ nactivequeues' \in {n, 0} /\ n \in 1 .. MaxPriorities - 1
  <2>1. Cardinality(On("ACTIVE")) = 0
    BY <1>1, <1>3 DEF IInv, CountsExact
  <2>2. On("ACTIVE") \in SUBSET Events
    BY DEF On
  <2>3. IsFiniteSet(On("ACTIVE"))
    BY <2>2, EventSets
  <2>4. On("ACTIVE") = {}
    BY <2>1, <2>3, FS_EmptySet
  <2>5. activequeues \in [Priorities -> Seq(Events)]
    BY DEF IInv, TypeOK, QueueTypes
  <2>6. \A p \in Priorities : activequeues[p] = <<>>
    <3>. TAKE p \in Priorities
    <3>1. ToSet(activequeues[p]) = {}
      BY <2>4 DEF IInv, QueuesMatchFlags
    <3>2. activequeues[p] \in Seq(Events)
      BY <2>5
    <3>3. DOMAIN activequeues[p] = {}
      BY <3>1 DEF ToSet
    <3>4. Len(activequeues[p]) \in Nat /\ 1 \notin 1 .. Len(activequeues[p])
      BY <3>2, <3>3, LenProperties
    <3>. QED
      BY <3>2, <3>4, EmptySeq
  <2>7. activequeues' = activequeues
    BY <1>3, <2>5, <2>6
  <2>8. nactivequeues' \in Priorities
    BY <1>3, BoundsAssumption DEF Priorities
  <2>9. Promise!Resize(nactivequeues')
    BY <1>1, <2>6, <2>7 DEF Promise!Resize
  <2>. QED
    BY <1>1, <2>8, <2>9 DEF Allowed, Promise!Next
<1>. QED
  BY <1>2, <1>3 DEF PriorityInit

\* QueueActive is Activate; nothing of the maps changes with it.
LEMMA ActivationIsAllowed ==
  ASSUME IInv, MapsRight', phase = "live", phase' = "live",
         NEW e \in Events, ~Is("ACTIVE", e), NEW pri \in Priorities, QueueActive(e, pri),
         nactivequeues' = nactivequeues, UNCHANGED mapVars,
         \A d \in On("INSERTED") : ev_fd'[d] = ev_fd[d] /\ ev_events'[d] = ev_events[d]
  PROVE  Allowed
<1>1. On("INSERTED")' = On("INSERTED")
  BY DEF QueueActive, On, Is, IInv, TypeOK, EventTypes
<1>2. Interest' = Interest /\ WatchedItems' = WatchedItems
  BY <1>1, SameItems, Parts
<1>3. ~Promise!Ready(e)
  BY Parts, ReadyIsActive DEF On
<1>4. Promise!Activate(e, pri)
  BY <1>1, <1>2, <1>3 DEF Promise!Activate, QueueActive
<1>. QED
  BY <1>4 DEF Allowed, Promise!Next

\* A process that dies on an assertion has changed nothing.
LEMMA AssertIsAllowed ==
  ASSUME IInv, MapsRight', phase = "live", NEW pri, AssertPriority(pri)
  PROVE  Allowed
<1>1. On("INSERTED")' = On("INSERTED")
  BY DEF AssertPriority, On, Is, eventVars
<1>2. Interest' = Interest /\ WatchedItems' = WatchedItems
  BY <1>1, SameItems, Parts DEF AssertPriority, eventVars
<1>. QED
  BY <1>1, <1>2, StuttersIsAllowed DEF Stutters, AssertPriority, queueVars

\* An event becomes ready, or was ready and gets more results.
LEMMA ActiveIsAllowed ==
  ASSUME IInv, IInv', NEW e \in Events, NEW res, Active(e, res)
  PROVE  Allowed
<1>1. phase = "live" /\ MapsRight /\ MapsRight'
  BY DEF Active, Callable, IInv, TypeOK, MapsRight
<1>2. CASE AssertPriority(ev_pri[e])
  BY <1>1, <1>2, AssertIsAllowed
<1>3. CASE /\ UNCHANGED <<ev_flags, activequeues, ev_fd, ev_events, nactivequeues, mapVars, phase>>
  <2>1. On("INSERTED")' = On("INSERTED")
    BY <1>3 DEF On, Is
  <2>. QED
    BY <1>1, <1>3, <2>1, UnlistedIsAllowed
<1>4. CASE /\ ~Is("ACTIVE", e) /\ QueueActive(e, ev_pri[e])
           /\ UNCHANGED <<ev_fd, ev_events, nactivequeues, mapVars, phase>>
  <2>1. ev_pri[e] \in Priorities
    BY DEF IInv, TypeOK, EventTypes
  <2>. QED
    BY <1>1, <1>4, <2>1, ActivationIsAllowed
<1>. QED
  BY <1>2, <1>3, <1>4 DEF Active

\* Deleting an event takes it off its list and off its queue.
LEMMA DelIsAllowed ==
  ASSUME IInv, IInv', NEW e \in Events, Del(e)
  PROVE  Allowed
<1>1. MapsRight /\ MapsRight' /\ EventTypes /\ QueuesMatchFlags /\ phase' = phase /\ phase = "live"
  BY DEF Del, Callable, IInv, TypeOK, MapsRight
<1>2. On("INSERTED")' = On("INSERTED") \ {e}
  BY <1>1 DEF Del, On, Is, EventTypes
<1>3. Promise!Unregister(e)
  BY <1>1, <1>2, Unregistration DEF Del
<1>4. Promise!Unready(e)
  <2>1. CASE e \in On("ACTIVE")
    <3>1. RemoveActive(e)
      BY <2>1 DEF Del, Unlink, On
    <3>. QED
      BY <1>1, <2>1, <3>1, RemovalIsUnready
  <2>2. CASE e \notin On("ACTIVE")
    <3>1. activequeues' = activequeues
      BY <2>2 DEF Del, Unlink, On
    <3>. QED
      BY <1>1, <2>2, <3>1, ReadyIsActive DEF Promise!Unready
  <2>. QED
    BY <2>1, <2>2
<1>5. Promise!Delete(e)
  BY <1>3, <1>4 DEF Promise!Delete, Del
<1>. QED
  BY <1>1, <1>5 DEF Allowed, Promise!Next

\* Adding an event registers it, fails, or does nothing; or, wrongly, takes it
\* off its queue (ReschedulingKeepsEvent).
LEMMA AddIsAllowed ==
  ASSUME IInv, IInv', NEW e \in Events, NEW tv \in BOOLEAN, Add(e, tv)
  PROVE  Allowed
<1> DEFINE c == [fd |-> ev_fd[e], events |-> ev_events[e]]
<1>1. /\ MapsRight /\ MapsRight' /\ EventTypes /\ QueuesMatchFlags
      /\ phase' = phase /\ phase = "live"
      /\ UNCHANGED <<ev_fd, ev_events, nactivequeues>>
  BY DEF Add, Callable, IInv, TypeOK, MapsRight
<1>2. CASE UNCHANGED <<ev_flags, activequeues, mapVars>>
  <2>1. On("INSERTED")' = On("INSERTED")
    BY <1>2 DEF On, Is
  <2>. QED
    BY <1>1, <1>2, <2>1, UnlistedIsAllowed
<1>3. CASE Inserts(e) /\ Insert(e, c) /\ UNCHANGED activequeues
  <2>1. On("INSERTED")' = On("INSERTED") \cup {e}
    BY <1>1, <1>3 DEF Insert, On, Is, EventTypes
  <2>2. c \in Args /\ c.fd = ev_fd[e] /\ c.events = ev_events[e]
    BY <1>1 DEF Args, EventTypes
  <2>3. /\ ev_fd' = [ev_fd EXCEPT ![e] = c.fd]
        /\ ev_events' = [ev_events EXCEPT ![e] = c.events]
    BY <1>1, <2>2 DEF EventTypes
  <2>4. ~Is("INSERTED", e) /\ ~Is("ACTIVE", e) /\ EvmapAdd(e, c)
    BY <1>3 DEF Inserts, Insert
  <2>. HIDE DEF c
  <2>5. /\ Interest' = [Interest EXCEPT ![e] = ItemsOf(e)']
        /\ WatchedItems' = WatchedItems \cup ItemsOf(e)'
    BY <1>1, <2>1, <2>2, <2>3, <2>4, Registration
  <2>6. e \notin On("INSERTED") /\ ~Promise!Ready(e)
    BY <1>1, <2>4, ReadyIsActive DEF On
  <2>7. Promise!Add(e, ItemsOf(e)')
    BY <1>1, <1>3, <2>1, <2>5, <2>6 DEF Promise!Add
  <2>8. ItemsOf(e)' \in SUBSET ((Fds \X IoKinds) \cup (Sigs \X {"SIGNAL"}))
    BY DEF ItemsOf
  <2>. QED
    BY <1>1, <2>7, <2>8 DEF Allowed, Promise!Next
<1>4. CASE /\ Is("ACTIVE", e) /\ RemoveActive(e) /\ UNCHANGED mapVars
           /\ ev_flags' = [ev_flags EXCEPT ![e] = @ \ {"ACTIVE"}]
  <2>1. On("INSERTED")' = On("INSERTED")
    BY <1>1, <1>4 DEF On, Is, EventTypes
  <2>2. Interest' = Interest /\ WatchedItems' = WatchedItems
    BY <1>1, <1>4, <2>1, SameItems
  <2>3. Promise!Ready(e) /\ Promise!Unready(e)
    BY <1>1, <1>4, ReadyIsActive, RemovalIsUnready DEF On
  <2>4. Promise!Withdraw(e)
    BY <1>1, <2>1, <2>2, <2>3 DEF Promise!Withdraw
  <2>. QED
    BY <1>1, <2>4 DEF Allowed, Promise!Next
<1>. QED
  BY <1>2, <1>3, <1>4 DEF Add, AddFails, Reschedules

\* A once event is active at once, on no list, or listed for descriptor 0.
LEMMA BaseOnceIsAllowed ==
  ASSUME IInv, IInv', NEW o \in OnceStore, NEW c \in OnceConfigs, NEW tv \in BOOLEAN,
         BaseOnce(o, c, tv)
  PROVE  Allowed
<1>1. /\ MapsRight /\ MapsRight' /\ EventTypes /\ QueuesMatchFlags /\ phase = "live"
      /\ ev_flags[o] = {} /\ o \in Events
  BY EventsAssumption DEF BaseOnce, Callable, IInv, TypeOK, MapsRight
<1>2. ~Is("INSERTED", o) /\ ~Is("ACTIVE", o)
  BY <1>1 DEF Is
<1>3. ASSUME NEW events, NEW res, SetUpOnce(o, events, res)
      PROVE  /\ \A d \in On("INSERTED") : ev_fd'[d] = ev_fd[d] /\ ev_events'[d] = ev_events[d]
             /\ nactivequeues' = nactivequeues /\ phase' = phase
             /\ ev_fd' = [ev_fd EXCEPT ![o] = Zero]
             /\ ev_events' = [ev_events EXCEPT ![o] = events]
  BY <1>1, <1>2, <1>3 DEF SetUpOnce, On, EventTypes
<1>4. CASE AssertPriority(nactivequeues \div 2)
  BY <1>1, <1>4, AssertIsAllowed
<1>5. CASE OnceNow(o) /\ ~AssertPriority(nactivequeues \div 2)
  <2>1. /\ QueueActive(o, nactivequeues \div 2) /\ SetUpOnce(o, {}, {"TIMEOUT"})
        /\ UNCHANGED mapVars
    BY <1>5 DEF OnceNow
  <2>2. nactivequeues \div 2 \in Priorities
    BY BoundsAssumption DEF IInv, TypeOK, QueueTypes, Priorities
  <2>. QED
    BY <1>1, <1>2, <1>3, <2>1, <2>2, ActivationIsAllowed
<1>6. CASE OnceLater(o)
  <2>1. SetUpOnce(o, {}, {}) /\ UNCHANGED <<activequeues, mapVars>>
    BY <1>6 DEF OnceLater
  <2>2. On("INSERTED")' = On("INSERTED")
    BY <1>1, <1>6 DEF OnceLater, On, Is, EventTypes
  <2>. QED
    BY <1>1, <1>3, <2>1, <2>2, UnlistedIsAllowed
<1>7. CASE c.events # {} /\ OnceIo(o, c.events)
  <2> DEFINE a == [fd |-> Zero, events |-> c.events]
  <2>1. /\ Insert(o, a) /\ SetUpOnce(o, c.events, {}) /\ activequeues' = activequeues
    BY <1>7 DEF OnceIo
  <2>2. a \in Args /\ a.fd = Zero /\ a.events = c.events
    BY KindsAssumption, DescriptorsAssumption DEF Args, EventKinds
  <2>. HIDE DEF a
  <2>3. On("INSERTED")' = On("INSERTED") \cup {o}
    BY <1>1, <2>1 DEF Insert, On, Is, EventTypes
  <2>4. /\ ev_fd' = [ev_fd EXCEPT ![o] = a.fd]
        /\ ev_events' = [ev_events EXCEPT ![o] = a.events]
        /\ nactivequeues' = nactivequeues /\ phase' = phase
    BY <1>3, <2>1, <2>2
  <2>5. EvmapAdd(o, a)
    BY <2>1 DEF Insert
  <2>6. /\ Interest' = [Interest EXCEPT ![o] = ItemsOf(o)']
        /\ WatchedItems' = WatchedItems \cup ItemsOf(o)'
    BY <1>1, <1>2, <2>2, <2>3, <2>4, <2>5, Registration
  <2>7. o \notin On("INSERTED") /\ ~Promise!Ready(o)
    BY <1>1, <1>2, ReadyIsActive DEF On
  <2>8. Promise!Add(o, ItemsOf(o)')
    BY <2>1, <2>3, <2>4, <2>6, <2>7 DEF Promise!Add
  <2>9. ItemsOf(o)' \in SUBSET ((Fds \X IoKinds) \cup (Sigs \X {"SIGNAL"}))
    BY DEF ItemsOf
  <2>. QED
    BY <1>1, <2>4, <2>8, <2>9 DEF Allowed, Promise!Next
<1>8. CASE OnceFails(c.events, tv)
  <2>1. UNCHANGED <<eventVars, queueVars, mapVars, phase>>
    BY <1>8 DEF OnceFails
  <2>2. On("INSERTED")' = On("INSERTED")
    BY <2>1 DEF On, Is, eventVars
  <2>. QED
    BY <1>1, <2>1, <2>2, UnlistedIsAllowed DEF eventVars, queueVars
<1>. QED
  BY <1>4, <1>5, <1>6, <1>7, <1>8 DEF BaseOnce

\* The loop fires the head of the most urgent queue.
LEMMA RunIsAllowed ==
  ASSUME IInv, IInv', NEW e \in Events, Run(e)
  PROVE  Allowed
<1>1. /\ MapsRight /\ MapsRight' /\ EventTypes /\ QueueTypes /\ QueuesMatchFlags
      /\ phase' = phase /\ phase = "live"
      /\ UNCHANGED <<ev_fd, ev_events, nactivequeues>>
  BY DEF Run, Callable, IInv, TypeOK, MapsRight
<1>2. PICK p \in Priorities :
        /\ activequeues[p] # <<>> /\ Head(activequeues[p]) = e
        /\ \A q \in 0 .. p - 1 : activequeues[q] = <<>>
  BY DEF Run, Foremost
<1>3. activequeues[p] \in Seq(Events) /\ IsInjective(activequeues[p])
  BY <1>1 DEF QueueTypes, QueuesMatchFlags
<1>4. e \in On("ACTIVE") /\ ev_pri[e] = p
  <2>1. e \in ToSet(activequeues[p])
    <3>1. Len(activequeues[p]) \in Nat \ {0} /\ e = activequeues[p][1]
      BY <1>2, <1>3, EmptySeq, LenProperties
    <3>2. 1 \in DOMAIN activequeues[p]
      BY <1>3, <3>1, LenProperties
    <3>. QED
      BY <3>1, <3>2 DEF ToSet
  <2>. QED
    BY <1>1, <2>1 DEF QueuesMatchFlags
<1>5. RemoveActive(e)
  BY <1>4 DEF Run, Unlink, On
<1>6. activequeues' = [activequeues EXCEPT ![p] = Tail(@)]
  <2>1. RemoveFirst(activequeues[p], e) = Tail(activequeues[p])
    BY <1>2, <1>3, RemoveHead
  <2>. QED
    BY <1>4, <1>5, <2>1 DEF RemoveActive
<1>7. UNCHANGED <<On("INSERTED"), Interest, WatchedItems>> \/ Promise!Unregister(e)
  <2>1. CASE /\ "PERSIST" \in ev_events[e] /\ UNCHANGED mapVars
             /\ ev_flags' = [ev_flags EXCEPT ![e] = @ \ {"ACTIVE"}]
    <3>1. On("INSERTED")' = On("INSERTED")
      BY <1>1, <2>1 DEF On, Is, EventTypes
    <3>. QED
      BY <1>1, <2>1, <3>1, SameItems
  <2>2. CASE /\ Unlink(e, FALSE)
             /\ ev_flags' = [ev_flags EXCEPT ![e] =
                               IF e \in OnceStore THEN {} ELSE @ \ {"INSERTED", "ACTIVE"}]
    <3>1. On("INSERTED")' = On("INSERTED") \ {e}
      BY <1>1, <2>2 DEF On, Is, EventTypes
    <3>. QED
      BY <1>1, <2>2, <3>1, Unregistration
  <2>. QED
    BY <2>1, <2>2 DEF Run
<1>8. Promise!Fire(p)
  BY <1>1, <1>2, <1>6, <1>7 DEF Promise!Fire
<1>. QED
  BY <1>1, <1>8 DEF Allowed, Promise!Next

\* Freeing the base leaves nothing listed, watched or ready.
LEMMA BaseFreeIsAllowed ==
  ASSUME IInv, IInv', BaseFree
  PROVE  Allowed
<1>1. /\ phase = "live" /\ nactivequeues' = nactivequeues
      /\ activequeues' = [p \in Priorities |-> <<>>]
      /\ io_events' = [f \in Fds |-> {}] /\ sig_events' = [s \in Sigs |-> {}]
      /\ kernel' = [f \in Fds |-> {}] /\ kernel_sigs' = {}
  BY DEF BaseFree, Callable
<1> DEFINE mapped == (UNION {io_events[f] : f \in Fds}) \cup (UNION {sig_events[s] : s \in Sigs})
           deleted == mapped \cup (On("ACTIVE") \ Internal)
<1>2. phase' = "freed"
  <2>1. ASSUME NEW i \in On("ACTIVE"), i \in Internal
        PROVE  i \in mapped
    <3>1. i \in On("INSERTED") /\ ev_fd[i] = Zero /\ Polls(ev_events[i])
      BY <2>1 DEF IInv, InternalActiveIsAdded, On
    <3>2. Zero \in Fds
      BY DescriptorsAssumption
    <3>3. i \in io_events[Zero]
      BY <3>1, <3>2 DEF IInv, EvmapMatchesFlags
    <3>. QED
      BY <3>2, <3>3
  <2>2. On("ACTIVE") \subseteq deleted
    BY <2>1
  <2>. QED
    BY <2>2 DEF BaseFree
<1>3. On("INSERTED")' \subseteq On("INSERTED")
  BY DEF BaseFree, On, Is, IInv, TypeOK, EventTypes
<1>4. Interest' = [e \in Events |-> {}]
  <2>1. \A e \in Events : ItemsOf(e)' = {}
    BY <1>1 DEF ItemsOf
  <2>. QED
    BY <2>1 DEF Interest
<1>5. WatchedItems' = {}
  BY <1>1 DEF WatchedItems
<1>6. Promise!Close
  BY <1>1, <1>2, <1>3, <1>4, <1>5 DEF Promise!Close
<1>. QED
  BY <1>1, <1>6 DEF Allowed, Promise!Next

-----------------------------------------------------------------------------
\* A new base has nothing added, watched or ready.
LEMMA InitIsAllowed == Init => Promise!Init
<1>. SUFFICES ASSUME Init
              PROVE  Promise!Init
  OBVIOUS
<1>1. On("INSERTED") = {}
  BY DEF Init, On, Is
<1>2. Interest = [e \in Events |-> {}]
  <2>1. \A e \in Events : ItemsOf(e) = {}
    BY DEF Init, ItemsOf
  <2>. QED
    BY <2>1 DEF Interest
<1>3. WatchedItems = {}
  BY DEF Init, WatchedItems
<1>. QED
  BY <1>1, <1>2, <1>3 DEF Init, Promise!Init

\* Every step is allowed, given the invariant on both sides of it.
LEMMA NextIsAllowed == IInv /\ IInv' /\ [Next]_vars => [Promise!Next]_Promise!vars
<1>. SUFFICES ASSUME IInv, IInv', [Next]_vars
              PROVE  Allowed
  BY DEF Allowed
<1>1. CASE UNCHANGED vars
  <2>1. On("INSERTED")' = On("INSERTED")
    BY <1>1 DEF On, Is, vars, eventVars
  <2>. QED
    BY <1>1, <2>1, UnlistedIsAllowed
       DEF vars, eventVars, queueVars, mapVars, baseVars, IInv, TypeOK, MapsRight
<1>2. ASSUME NEW e \in Events, NEW fd \in Fds \cup {NoFd}, Recycle(e, fd)
      PROVE  Allowed
  BY <1>2, RecycleIsAllowed
<1>3. ASSUME NEW e \in Events, NEW c \in Configs, Assign(e, c)
      PROVE  Allowed
  BY <1>3, AssignIsAllowed
<1>4. ASSUME NEW e \in Events, NEW pri \in Priorities, PrioritySet(e, pri)
      PROVE  Allowed
  BY <1>4, PrioritySetIsAllowed
<1>5. ASSUME NEW e \in Events, NEW res \in Results, Active(e, res)
      PROVE  Allowed
  BY <1>5, ActiveIsAllowed
<1>6. ASSUME NEW e \in Events, NEW tv \in BOOLEAN, Add(e, tv)
      PROVE  Allowed
  BY <1>6, AddIsAllowed
<1>7. ASSUME NEW e \in Events, Del(e)
      PROVE  Allowed
  BY <1>7, DelIsAllowed
<1>8. ASSUME NEW e \in Events, Run(e)
      PROVE  Allowed
  BY <1>8, RunIsAllowed
<1>9. ASSUME NEW o \in OnceStore, NEW c \in OnceConfigs, NEW tv \in BOOLEAN,
             BaseOnce(o, c, tv)
      PROVE  Allowed
  BY <1>9, BaseOnceIsAllowed
<1>10. ASSUME NEW n \in 0 .. MaxPriorities, PriorityInit(n)
       PROVE  Allowed
  BY <1>10, PriorityInitIsAllowed
<1>. QED
  BY <1>1, <1>2, <1>3, <1>4, <1>5, <1>6, <1>7, <1>8, <1>9, <1>10,
     DrainIsAllowed, BaseFreeIsAllowed
     DEF Next

\* The event core keeps the promise of EventPromise: every operation, whatever
\* of it fails, is one of its operations on the events, or changes nothing a
\* program can see.
THEOREM ImplementsPromise == Spec => KeepsPromise
<1>1. Spec => []IInv
  BY InvariantHolds
<1>. QED
  BY <1>1, InitIsAllowed, NextIsAllowed, PTL DEF Spec, KeepsPromise, Promise!Spec
==============================================================================
