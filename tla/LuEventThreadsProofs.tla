------------------------- MODULE LuEventThreadsProofs -------------------------
(***************************************************************************)
(* The waits of LuEventThreads, for any number of threads and events: who  *)
(* waits is never forgotten, and nobody whose wait did not end by itself   *)
(* goes on while the callback it met runs.                                 *)
(***************************************************************************)
EXTENDS LuEventThreads, TLAPS

\* Between two callbacks current_event is NULL.
NoneBetween == loop \notin {"calls", "callback"} => current_event = NONE

\* A thread is in an operation unless it is idle.
InOperation == \A t \in Threads : at[t] # "idle" => op[t] \in Op

IInv == TypeOK /\ NoneBetween /\ InOperation /\ NoLostWakeup

\* Who met a callback that still runs waits for it.
SeesWaits == \A t \in sees : at[t] = "waits"

LEMMA OpsAreTyped ==
  /\ Ops \subseteq Op /\ OwnOps \subseteq Op
  /\ \A o \in Op : /\ o.ev \in Events
                   /\ o.kind \in {"del", "active", "add"}
                   /\ o.kind = "active" => o.arg[1] \in Calls
  /\ NONE \notin Events /\ Loop \in Threads /\ Signals \subseteq Events
  /\ 0 \in Calls /\ 1 \in Calls /\ Calls \subseteq Nat
BY ThreadsAssumption, OpsAssumption DEF Op, Threads, Calls

LEMMA StartsWell == Init => IInv /\ SeesWaits
BY OpsAreTyped, ThreadsAssumption
   DEF Init, IInv, SeesWaits, TypeOK, NoneBetween, InOperation, NoLostWakeup

\* The end of an operation takes its thread out of the waits and changes no other.
LEMMA ReturnIsSafe ==
  ASSUME IInv, NEW t \in Threads, Return(t),
         loop' = loop
  PROVE  /\ NoneBetween' /\ InOperation' /\ NoLostWakeup'
         /\ at' \in [Threads -> {"idle", "locks", "waits", "woken"}]
         /\ op' \in [Threads -> Op \cup {NONE}]
         /\ sees' \subseteq Threads
         /\ UNCHANGED waitVars
BY DEF Return, IInv, TypeOK, NoneBetween, InOperation, NoLostWakeup, waitVars

\* A wait begins under the callback it is for, and is counted.
LEMMA WaitIsSafe ==
  ASSUME IInv, NEW t \in Threads, Wait(t), current_event = op[t].ev,
         at[t] # "idle", loop' = loop
  PROVE  /\ NoneBetween' /\ InOperation' /\ NoLostWakeup'
         /\ at' \in [Threads -> {"idle", "locks", "waits", "woken"}]
         /\ op' \in [Threads -> Op \cup {NONE}]
         /\ sees' \subseteq Threads
         /\ current_event' = current_event
         /\ current_event_waiters' \in Nat
BY DEF Wait, IInv, TypeOK, NoneBetween, InOperation, NoLostWakeup

\* What an operation does to the events and the wake-ups has the right types.
EventTypes ==
  /\ inserted \subseteq Events /\ active \subseteq Events
  /\ timed \subseteq Events /\ gone \subseteq Events
  /\ ev_ncalls \in [Events -> Calls] /\ ev_pncalls \subseteq Signals /\ ncalls \in Calls
  /\ is_notify_pending \in BOOLEAN /\ pipe \in BOOLEAN

LEMMA DelIsSafe ==
  ASSUME IInv, NEW t \in Threads, at[t] # "idle", NEW blocking, Del(t, op[t].ev, blocking)
  PROVE  IInv'
<1>1. op[t].ev \in Events
  BY OpsAreTyped DEF IInv, InOperation
<1>2. EventTypes' /\ loop' = loop
  BY <1>1, OpsAreTyped DEF Del, Notify, EventTypes, IInv, TypeOK, wakeVars
<1>3. CASE DelWaits(t, op[t].ev, blocking)
  <2>1. Wait(t) /\ current_event = op[t].ev
    BY <1>3 DEF Del, DelWaits, RunsElsewhere
  <2>. QED
    BY <1>2, <2>1, WaitIsSafe DEF IInv, TypeOK, EventTypes
<1>4. CASE ~DelWaits(t, op[t].ev, blocking)
  <2>1. Return(t)
    BY <1>4 DEF Del
  <2>. QED
    BY <1>2, <2>1, ReturnIsSafe DEF IInv, TypeOK, EventTypes, waitVars
<1>. QED
  BY <1>3, <1>4

LEMMA ActivateIsSafe ==
  ASSUME IInv, NEW t \in Threads, at[t] # "idle", NEW n \in Calls,
         Activate(t, op[t].ev, n), timed' \subseteq Events
  PROVE  IInv'
<1>1. op[t].ev \in Events
  BY OpsAreTyped DEF IInv, InOperation
<1>2. EventTypes' /\ loop' = loop
  BY <1>1, OpsAreTyped DEF Activate, Notify, EventTypes, IInv, TypeOK, wakeVars
<1>3. Return(t)
  BY DEF Activate
<1>. QED
  BY <1>2, <1>3, ReturnIsSafe DEF IInv, TypeOK, EventTypes, waitVars

LEMMA ActiveIsSafe ==
  ASSUME IInv, NEW t \in Threads, at[t] # "idle", NEW n \in Calls, NEW timeout,
         Active(t, op[t].ev, n, timeout)
  PROVE  IInv'
<1>1. op[t].ev \in Events
  BY OpsAreTyped DEF IInv, InOperation
<1>2. timed' \subseteq Events
  BY <1>1 DEF Active, IInv, TypeOK
<1>3. CASE /\ op[t].ev \in active
           /\ UNCHANGED <<inserted, active, gone, signalVars, wakeVars, loop>>
           /\ Return(t)
  BY <1>2, <1>3, ReturnIsSafe DEF IInv, TypeOK, waitVars, signalVars, wakeVars
<1>4. CASE /\ RunsElsewhere(t, op[t].ev)
           /\ UNCHANGED <<inserted, active, gone, signalVars, wakeVars, loop>>
           /\ Wait(t)
  <2>1. current_event = op[t].ev
    BY <1>4 DEF RunsElsewhere
  <2>. QED
    BY <1>2, <1>4, <2>1, WaitIsSafe DEF IInv, TypeOK, signalVars, wakeVars
<1>5. CASE Activate(t, op[t].ev, n)
  BY <1>2, <1>5, ActivateIsSafe
<1>. QED
  BY <1>3, <1>4, <1>5 DEF Active

LEMMA InsertIsSafe ==
  ASSUME IInv, NEW t \in Threads, at[t] # "idle", NEW tv, Insert(t, op[t].ev, tv)
  PROVE  IInv'
<1>1. op[t].ev \in Events
  BY OpsAreTyped DEF IInv, InOperation
<1>2. EventTypes' /\ loop' = loop
  BY <1>1, OpsAreTyped DEF Insert, Notify, EventTypes, IInv, TypeOK, wakeVars
<1>3. Return(t)
  BY DEF Insert
<1>. QED
  BY <1>2, <1>3, ReturnIsSafe DEF IInv, TypeOK, EventTypes, waitVars

LEMMA AddIsSafe ==
  ASSUME IInv, NEW t \in Threads, at[t] # "idle", NEW tv, Add(t, op[t].ev, tv)
  PROVE  IInv'
<1>1. CASE /\ RunsElsewhere(t, op[t].ev)
           /\ UNCHANGED <<eventVars, signalVars, wakeVars, loop>>
           /\ Wait(t)
  <2>1. current_event = op[t].ev
    BY <1>1 DEF RunsElsewhere
  <2>. QED
    BY <1>1, <2>1, WaitIsSafe DEF IInv, TypeOK, eventVars, signalVars, wakeVars
<1>2. CASE Insert(t, op[t].ev, tv)
  BY <1>2, InsertIsSafe
<1>. QED
  BY <1>1, <1>2 DEF Add

LEMMA PerformIsSafe ==
  ASSUME IInv, NEW t \in Threads, Perform(t)
  PROVE  IInv'
<1>1. at[t] # "idle" /\ op[t] \in Op
  BY DEF Perform, IInv, InOperation
<1>2. CASE op[t].kind = "del" /\ Del(t, op[t].ev, op[t].arg)
  BY <1>1, <1>2, DelIsSafe
<1>3. CASE op[t].kind = "active" /\ Active(t, op[t].ev, op[t].arg[1], op[t].arg[2])
  <2>1. op[t].arg[1] \in Calls
    BY <1>1, <1>3, OpsAreTyped
  <2>. QED
    BY <1>1, <1>3, <2>1, ActiveIsSafe
<1>4. CASE op[t].kind = "add" /\ Add(t, op[t].ev, op[t].arg)
  BY <1>1, <1>4, AddIsSafe
<1>. QED
  BY <1>1, <1>2, <1>3, <1>4, OpsAreTyped DEF Perform

LEMMA ResumeIsSafe ==
  ASSUME IInv, NEW t \in Threads, Resume(t)
  PROVE  IInv'
<1>1. at[t] # "idle" /\ op[t] \in Op
  BY DEF Resume, IInv, InOperation
<1>2. CASE /\ op[t].kind = "del"
           /\ UNCHANGED <<eventVars, signalVars, wakeVars, loop>>
           /\ Return(t)
  BY <1>2, ReturnIsSafe DEF IInv, TypeOK, eventVars, signalVars, wakeVars, waitVars
<1>3. CASE op[t].kind = "active" /\ timed' = timed /\ Activate(t, op[t].ev, op[t].arg[1])
  <2>1. op[t].arg[1] \in Calls /\ timed' \subseteq Events
    BY <1>1, <1>3, OpsAreTyped DEF IInv, TypeOK
  <2>. QED
    BY <1>1, <1>3, <2>1, ActivateIsSafe
<1>4. CASE op[t].kind = "add" /\ Insert(t, op[t].ev, op[t].arg)
  BY <1>1, <1>4, InsertIsSafe
<1>. QED
  BY <1>1, <1>2, <1>3, <1>4, OpsAreTyped DEF Resume

LEMMA LoopIsSafe ==
  ASSUME IInv,
         Enter \/ Leave \/ Sleep \/ ReadPipe \/ Drain \/ Call \/ CallbackReturns \/ Finish
           \/ \E e \in Events : Take(e) \/ \E n \in Calls \ {0} : Ready(e, n)
  PROVE  IInv'
<1> USE OpsAreTyped DEF IInv, TypeOK, NoneBetween, InOperation, NoLostWakeup,
        outside, eventVars, signalVars, wakeVars, waitVars, threadVars
<1>1. CASE Enter \/ Leave \/ Sleep
  BY <1>1 DEF Enter, Leave, Sleep
<1>2. CASE ReadPipe \/ Drain
  BY <1>2 DEF ReadPipe, Drain
<1>3. CASE Call
  <2>1. ncalls - 1 \in Calls
    BY <1>3, OpsAssumption DEF Call, Calls
  <2>2. /\ ev_ncalls' \in [Events -> Calls] /\ ev_pncalls' \subseteq Signals
        /\ ncalls' \in Calls
    BY <1>3, <2>1 DEF Call
  <2>. QED
    BY <1>3, <2>2 DEF Call
<1>4. CASE CallbackReturns
  BY <1>4 DEF CallbackReturns
<1>5. CASE Finish
  <2>1. \A t \in Threads : at'[t] # "waits"
    BY <1>5 DEF Finish
  <2>2. /\ at' \in [Threads -> {"idle", "locks", "waits", "woken"}]
        /\ \A t \in Threads : at'[t] # "idle" => at[t] # "idle"
    BY <1>5 DEF Finish
  <2>. QED
    BY <1>5, <2>1, <2>2 DEF Finish
<1>6. ASSUME NEW e \in Events, Take(e) PROVE IInv'
  <2>1. \A t \in Threads : at[t] # "waits"
    BY <1>6 DEF Take
  <2>2. ncalls' \in Calls /\ ev_pncalls' \subseteq Signals
    BY <1>6 DEF Take
  <2>. QED
    BY <1>6, <2>1, <2>2 DEF Take
<1>7. ASSUME NEW e \in Events, NEW n \in Calls \ {0}, Ready(e, n) PROVE IInv'
  BY <1>7 DEF Ready
<1>. QED
  BY <1>1, <1>2, <1>3, <1>4, <1>5, <1>6, <1>7

LEMMA StepKeepsIInv == IInv /\ [Next]_vars => IInv'
<1> SUFFICES ASSUME IInv, [Next]_vars PROVE IInv'
  OBVIOUS
<1>1. ASSUME NEW t \in Threads, NEW o \in Ops \cup OwnOps, Begin(t, o) PROVE IInv'
  <2>1. o \in Op
    BY OpsAreTyped
  <2>. QED
    BY <1>1, <2>1 DEF Begin, IInv, TypeOK, NoneBetween, InOperation, NoLostWakeup,
                      eventVars, signalVars, wakeVars, waitVars
<1>2. ASSUME NEW t \in Threads, WakeByChance(t) PROVE IInv'
  BY <1>2 DEF WakeByChance, IInv, TypeOK, NoneBetween, InOperation, NoLostWakeup,
              eventVars, signalVars, wakeVars, waitVars
<1>3. CASE UNCHANGED vars
  BY <1>3 DEF vars, IInv, TypeOK, NoneBetween, InOperation, NoLostWakeup,
              eventVars, signalVars, wakeVars, waitVars, threadVars
<1>. QED
  BY <1>1, <1>2, <1>3, PerformIsSafe, ResumeIsSafe, LoopIsSafe DEF Next, LoopStep

\* Every variable keeps its type, and whoever waits for a callback is still to be
\* woken, whatever other threads and waits that end by themselves do
\* (lu_event_del_nolock_, lu_event_active_nolock_, lu_event_add_nolock_).
THEOREM WakeupsAreNotLost == Spec => []ThreadsInv
<1>1. IInv => ThreadsInv
  BY DEF IInv, ThreadsInv
<1>. QED
  BY StartsWell, StepKeepsIInv, <1>1, PTL DEF Spec

-----------------------------------------------------------------------------
(***************************************************************************)
(* Without waits that end by themselves.                                   *)
(***************************************************************************)

\* An operation given the lock ends or waits; given it again, it ends.
LEMMA OperationsEndOrWait ==
  ASSUME IInv, NEW t \in Threads
  PROVE  /\ Perform(t) => Return(t) \/ Wait(t)
         /\ Resume(t) => Return(t)
<1>1. at[t] # "idle" => op[t].kind \in {"del", "active", "add"}
  BY OpsAreTyped DEF IInv, InOperation
<1>2. ASSUME Perform(t) PROVE Return(t) \/ Wait(t)
  <2>1. op[t].kind \in {"del", "active", "add"}
    BY <1>1, <1>2 DEF Perform
  <2>. QED
    BY <1>2, <2>1 DEF Perform, Del, Active, Activate, Add, Insert
<1>3. ASSUME Resume(t) PROVE Return(t)
  <2>1. op[t].kind \in {"del", "active", "add"}
    BY <1>1, <1>3 DEF Resume
  <2>. QED
    BY <1>3, <2>1 DEF Resume, Activate, Insert
<1>. QED
  BY <1>2, <1>3

\* A thread stops seeing its callback with its wait.
LEMMA SeeingIsWaiting ==
  IInv /\ SeesWaits /\ [Next]_vars => SeesWaits'
<1> SUFFICES ASSUME IInv, SeesWaits, [Next]_vars PROVE SeesWaits'
  OBVIOUS
<1> USE DEF IInv, TypeOK, SeesWaits
<1>1. ASSUME NEW t \in Threads, Return(t) \/ Wait(t) PROVE SeesWaits'
  BY <1>1 DEF Return, Wait
<1>2. ASSUME NEW t \in Threads, Perform(t) PROVE SeesWaits'
  <2>1. Return(t) \/ Wait(t)
    BY <1>2, OperationsEndOrWait
  <2>. QED
    BY <1>1, <2>1
<1>3. ASSUME NEW t \in Threads, Resume(t) PROVE SeesWaits'
  <2>1. Return(t)
    BY <1>3, OperationsEndOrWait
  <2>. QED
    BY <1>1, <2>1
<1>4. ASSUME NEW t \in Threads, NEW o \in Ops \cup OwnOps, Begin(t, o) PROVE SeesWaits'
  BY <1>4 DEF Begin
<1>5. ASSUME NEW t \in Threads, WakeByChance(t) PROVE SeesWaits'
  BY <1>5 DEF WakeByChance
<1>6. CASE \/ Enter \/ Leave \/ Sleep \/ ReadPipe \/ Drain \/ Call \/ CallbackReturns
           \/ \E e \in Events : Take(e) \/ \E n \in Calls \ {0} : Ready(e, n)
           \/ UNCHANGED vars
  <2>1. UNCHANGED threadVars
    BY <1>6 DEF Enter, Leave, Sleep, ReadPipe, Drain, Call, CallbackReturns, Take, Ready,
                outside, vars
  <2>. QED
    BY <2>1 DEF threadVars
<1>7. CASE Finish
  BY <1>7 DEF Finish
<1>. QED
  BY <1>2, <1>3, <1>4, <1>5, <1>6, <1>7 DEF Next, LoopStep

\* Who returns from an operation has just been given the lock.
LEMMA OnlyOwnStepsReturn ==
  ASSUME IInv, NEW t \in Threads, Returns(t), [Next]_vars
  PROVE  Perform(t) \/ Resume(t)
<1>0. /\ at \in [Threads -> {"idle", "locks", "waits", "woken"}]
      /\ at[t] # "idle" /\ at'[t] = "idle"
  BY DEF IInv, TypeOK, Returns
<1>1. ASSUME NEW u \in Threads, Perform(u) \/ Resume(u) PROVE u = t
  <2>1. Return(u) \/ Wait(u)
    BY <1>1, OperationsEndOrWait
  <2>. QED
    BY <1>0, <2>1 DEF Return, Wait
<1>2. ASSUME NEW u \in Threads, NEW o \in Ops \cup OwnOps PROVE ~Begin(u, o)
  BY <1>0 DEF Begin
<1>3. ASSUME NEW u \in Threads PROVE ~WakeByChance(u)
  BY <1>0 DEF WakeByChance
<1>4. at' # at
  BY <1>0
<1>5. /\ ~Enter /\ ~Leave /\ ~Sleep /\ ~ReadPipe /\ ~Drain /\ ~Call /\ ~CallbackReturns
      /\ \A e \in Events : ~Take(e) /\ \A n \in Calls \ {0} : ~Ready(e, n)
      /\ ~UNCHANGED vars
  BY <1>4 DEF Enter, Leave, Sleep, ReadPipe, Drain, Call, CallbackReturns, Take, Ready,
              outside, vars, threadVars
<1>6. ~Finish
  BY <1>0 DEF Finish
<1>7. \E u \in Threads : Perform(u) \/ Resume(u)
  BY <1>2, <1>3, <1>5, <1>6 DEF Next, LoopStep
<1>. QED
  BY <1>1, <1>7

\* A thread that met a callback and returns was not to wait for it.
LEMMA ReturnsRightly ==
  ASSUME IInv, SeesWaits, NEW t \in Workers, Returns(t), Meets(t), [Next]_vars
  PROVE  ~Blocks(op[t]) /\ (op[t].kind # "del" => UNCHANGED signalVars)
<1>0. t \in Threads /\ at \in [Threads -> {"idle", "locks", "waits", "woken"}]
  BY DEF Threads, IInv, TypeOK
<1>1. ~Resume(t)
  BY <1>0 DEF Resume, Meets, SeesWaits
<1>2. Perform(t) /\ at[t] = "locks"
  BY <1>0, <1>1, OnlyOwnStepsReturn DEF Perform
<1>3. RunsElsewhere(t, op[t].ev)
  BY <1>2 DEF Meets
<1>4. ~Wait(t)
  BY <1>0 DEF Wait, Returns
<1>5. op[t].kind = "del" => ~Blocks(op[t])
  BY <1>2, <1>3, <1>4 DEF Perform, Del, DelWaits, Blocks
<1>6. CASE op[t].kind = "active"
  <2>1. op[t].ev \in active \/ op[t].ev \notin Signals
    BY <1>2, <1>3, <1>4, <1>6 DEF Perform, Active
  <2>. QED
    BY <1>2, <1>3, <1>6, <2>1 DEF Perform, Active, Activate, signalVars, Blocks
<1>7. CASE op[t].kind = "add"
  <2>1. op[t].ev \notin Signals /\ Insert(t, op[t].ev, op[t].arg)
    BY <1>2, <1>3, <1>4, <1>7 DEF Perform, Add
  <2>. QED
    BY <1>7, <2>1 DEF Insert, Aborts, signalVars, Blocks
<1>8. op[t].kind \in {"del", "active", "add"}
  BY <1>0, <1>2, OpsAreTyped DEF IInv, InOperation
<1>. QED
  BY <1>5, <1>6, <1>7, <1>8

\* A deletion that is to block never returns while the callback it met runs.
THEOREM DeletionsWait == Spec => DeletionWaits
<1>1. IInv /\ SeesWaits /\ [Next]_vars => IInv' /\ SeesWaits'
  BY StepKeepsIInv, SeeingIsWaiting
<1>2. IInv /\ SeesWaits /\ [Next]_vars
        => [\A t \in Workers : Returns(t) /\ Meets(t) => ~Blocks(op[t])]_vars
  BY ReturnsRightly
<1>. QED
  BY StartsWell, <1>1, <1>2, PTL DEF Spec, DeletionWaits

\* No other thread touches the counters of a signal event while the callback it
\* met runs.
THEOREM CountersAreLeftAlone == Spec => CountersLeftAlone
<1>1. IInv /\ SeesWaits /\ [Next]_vars => IInv' /\ SeesWaits'
  BY StepKeepsIInv, SeeingIsWaiting
<1>2. IInv /\ SeesWaits /\ [Next]_vars
        => [\A t \in Workers :
              Returns(t) /\ op[t].kind # "del" /\ Meets(t)
              => UNCHANGED <<ev_ncalls, ev_pncalls, ncalls>>]_vars
  BY ReturnsRightly DEF signalVars
<1>. QED
  BY StartsWell, <1>1, <1>2, PTL DEF Spec, CountersLeftAlone
-----------------------------------------------------------------------------
(***************************************************************************)
(* What is deleted is on no list.                                          *)
(***************************************************************************)

OffLists == gone \cap (inserted \cup active) = {}

LEMMA OpsKeepOffLists ==
  ASSUME OffLists, IInv, NEW t \in Threads, Perform(t) \/ Resume(t)
  PROVE  OffLists' /\ loop' = loop
<1>0. op[t].kind \in {"del", "active", "add"}
  BY OpsAreTyped DEF Perform, Resume, IInv, InOperation
<1>1. \/ Del(t, op[t].ev, op[t].arg)
      \/ Active(t, op[t].ev, op[t].arg[1], op[t].arg[2])
      \/ Add(t, op[t].ev, op[t].arg)
      \/ UNCHANGED <<eventVars, loop>>
      \/ Activate(t, op[t].ev, op[t].arg[1])
      \/ Insert(t, op[t].ev, op[t].arg)
  BY <1>0 DEF Perform, Resume
<1>2. ASSUME NEW e, NEW blocking, Del(t, e, blocking) PROVE OffLists' /\ loop' = loop
  BY <1>2 DEF Del, OffLists
<1>3. ASSUME NEW e, NEW n, Activate(t, e, n) PROVE OffLists' /\ loop' = loop
  BY <1>3 DEF Activate, OffLists
<1>4. ASSUME NEW e, NEW tv, Insert(t, e, tv) PROVE OffLists' /\ loop' = loop
  BY <1>4 DEF Insert, OffLists
<1>5. ASSUME NEW e, NEW n, NEW timeout, Active(t, e, n, timeout)
      PROVE  OffLists' /\ loop' = loop
  <2>1. UNCHANGED <<inserted, active, gone, loop>> \/ Activate(t, e, n)
    BY <1>5 DEF Active
  <2>. QED
    BY <1>3, <2>1 DEF OffLists
<1>6. ASSUME NEW e, NEW tv, Add(t, e, tv) PROVE OffLists' /\ loop' = loop
  <2>1. UNCHANGED <<inserted, active, gone, loop>> \/ Insert(t, e, tv)
    BY <1>6 DEF Add, eventVars
  <2>. QED
    BY <1>4, <2>1 DEF OffLists
<1>7. CASE UNCHANGED <<eventVars, loop>>
  BY <1>7 DEF eventVars, OffLists
<1>. QED
  BY <1>1, <1>2, <1>3, <1>4, <1>5, <1>6, <1>7

LEMMA LoopKeepsOffLists ==
  ASSUME OffLists,
         Enter \/ Leave \/ Sleep \/ ReadPipe \/ Drain \/ Call \/ CallbackReturns \/ Finish
           \/ \E e \in Events : Take(e) \/ \E n \in Calls \ {0} : Ready(e, n)
  PROVE  /\ OffLists'
         /\ loop = "ready" /\ loop' = "calls" => current_event' \notin gone
<1>1. CASE \/ Enter \/ Leave \/ Sleep \/ ReadPipe \/ Drain \/ Call \/ CallbackReturns
           \/ Finish
  <2>1. UNCHANGED <<inserted, active, gone>>
    BY <1>1 DEF Enter, Leave, Sleep, ReadPipe, Drain, Call, CallbackReturns, Finish,
                outside, eventVars
  <2>2. ~(loop = "ready" /\ loop' = "calls")
    BY <1>1 DEF Enter, Leave, Sleep, ReadPipe, Drain, Call, CallbackReturns, Finish
  <2>. QED
    BY <2>1, <2>2 DEF OffLists
<1>2. ASSUME NEW e \in Events, Take(e)
      PROVE  OffLists' /\ current_event' \notin gone
  BY <1>2 DEF Take, OffLists
<1>3. ASSUME NEW e \in Events, NEW n \in Calls \ {0}, Ready(e, n)
      PROVE  OffLists' /\ loop # "ready"
  BY <1>3 DEF Ready, OffLists
<1>. QED
  BY <1>1, <1>2, <1>3

LEMMA StepKeepsOffLists ==
  ASSUME OffLists, IInv, [Next]_vars
  PROVE  /\ OffLists'
         /\ loop = "ready" /\ loop' = "calls" => current_event' \notin gone
<1>1. ASSUME NEW t \in Threads,
             WakeByChance(t) \/ \E o \in Ops \cup OwnOps : Begin(t, o)
      PROVE  UNCHANGED <<inserted, active, gone, loop>>
  BY <1>1 DEF WakeByChance, Begin, eventVars
<1>2. CASE UNCHANGED vars
  BY <1>2 DEF vars, eventVars, OffLists
<1>3. CASE UNCHANGED <<inserted, active, gone, loop>>
  BY <1>3 DEF OffLists
<1>4. ASSUME NEW t \in Threads, Perform(t) \/ Resume(t)
      PROVE  OffLists' /\ loop' = loop
  BY <1>4, OpsKeepOffLists
<1>. QED
  BY <1>1, <1>2, <1>3, <1>4, LoopKeepsOffLists DEF Next, LoopStep

\* The loop begins no callback of an event that was deleted, until it is added or
\* activated again, whichever threads do that at whatever time
\* (lu_event_del_nolock_, lu_event_queue_remove_active_).
THEOREM DeletedStayUnrun == Spec => NoRunAfterDeletion
<1>1. Init => OffLists
  BY DEF Init, OffLists
<1>2. OffLists /\ IInv /\ [Next]_vars => OffLists'
  BY StepKeepsOffLists
<1>3. OffLists /\ IInv /\ [Next]_vars
        => [loop = "ready" /\ loop' = "calls" => current_event' \notin gone]_vars
  BY StepKeepsOffLists
<1>. QED
  BY StartsWell, StepKeepsIInv, <1>1, <1>2, <1>3, PTL DEF Spec, NoRunAfterDeletion
=============================================================================
