---------------------------- MODULE LuEventThreads ----------------------------
(***************************************************************************)
(* One lu_event_base_t used by the thread of its loop and by others:       *)
(* src/src/lu_event.c with the macros of src/include/lu_evthread-internal.h*)
(*                                                                         *)
(* LuEvent has the operations in full while no callback runs; here they    *)
(* are cut down to what callbacks that run in the loop's thread meanwhile  *)
(* can disturb: the lists an event is on, the fields the loop shares with  *)
(* the operations, the waits for the end of a callback and the wake-ups.   *)
(* A critical section of th_base_lock is one action; LU_EVTHREAD_COND_WAIT *)
(* gives the lock up in the middle of an operation, whose second part is   *)
(* then an action of its own.                                              *)
(*                                                                         *)
(* The loop, the condition variable and the pipe it is woken through are   *)
(* not in the repository: they are modelled from the fields of the base,   *)
(* whose comments say what the loop does with them.  Its events persist.   *)
(***************************************************************************)
EXTENDS Integers, FiniteSets

CONSTANTS
  Workers,    \* the threads that do not run the loop
  Loop,       \* the thread that does, th_owner_id
  Events,
  Signals,    \* the events with LU_EV_SIGNAL
  Finalizing, \* the events with LU_EV_FINALIZE
  Ops,        \* the operations of workers: [kind, ev, arg]
  OwnOps,     \* the operations of callbacks
  MaxCalls,   \* the bound of ncalls
  MaxChance,  \* the bound of waiters with which a wait may end by itself
  NONE

Threads == Workers \cup {Loop}
Calls == 0 .. MaxCalls
Blockings == {"NOBLOCK", "BLOCK", "AUTOBLOCK", "EVEN_IF_FINALIZING"}

\* del: how it blocks; active: ncalls and whether res has LU_EV_TIMEOUT; add:
\* whether a timeout is given.
Op ==
  [kind : {"del"}, ev : Events, arg : Blockings]
    \cup [kind : {"active"}, ev : Events, arg : (Calls \ {0}) \X BOOLEAN]
    \cup [kind : {"add"}, ev : Events, arg : BOOLEAN]

ASSUME ThreadsAssumption ==
  /\ IsFiniteSet(Workers)
  /\ Loop \notin Workers
  /\ NONE \notin Threads \cup Events \cup Op
ASSUME OpsAssumption ==
  /\ Signals \subseteq Events /\ Finalizing \subseteq Events
  /\ MaxCalls \in Nat \ {0}
  /\ Ops \subseteq Op /\ OwnOps \subseteq Op
  /\ MaxChance \in Nat

VARIABLES
  inserted, active,  \* the events flagged LU_EVLIST_INSERTED, LU_EVLIST_ACTIVE
  timed,             \* the events whose ev_res has LU_EV_TIMEOUT
  ev_ncalls,
  ev_pncalls,        \* the events whose ev_pncalls points to the loop's counter
  current_event,
  current_event_waiters,
  is_notify_pending,
  pipe,              \* the descriptor th_notify_fn writes to is readable
  loop,              \* what the thread of the loop is at
  ncalls,            \* its counter of the calls that are left
  op,                \* thread -> the operation it is in
  at,                \* thread -> how far it is
  sees,              \* the threads that met a callback of their event, until it ends or
                     \* their wait ends by itself
  gone               \* the events deleted, and not added or activated since

eventVars == <<inserted, active, timed, gone>>
signalVars == <<ev_ncalls, ev_pncalls, ncalls>>
wakeVars == <<is_notify_pending, pipe>>
waitVars == <<current_event, current_event_waiters>>
threadVars == <<op, at, sees>>
vars == <<eventVars, signalVars, wakeVars, waitVars, loop, threadVars>>

Init ==
  /\ inserted = {} /\ active = {} /\ timed = {} /\ gone = {}
  /\ ev_ncalls = [e \in Events |-> 0]
  /\ ev_pncalls = {}
  /\ ncalls = 0
  /\ is_notify_pending = FALSE /\ pipe = FALSE
  /\ current_event = NONE
  /\ current_event_waiters = 0
  /\ loop = "out"
  /\ op = [t \in Threads |-> NONE]
  /\ at = [t \in Threads |-> "idle"]
  /\ sees = {}

-----------------------------------------------------------------------------
(***************************************************************************)
(* Parts of the operations.                                                *)
(***************************************************************************)

\* LU_EVBASE_IN_THREAD: the loop's thread keeps th_owner_id when it leaves.
InThread(t) == t = Loop

\* Mutated: also when the loop is the caller's own, and not when it is another's.
NeedNotify_own(t) == loop # "out" /\ InThread(t)

\* LU_EVBASE_NEED_NOTIFY.
NeedNotify(t) == loop # "out" /\ ~InThread(t)

\* lu_evthread_notify_base: a wake-up that is pending is not repeated.
Notify(needed) ==
  /\ is_notify_pending' = (is_notify_pending \/ needed)
  /\ pipe' = (pipe \/ (needed /\ ~is_notify_pending))

\* lu_event_haveevents is false and no callback is active.
NothingLeft(ins, act) == ins = {} /\ act = {}

\* The loop is told to call no more: *ev->ev_pncalls = 0.
Aborts(e) == e \in Signals /\ ev_ncalls[e] # 0 /\ e \in ev_pncalls

\* A callback of e runs in the thread of the loop and t is another.
RunsElsewhere(t, e) == current_event = e /\ ~InThread(t)

\* Mutated: an event with LU_EV_FINALIZE is the only one that is waited for.
DelWaits_finalizing(t, e, blocking) ==
  /\ blocking # "NOBLOCK"
  /\ RunsElsewhere(t, e)
  /\ blocking = "BLOCK" \/ e \in Finalizing

\* The condition of the wait in lu_event_del_nolock_.
DelWaits(t, e, blocking) ==
  /\ blocking # "NOBLOCK"
  /\ RunsElsewhere(t, e)
  /\ blocking = "BLOCK" \/ e \notin Finalizing

Return(t) ==
  /\ at' = [at EXCEPT ![t] = "idle"]
  /\ op' = [op EXCEPT ![t] = NONE]
  /\ sees' = sees \ {t}
  /\ UNCHANGED waitVars

\* Mutated: the loop is not told that somebody waits.
Wait_uncounted(t) ==
  /\ at' = [at EXCEPT ![t] = "waits"]
  /\ sees' = sees \cup {t}
  /\ UNCHANGED <<waitVars, op>>

\* LU_EVTHREAD_COND_WAIT on current_event_cond.
Wait(t) ==
  /\ current_event_waiters' = current_event_waiters + 1
  /\ at' = [at EXCEPT ![t] = "waits"]
  /\ sees' = sees \cup {t}
  /\ UNCHANGED <<current_event, op>>

-----------------------------------------------------------------------------
(***************************************************************************)
(* The operations.                                                         *)
(***************************************************************************)

\* Mutated: the queue is only looked at when the event is not inserted.
Del_eitherList(t, e, blocking) ==
  /\ ncalls' = IF Aborts(e) THEN 0 ELSE ncalls
  /\ inserted' = inserted \ {e}
  /\ active' = IF e \in inserted THEN active ELSE active \ {e}
  /\ \E told \in BOOLEAN :
       Notify(/\ NeedNotify(t) /\ e \in inserted
              /\ told \/ NothingLeft(inserted', active'))
  /\ gone' = gone \cup {e}
  /\ UNCHANGED <<timed, ev_ncalls, ev_pncalls, loop>>
  /\ IF DelWaits(t, e, blocking) THEN Wait(t) ELSE Return(t)

\* Mutated: only the map says whether the loop is told.
Del_onlyMap(t, e, blocking) ==
  /\ ncalls' = IF Aborts(e) THEN 0 ELSE ncalls
  /\ inserted' = inserted \ {e}
  /\ active' = active \ {e}
  /\ \E told \in BOOLEAN : Notify(NeedNotify(t) /\ e \in inserted /\ told)
  /\ gone' = gone \cup {e}
  /\ UNCHANGED <<timed, ev_ncalls, ev_pncalls, loop>>
  /\ IF DelWaits(t, e, blocking) THEN Wait(t) ELSE Return(t)

\* lu_event_del_nolock_ under the lock lu_event_del_ takes.  `told': the map says
\* that what is watched has changed.
Del(t, e, blocking) ==
  /\ ncalls' = IF Aborts(e) THEN 0 ELSE ncalls
  /\ inserted' = inserted \ {e}
  /\ active' = active \ {e}
  /\ \E told \in BOOLEAN :
       Notify(/\ NeedNotify(t) /\ e \in inserted
              /\ told \/ NothingLeft(inserted', active'))
  /\ gone' = gone \cup {e}
  /\ UNCHANGED <<timed, ev_ncalls, ev_pncalls, loop>>
  /\ IF DelWaits(t, e, blocking) THEN Wait(t) ELSE Return(t)

\* What lu_event_active_nolock_ does from the wait on, the call of
\* lu_event_callback_activate_nolock_ included, which looks at the flag again.
Activate(t, e, n) ==
  /\ active' = active \cup {e}
  /\ gone' = gone \ {e}
  /\ Notify(e \notin active /\ NeedNotify(t))
  /\ IF e \in Signals
       THEN /\ ev_ncalls' = [ev_ncalls EXCEPT ![e] = n]
            /\ ev_pncalls' = ev_pncalls \ {e}
       ELSE UNCHANGED <<ev_ncalls, ev_pncalls>>
  /\ UNCHANGED <<inserted, ncalls, loop>>
  /\ Return(t)

\* Mutated: it does not wait.
Active_rushes(t, e, n, timeout) ==
  IF e \in active
    THEN /\ timed' = IF timeout THEN timed \cup {e} ELSE timed
         /\ UNCHANGED <<inserted, active, gone, signalVars, wakeVars, loop>>
         /\ Return(t)
    ELSE /\ timed' = IF timeout THEN timed \cup {e} ELSE timed \ {e}
         /\ Activate(t, e, n)

\* lu_event_active_nolock_ up to the wait, or to the end when there is none.
Active(t, e, n, timeout) ==
  IF e \in active
    THEN /\ timed' = IF timeout THEN timed \cup {e} ELSE timed
         /\ UNCHANGED <<inserted, active, gone, signalVars, wakeVars, loop>>
         /\ Return(t)
    ELSE /\ timed' = IF timeout THEN timed \cup {e} ELSE timed \ {e}
         /\ IF e \in Signals /\ RunsElsewhere(t, e)
              THEN /\ UNCHANGED <<inserted, active, gone, signalVars, wakeVars, loop>>
                   /\ Wait(t)
              ELSE Activate(t, e, n)

\* What lu_event_add_nolock_ does behind the wait.  With a timeout it takes an
\* event that is active because of an earlier one off its queue, and the event
\* is on no list then: lu_event.c:1182 is commented out.
Insert(t, e, tv) ==
  LET inserts == e \notin inserted \cup active
      reschedules == tv /\ e \in active \cap timed
  IN /\ inserted' = IF inserts THEN inserted \cup {e} ELSE inserted
     /\ active' = IF reschedules THEN active \ {e} ELSE active
     /\ ncalls' = IF reschedules /\ Aborts(e) THEN 0 ELSE ncalls
     /\ gone' = gone \ {e}
     /\ \E told \in BOOLEAN : Notify(inserts /\ told /\ NeedNotify(t))
     /\ UNCHANGED <<timed, ev_ncalls, ev_pncalls, loop>>
     /\ Return(t)

\* lu_event_add_nolock_ up to the wait, or to the end when there is none.
Add(t, e, tv) ==
  IF e \in Signals /\ RunsElsewhere(t, e)
    THEN /\ UNCHANGED <<eventVars, signalVars, wakeVars, loop>>
         /\ Wait(t)
    ELSE Insert(t, e, tv)

\* The program calls an operation.  Those of the loop's thread come from the
\* callback it runs.
Begin(t, o) ==
  /\ at[t] = "idle"
  /\ IF t = Loop THEN loop = "callback" /\ o \in OwnOps ELSE o \in Ops
  /\ at' = [at EXCEPT ![t] = "locks"]
  /\ op' = [op EXCEPT ![t] = o]
  /\ UNCHANGED <<eventVars, signalVars, wakeVars, waitVars, loop, sees>>

\* A thread is given the lock for its operation.
Perform(t) ==
  /\ at[t] = "locks"
  /\ CASE op[t].kind = "del" -> Del(t, op[t].ev, op[t].arg)
       [] op[t].kind = "active" -> Active(t, op[t].ev, op[t].arg[1], op[t].arg[2])
       [] op[t].kind = "add" -> Add(t, op[t].ev, op[t].arg)

\* A thread is given the lock again after its wait.  It does not look whether a
\* callback of its event runs.
Resume(t) ==
  /\ at[t] = "woken"
  /\ CASE op[t].kind = "del" ->
            /\ UNCHANGED <<eventVars, signalVars, wakeVars, loop>>
            /\ Return(t)
       [] op[t].kind = "active" ->
            /\ UNCHANGED timed
            /\ Activate(t, op[t].ev, op[t].arg[1])
       [] op[t].kind = "add" -> Insert(t, op[t].ev, op[t].arg)

\* The wait ends by itself.
WakeByChance(t) ==
  /\ current_event_waiters <= MaxChance
  /\ at[t] = "waits"
  /\ at' = [at EXCEPT ![t] = "woken"]
  /\ sees' = sees \ {t}
  /\ UNCHANGED <<eventVars, signalVars, wakeVars, waitVars, loop, op>>

-----------------------------------------------------------------------------
(***************************************************************************)
(* The loop.                                                               *)
(***************************************************************************)

outside == <<inserted, timed, gone, wakeVars, waitVars, threadVars>>

\* running_loop is set while the loop is not out.
Enter ==
  /\ loop = "out"
  /\ loop' = "ready"
  /\ UNCHANGED <<active, signalVars, outside>>

Leave ==
  /\ loop = "ready"
  /\ NothingLeft(inserted, active)
  /\ loop' = "out"
  /\ UNCHANGED <<active, signalVars, outside>>

\* The backend waits for descriptors, signals and the pipe.
Sleep ==
  /\ loop = "ready"
  /\ active = {} /\ inserted # {}
  /\ loop' = "asleep"
  /\ UNCHANGED <<active, signalVars, outside>>

\* A descriptor is ready or a signal came in, perhaps several times:
\* lu_evmap_io_active_, and lu_evmap_signal_active_ from lu_evsig_cb.
Ready(e, n) ==
  /\ loop = "asleep"
  /\ e \in inserted
  /\ loop' = "ready"
  /\ active' = active \cup {e}
  /\ timed' = IF e \in active THEN timed ELSE timed \ {e}
  /\ IF e \in Signals \ active
       THEN /\ ev_ncalls' = [ev_ncalls EXCEPT ![e] = n]
            /\ ev_pncalls' = ev_pncalls \ {e}
       ELSE UNCHANGED <<ev_ncalls, ev_pncalls>>
  /\ UNCHANGED <<inserted, gone, ncalls, wakeVars, waitVars, threadVars>>

\* The pipe is emptied, and the flag cleared under the lock.
ReadPipe ==
  /\ loop = "asleep"
  /\ pipe
  /\ pipe' = FALSE
  /\ loop' = "drains"
  /\ UNCHANGED <<eventVars, signalVars, is_notify_pending, waitVars, threadVars>>

Drain ==
  /\ loop = "drains"
  /\ is_notify_pending' = FALSE
  /\ loop' = "ready"
  /\ UNCHANGED <<eventVars, signalVars, pipe, waitVars, threadVars>>

\* A callback is taken off its queue and becomes current_event.
Take(e) ==
  /\ loop = "ready"
  /\ e \in active
  /\ active' = active \ {e}
  /\ current_event' = e
  /\ current_event_waiters' = 0
  /\ ncalls' = IF e \in Signals THEN ev_ncalls[e] ELSE 1
  /\ ev_pncalls' = IF e \in Signals /\ ev_ncalls[e] # 0 THEN ev_pncalls \cup {e} ELSE ev_pncalls
  /\ loop' = "calls"
  /\ UNCHANGED <<inserted, timed, gone, ev_ncalls, wakeVars, threadVars>>

\* The callback is called once more.
Call ==
  /\ loop = "calls"
  /\ ncalls > 0
  /\ ncalls' = ncalls - 1
  /\ IF current_event \in Signals
       THEN /\ ev_ncalls' = [ev_ncalls EXCEPT ![current_event] = ncalls - 1]
            /\ ev_pncalls' = IF ncalls = 1 THEN ev_pncalls \ {current_event} ELSE ev_pncalls
       ELSE UNCHANGED <<ev_ncalls, ev_pncalls>>
  /\ loop' = "callback"
  /\ UNCHANGED <<active, outside>>

CallbackReturns ==
  /\ loop = "callback"
  /\ at[Loop] = "idle"
  /\ loop' = "calls"
  /\ UNCHANGED <<active, signalVars, outside>>

\* The callback is done: those that wait for it are told.
Finish ==
  /\ loop = "calls"
  /\ ncalls = 0
  /\ current_event' = NONE
  /\ ev_pncalls' = ev_pncalls \ {current_event}
  /\ current_event_waiters' = 0
  /\ at' = [t \in Threads |->
              IF at[t] = "waits" /\ current_event_waiters # 0 THEN "woken" ELSE at[t]]
  /\ sees' = {}
  /\ loop' = "ready"
  /\ UNCHANGED <<eventVars, ev_ncalls, ncalls, wakeVars, op>>

LoopStep ==
  \/ Sleep \/ ReadPipe \/ Drain \/ Call \/ CallbackReturns \/ Finish
  \/ \E e \in Events : Take(e)
  \/ Leave

Next ==
  \/ LoopStep
  \/ Enter
  \/ \E e \in Events, n \in Calls \ {0} : Ready(e, n)
  \/ \E t \in Threads :
       \/ \E o \in Ops \cup OwnOps : Begin(t, o)
       \/ Perform(t)
       \/ Resume(t)
       \/ WakeByChance(t)

\* The loop's thread goes on while it can; a callback returns, however much it
\* calls; the active queues are first in, first out (ActivationOrder of LuEvent),
\* so an active callback is not passed over for ever; and a thread that asks for
\* the lock gets it in the end, for nobody keeps it.  Nothing makes the program
\* call or enter the loop, descriptors ready, or waits end by themselves.
Fairness ==
  /\ WF_vars(LoopStep)
  /\ SF_vars(CallbackReturns)
  /\ \A e \in Events : SF_vars(Take(e))
  /\ \A t \in Threads : WF_vars(Perform(t)) /\ WF_vars(Resume(t))

Spec == Init /\ [][Next]_vars /\ Fairness

-----------------------------------------------------------------------------
(***************************************************************************)
(* Properties.                                                             *)
(***************************************************************************)

TypeOK ==
  /\ inserted \subseteq Events /\ active \subseteq Events
  /\ timed \subseteq Events /\ gone \subseteq Events
  /\ ev_ncalls \in [Events -> Calls] /\ ev_pncalls \subseteq Signals /\ ncalls \in Calls
  /\ is_notify_pending \in BOOLEAN /\ pipe \in BOOLEAN
  /\ current_event \in Events \cup {NONE}
  /\ current_event_waiters \in Nat
  /\ loop \in {"out", "ready", "asleep", "drains", "calls", "callback"}
  /\ op \in [Threads -> Op \cup {NONE}]
  /\ at \in [Threads -> {"idle", "locks", "waits", "woken"}]
  /\ sees \subseteq Threads

\* Whoever waits on current_event_cond waits for the callback that runs now, and
\* the loop knows of it: the broadcast is still to come.  Another thread's wait,
\* the next callback and waits that end by themselves may not disturb that.
NoLostWakeup ==
  \A t \in Threads :
    at[t] = "waits" => current_event = op[t].ev /\ current_event_waiters # 0

\* Every variable keeps its type, and no wait misses its broadcast
\* (lu_event_del_nolock_, lu_event_active_nolock_, lu_event_add_nolock_).
ThreadsInv == TypeOK /\ NoLostWakeup

\* Thread t has met a callback of its event that runs in another thread still.
Meets(t) ==
  IF at[t] = "locks" THEN RunsElsewhere(t, op[t].ev) ELSE t \in sees

Returns(t) == at[t] # "idle" /\ at'[t] = "idle"

\* The deletion o is to wait for a callback in another thread.
Blocks(o) ==
  /\ o.kind = "del"
  /\ o.arg # "NOBLOCK"
  /\ o.arg = "BLOCK" \/ o.ev \notin Finalizing

\* A deletion that is to block does not return while the callback it met runs:
\* the argument can be freed then.  A wait that ended by itself is excused, since
\* the code does not wait again.
DeletionWaits ==
  [][\A t \in Workers : Returns(t) /\ Meets(t) => ~Blocks(op[t])]_vars

\* Another thread leaves the counters of a signal event alone while the callback
\* it met runs, unless its wait ended by itself.
CountersLeftAlone ==
  [][\A t \in Workers :
       Returns(t) /\ op[t].kind # "del" /\ Meets(t)
         => UNCHANGED <<ev_ncalls, ev_pncalls, ncalls>>]_vars

\* After an event was deleted the loop does not begin to run it until somebody
\* adds or activates it again, wherever the deletion found it.
NoRunAfterDeletion ==
  [][loop = "ready" /\ loop' = "calls" => current_event' \notin gone]_vars

\* Every operation returns: whoever waits for a callback is woken, and the thread
\* of the loop does not wait for itself.
OperationsReturn == \A t \in Threads : at[t] = "locks" ~> at[t] = "idle"

\* What is active while the loop runs leaves the queues, although another thread
\* activated it while the loop slept or was emptying the pipe of the last wake-up.
ActiveRuns == \A e \in Events : e \in active /\ loop # "out" ~> e \notin active

\* A loop asleep with nothing to wait for, because another thread deleted the last
\* event, wakes up to leave or finds something again.
EmptyLoopLeaves ==
  (loop = "asleep" /\ NothingLeft(inserted, active))
     ~> (loop = "out" \/ ~NothingLeft(inserted, active))

-----------------------------------------------------------------------------
(***************************************************************************)
(* What the comments say and the code does not do.                         *)
(***************************************************************************)

\* lu_event.c:865-868: "we want to wait until the callback is done before
\* returning.  That way, when this function returns, it will be safe to free the
\* user-supplied argument."
SafeToFree ==
  [][\A t \in Workers :
       Returns(t) /\ Blocks(op[t]) => current_event # op[t].ev]_vars

\* lu_event.c:1080-1083: "we want to wait until the callback is done before we
\* mess with the event, or else we can race on ev_ncalls and ev_pncalls below".
NoRaceOnCounters ==
  [][\A t \in Workers :
       Returns(t) /\ op[t].kind # "del" /\ op[t].ev \in Signals
         /\ current_event = op[t].ev
         => UNCHANGED signalVars]_vars

\* lu_event.c:818-823: a deletion looks whether a signal event is executed in a
\* loop, to "abort loop": none of the calls that are left is made.
AbortsLoop ==
  [][loop = "calls" /\ loop' = "callback"
       => current_event \notin Signals \cap gone]_vars
=============================================================================
