------------------------------- MODULE LuEvent -------------------------------
(***************************************************************************)
(* The event core: src/src/lu_event.c (assign, add, del, active, once,     *)
(* priorities, free) over the fd and signal maps of src/src/lu_evmap.c.    *)
(*                                                                         *)
(* One lu_event_base_t.  Every operation runs under th_base_lock from its  *)
(* first to its last statement (the two places where a thread waits on     *)
(* current_event_cond in the middle need a callback of the same event to   *)
(* be running in another thread, and none is here), so each is one action. *)
(*                                                                         *)
(* The event loop, the locked wrapper of lu_event_add_nolock_ and the      *)
(* kernel side of the backend are not in the repository: Run, Drain and    *)
(* the failures of kernel calls are modelled from how the code uses them.  *)
(*                                                                         *)
(* Flags nothing in src/ ever sets are left out with the guards on them:   *)
(* LU_EVLIST_TIMEOUT (its only setter, lu_event_queue_insert_timeout, is   *)
(* commented out at lu_event.c:1177-1182), LU_EVLIST_ACTIVE_LATER and      *)
(* LU_EVLIST_FINALIZING.  The high-water marks of the counters are         *)
(* statistics and left out too.  That a loop in another thread can be told *)
(* needs th_notify_fn, which the unfinished text at lu_event.c:1341-1385   *)
(* sets; without it every call behaves as under ForeignLoop = FALSE.       *)
(***************************************************************************)
EXTENDS Integers, FiniteSets, SequencesExt

CONSTANTS
  Events,        \* the lu_event_t objects of the program
  Internal,      \* those the library flags LU_EVLIST_INTERNAL
  OnceStore,     \* the heap blocks lu_event_base_once may be given
  Fds,           \* numbers that are not negative: descriptors and signals
  Zero,          \* the one zeroed memory holds, 0
  NoFd,          \* a negative one, -1
  Sigs,          \* those that are signal numbers, below NSIG
  IoKinds,       \* LU_EV_READ, LU_EV_WRITE, LU_EV_CLOSED
  Configs,       \* the arguments (fd, events) lu_event_assign is called with
  OnceConfigs,   \* the arguments (fd, events) lu_event_base_once is called with
  Results,       \* the res arguments of lu_event_active_nolock_
  MaxPriorities, \* LU_EVENT_MAX_PRIORITIES, 256
  CountMax,      \* the largest value of nread, nwrite, nclose: 0xffff
  Locking,       \* th_base_lock was allocated
  ForeignLoop    \* LU_EVBASE_NEED_NOTIFY: a loop runs in another thread, and can be told

EventKinds == IoKinds \cup {"SIGNAL", "PERSIST"}

ASSUME EventsAssumption ==
  /\ IsFiniteSet(Events)
  /\ Internal \subseteq Events
  /\ OnceStore \subseteq Events \ Internal
ASSUME DescriptorsAssumption ==
  /\ NoFd \notin Fds
  /\ Zero \in Sigs
  /\ Sigs \subseteq Fds
ASSUME KindsAssumption ==
  /\ IoKinds \subseteq {"READ", "WRITE", "CLOSED"}
  /\ "READ" \in IoKinds
  /\ Configs \subseteq [fd : Fds \cup {NoFd}, events : SUBSET EventKinds]
  /\ OnceConfigs \subseteq [fd : Fds \cup {NoFd}, events : SUBSET IoKinds]
  /\ Results \subseteq SUBSET (IoKinds \cup {"TIMEOUT", "SIGNAL"})
ASSUME BoundsAssumption ==
  /\ MaxPriorities \in Nat \ {0, 1}
  /\ CountMax \in Nat \ {0}
ASSUME ModesAssumption ==
  /\ Locking \in BOOLEAN
  /\ ForeignLoop \in BOOLEAN

VARIABLES
  ev_fd, ev_events, ev_flags, ev_pri, ev_res, \* fields of each lu_event_t
  activequeues,       \* the active callbacks of each priority, first to run first
  nactivequeues,
  event_count, event_count_active,
  io_events, io_count, \* per fd: its list of events; nread, nwrite, nclose
  sig_events,          \* per signal: its list of events
  kernel, kernel_sigs, \* what the backends were successfully told to watch
  once_events,         \* the calls of lu_event_base_once that have not fired
  is_notify_pending,
  lock_leaked,         \* th_base_lock is held though no call is in progress
  phase,               \* "live", "freed" (the base) or "aborted" (the process)
  ret                  \* what the last call returned

eventVars == <<ev_fd, ev_events, ev_flags, ev_pri, ev_res>>
queueVars == <<activequeues, nactivequeues, event_count_active>>
mapVars == <<io_events, io_count, sig_events, kernel, kernel_sigs>>
baseVars == <<event_count, once_events, is_notify_pending, lock_leaked, phase>>
vars == <<eventVars, queueVars, mapVars, baseVars, ret>>

Priorities == 0 .. MaxPriorities - 1
Flags == {"INIT", "INSERTED", "ACTIVE"}

Is(flag, e) == flag \in ev_flags[e]
On(flag) == {e \in Events : Is(flag, e)}

\* What one list membership of e adds to event_count.
Weight(e) == IF e \in Internal THEN 0 ELSE 1

\* What the events of S add to it.
Weights(S) == Cardinality(S \ Internal)

\* The memory of the events is zero, and lu_evsig_init_ has set up the internal
\* ones when the base was made.
Init ==
  /\ ev_fd = [e \in Events |-> Zero]
  /\ ev_events = [e \in Events |-> IF e \in Internal THEN {"READ", "PERSIST"} ELSE {}]
  /\ ev_flags = [e \in Events |-> IF e \in Internal THEN {"INIT"} ELSE {}]
  /\ ev_pri = [e \in Events |-> 0]
  /\ ev_res = [e \in Events |-> {}]
  /\ activequeues = [p \in Priorities |-> <<>>]
  /\ nactivequeues = 1
  /\ event_count = 0
  /\ event_count_active = 0
  /\ io_events = [f \in Fds |-> {}]
  /\ io_count = [f \in Fds |-> [k \in IoKinds |-> 0]]
  /\ sig_events = [s \in Sigs |-> {}]
  /\ kernel = [f \in Fds |-> {}]
  /\ kernel_sigs = {}
  /\ once_events = {}
  /\ is_notify_pending = FALSE
  /\ lock_leaked = FALSE
  /\ phase = "live"
  /\ ret = 0

-----------------------------------------------------------------------------
(***************************************************************************)
(* Parts of the operations.                                                *)
(***************************************************************************)

\* The base exists and its lock can be taken.
Callable == phase = "live" /\ ~lock_leaked

\* An event waits for its descriptor, not for a signal.
Polls(events) == events \cap IoKinds # {}

\* lu_event_assign refuses such events.
Incompatible(events) == "SIGNAL" \in events /\ Polls(events)

\* An event that was set up without an error.
Assigned(e) == Is("INIT", e) /\ ~Incompatible(ev_events[e])

\* Mutated: a second wake-up takes back the first.
NotifyBase_toggles(needed) == is_notify_pending' = (is_notify_pending # needed)

\* lu_evthread_notify_base, when there is a loop to tell and something to tell.
NotifyBase(needed) == is_notify_pending' = (is_notify_pending \/ needed)

\* LIST_INSERT_HEAD and LIST_REMOVE leave the other elements of a list alone,
\* and no code depends on their order: a list is the set of its elements.

\* The kinds of io event c asks for that its descriptor has no event for yet,
\* so that the backend must be told.
NewKinds(c) == {k \in c.events \cap IoKinds : io_count[c.fd][k] = 0}

\* Mutated: every kind of e, whoever else waits for it.
LastKinds_all(e) == ev_events[e] \cap IoKinds

\* The kinds event e is the last one of on its descriptor.
LastKinds(e) == {k \in ev_events[e] \cap IoKinds : io_count[ev_fd[e]][k] = 1}

TooMany(c) == \E k \in c.events \cap IoKinds : io_count[c.fd][k] = CountMax

\* Mutated: only the first event of a kind is counted.
IoAdd_firstOnly(e, c) ==
  /\ ~TooMany(c)
  /\ io_events' = [io_events EXCEPT ![c.fd] = @ \cup {e}]
  /\ io_count' = [io_count EXCEPT ![c.fd] =
                    [k \in IoKinds |-> IF k \in NewKinds(c) THEN 1 ELSE @[k]]]
  /\ kernel' = [kernel EXCEPT ![c.fd] = @ \cup NewKinds(c)]
  /\ NotifyBase(ForeignLoop /\ NewKinds(c) # {})
  /\ UNCHANGED <<sig_events, kernel_sigs>>

\* lu_evmap_io_add_, succeeding.
IoAdd(e, c) ==
  /\ ~TooMany(c)
  /\ io_events' = [io_events EXCEPT ![c.fd] = @ \cup {e}]
  /\ io_count' = [io_count EXCEPT ![c.fd] =
                    [k \in IoKinds |-> IF k \in c.events THEN @[k] + 1 ELSE @[k]]]
  /\ kernel' = [kernel EXCEPT ![c.fd] = @ \cup NewKinds(c)]
  /\ NotifyBase(ForeignLoop /\ NewKinds(c) # {})
  /\ UNCHANGED <<sig_events, kernel_sigs>>

\* lu_evmap_signal_add_, succeeding.
SignalAdd(e, c) ==
  /\ sig_events' = [sig_events EXCEPT ![c.fd] = @ \cup {e}]
  /\ kernel_sigs' = kernel_sigs \cup {c.fd}
  /\ NotifyBase(ForeignLoop)
  /\ UNCHANGED <<io_events, io_count, kernel>>

\* An io event without a descriptor goes on no list: lu_evmap_io_add_ and
\* lu_evmap_io_del_ return 0 at once.
EvmapAdd(e, c) ==
  \/ Polls(c.events) /\ c.fd \in Fds /\ IoAdd(e, c)
  \/ Polls(c.events) /\ c.fd = NoFd /\ UNCHANGED <<mapVars, is_notify_pending>>
  \/ ~Polls(c.events) /\ c.fd \in Sigs /\ SignalAdd(e, c)

\* The map or the backend refuses: no memory for the slot, the count is at its
\* limit, the signal is out of range, or the kernel call of the first event of
\* its kind fails.
EvmapRefuses(c) ==
  \/ Polls(c.events) /\ c.fd \in Fds /\ (TooMany(c) \/ NewKinds(c) # {})
  \/ ~Polls(c.events) /\ (c.fd \in Sigs => sig_events[c.fd] = {})

\* lu_evmap_io_del_ and what del_nolock_ does with its result.  The kernel call
\* may fail, which only the result shows.  idle: no event is left in the base;
\* foreign: the caller must wake a loop.
IoDel(e, idle, foreign) ==
  LET f == ev_fd[e] IN
  /\ io_events' = [io_events EXCEPT ![f] = @ \ {e}]
  /\ io_count' = [io_count EXCEPT ![f] =
                    [k \in IoKinds |-> IF k \in ev_events[e] THEN @[k] - 1 ELSE @[k]]]
  /\ \/ /\ kernel' = [kernel EXCEPT ![f] = @ \ LastKinds(e)]
        /\ NotifyBase(foreign /\ (LastKinds(e) # {} \/ idle))
        /\ ret' = 0
     \/ /\ LastKinds(e) # {}
        /\ ret' = -1
        /\ UNCHANGED <<kernel, is_notify_pending>>
  /\ UNCHANGED <<sig_events, kernel_sigs>>

\* lu_evmap_signal_del_.
SignalDel(e, foreign) ==
  LET s == ev_fd[e] IN
  /\ sig_events' = [sig_events EXCEPT ![s] = @ \ {e}]
  /\ \/ /\ kernel_sigs' = IF sig_events[s] = {e} THEN kernel_sigs \ {s} ELSE kernel_sigs
        /\ NotifyBase(foreign)
        /\ ret' = 0
     \/ /\ sig_events[s] = {e}
        /\ ret' = -1
        /\ UNCHANGED <<kernel_sigs, is_notify_pending>>
  /\ UNCHANGED <<io_events, io_count, kernel>>

EvmapDel(e, idle, foreign) ==
  \/ Polls(ev_events[e]) /\ ev_fd[e] \in Fds /\ IoDel(e, idle, foreign)
  \/ /\ Polls(ev_events[e])
     /\ ev_fd[e] = NoFd
     /\ NotifyBase(foreign /\ idle)
     /\ ret' = 0
     /\ UNCHANGED mapVars
  \/ ~Polls(ev_events[e]) /\ ev_fd[e] \in Sigs /\ SignalDel(e, foreign)

\* lu_event_queue_remove_active, but for the flag.
RemoveActive(e) ==
  /\ activequeues' = [activequeues EXCEPT ![ev_pri[e]] = RemoveFirst(@, e)]
  /\ event_count_active' = event_count_active - 1

\* Mutated: the event goes to the head of its queue.
QueueActive_atHead(e, pri) ==
  /\ pri < nactivequeues
  /\ ev_flags' = [ev_flags EXCEPT ![e] = @ \cup {"INIT", "ACTIVE"}]
  /\ activequeues' = [activequeues EXCEPT ![pri] = <<e>> \o @]
  /\ event_count_active' = event_count_active + 1
  /\ event_count' = event_count + Weight(e)
  /\ NotifyBase(ForeignLoop)

\* lu_event_callback_activate_nolock_ of an event that is not active: it goes
\* to the tail of the queue of its priority, which must exist.
QueueActive(e, pri) ==
  /\ pri < nactivequeues
  /\ ev_flags' = [ev_flags EXCEPT ![e] = @ \cup {"INIT", "ACTIVE"}]
  /\ activequeues' = [activequeues EXCEPT ![pri] = Append(@, e)]
  /\ event_count_active' = event_count_active + 1
  /\ event_count' = event_count + Weight(e)
  /\ NotifyBase(ForeignLoop)

\* lu_event_queue_insert_active asserts that the queue exists: the process dies.
AssertPriority(pri) ==
  /\ pri >= nactivequeues
  /\ phase' = "aborted"
  /\ UNCHANGED <<eventVars, queueVars, mapVars, event_count, once_events,
                 is_notify_pending, lock_leaked, ret>>

\* lu_event_del_nolock_, but for the flags.
Unlink(e, foreign) ==
  /\ event_count' = event_count - Weight(e) * Cardinality(ev_flags[e] \ {"INIT"})
  /\ IF Is("ACTIVE", e)
       THEN RemoveActive(e)
       ELSE UNCHANGED <<activequeues, event_count_active>>
  /\ IF Is("INSERTED", e)
       THEN EvmapDel(e, event_count' = 0 /\ event_count_active' = 0, foreign)
       ELSE ret' = 0 /\ UNCHANGED <<mapVars, is_notify_pending>>

-----------------------------------------------------------------------------
(***************************************************************************)
(* The operations.                                                         *)
(***************************************************************************)

\* An event that is on no list is its caller's memory.
Idle(e) == e \notin OnceStore \cup Internal /\ ~Is("INSERTED", e) /\ ~Is("ACTIVE", e)

\* The caller uses the memory for something else, or writes the field ev_fd.
Recycle(e, fd) ==
  /\ Callable
  /\ Idle(e)
  /\ ev_fd' = [ev_fd EXCEPT ![e] = fd]
  /\ ev_flags' = [ev_flags EXCEPT ![e] = {}]
  /\ UNCHANGED <<ev_events, ev_pri, ev_res, queueVars, mapVars, baseVars, ret>>

\* lu_event_assign.  It does not look at its argument fd: ev_fd stays what the
\* memory held.  Its debug check that the event is not added is an empty stub,
\* so keeping to it is the caller's duty.
Assign(e, c) ==
  /\ Callable
  /\ Idle(e)
  /\ ev_events' = [ev_events EXCEPT ![e] = c.events]
  /\ ev_flags' = [ev_flags EXCEPT ![e] = {"INIT"}]
  /\ ev_res' = [ev_res EXCEPT ![e] = {}]
  /\ \/ Incompatible(c.events) /\ UNCHANGED ev_pri /\ ret' = -1
     \/ /\ ~Incompatible(c.events)
        /\ ev_pri' = [ev_pri EXCEPT ![e] = nactivequeues \div 2]
        /\ ret' = 0
  /\ UNCHANGED <<ev_fd, queueVars, mapVars, baseVars>>

\* Mutated: the priority of an active event changes under it.
PrioritySet_active(e, pri) ==
  /\ Callable
  /\ Assigned(e)
  /\ e \notin OnceStore \cup Internal
  /\ \/ pri < nactivequeues /\ ev_pri' = [ev_pri EXCEPT ![e] = pri] /\ ret' = 0
     \/ pri >= nactivequeues /\ ret' = -1 /\ UNCHANGED ev_pri
  /\ UNCHANGED <<ev_fd, ev_events, ev_flags, ev_res, queueVars, mapVars, baseVars>>

\* lu_event_priority_set.
PrioritySet(e, pri) ==
  /\ Callable
  /\ Assigned(e)
  /\ e \notin OnceStore \cup Internal
  /\ \/ /\ ~Is("ACTIVE", e)
        /\ pri < nactivequeues
        /\ ev_pri' = [ev_pri EXCEPT ![e] = pri]
        /\ ret' = 0
     \/ /\ Is("ACTIVE", e) \/ pri >= nactivequeues
        /\ ret' = -1
        /\ UNCHANGED ev_pri
  /\ UNCHANGED <<ev_fd, ev_events, ev_flags, ev_res, queueVars, mapVars, baseVars>>

\* Mutated: the queues are thrown away whatever is in them.
PriorityInit_underActive(n) ==
  /\ Callable
  /\ \/ /\ n < 1 \/ n >= MaxPriorities
        /\ ret' = -1
        /\ UNCHANGED <<activequeues, nactivequeues>>
     \/ /\ n \in 1 .. MaxPriorities - 1
        /\ n # nactivequeues
        /\ activequeues' = [p \in Priorities |-> <<>>]
        /\ nactivequeues' = n
        /\ ret' = 0
  /\ UNCHANGED <<eventVars, event_count_active, mapVars, baseVars>>

\* lu_event_base_priority_init; without memory the base has no queue left.
PriorityInit(n) ==
  /\ Callable
  /\ \/ /\ event_count_active > 0 \/ n < 1 \/ n >= MaxPriorities
        /\ ret' = -1
        /\ UNCHANGED <<activequeues, nactivequeues>>
     \/ /\ event_count_active = 0
        /\ n = nactivequeues
        /\ ret' = 0
        /\ UNCHANGED <<activequeues, nactivequeues>>
     \/ /\ event_count_active = 0
        /\ n \in 1 .. MaxPriorities - 1
        /\ n # nactivequeues
        /\ activequeues' = [p \in Priorities |-> <<>>]
        /\ \/ nactivequeues' = n /\ ret' = 0
           \/ nactivequeues' = 0 /\ ret' = -1
  /\ UNCHANGED <<eventVars, event_count_active, mapVars, baseVars>>

\* lu_event_active_nolock_.  Only the backend activates an internal event, and
\* only while it is added.
Active(e, res) ==
  /\ Callable
  /\ Assigned(e)
  /\ e \in Internal => Is("INSERTED", e)
  /\ \/ /\ \/ /\ Is("ACTIVE", e)
              /\ ev_res' = [ev_res EXCEPT ![e] = @ \cup res]
              /\ UNCHANGED <<ev_flags, activequeues, event_count_active, event_count,
                             is_notify_pending>>
           \/ /\ ~Is("ACTIVE", e)
              /\ ev_res' = [ev_res EXCEPT ![e] = res]
              /\ QueueActive(e, ev_pri[e])
        /\ ret' = 0
        /\ UNCHANGED <<ev_fd, ev_events, ev_pri, nactivequeues, mapVars,
                       once_events, lock_leaked, phase>>
     \/ ~Is("ACTIVE", e) /\ AssertPriority(ev_pri[e])

\* lu_event_del_nolock_ (lu_event_del, lu_event_del_noblock).
Del(e) ==
  /\ Callable
  /\ Assigned(e)
  /\ e \notin OnceStore
  /\ ev_flags' = [ev_flags EXCEPT ![e] = @ \ {"INSERTED", "ACTIVE"}]
  /\ Unlink(e, ForeignLoop)
  /\ UNCHANGED <<ev_fd, ev_events, ev_pri, ev_res, nactivequeues,
                 once_events, lock_leaked, phase>>

Watches(events) == events \cap (IoKinds \cup {"SIGNAL"}) # {}

\* The insertion of lu_event_add_nolock_, succeeding.
Insert(e, c) ==
  /\ EvmapAdd(e, c)
  /\ ev_flags' = [ev_flags EXCEPT ![e] = @ \cup {"INIT", "INSERTED"}]
  /\ event_count' = event_count + Weight(e)

\* Mutated: an event waiting in an active queue is inserted as well.
Inserts_whileActive(e) == Watches(ev_events[e]) /\ ~Is("INSERTED", e)

\* The call reaches the insertion.
Inserts(e) ==
  /\ Watches(ev_events[e])
  /\ ~Is("INSERTED", e) /\ ~Is("ACTIVE", e)

\* The call takes a timeout that is about to run off the active queue.
Reschedules(e, tv) == tv /\ Is("ACTIVE", e) /\ "TIMEOUT" \in ev_res[e]

\* Mutated: the event is counted before its map is asked.
AddFails_counted(e, c, tv) ==
  /\ tv \/ (Inserts(e) /\ EvmapRefuses(c))
  /\ ret' = -1
  /\ event_count' = IF Inserts(e) THEN event_count + Weight(e) ELSE event_count
  /\ UNCHANGED <<ev_flags, activequeues, event_count_active, mapVars, is_notify_pending>>

\* The failures of lu_event_add_nolock_: the heap cannot grow for a timeout, or
\* the insertion is refused.
AddFails(e, c, tv) ==
  /\ tv \/ (Inserts(e) /\ EvmapRefuses(c))
  /\ ret' = -1
  /\ UNCHANGED <<ev_flags, activequeues, event_count_active, mapVars,
                 event_count, is_notify_pending>>

\* lu_event_add_nolock_ of event e, with a timeout if tv.
Add(e, tv) ==
  LET c == [fd |-> ev_fd[e], events |-> ev_events[e]] IN
  /\ Callable
  /\ Assigned(e)
  /\ e \notin OnceStore
  /\ \/ AddFails(e, c, tv)
     \/ /\ Inserts(e)
        /\ Insert(e, c)
        /\ ret' = 0
        /\ UNCHANGED <<activequeues, event_count_active>>
     \/ /\ ~Inserts(e)
        /\ Reschedules(e, tv)
        /\ RemoveActive(e)
        /\ ev_flags' = [ev_flags EXCEPT ![e] = @ \ {"ACTIVE"}]
        /\ event_count' = event_count - Weight(e)
        /\ ret' = 0
        /\ UNCHANGED <<mapVars, is_notify_pending>>
     \/ /\ ~Inserts(e)
        /\ ~Reschedules(e, tv)
        /\ ret' = 0
        /\ UNCHANGED <<ev_flags, activequeues, event_count_active, mapVars,
                       event_count, is_notify_pending>>
  /\ UNCHANGED <<ev_fd, ev_events, ev_pri, ev_res, nactivequeues, once_events,
                 lock_leaked, phase>>

\* Mutated: an event that is active at once is not put on the list of the base.
SetUpOnce_unlisted(o, events, res) ==
  /\ ev_fd' = [ev_fd EXCEPT ![o] = Zero]
  /\ ev_events' = [ev_events EXCEPT ![o] = events]
  /\ ev_pri' = [ev_pri EXCEPT ![o] = nactivequeues \div 2]
  /\ ev_res' = [ev_res EXCEPT ![o] = res]
  /\ once_events' = IF res = {} THEN once_events \cup {o} ELSE once_events
  /\ ret' = 0
  /\ UNCHANGED <<nactivequeues, lock_leaked, phase>>

\* What each successful lu_event_base_once leaves in its zeroed block o.
SetUpOnce(o, events, res) ==
  /\ ev_fd' = [ev_fd EXCEPT ![o] = Zero]
  /\ ev_events' = [ev_events EXCEPT ![o] = events]
  /\ ev_pri' = [ev_pri EXCEPT ![o] = nactivequeues \div 2]
  /\ ev_res' = [ev_res EXCEPT ![o] = res]
  /\ once_events' = once_events \cup {o}
  /\ ret' = 0
  /\ UNCHANGED <<nactivequeues, lock_leaked, phase>>

\* LU_EV_TIMEOUT without a delay: active at once.
OnceNow(o) ==
  \/ /\ QueueActive(o, nactivequeues \div 2)
     /\ SetUpOnce(o, {}, {"TIMEOUT"})
     /\ UNCHANGED mapVars
  \/ AssertPriority(nactivequeues \div 2)

\* LU_EV_TIMEOUT with a delay: lu_event_add_nolock_ puts it on no list.
OnceLater(o) ==
  /\ SetUpOnce(o, {}, {})
  /\ ev_flags' = [ev_flags EXCEPT ![o] = {"INIT"}]
  /\ UNCHANGED <<activequeues, event_count_active, event_count,
                 is_notify_pending, mapVars>>

\* Nothing has written ev_fd since the block was zeroed.
OnceIo(o, events) ==
  /\ Insert(o, [fd |-> Zero, events |-> events])
  /\ SetUpOnce(o, events, {})
  /\ UNCHANGED <<activequeues, event_count_active>>

\* The event cannot be added: the block is freed and the call returns with the
\* lock still held.
OnceFails(events, tv) ==
  /\ tv \/ (events # {} /\ EvmapRefuses([fd |-> Zero, events |-> events]))
  /\ lock_leaked' = Locking
  /\ ret' = -1
  /\ UNCHANGED <<eventVars, queueVars, mapVars, event_count, once_events,
                 is_notify_pending, phase>>

\* lu_event_base_once with a block o that is not in use, with a delay if tv; no
\* events stands for LU_EV_TIMEOUT alone.
BaseOnce(o, c, tv) ==
  /\ Callable
  /\ ev_flags[o] = {}
  /\ \/ c.events = {} /\ ~tv /\ OnceNow(o)
     \/ c.events = {} /\ tv /\ OnceLater(o)
     \/ c.events # {} /\ OnceIo(o, c.events)
     \/ OnceFails(c.events, tv)

\* The event lu_event_base_loop runs next: the first one of the most urgent
\* queue that is not empty.
Foremost(e) ==
  \E p \in Priorities :
    /\ activequeues[p] # <<>>
    /\ Head(activequeues[p]) = e
    /\ \A q \in 0 .. p - 1 : activequeues[q] = <<>>

\* The loop runs the callback of an active event: a persistent one stays added,
\* another is deleted first.  The callback of a once event is lu_event_once_cb,
\* which takes its block off the list and frees it.
Run(e) ==
  /\ Callable
  /\ Foremost(e)
  /\ \/ /\ "PERSIST" \in ev_events[e]
        /\ RemoveActive(e)
        /\ ev_flags' = [ev_flags EXCEPT ![e] = @ \ {"ACTIVE"}]
        /\ event_count' = event_count - Weight(e)
        /\ ret' = 0
        /\ UNCHANGED <<mapVars, is_notify_pending, once_events>>
     \/ /\ "PERSIST" \notin ev_events[e]
        /\ Unlink(e, FALSE)
        /\ ev_flags' = [ev_flags EXCEPT ![e] =
                          IF e \in OnceStore THEN {} ELSE @ \ {"INSERTED", "ACTIVE"}]
        /\ once_events' = once_events \ {e}
  /\ UNCHANGED <<ev_fd, ev_events, ev_pri, ev_res, nactivequeues, lock_leaked, phase>>

\* The loop in the other thread reads its wake-up.
Drain ==
  /\ Callable
  /\ is_notify_pending
  /\ is_notify_pending' = FALSE
  /\ UNCHANGED <<eventVars, queueVars, mapVars, event_count, once_events,
                 lock_leaked, phase, ret>>

\* lu_event_base_free_: every event of the two maps and every active event that
\* is not internal is deleted, the blocks of the once events are freed, and no
\* callback may be left in the queues.  What belonged to the base is gone.
BaseFree ==
  LET mapped == (UNION {io_events[f] : f \in Fds}) \cup (UNION {sig_events[s] : s \in Sigs})
      deleted == mapped \cup (On("ACTIVE") \ Internal)
  IN
  /\ Callable
  /\ ev_flags' = [e \in Events |->
                    CASE e \in once_events -> {}
                      [] e \in deleted \ once_events -> ev_flags[e] \ {"INSERTED", "ACTIVE"}
                      [] OTHER -> ev_flags[e]]
  /\ phase' = IF On("ACTIVE") \subseteq deleted THEN "freed" ELSE "aborted"
  /\ activequeues' = [p \in Priorities |-> <<>>]
  /\ event_count_active' = 0
  /\ event_count' = 0
  /\ io_events' = [f \in Fds |-> {}]
  /\ io_count' = [f \in Fds |-> [k \in IoKinds |-> 0]]
  /\ sig_events' = [s \in Sigs |-> {}]
  /\ kernel' = [f \in Fds |-> {}]
  /\ kernel_sigs' = {}
  /\ once_events' = {}
  /\ is_notify_pending' = FALSE
  /\ ret' = 0
  /\ UNCHANGED <<ev_fd, ev_events, ev_pri, ev_res, nactivequeues, lock_leaked>>

Next ==
  \/ \E e \in Events :
       \/ \E fd \in Fds \cup {NoFd} : Recycle(e, fd)
       \/ \E c \in Configs : Assign(e, c)
       \/ \E pri \in Priorities : PrioritySet(e, pri)
       \/ \E res \in Results : Active(e, res)
       \/ \E tv \in BOOLEAN : Add(e, tv)
       \/ Del(e)
       \/ Run(e)
  \/ \E o \in OnceStore, c \in OnceConfigs, tv \in BOOLEAN : BaseOnce(o, c, tv)
  \/ \E n \in 0 .. MaxPriorities : PriorityInit(n)
  \/ Drain
  \/ BaseFree

Spec == Init /\ [][Next]_vars

-----------------------------------------------------------------------------
(***************************************************************************)
(* Properties.                                                             *)
(***************************************************************************)

EventTypes ==
  /\ ev_fd \in [Events -> Fds \cup {NoFd}]
  /\ ev_events \in [Events -> SUBSET EventKinds]
  /\ ev_flags \in [Events -> SUBSET Flags]
  /\ ev_pri \in [Events -> Priorities]
  /\ ev_res \in [Events -> SUBSET (IoKinds \cup {"TIMEOUT", "SIGNAL"})]

QueueTypes ==
  /\ activequeues \in [Priorities -> Seq(Events)]
  /\ nactivequeues \in Priorities
  /\ event_count_active \in Int

MapTypes ==
  /\ io_events \in [Fds -> SUBSET Events]
  /\ io_count \in [Fds -> [IoKinds -> 0 .. CountMax]]
  /\ sig_events \in [Sigs -> SUBSET Events]
  /\ kernel \in [Fds -> SUBSET IoKinds]
  /\ kernel_sigs \subseteq Sigs

BaseTypes ==
  /\ event_count \in Int
  /\ once_events \subseteq OnceStore
  /\ is_notify_pending \in BOOLEAN
  /\ lock_leaked \in BOOLEAN
  /\ phase \in {"live", "freed", "aborted"}
  /\ ret \in {-1, 0}

\* Every variable has the type of the C field it stands for; that nread, nwrite
\* and nclose stay within 0 .. CountMax is not a matter of form.
TypeOK == EventTypes /\ QueueTypes /\ MapTypes /\ BaseTypes

\* An event flagged ACTIVE is on exactly one active queue, once, and that queue
\* exists and is the one of the priority the event has now; an event that is not
\* flagged is on none.  lu_event_priority_set changes the priority,
\* lu_event_base_priority_init throws the queues away, and neither may do it
\* under an active event.
QueuesMatchFlags ==
  /\ \A p \in Priorities :
       /\ ToSet(activequeues[p]) = {e \in On("ACTIVE") : ev_pri[e] = p}
       /\ IsInjective(activequeues[p])
  /\ \A e \in On("ACTIVE") : ev_pri[e] < nactivequeues

\* While the base lives its counters are the list memberships: event_count those
\* of events that are not internal, event_count_active the active ones of all.
\* lu_event_haveevents and lu_event_base_priority_init rely on them.
CountsExact ==
  phase = "live" =>
    /\ event_count = Weights(On("INSERTED")) + Weights(On("ACTIVE"))
    /\ event_count_active = Cardinality(On("ACTIVE"))

\* The maps agree with the flags: an inserted event is on the list of its
\* descriptor or of its signal and on no other, and nread, nwrite and nclose
\* count the listed events of each kind, so that they can never wrap below zero.
EvmapMatchesFlags ==
  /\ \A f \in Fds :
       io_events[f] = {e \in On("INSERTED") : ev_fd[e] = f /\ Polls(ev_events[e])}
  /\ \A s \in Sigs :
       sig_events[s] = {e \in On("INSERTED") : ev_fd[e] = s /\ ~Polls(ev_events[e])}
  /\ \A e \in On("INSERTED") : Polls(ev_events[e]) \/ ev_fd[e] \in Sigs
  /\ \A f \in Fds, k \in IoKinds :
       io_count[f][k] = Cardinality({e \in io_events[f] : k \in ev_events[e]})

\* Whatever calls fail, the backend watches every kind some listed event waits
\* for: events sharing a descriptor do not lose each other's interest.
KernelCoversInterest ==
  /\ \A f \in Fds : \A e \in io_events[f] : ev_events[e] \cap IoKinds \subseteq kernel[f]
  /\ \A s \in Sigs : sig_events[s] # {} => s \in kernel_sigs

\* A block of lu_event_base_once is allocated exactly while it is on the list of
\* the base; with QueuesMatchFlags and EvmapMatchesFlags: a freed block is on no
\* list.
OnceBlocksOwned == once_events = {o \in OnceStore : Is("INIT", o)}

\* The library activates its own events only while they are added, so freeing
\* the base, which deletes an active event that is not internal, leaves no
\* callback in the queues.
InternalActiveIsAdded ==
  \A i \in Internal :
    /\ ev_fd[i] = Zero /\ Polls(ev_events[i])
    /\ Is("ACTIVE", i) => Is("INSERTED", i)

\* The inductive invariant: each part is needed for another to be preserved.
IInv ==
  /\ TypeOK
  /\ QueuesMatchFlags
  /\ CountsExact
  /\ EvmapMatchesFlags
  /\ KernelCoversInterest
  /\ OnceBlocksOwned
  /\ InternalActiveIsAdded

\* A failed addition changes no state, as the comment at lu_event.c:1071 asks.
FailedAddChangesNothing ==
  [][\A e \in Events, tv \in BOOLEAN :
       Add(e, tv) /\ ret' = -1
         => UNCHANGED <<eventVars, queueVars, mapVars, baseVars>>]_vars

\* Events of one priority run in the order they became active: whatever is ahead
\* of an event after a step was ahead of it before.
ActivationOrder ==
  [][\A p \in Priorities :
       \A i \in 1 .. Len(activequeues[p]), m, n \in 1 .. Len(activequeues'[p]) :
         activequeues'[p][n] = activequeues[p][i] /\ m < n
           => \E h \in 1 .. i - 1 : activequeues'[p][m] = activequeues[p][h]]_vars

\* A call from another thread that gives the running loop something to do, or
\* changes what its backend watches, leaves a wake-up pending.
LoopIsWoken ==
  [][/\ ForeignLoop
     /\ phase' = "live"
     /\ ~\E e \in Events : Run(e)
     /\ \/ ~(On("ACTIVE")' \subseteq On("ACTIVE"))
        \/ <<kernel, kernel_sigs>>' # <<kernel, kernel_sigs>>
     => is_notify_pending']_vars

-----------------------------------------------------------------------------
(***************************************************************************)
(* The event core implements EventPromise.                                 *)
(***************************************************************************)

\* The items event e is listed for.
ItemsOf(e) ==
  {i \in Fds \X IoKinds : e \in io_events[i[1]] /\ i[2] \in ev_events[e]}
    \cup ({s \in Sigs : e \in sig_events[s]} \X {"SIGNAL"})

Interest == [e \in Events |-> ItemsOf(e)]

\* The items the backends watch.
WatchedItems ==
  {i \in Fds \X IoKinds : i[2] \in kernel[i[1]]} \cup (kernel_sigs \X {"SIGNAL"})

Promise ==
  INSTANCE EventPromise WITH
    Items <- (Fds \X IoKinds) \cup (Sigs \X {"SIGNAL"}),
    added <- On("INSERTED"),
    interest <- Interest,
    watched <- WatchedItems,
    ready <- activequeues,
    queues <- nactivequeues,
    open <- phase # "freed"

\* Counting events per descriptor, flagging them and counting the active ones is
\* as good as keeping sets: every operation, failing or not, does to the events
\* what EventPromise allows, or nothing.
KeepsPromise == Promise!Spec

-----------------------------------------------------------------------------
(***************************************************************************)
(* What comments and assertions of the code say and the code does not do.  *)
(***************************************************************************)

\* lu_event.c:1284 asserts that the queue of an event about to become active
\* exists.  It could only be missing when the memory for the queues was.
AssertionsHold == phase = "aborted" => nactivequeues = 0

\* lu_event.h says that an event with LU_EV_READ waits for its descriptor to
\* become readable: a listed event is on the list of a descriptor that was asked
\* for.
ListedAsAsked ==
  \A f \in Fds : io_events[f] # {} => \E c \in Configs \cup OnceConfigs : c.fd = f

\* No call returns with th_base_lock held.
LockReleased == ~lock_leaked

\* lu_event.c:699 says that a once event with a delay is put on the timeout
\* queue: a once event that has not fired is on some list.
OnceCanFire == \A o \in once_events : Is("ACTIVE", o) \/ Is("INSERTED", o)

\* lu_event.c:1135 says that adding an event with a timeout while it is active
\* for a timeout reschedules it: it stays on some list.
ReschedulingKeepsEvent ==
  [][\A e \in Events, tv \in BOOLEAN :
       Add(e, tv) /\ Is("ACTIVE", e) => e \in On("ACTIVE")' \cup On("INSERTED")']_vars

\* lu_event.c:459 says that freeing the base deletes all non-internal events.
FreeDeletesAll == phase = "freed" => On("INSERTED") \subseteq Internal

\* lu_event.c:853 says that a deletion that leaves no event wakes the loop so
\* that it can exit.
EmptyBaseIsNotified ==
  [][\A e \in Events :
       /\ ForeignLoop
       /\ Del(e) /\ Is("INSERTED", e)
       /\ event_count' = 0 /\ event_count_active' = 0
       => is_notify_pending']_vars

\* lu_event-internal.h describes event_count as the number of events added.
CountIsEventsAdded == phase = "live" => event_count = Weights(On("INSERTED"))
=============================================================================
