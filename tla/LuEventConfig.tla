---------------------------- MODULE LuEventConfig ----------------------------
(***************************************************************************)
(* How an lu_event_base_t comes to be and goes: lu_event_base_new,         *)
(* lu_event_base_new_with_config and the calls it makes, lu_epoll_init of  *)
(* src/src/lu_epool.c, lu_evsig_init_ of src/src/lu_evsignal.c and the     *)
(* pipes of src/src/lu_util.c, with every failure they look for, and       *)
(* lu_event_base_free for what the base holds.                             *)
(*                                                                         *)
(* An allocation or a system call is a step that may fail.  The library    *)
(* has no functions to fill an lu_event_config_t: a program sets its       *)
(* fields.                                                                 *)
(***************************************************************************)
EXTENDS Integers, FiniteSets

CONSTANTS
  Configs,       \* the configurations a program passes
  Environments,  \* the sets of variables the environment may have
  NULL

INT_MAX == 2147483647
CInt == (-INT_MAX - 1) .. INT_MAX
NoInterval == -1
ConfigFlags == {"NOLOCK", "IGNORE_ENV", "PRECISE_TIMER", "USE_SIGNALFD",
                "EPOLL_USE_CHANGELIST", "EPOLL_DISALLOW_TIMERFD"}
Features == {"ET", "O1", "EARLY_CLOSE", "FDS"}
EpollFeatures == Features \ {"FDS"}
Variables == {"LU_EVENT_PRECISE_TIMER", "EVENT_NOEPOLL",
              "EVENT_EPOLL_USE_CHANGELIST", "EVENT_USE_SIGNALFD"}

Config ==
  [flags : SUBSET ConfigFlags,
   avoids : BOOLEAN,                \* epoll is one of its entries
   required_features : SUBSET Features,
   max_dispatch_interval : Int,
   max_dispatch_callbacks : CInt,
   limit_callbacks_after_priority : CInt]

\* What lu_event_config_new fills in.
DefaultConfig ==
  [flags |-> {}, avoids |-> FALSE, required_features |-> {},
   max_dispatch_interval |-> NoInterval, max_dispatch_callbacks |-> INT_MAX,
   limit_callbacks_after_priority |-> 1]

ASSUME NullAssumption ==
  NULL \notin {"none", "base", "freed", "exit", "undefined",
              "epoll", "epoll (with changelist)", "signal"}
ASSUME ConfigsAssumption == Configs \subseteq Config
ASSUME EnvironmentsAssumption == Environments \subseteq SUBSET Variables

Descriptors ==
  {"epoll_fd", "timerfd", "ev_signal_pair", "th_notify_fd"}
Blocks == {"config", "base", "epool_op", "events", "activequeues",
           "th_base_lock", "current_event_cond"}
OfBackend == {"epoll_fd", "timerfd", "epool_op", "events", "ev_signal_pair"}

OfBase == {"base", "activequeues", "th_base_lock", "current_event_cond"}

VARIABLES
  env,          \* the environment, {} when lu_evutil_issetugid hides it
  hidden,       \* what getenv sees nevertheless
  threads,      \* LU_EVTHREAD_LOCKING_ENABLED
  asked,        \* the configuration as the program made it, NULL for none
  cfg_flags,    \* its flags now
  at,           \* how far the call is
  result,
  owned,        \* the descriptors and blocks that are held
  closed_twice, \* the descriptors that were closed when they were not open
  flags, monotonic_timer, evsel_op, evsigsel_op, limits,
  nactivequeues, th_notify_fd, th_notify_fn

system == <<env, hidden, threads>>
config == <<asked, cfg_flags>>
made == <<flags, monotonic_timer, limits>>
methods == <<evsel_op, evsigsel_op>>
notify == <<th_notify_fd, th_notify_fn>>
vars == <<system, config, at, result, owned, closed_twice, made, methods,
          nactivequeues, notify>>

\* The limits of the configuration, none where it has a negative number of
\* callbacks; a base without any runs callbacks of every priority unlooked.
LimitsOf(c) ==
  LET callbacks == IF c /= NULL /\ c.max_dispatch_callbacks >= 0
                   THEN c.max_dispatch_callbacks ELSE INT_MAX
      interval == IF c /= NULL THEN c.max_dispatch_interval ELSE NoInterval
      limit == IF c /= NULL THEN c.limit_callbacks_after_priority ELSE 1
  IN [max_dispatch_callbacks |-> callbacks,
      limit_callbacks_after_priority |->
        IF callbacks = INT_MAX /\ interval = NoInterval THEN INT_MAX ELSE limit]

Init ==
  /\ hidden \in Environments /\ env \in {{}, hidden}
  /\ threads \in BOOLEAN
  /\ asked = NULL /\ cfg_flags = {}
  /\ at = "idle" /\ result = NULL
  /\ owned = {} /\ closed_twice = {}
  /\ flags = {} /\ monotonic_timer = NULL /\ limits = LimitsOf(NULL)
  /\ evsel_op = NULL /\ evsigsel_op = NULL
  /\ nactivequeues = 0
  /\ th_notify_fd = FALSE /\ th_notify_fn = FALSE

\* The call goes on at a point, holding more than before, or less.
Goto(p, more, less) ==
  /\ at' = p
  /\ owned' = (owned \cup more) \ less

------------------------------------------------------------------------------
\* lu_event_base_new and its lu_event_config_new.
New ==
  /\ at = "idle"
  /\ \/ /\ asked' = DefaultConfig /\ cfg_flags' = DefaultConfig.flags
        /\ Goto("allocate", {"config"}, {})
        /\ UNCHANGED result
     \/ /\ Goto("done", {}, {})
        /\ result' = "none"
        /\ UNCHANGED config
  /\ UNCHANGED <<system, closed_twice, made, methods, nactivequeues, notify>>

\* A call of lu_event_base_new_with_config by the program.
NewWithConfig(c) ==
  /\ at = "idle"
  /\ asked' = c
  /\ cfg_flags' = IF c = NULL THEN {} ELSE c.flags
  /\ Goto("allocate", {}, {})
  /\ UNCHANGED <<system, result, closed_twice, made, methods, nactivequeues, notify>>

\* lu_event_base_new_with_config returns; lu_event_base_new frees its
\* configuration.
Returns(r, less) ==
  /\ Goto("done", {}, less \cup {"config"})
  /\ result' = r

Clock(precise, works) ==
  IF ~precise /\ "CLOCK_MONOTONIC_COARSE" \in works THEN "CLOCK_MONOTONIC_COARSE"
  ELSE IF "CLOCK_MONOTONIC" \in works THEN "CLOCK_MONOTONIC" ELSE "TIME_OF_DAY"

\* The flags are copied from the new base, which has none, to the
\* configuration, before they are looked at.
Allocate ==
  /\ at = "allocate"
  /\ \/ Returns("none", {}) /\ UNCHANGED <<cfg_flags, made>>
     \/ LET wiped == {}
            check == "IGNORE_ENV" \notin wiped
            byEnv == check /\ "PRECISE_TIMER" \notin wiped
                       /\ "LU_EVENT_PRECISE_TIMER" \in env
        IN /\ cfg_flags' = wiped
           /\ flags' = IF byEnv THEN {"PRECISE_TIMER"} ELSE {}
           /\ \E works \in SUBSET {"CLOCK_MONOTONIC_COARSE", "CLOCK_MONOTONIC"} :
                monotonic_timer' =
                  Clock(byEnv \/ "PRECISE_TIMER" \in wiped, works)
           /\ limits' = LimitsOf(asked)
           /\ Goto("scan", {"base"}, {})
           /\ UNCHANGED result
  /\ UNCHANGED <<system, asked, closed_twice, methods, nactivequeues, notify>>

\* lu_event_config_is_avoided_method, and the features a program requires.
AvoidedByConfig ==
  asked /= NULL /\ (asked.avoids \/ ~(asked.required_features \subseteq EpollFeatures))

\* lu_event_is_method_disabled, for who looks at the environment.
DisabledByEnvironment == "IGNORE_ENV" \notin cfg_flags /\ "EVENT_NOEPOLL" \in env

Avoided == AvoidedByConfig \/ DisabledByEnvironment

\* The only entry of eventops.
TakeEpoll ==
  /\ at = "scan"
  /\ ~Avoided
  /\ evsel_op' = "epoll"
  /\ Goto("epoll_fd", {}, {})
  /\ UNCHANGED <<system, config, result, closed_twice, made, evsigsel_op,
                 nactivequeues, notify>>

SkipEpoll_again ==
  /\ at = "scan"
  /\ Avoided
  /\ Goto("scan", {}, {})
  /\ UNCHANGED <<system, config, result, closed_twice, made, methods,
                 nactivequeues, notify>>

SkipEpoll ==
  /\ at = "scan"
  /\ Avoided
  /\ Goto("past_end", {}, {})
  /\ UNCHANGED <<system, config, result, closed_twice, made, methods,
                 nactivequeues, notify>>

\* The table has no NULL behind its last entry: without a base of the backend
\* the loop reads what lies there.
ReadPastEnd ==
  /\ at = "past_end"
  /\ \/ Goto("no_mechanism", {}, {}) /\ UNCHANGED result
     \/ Goto("done", {}, {}) /\ result' = "undefined"
  /\ UNCHANGED <<system, config, closed_twice, made, methods, nactivequeues, notify>>

------------------------------------------------------------------------------
\* lu_epoll_init
EpollStep(p, next, gets, loses) ==
  /\ at = p
  /\ \/ Goto(next, gets, {})
     \/ Goto("past_end", {}, loses)
  /\ UNCHANGED <<system, config, result, closed_twice, made, methods,
                 nactivequeues, notify>>

AllocEvents_leaks == EpollStep("events", "timerfd", {"events"}, {"epool_op"})

EpollCreate == EpollStep("epoll_fd", "epool_op", {"epoll_fd"}, {})
AllocOp == EpollStep("epool_op", "events", {"epool_op"}, {"epoll_fd"})
AllocEvents == EpollStep("events", "timerfd", {"events"}, {"epool_op", "epoll_fd"})

WantsChangelist ==
  \/ "EPOLL_USE_CHANGELIST" \in flags
  \/ "IGNORE_ENV" \notin flags /\ "EVENT_EPOLL_USE_CHANGELIST" \in env

WantsTimerfd ==
  /\ "PRECISE_TIMER" \in flags /\ "EPOLL_DISALLOW_TIMERFD" \notin flags
  /\ monotonic_timer = "CLOCK_MONOTONIC"

\* The choice of the change list, and the timer; without it the base does with
\* the time of epoll_wait.
Timerfd ==
  /\ at = "timerfd"
  /\ evsel_op' = IF WantsChangelist THEN "epoll (with changelist)" ELSE evsel_op
  /\ \/ WantsTimerfd /\ Goto("signals", {"timerfd"}, {})
     \/ Goto("signals", {}, {})
  /\ UNCHANGED <<system, config, result, closed_twice, made, evsigsel_op,
                 nactivequeues, notify>>

WantsSignalfd == "USE_SIGNALFD" \in flags \/ "EVENT_USE_SIGNALFD" \in hidden

\* sigfd_init_ and lu_evsig_init_.  Where signalfd is asked for, in a variable
\* that is read without regard to the flags or the user, no method is set; a
\* pipe that fails ends the program.
Signals ==
  /\ at = "signals"
  /\ \/ /\ WantsSignalfd
        /\ Goto("queues", {}, {})
        /\ UNCHANGED <<evsigsel_op, result>>
     \/ /\ ~WantsSignalfd
        /\ \/ /\ evsigsel_op' = "signal"
              /\ Goto("queues", {"ev_signal_pair"}, {})
              /\ UNCHANGED result
           \/ /\ Goto("done", {}, {}) /\ result' = "exit"
              /\ UNCHANGED evsigsel_op
  /\ UNCHANGED <<system, config, closed_twice, made, evsel_op, nactivequeues, notify>>

------------------------------------------------------------------------------
\* lu_event_base_free_: what dealloc should release stays, lu_epoll_dealloc
\* does nothing.
FreeBase(r) ==
  /\ Returns(r, IF th_notify_fd THEN OfBase \cup {"th_notify_fd"} ELSE OfBase)
  /\ closed_twice' =
       IF th_notify_fd /\ "th_notify_fd" \notin owned
       THEN closed_twice \cup {"th_notify_fd"} ELSE closed_twice
  /\ th_notify_fd' = FALSE

NoMechanism ==
  /\ at = "no_mechanism"
  /\ evsel_op' = NULL
  /\ FreeBase("none")
  /\ UNCHANGED <<system, config, made, evsigsel_op, nactivequeues, th_notify_fn>>

\* lu_event_base_priority_init(base, 1)
InitQueues ==
  /\ at = "queues"
  /\ \/ /\ nactivequeues' = 1
        /\ Goto("threads", {"activequeues"}, {})
        /\ UNCHANGED <<result, closed_twice, th_notify_fd>>
     \/ FreeBase("none") /\ UNCHANGED nactivequeues
  /\ UNCHANGED <<system, config, made, methods, th_notify_fn>>

Locks == threads /\ "NOLOCK" \notin cfg_flags

AllocLock_unlocked ==
  /\ at = "threads"
  /\ \/ Locks /\ Goto("done", {"th_base_lock"}, {"config"}) /\ result' = "base"
     \/ ~Locks /\ Returns("base", {})
  /\ UNCHANGED <<system, config, closed_twice, made, methods, nactivequeues, notify>>

\* LU_EVTHREAD_ALLOC_LOCK and LU_EVTHREAD_ALLOC_COND, either of which may yield
\* NULL.
AllocLock ==
  /\ at = "threads"
  /\ \/ /\ Locks
        /\ \E got \in SUBSET {"th_base_lock", "current_event_cond"} :
             Goto("notifiable", got, {})
        /\ UNCHANGED result
     \/ ~Locks /\ Returns("base", {})
  /\ UNCHANGED <<system, config, closed_twice, made, methods, nactivequeues, notify>>

\* lu_evthread_make_base_notifiable: no pipe, a pipe that could not be set up
\* and is closed again, or one that waits for an event which cannot be added.
MakePipe ==
  /\ at = "notifiable"
  /\ \/ /\ th_notify_fd' = TRUE /\ th_notify_fn' = TRUE
        /\ Goto("add_notify", {"th_notify_fd"}, {})
     \/ /\ th_notify_fd' \in BOOLEAN
        /\ Goto("unnotifiable", {}, {})
        /\ UNCHANGED th_notify_fn
  /\ UNCHANGED <<system, config, result, closed_twice, made, methods, nactivequeues>>

AddNotify ==
  /\ at = "add_notify"
  /\ \/ Returns("base", {})
     \/ Goto("unnotifiable", {}, {}) /\ UNCHANGED result
  /\ UNCHANGED <<system, config, closed_twice, made, methods, nactivequeues, notify>>

Unnotifiable ==
  /\ at = "unnotifiable"
  /\ FreeBase("none")
  /\ UNCHANGED <<system, config, made, methods, nactivequeues, th_notify_fn>>

\* lu_event_base_free by the program.
Free ==
  /\ at = "done" /\ result = "base"
  /\ FreeBase("freed")
  /\ UNCHANGED <<system, config, made, methods, nactivequeues, th_notify_fn>>

Step ==
  \/ Allocate
  \/ TakeEpoll
  \/ SkipEpoll
  \/ ReadPastEnd
  \/ EpollCreate
  \/ AllocOp
  \/ AllocEvents
  \/ Timerfd
  \/ Signals
  \/ NoMechanism
  \/ InitQueues
  \/ AllocLock
  \/ MakePipe
  \/ AddNotify
  \/ Unnotifiable

Next ==
  \/ New
  \/ \E c \in Configs \cup {NULL} : NewWithConfig(c)
  \/ Step
  \/ Free

Spec == Init /\ [][Next]_vars /\ WF_vars(Step)
------------------------------------------------------------------------------
(* Every variable keeps its type.                                          *)
TypeOK ==
  /\ env \subseteq hidden /\ hidden \in Environments
  /\ asked \in Config \cup {NULL} /\ cfg_flags \subseteq ConfigFlags
  /\ result \in {NULL, "none", "base", "freed", "exit", "undefined"}
  /\ owned \subseteq Descriptors \cup Blocks
  /\ closed_twice \subseteq Descriptors
  /\ flags \subseteq ConfigFlags
  /\ evsel_op \in {NULL, "epoll", "epoll (with changelist)"}
  /\ evsigsel_op \in {NULL, "signal"}
  /\ nactivequeues \in {0, 1}
  /\ limits \in [max_dispatch_callbacks : 0 .. INT_MAX,
                limit_callbacks_after_priority : Int]

(* A base is only returned whole: with a backend nobody wanted to avoid    *)
(* and all that belongs to it, its queue, and, where it has a lock, a way  *)
(* to wake its loop, which other threads then rely on                      *)
(* (src/src/lu_event.c lu_event_base_new_with_config).                     *)
ReturnedWhole ==
  result = "base" =>
    /\ {"base", "activequeues", "epoll_fd", "epool_op", "events"} \subseteq owned
    /\ evsel_op /= NULL /\ nactivequeues = 1
    /\ asked /= NULL => ~asked.avoids
    /\ "th_base_lock" \in owned => th_notify_fn /\ "th_notify_fd" \in owned
    /\ "timerfd" \in owned => monotonic_timer = "CLOCK_MONOTONIC"

(* Every variable keeps its type, and a base that is returned is whole     *)
(* (lu_event_base_new_with_config).                                        *)
BaseInv == TypeOK /\ ReturnedWhole

(* A call that fails frees the configuration lu_event_base_new made, the   *)
(* base, its queues and its lock, and a backend that failed leaves nothing *)
(* behind (lu_event_base_new_with_config, lu_event_base_free_,             *)
(* lu_epoll_init).                                                         *)
FailureFrees ==
  result \in {"none", "freed"} =>
    /\ owned \subseteq OfBackend
    /\ evsel_op = NULL => owned = {}

(* The call comes to an end whatever fails: with a base, without one, or   *)
(* with the program.                                                       *)
CallEnds == at /= "idle" ~> at = "done"

(* A program that asks for a base without a lock gets one: "Do not allocate *)
(* a lock for the event_base" (src/include/lu_event-internal.h:66-71).      *)
NoLockHonoured ==
  asked /= NULL /\ "NOLOCK" \in asked.flags => "th_base_lock" \notin owned

(* A base has functions for signals, "the backend that this event_base uses *)
(* for signals" (src/include/lu_event-internal.h:176-178).                  *)
SignalsHaveMethod == result = "base" => evsigsel_op /= NULL

(* Freeing a base closes the "threading fds if we have them"                *)
(* (src/src/lu_event.c:448), not ones that are closed.                      *)
ClosesWhatItHas == closed_twice = {}

(* Where no backend suits, the call says so and returns NULL                *)
(* (src/src/lu_event.c:232-237).                                            *)
NoMechanismIsReported == result /= "undefined"

(* Nothing of a base is left once it is freed: dealloc is there "to clean   *)
(* up and free data in the event base" (lu_event-internal.h:355).           *)
NothingLeft == result \in {"none", "freed"} => owned = {}
==============================================================================
