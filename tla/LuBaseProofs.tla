---------------------------- MODULE LuBaseProofs -----------------------------
(***************************************************************************)
(* An event base as it is made, its clock and its signals.                 *)
(*                                                                         *)
(* First the calls of LuEventConfig, for any configurations and            *)
(* environments: a base that is returned is whole, and a call that fails   *)
(* leaves no more behind than what the backend keeps.  One invariant says  *)
(* what is held at every point of the call; every step is a lemma.  Then   *)
(* LuMonotonic, for any clocks of the system and any number of times the   *)
(* time of day is set back; and LuSignalPipe, for any signals.             *)
(***************************************************************************)
EXTENDS LuEventConfig, LuMonotonic, LuSignalPipe, FiniteSetTheorems, TLAPS

\* The points from the choice of the backend on, and those behind its init.
Equipped == {"signals", "queues", "threads", "notifiable", "add_notify", "unnotifiable"}
Chosen == {"epoll_fd", "epool_op", "events", "timerfd"} \cup Equipped
Points == {"idle", "allocate", "scan", "past_end", "no_mechanism", "done"} \cup Chosen

\* What the call holds at a point of its way to the backend.
Opened(p) ==
  (IF p \in {"epool_op", "events", "timerfd"} THEN {"epoll_fd"} ELSE {})
    \cup (IF p \in {"events", "timerfd"} THEN {"epool_op"} ELSE {})
    \cup (IF p = "timerfd" THEN {"events"} ELSE {})

Backend == {"epoll_fd", "epool_op", "events"}
OfNotify == {"activequeues", "th_base_lock", "current_event_cond", "th_notify_fd"}

\* Before there is a backend nothing but the configuration, the base and what
\* lu_epoll_init has got so far is held.
EarlyHeld ==
  /\ at = "idle" => owned = {}
  /\ at = "allocate" => owned \subseteq {"config"}
  /\ at \in {"idle", "allocate", "scan"} => evsel_op = NULL
  /\ at \in {"scan", "past_end", "no_mechanism",
            "epoll_fd", "epool_op", "events", "timerfd"}
       => /\ owned \subseteq {"config", "base"} \cup Opened(at)
          /\ Opened(at) \subseteq owned
  /\ at \in Chosen \cup {"scan"} => "base" \in owned

\* A backend that was taken was not to be avoided, and stays; its timer goes with
\* the clock.
BackendHeld ==
  /\ at \in Chosen => evsel_op # NULL /\ (asked # NULL => ~asked.avoids)
  /\ at \in Equipped =>
       /\ Backend \subseteq owned
       /\ "timerfd" \in owned => monotonic_timer = "CLOCK_MONOTONIC"

\* Queue, lock and pipe come last, and the base knows whether it has the pipe.
LateHeld ==
  /\ at \in {"signals", "queues"} => owned \cap OfNotify = {}
  /\ at = "threads" => owned \cap OfNotify = {"activequeues"}
  /\ at \in {"notifiable", "add_notify", "unnotifiable"} => "activequeues" \in owned
  /\ at = "notifiable" => "th_notify_fd" \notin owned
  /\ at \in {"threads", "notifiable", "add_notify", "unnotifiable"} => nactivequeues = 1
  /\ at = "add_notify" => th_notify_fn /\ "th_notify_fd" \in owned
  /\ at \notin {"add_notify", "unnotifiable", "done"} => th_notify_fd = FALSE
  /\ at \in {"add_notify", "unnotifiable"} \/ result = "base" =>
       ("th_notify_fd" \in owned => th_notify_fd)

\* A call has its result at its end.
Results ==
  /\ result = NULL <=> at # "done"
  /\ result = "base" => evsel_op # NULL

Types ==
  /\ TypeOK /\ at \in Points
  /\ th_notify_fd \in BOOLEAN /\ th_notify_fn \in BOOLEAN

CallInv ==
  /\ Types /\ EarlyHeld /\ BackendHeld /\ LateHeld /\ Results
  /\ ReturnedWhole /\ FailureFrees

LEMMA MaxIsNat == INT_MAX \in Nat /\ INT_MAX >= 1
BY SMT DEF INT_MAX

LEMMA DefaultIsConfig == DefaultConfig \in Config
<1>1. INT_MAX \in CInt /\ 1 \in CInt /\ NoInterval \in Int
      BY MaxIsNat DEF CInt, NoInterval
<1> QED BY <1>1 DEF DefaultConfig, Config

LEMMA LimitsAreTyped ==
  ASSUME NEW c \in Config \cup {NULL}
  PROVE  LimitsOf(c) \in [max_dispatch_callbacks : 0 .. INT_MAX,
                          limit_callbacks_after_priority : Int]
<1>1. CASE c = NULL
      BY <1>1, MaxIsNat DEF LimitsOf
<1>2. CASE c # NULL
  <2>1. /\ c.max_dispatch_callbacks \in CInt
        /\ c.limit_callbacks_after_priority \in CInt
        BY <1>2 DEF Config
  <2>2. /\ c.max_dispatch_callbacks >= 0 => c.max_dispatch_callbacks \in 0 .. INT_MAX
        /\ c.limit_callbacks_after_priority \in Int
        BY <2>1, MaxIsNat DEF CInt
  <2> QED BY <1>2, <2>2, MaxIsNat DEF LimitsOf
<1> QED BY <1>1, <1>2

\* Until a call has its result there is nothing to say of it.
LEMMA Unfinished ==
  ASSUME result' = NULL PROVE ReturnedWhole' /\ FailureFrees'
BY NullAssumption DEF ReturnedWhole, FailureFrees

\* Most steps change only what is held, how far the call is, and its result.
LEMMA SameTypes ==
  ASSUME Types, owned' \subseteq Descriptors \cup Blocks, at' \in Points,
         result' \in {NULL, "none", "base", "exit"}, evsigsel_op' \in {NULL, "signal"},
         UNCHANGED <<system, config, closed_twice, made, evsel_op, nactivequeues, notify>>
  PROVE  Types'
BY DEF Types, TypeOK, system, config, made, notify

\* Freeing a base leaves what is the backend's, and the configuration is freed by
\* who made it.
LEMMA FreeLeavesBackend ==
  ASSUME CallInv, at \in {"no_mechanism", "queues", "unnotifiable"} \/ result = "base",
         NEW r, FreeBase(r)
  PROVE  /\ owned' \subseteq OfBackend /\ owned' \subseteq owned
         /\ closed_twice' \subseteq Descriptors
<1>1. "th_notify_fd" \in owned => th_notify_fd
      BY DEF CallInv, LateHeld, EarlyHeld, Opened, OfNotify
<1>2. owned' = owned \ ((IF th_notify_fd THEN OfBase \cup {"th_notify_fd"} ELSE OfBase)
                          \cup {"config"})
      BY DEF FreeBase, Returns, Goto
<1>3. owned \subseteq Descriptors \cup Blocks /\ closed_twice \subseteq Descriptors
      BY DEF CallInv, Types, TypeOK
<1>4. owned' \subseteq OfBackend
      BY <1>1, <1>2, <1>3 DEF OfBackend, OfBase, Descriptors, Blocks
<1>5. closed_twice' \subseteq Descriptors
      BY <1>3 DEF FreeBase, Descriptors
<1> QED BY <1>2, <1>4, <1>5

LEMMA NewKeeps ==
  ASSUME CallInv, New
  PROVE  CallInv'
<1> USE NullAssumption DEF CallInv, Goto, New, system, made, methods, notify
<1>1. Types'
  <2>1. asked' \in Config \cup {NULL} /\ cfg_flags' \subseteq ConfigFlags
        BY DefaultIsConfig DEF Types, TypeOK, config, DefaultConfig
  <2> QED BY <2>1 DEF Types, TypeOK, Points, Chosen, Equipped, Descriptors, Blocks
<1>2. EarlyHeld' /\ BackendHeld' /\ LateHeld'
      BY DEF Results, config, EarlyHeld, BackendHeld, LateHeld, Opened, Backend,
         OfNotify, Chosen, Equipped
<1>3. Results'
      BY DEF Results
<1>4. ReturnedWhole' /\ FailureFrees'
  <2>1. CASE result' = NULL
        BY <2>1, Unfinished
  <2>2. CASE result' = "none" /\ owned' = {}
        BY <2>2 DEF ReturnedWhole, FailureFrees
  <2> QED BY <2>1, <2>2 DEF EarlyHeld, Results
<1> QED BY <1>1, <1>2, <1>3, <1>4

LEMMA NewWithConfigKeeps ==
  ASSUME CallInv, NEW c \in Configs \cup {NULL}, NewWithConfig(c)
  PROVE  CallInv'
<1> USE NullAssumption DEF CallInv, Goto, NewWithConfig, system, made, methods, notify
<1>1. Types'
  <2>1. asked' \in Config \cup {NULL}
        BY ConfigsAssumption
  <2>2. cfg_flags' \subseteq ConfigFlags
        BY ConfigsAssumption DEF Config
  <2> QED BY <2>1, <2>2 DEF Types, TypeOK, Points, Chosen, Equipped
<1>2. EarlyHeld' /\ BackendHeld' /\ LateHeld'
      BY DEF Results, EarlyHeld, BackendHeld, LateHeld, Opened, Backend, OfNotify,
         Chosen, Equipped
<1>3. Results'
      BY DEF Results
<1>4. ReturnedWhole' /\ FailureFrees'
      BY Unfinished DEF Results
<1> QED BY <1>1, <1>2, <1>3, <1>4

LEMMA AllocateKeeps ==
  ASSUME CallInv, Allocate
  PROVE  CallInv'
<1> USE NullAssumption DEF CallInv, Goto, Allocate, Returns, system, config, methods,
        notify
<1>1. Types'
  <2>1. limits' \in [max_dispatch_callbacks : 0 .. INT_MAX,
                      limit_callbacks_after_priority : Int]
        BY LimitsAreTyped DEF Types, TypeOK, made
  <2>2. flags' \subseteq ConfigFlags /\ cfg_flags' \subseteq ConfigFlags
        BY DEF Types, TypeOK, made, ConfigFlags
  <2>3. result' \in {NULL, "none"} /\ at' \in {"scan", "done"}
        BY DEF Results
  <2> QED BY <2>1, <2>2, <2>3 DEF Types, TypeOK, Points, Chosen, Equipped, Blocks
<1>2. EarlyHeld' /\ BackendHeld' /\ LateHeld'
      BY DEF Results, EarlyHeld, BackendHeld, LateHeld, Opened, Backend, OfNotify,
         Chosen, Equipped
<1>3. Results'
      BY DEF Results
<1>4. ReturnedWhole' /\ FailureFrees'
  <2>1. CASE result' = NULL
        BY <2>1, Unfinished
  <2>2. CASE result' = "none" /\ owned' = {}
        BY <2>2 DEF ReturnedWhole, FailureFrees
  <2> QED BY <2>1, <2>2 DEF EarlyHeld, Results
<1> QED BY <1>1, <1>2, <1>3, <1>4

LEMMA TakeEpollKeeps ==
  ASSUME CallInv, TakeEpoll
  PROVE  CallInv'
<1> USE NullAssumption DEF CallInv, Goto, TakeEpoll, Avoided, AvoidedByConfig,
        system, config, made, notify
<1>1. Types'
      BY DEF Types, TypeOK, Points, Chosen, Equipped
<1>2. EarlyHeld' /\ BackendHeld' /\ LateHeld'
      BY DEF Results, EarlyHeld, BackendHeld, LateHeld, Opened, Backend, OfNotify,
         Chosen, Equipped
<1>3. Results'
      BY DEF Results
<1>4. ReturnedWhole' /\ FailureFrees'
      BY Unfinished DEF Results
<1> QED BY <1>1, <1>2, <1>3, <1>4

LEMMA SkipEpollKeeps ==
  ASSUME CallInv, SkipEpoll
  PROVE  CallInv'
<1> USE NullAssumption DEF CallInv, Goto, SkipEpoll, system, config, made, methods,
        notify
<1>1. Types'
      BY DEF Types, TypeOK, Points, Chosen, Equipped
<1>2. EarlyHeld' /\ BackendHeld' /\ LateHeld'
      BY DEF Results, EarlyHeld, BackendHeld, LateHeld, Opened, Backend, OfNotify,
         Chosen, Equipped
<1>3. Results'
      BY DEF Results
<1>4. ReturnedWhole' /\ FailureFrees'
      BY Unfinished DEF Results
<1> QED BY <1>1, <1>2, <1>3, <1>4

LEMMA ReadPastEndKeeps ==
  ASSUME CallInv, ReadPastEnd
  PROVE  CallInv'
<1> USE NullAssumption DEF CallInv, Goto, ReadPastEnd, system, config, made, methods,
        notify
<1>1. Types'
      BY DEF Types, TypeOK, Points, Chosen, Equipped
<1>2. EarlyHeld' /\ BackendHeld' /\ LateHeld'
      BY DEF Results, EarlyHeld, BackendHeld, LateHeld, Opened, Backend, OfNotify,
         Chosen, Equipped
<1>3. Results'
      BY DEF Results
<1>4. ReturnedWhole' /\ FailureFrees'
  <2>1. result' \in {NULL, "undefined"}
        BY DEF Results
  <2> QED BY <2>1 DEF ReturnedWhole, FailureFrees
<1> QED BY <1>1, <1>2, <1>3, <1>4

\* What lu_epoll_init has got it gives back when a later step of it fails.
LEMMA EpollInitKeeps ==
  ASSUME CallInv, EpollCreate \/ AllocOp \/ AllocEvents
  PROVE  CallInv'
<1> USE NullAssumption DEF CallInv, Goto, EpollCreate, AllocOp, AllocEvents,
        EpollStep, system, config, made, methods, notify
<1>1. Types'
  <2>1. owned' \subseteq Descriptors \cup Blocks
        BY DEF Types, TypeOK, Descriptors, Blocks
  <2>2. at' \in Points /\ result' \in {NULL, "none", "base", "exit"}
        BY DEF Results, Points, Chosen, Equipped
  <2>3. evsigsel_op' \in {NULL, "signal"}
        BY DEF Types, TypeOK
  <2> QED BY <2>1, <2>2, <2>3, SameTypes
<1>2. EarlyHeld' /\ BackendHeld' /\ LateHeld'
  <2>1. EarlyHeld'
        BY DEF EarlyHeld, Opened, Chosen, Equipped
  <2>2. BackendHeld'
        BY DEF BackendHeld, Chosen, Equipped
  <2>3. LateHeld'
        BY DEF Results, EarlyHeld, LateHeld, Opened
  <2> QED BY <2>1, <2>2, <2>3
<1>3. Results'
      BY DEF Results
<1>4. ReturnedWhole' /\ FailureFrees'
      BY Unfinished DEF Results
<1> QED BY <1>1, <1>2, <1>3, <1>4

LEMMA TimerfdKeeps ==
  ASSUME CallInv, Timerfd
  PROVE  CallInv'
<1> USE NullAssumption DEF CallInv, Goto, Timerfd, WantsTimerfd, system, config,
        made, notify
<1>1. Types'
      BY DEF Types, TypeOK, Points, Chosen, Equipped, Descriptors
<1>2. EarlyHeld' /\ BackendHeld' /\ LateHeld'
      BY DEF Results, EarlyHeld, BackendHeld, LateHeld, Opened, Backend, OfNotify,
         Chosen, Equipped
<1>3. Results'
      BY DEF Results
<1>4. ReturnedWhole' /\ FailureFrees'
      BY Unfinished DEF Results
<1> QED BY <1>1, <1>2, <1>3, <1>4

LEMMA SignalsKeep ==
  ASSUME CallInv, Signals
  PROVE  CallInv'
<1> USE NullAssumption DEF CallInv, Goto, Signals, system, config, made, notify
<1>1. Types'
  <2>1. owned' \subseteq Descriptors \cup Blocks
        BY DEF Types, TypeOK, Descriptors, Blocks
  <2>2. at' \in Points /\ result' \in {NULL, "none", "base", "exit"}
        BY DEF Results, Points, Chosen, Equipped
  <2>3. evsigsel_op' \in {NULL, "signal"}
        BY DEF Types, TypeOK
  <2> QED BY <2>1, <2>2, <2>3, SameTypes
<1>2. EarlyHeld' /\ BackendHeld' /\ LateHeld'
      BY DEF Results, EarlyHeld, BackendHeld, LateHeld, Opened, Backend, OfNotify,
         Chosen, Equipped
<1>3. Results'
      BY DEF Results
<1>4. ReturnedWhole' /\ FailureFrees'
  <2>1. result' \in {NULL, "exit"}
        BY DEF Results
  <2> QED BY <2>1 DEF ReturnedWhole, FailureFrees
<1> QED BY <1>1, <1>2, <1>3, <1>4

LEMMA NoMechanismKeeps ==
  ASSUME CallInv, NoMechanism
  PROVE  CallInv'
<1> USE NullAssumption DEF CallInv, Goto, NoMechanism, system, config, made, notify
<1>1. Types'
  <2>1. closed_twice' \subseteq Descriptors /\ owned' \subseteq owned
        BY FreeLeavesBackend
  <2> QED BY <2>1 DEF FreeBase, Returns, Types, TypeOK, Points, Chosen, Equipped
<1>2. EarlyHeld' /\ BackendHeld' /\ LateHeld'
      BY DEF FreeBase, Returns, Results, EarlyHeld, BackendHeld, LateHeld, Opened,
         Backend, OfNotify, Chosen, Equipped
<1>3. Results'
      BY DEF FreeBase, Returns, Results
<1>4. ReturnedWhole' /\ FailureFrees'
  <2>1. owned' = {}
        BY DEF FreeBase, Returns, EarlyHeld, Opened, OfBase
  <2> QED BY <2>1 DEF FreeBase, Returns, ReturnedWhole, FailureFrees
<1> QED BY <1>1, <1>2, <1>3, <1>4

LEMMA InitQueuesKeeps ==
  ASSUME CallInv, InitQueues
  PROVE  CallInv'
<1> USE NullAssumption DEF CallInv, Goto, InitQueues, system, config, made, methods
<1>1. Types'
  <2>1. closed_twice' \subseteq Descriptors
        BY FreeLeavesBackend DEF Types, TypeOK
  <2>2. owned' \subseteq Descriptors \cup Blocks
        BY FreeLeavesBackend DEF Types, TypeOK, Blocks
  <2> QED BY <2>1, <2>2 DEF FreeBase, Returns, Types, TypeOK, Points, Chosen, Equipped
<1>2. EarlyHeld' /\ BackendHeld' /\ LateHeld'
      BY DEF FreeBase, Returns, Results, EarlyHeld, BackendHeld, LateHeld, Opened,
         Backend, OfNotify, Chosen, Equipped
<1>3. Results'
      BY DEF FreeBase, Returns, Results
<1>4. ReturnedWhole' /\ FailureFrees'
  <2>1. CASE result' = NULL
        BY <2>1, Unfinished
  <2>2. CASE FreeBase("none")
    <3>1. owned' \subseteq OfBackend
          BY <2>2, FreeLeavesBackend
    <3>2. evsel_op' # NULL
          BY DEF BackendHeld, Chosen, Equipped
    <3> QED BY <2>2, <3>1, <3>2 DEF FreeBase, Returns, ReturnedWhole, FailureFrees
  <2> QED BY <2>1, <2>2 DEF Results
<1> QED BY <1>1, <1>2, <1>3, <1>4

\* A base without a lock needs no way to be woken.
LEMMA AllocLockKeeps ==
  ASSUME CallInv, AllocLock
  PROVE  CallInv'
<1> USE NullAssumption DEF CallInv, Goto, AllocLock, Returns, system, config, made,
        methods, notify
<1>1. Types'
  <2>1. owned' \subseteq Descriptors \cup Blocks
        BY DEF Types, TypeOK, Descriptors, Blocks
  <2>2. at' \in Points /\ result' \in {NULL, "none", "base", "exit"}
        BY DEF Results, Points, Chosen, Equipped
  <2>3. evsigsel_op' \in {NULL, "signal"}
        BY DEF Types, TypeOK
  <2> QED BY <2>1, <2>2, <2>3, SameTypes
<1>2. EarlyHeld' /\ BackendHeld' /\ LateHeld'
      BY DEF Results, EarlyHeld, BackendHeld, LateHeld, Opened, Backend, OfNotify,
         Chosen, Equipped
<1>3. Results'
      BY DEF Results, BackendHeld, Chosen, Equipped
<1>4. ReturnedWhole' /\ FailureFrees'
  <2>1. CASE result' = NULL
        BY <2>1, Unfinished
  <2>2. CASE result' = "base"
    <3>1. /\ owned' = owned \ {"config"}
          /\ UNCHANGED <<asked, evsel_op, nactivequeues, monotonic_timer, th_notify_fn>>
          BY <2>2 DEF Results
    <3>2. /\ Backend \subseteq owned /\ {"base", "activequeues"} \subseteq owned
          /\ evsel_op # NULL /\ nactivequeues = 1
          /\ asked # NULL => ~asked.avoids
          /\ "timerfd" \in owned => monotonic_timer = "CLOCK_MONOTONIC"
          BY DEF EarlyHeld, BackendHeld, LateHeld, OfNotify, Chosen, Equipped
    <3>3. "th_base_lock" \notin owned
      <4>1. owned \cap OfNotify = {"activequeues"}
            BY DEF LateHeld
      <4> QED BY ONLY <4>1 DEF OfNotify
    <3> QED BY ONLY <2>2, <3>1, <3>2, <3>3 DEF Backend, ReturnedWhole, FailureFrees
  <2> QED BY <2>1, <2>2 DEF Results
<1> QED BY <1>1, <1>2, <1>3, <1>4

LEMMA MakePipeKeeps ==
  ASSUME CallInv, MakePipe
  PROVE  CallInv'
<1> USE NullAssumption DEF CallInv, Goto, MakePipe, system, config, made, methods
<1>1. Types'
      BY DEF Types, TypeOK, Points, Chosen, Equipped, Descriptors
<1>2. EarlyHeld' /\ BackendHeld' /\ LateHeld'
      BY DEF Results, EarlyHeld, BackendHeld, LateHeld, Opened, Backend, OfNotify,
         Chosen, Equipped
<1>3. Results'
      BY DEF Results
<1>4. ReturnedWhole' /\ FailureFrees'
      BY Unfinished DEF Results
<1> QED BY <1>1, <1>2, <1>3, <1>4

LEMMA AddNotifyKeeps ==
  ASSUME CallInv, AddNotify
  PROVE  CallInv'
<1> USE NullAssumption DEF CallInv, Goto, AddNotify, Returns, system, config, made,
        methods, notify
<1>1. Types'
      BY DEF Types, TypeOK, Points, Chosen, Equipped
<1>2. EarlyHeld' /\ BackendHeld' /\ LateHeld'
      BY DEF Results, EarlyHeld, BackendHeld, LateHeld, Opened, Backend, OfNotify,
         Chosen, Equipped
<1>3. Results'
      BY DEF Results, BackendHeld, Chosen, Equipped
<1>4. ReturnedWhole' /\ FailureFrees'
  <2>1. CASE result' = NULL
        BY <2>1, Unfinished
  <2>2. CASE result' = "base"
    <3>1. /\ owned' = owned \ {"config"}
          /\ UNCHANGED <<asked, evsel_op, nactivequeues, monotonic_timer, th_notify_fn>>
          BY <2>2 DEF Results
    <3>2. /\ Backend \subseteq owned /\ {"base", "activequeues"} \subseteq owned
          /\ evsel_op # NULL /\ nactivequeues = 1
          /\ asked # NULL => ~asked.avoids
          /\ "timerfd" \in owned => monotonic_timer = "CLOCK_MONOTONIC"
          BY DEF EarlyHeld, BackendHeld, LateHeld, OfNotify, Chosen, Equipped
    <3>3. th_notify_fn /\ "th_notify_fd" \in owned
          BY DEF LateHeld
    <3> QED BY ONLY <2>2, <3>1, <3>2, <3>3 DEF Backend, ReturnedWhole, FailureFrees
  <2> QED BY <2>1, <2>2 DEF Results
<1> QED BY <1>1, <1>2, <1>3, <1>4

LEMMA UnnotifiableKeeps ==
  ASSUME CallInv, Unnotifiable
  PROVE  CallInv'
<1> USE NullAssumption DEF CallInv, Goto, Unnotifiable, system, config, made, methods
<1>1. Types'
  <2>1. closed_twice' \subseteq Descriptors /\ owned' \subseteq owned
        BY FreeLeavesBackend
  <2> QED BY <2>1 DEF FreeBase, Returns, Types, TypeOK, Points, Chosen, Equipped
<1>2. EarlyHeld' /\ BackendHeld' /\ LateHeld'
      BY DEF FreeBase, Returns, Results, EarlyHeld, BackendHeld, LateHeld, Opened,
         Backend, OfNotify, Chosen, Equipped
<1>3. Results'
      BY DEF FreeBase, Returns, Results
<1>4. ReturnedWhole' /\ FailureFrees'
  <2>1. owned' \subseteq OfBackend
        BY FreeLeavesBackend
  <2>2. evsel_op' # NULL
        BY DEF BackendHeld, Chosen, Equipped, Results
  <2> QED BY <2>1, <2>2 DEF FreeBase, Returns, ReturnedWhole, FailureFrees
<1> QED BY <1>1, <1>2, <1>3, <1>4

LEMMA FreeKeeps ==
  ASSUME CallInv, Free
  PROVE  CallInv'
<1> USE NullAssumption DEF CallInv, Goto, Free, system, config, made, methods
<1>1. Types'
  <2>1. closed_twice' \subseteq Descriptors /\ owned' \subseteq owned
        BY FreeLeavesBackend
  <2> QED BY <2>1 DEF FreeBase, Returns, Types, TypeOK, Points, Chosen, Equipped
<1>2. EarlyHeld' /\ BackendHeld' /\ LateHeld'
      BY DEF FreeBase, Returns, Results, EarlyHeld, BackendHeld, LateHeld, Opened,
         Backend, OfNotify, Chosen, Equipped
<1>3. Results'
      BY DEF FreeBase, Returns, Results
<1>4. ReturnedWhole' /\ FailureFrees'
  <2>1. owned' \subseteq OfBackend
        BY FreeLeavesBackend
  <2>2. evsel_op' # NULL
        BY DEF BackendHeld, Chosen, Equipped, Results
  <2> QED BY <2>1, <2>2 DEF FreeBase, Returns, ReturnedWhole, FailureFrees
<1> QED BY <1>1, <1>2, <1>3, <1>4

LEMMA StartsRight == Init => CallInv
<1> SUFFICES ASSUME Init PROVE CallInv
    OBVIOUS
<1>1. limits \in [max_dispatch_callbacks : 0 .. INT_MAX,
                  limit_callbacks_after_priority : Int]
      BY LimitsAreTyped DEF Init
<1>2. Types
      BY <1>1 DEF Init, Types, TypeOK, Points
<1>3. EarlyHeld /\ BackendHeld /\ LateHeld /\ Results
      BY NullAssumption DEF Init, EarlyHeld, BackendHeld, LateHeld, Results, Chosen,
         Equipped
<1>4. ReturnedWhole /\ FailureFrees
      BY NullAssumption DEF Init, ReturnedWhole, FailureFrees
<1> QED BY <1>2, <1>3, <1>4 DEF CallInv

LEMMA StepsKeep == CallInv /\ [Next]_vars => CallInv'
<1>1. ASSUME CallInv, UNCHANGED vars PROVE CallInv'
  <2> USE <1>1 DEF CallInv, vars, system, config, made, methods, notify
  <2>1. Types'
        BY DEF Types, TypeOK
  <2>2. EarlyHeld' /\ BackendHeld' /\ LateHeld' /\ Results'
        BY DEF EarlyHeld, BackendHeld, LateHeld, Results
  <2>3. ReturnedWhole' /\ FailureFrees'
        BY DEF ReturnedWhole, FailureFrees
  <2> QED BY <2>1, <2>2, <2>3
<1> QED BY <1>1, NewKeeps, NewWithConfigKeeps, AllocateKeeps, TakeEpollKeeps,
           SkipEpollKeeps, ReadPastEndKeeps, EpollInitKeeps, TimerfdKeeps,
           SignalsKeep, NoMechanismKeeps,
           InitQueuesKeeps, AllocLockKeeps, MakePipeKeeps, AddNotifyKeeps,
           UnnotifiableKeeps, FreeKeeps
        DEF Next, Step

(* Whatever a program asks for, whatever the environment says and whatever *)
(* allocation or system call fails, a base that is returned is whole: its  *)
(* backend was not to be avoided and is complete, and where it has a lock  *)
(* its loop can be woken (lu_event_base_new_with_config).                  *)
THEOREM ReturnedBasesAreWhole == Spec => []BaseInv
<1>1. CallInv => BaseInv
      BY DEF CallInv, Types, BaseInv
<1> QED BY <1>1, StartsRight, StepsKeep, PTL DEF Spec

(* Whichever step fails, the call frees its configuration, the base, the   *)
(* queues and the lock, and a backend that was not set up leaves nothing   *)
(* (lu_event_base_new_with_config, lu_event_base_free_, lu_epoll_init).    *)
THEOREM FailedCallsFree == Spec => []FailureFrees
<1>1. CallInv => FailureFrees
      BY DEF CallInv
<1> QED BY <1>1, StartsRight, StepsKeep, PTL DEF Spec

-----------------------------------------------------------------------------
(***************************************************************************)
(* The clock of the base.                                                  *)
(***************************************************************************)

\* The last time is the time of day as it was read, corrected; a time that was
\* shown is not later than the clock it was read from.
Corrected == last_time = timeradd(seen, adjust_monotonic_clock)
Fresh ==
  monotonic_clock = NONE =>
    /\ shown = zero /\ last_time = zero /\ tv_cache = zero /\ seen = zero
    /\ adjust_monotonic_clock = zero
LastShown == monotonic_clock = "TIME_OF_DAY" => shown = last_time
NotAhead ==
  monotonic_clock \in Clocks =>
    ~timercmp(ToTimeval(kernel[monotonic_clock]), shown)
CopyShown == tv_cache.tv_sec /= 0 => tv_cache = shown

TimeInv ==
  /\ TimesOK
  /\ Corrected
  /\ Fresh
  /\ LastShown
  /\ NotAhead
  /\ CopyShown

------------------------------------------------------------------------------
LEMMA MillionPositive == Million \in Nat \ {0}
BY SMT DEF Million

\* Sums and differences of times are times (lu_evutil_timeradd, timersub).
LEMMA SumIsTime ==
  ASSUME NEW s \in Timeval, NEW t \in Timeval
  PROVE  timeradd(s, t) \in Timeval
BY MillionPositive, SMT DEF timeradd, Timeval

LEMMA DifferenceIsTime ==
  ASSUME NEW s \in Timeval, NEW t \in Timeval, ~timercmp(s, t)
  PROVE  timersub(s, t) \in Timeval
BY MillionPositive, SMT DEF timersub, timercmp, Timeval

\* A correction by what is missing to last makes up for all of it
\* (lu_evutil_adjust_monotonic_time).
LEMMA CorrectionMakesUp ==
  ASSUME NEW now \in Timeval, NEW adjust \in Timeval, NEW last \in Timeval,
         timercmp(timeradd(now, adjust), last)
  PROVE  timeradd(now, timeradd(timersub(last, timeradd(now, adjust)), adjust))
           = last
BY MillionPositive, SMT DEF timeradd, timersub, timercmp, Timeval

\* The order of corrected times is the order of the times, and so are their
\* differences.
LEMMA CorrectionKeepsOrder ==
  ASSUME NEW s \in Timeval, NEW t \in Timeval, NEW adjust \in Timeval
  PROVE  /\ timercmp(timeradd(s, adjust), timeradd(t, adjust)) <=> timercmp(s, t)
         /\ ~timercmp(s, t) =>
              timeradd(s, adjust) = timeradd(timeradd(t, adjust), timersub(s, t))
<1>1. timercmp(timeradd(s, adjust), timeradd(t, adjust)) <=> timercmp(s, t)
    BY MillionPositive, SMT DEF timeradd, timercmp, Timeval
<1>2. ASSUME ~timercmp(s, t)
      PROVE  timeradd(s, adjust) = timeradd(timeradd(t, adjust), timersub(s, t))
    BY <1>2, MillionPositive, SMT DEF timeradd, timersub, timercmp, Timeval
<1> QED
    BY <1>1, <1>2

\* Cutting nanoseconds gives a time and keeps the order
\* (lu_evutil_gettime_monotonic_).
LEMMA CutIsTime ==
  ASSUME NEW ts \in Timespec
  PROVE  ToTimeval(ts) \in Timeval
BY MillionPositive, SMT DEF ToTimeval, Timeval, Timespec

LEMMA CutKeepsOrder ==
  ASSUME NEW s \in Timespec, NEW t \in Timespec, Later(s, t)
  PROVE  ~timercmp(ToTimeval(t), ToTimeval(s))
BY DEF ToTimeval, Timespec, Later, timercmp

LEMMA OrderTransitive ==
  ASSUME NEW r \in Timeval, NEW s \in Timeval, NEW t \in Timeval,
         ~timercmp(s, r), ~timercmp(t, s)
  PROVE  ~timercmp(t, r)
BY DEF timercmp, Timeval

------------------------------------------------------------------------------
LEMMA ZeroIsTime == zero \in Timeval /\ timeradd(zero, zero) = zero
BY MillionPositive, SMT DEF zero, timeradd, Timeval

LEMMA TimeStarts == TimeInit => TimeInv
<1> SUFFICES ASSUME TimeInit PROVE TimeInv
    OBVIOUS
<1>1. TimesOK
    BY ZeroIsTime, BoundAssumption DEF TimeInit, TimesOK
<1> QED
    BY <1>1, ZeroIsTime, BoundAssumption
    DEF TimeInit, TimeInv, Corrected, Fresh, LastShown, NotAhead, CopyShown, zero

\* lu_evutil_adjust_monotonic_time: the time read last is the time of day,
\* corrected, and no earlier than the one before.
LEMMA ReadingIsCorrected ==
  ASSUME TimeInv, GetTimeOfDay
  PROVE  /\ last_time' \in Timeval /\ adjust_monotonic_clock' \in Timeval
         /\ shown' = last_time'
         /\ Corrected'
         /\ ~timercmp(last_time', last_time)
<1> DEFINE now == timeradd(time_of_day, adjust_monotonic_clock)
<1>1. /\ time_of_day \in Timeval /\ last_time \in Timeval
      /\ adjust_monotonic_clock \in Timeval
    BY TimesAssumption DEF TimeInv, TimesOK
<1>2. now \in Timeval
    BY <1>1, SumIsTime
<1>3. CASE timercmp(now, last_time)
  <2>1. /\ adjust_monotonic_clock' =
             timeradd(timersub(last_time, now), adjust_monotonic_clock)
        /\ last_time' = last_time /\ shown' = last_time /\ seen' = time_of_day
      BY <1>3 DEF GetTimeOfDay, adjust_monotonic_time
  <2>2. ~timercmp(last_time, now)
      BY <1>1, <1>2, <1>3 DEF timercmp, Timeval
  <2>3. timersub(last_time, now) \in Timeval
      BY <1>1, <1>2, <2>2, DifferenceIsTime
  <2>4. adjust_monotonic_clock' \in Timeval
      BY <1>1, <2>1, <2>3, SumIsTime
  <2>5. timeradd(time_of_day,
                 timeradd(timersub(last_time, now), adjust_monotonic_clock))
          = last_time
      BY <1>1, <1>3, CorrectionMakesUp
  <2>6. ~timercmp(last_time, last_time)
      BY <1>1 DEF timercmp, Timeval
  <2> QED
      BY <1>1, <2>1, <2>4, <2>5, <2>6 DEF Corrected
<1>4. CASE ~timercmp(now, last_time)
  <2>1. /\ last_time' = now /\ shown' = now /\ seen' = time_of_day
        /\ adjust_monotonic_clock' = adjust_monotonic_clock
      BY <1>4 DEF GetTimeOfDay, adjust_monotonic_time
  <2> QED
      BY <1>1, <1>2, <1>4, <2>1 DEF Corrected
<1> QED
    BY <1>3, <1>4

\* The clock in use goes on, so that what was shown stays behind it.
LEMMA KernelStaysAhead ==
  ASSUME TimeInv, NEW k \in [Clocks -> KernelTimes], KernelMoves(k)
  PROVE  NotAhead'
<1> SUFFICES ASSUME monotonic_clock \in Clocks
             PROVE  ~timercmp(ToTimeval(k[monotonic_clock]), shown)
    BY DEF KernelMoves, NotAhead, timer
<1> DEFINE now == kernel[monotonic_clock]
           next == k[monotonic_clock]
<1>1. now \in Timespec /\ next \in Timespec /\ shown \in Timeval
    BY TimesAssumption DEF TimeInv, TimesOK
<1>2. Later(now, next)
    BY DEF KernelMoves
<1>3. ~timercmp(ToTimeval(next), ToTimeval(now))
    BY <1>1, <1>2, CutKeepsOrder
<1>4. ~timercmp(ToTimeval(now), shown)
    BY DEF TimeInv, NotAhead
<1>5. ToTimeval(now) \in Timeval /\ ToTimeval(next) \in Timeval
    BY <1>1, CutIsTime
<1> QED
    BY <1>1, <1>3, <1>4, <1>5, OrderTransitive

LEMMA TimeStepsKeep == TimeInv /\ [TimeNext]_timeVars => TimeInv'
<1> SUFFICES ASSUME TimeInv, [TimeNext]_timeVars PROVE TimeInv'
    OBVIOUS
<1> USE DEF timer, systemClocks
<1>1. ASSUME NEW asks \in SUBSET Flags, NEW works \in SUBSET Clocks,
             Configure(asks, works)
      PROVE  TimeInv'
  <2>1. monotonic_clock' \in Clocks \cup {"TIME_OF_DAY"}
      BY <1>1 DEF Configure, Clocks
  <2>2. /\ monotonic_clock = NONE /\ last_time' = zero
        /\ adjust_monotonic_clock' = zero
        /\ UNCHANGED <<tv_cache, time_of_day, kernel, set_back, seen, shown>>
      BY <1>1 DEF Configure
  <2>3. shown = zero /\ seen = zero /\ tv_cache = zero
      BY <2>2 DEF TimeInv, Fresh
  <2>4. TimesOK'
      BY <2>1, <2>2, ZeroIsTime DEF TimeInv, TimesOK
  <2>5. NotAhead'
    <3> SUFFICES ASSUME monotonic_clock' \in Clocks
                 PROVE  ~timercmp(ToTimeval(kernel[monotonic_clock']), zero)
        BY <2>2, <2>3 DEF NotAhead
    <3>1. kernel[monotonic_clock'] \in Timespec
        BY TimesAssumption DEF TimeInv, TimesOK
    <3>2. ToTimeval(kernel[monotonic_clock']) \in Timeval
        BY <3>1, CutIsTime
    <3> QED
        BY <3>2 DEF timercmp, zero, Timeval
  <2> QED
      BY <2>1, <2>2, <2>3, <2>4, <2>5, ZeroIsTime, BoundAssumption
      DEF TimeInv, Corrected, Fresh, LastShown, CopyShown, zero
<1>2. CASE GetCached
  <2>1. shown' = shown
      BY <1>2 DEF GetCached, TimeInv, CopyShown
  <2> QED
      BY <1>2, <2>1
      DEF GetCached, TimeInv, TimesOK, Corrected, Fresh, LastShown, NotAhead, CopyShown
<1>3. CASE GetKernel
  <2>1. shown' \in Timeval
      BY <1>3, CutIsTime, TimesAssumption DEF GetKernel, TimeInv, TimesOK
  <2>2. TimesOK'
      BY <1>3, <2>1 DEF GetKernel, TimeInv, TimesOK
  <2>3. NotAhead'
    <3>1. ~timercmp(shown', shown')
        BY <2>1 DEF timercmp, Timeval
    <3> QED
        BY <1>3, <3>1 DEF GetKernel, NotAhead
  <2>4. monotonic_clock \notin {NONE, "TIME_OF_DAY"}
      BY <1>3, BoundAssumption DEF GetKernel, Clocks
  <2> QED
      BY <1>3, <2>2, <2>3, <2>4
      DEF GetKernel, TimeInv, Corrected, Fresh, LastShown, CopyShown
<1>4. CASE GetTimeOfDay
  <2>1. /\ last_time' \in Timeval /\ adjust_monotonic_clock' \in Timeval
        /\ shown' = last_time' /\ Corrected'
      BY <1>4, ReadingIsCorrected
  <2>2. /\ monotonic_clock = "TIME_OF_DAY" /\ tv_cache.tv_sec = 0
        /\ seen' = time_of_day
        /\ UNCHANGED <<monotonic_clock, tv_cache, time_of_day, kernel, set_back>>
      BY <1>4 DEF GetTimeOfDay
  <2>3. TimesOK'
      BY <2>1, <2>2, TimesAssumption DEF TimeInv, TimesOK
  <2>4. monotonic_clock \notin Clocks \cup {NONE}
      BY <2>2, BoundAssumption DEF Clocks
  <2> QED
      BY <2>1, <2>2, <2>3, <2>4 DEF TimeInv, Fresh, LastShown, NotAhead, CopyShown
<1>5. CASE FillCache
    BY <1>5
    DEF FillCache, TimeInv, TimesOK, Corrected, Fresh, LastShown, NotAhead, CopyShown
<1>6. CASE ClearCache
    BY <1>6, ZeroIsTime
    DEF ClearCache, TimeInv, TimesOK, Corrected, Fresh, LastShown, NotAhead, CopyShown,
        zero
<1>7. ASSUME NEW t \in TimesOfDay, TimeOfDayMoves(t)
      PROVE  TimeInv'
  <2>1. set_back' \in 0 .. MaxSetBack
      BY <1>7, BoundAssumption DEF TimeOfDayMoves, TimeInv, TimesOK
  <2> QED
      BY <1>7, <2>1
      DEF TimeOfDayMoves, TimeInv, TimesOK, Corrected, Fresh, LastShown, NotAhead,
          CopyShown
<1>8. ASSUME NEW k \in [Clocks -> KernelTimes], KernelMoves(k)
      PROVE  TimeInv'
  <2>1. NotAhead'
      BY <1>8, KernelStaysAhead
  <2> QED
      BY <1>8, <2>1
      DEF KernelMoves, TimeInv, TimesOK, Corrected, Fresh, LastShown, CopyShown
<1>9. CASE UNCHANGED timeVars
    BY <1>9
    DEF timeVars, TimeInv, TimesOK, Corrected, Fresh, LastShown, NotAhead, CopyShown
<1> QED
    BY <1>1, <1>2, <1>3, <1>4, <1>5, <1>6, <1>7, <1>8, <1>9 DEF TimeNext

------------------------------------------------------------------------------
(* Times are well formed whatever the clocks do: the macros neither leave a *)
(* carry nor go below zero (lu_evutil_timeradd, lu_evutil_timersub).        *)
THEOREM TimesWellFormed == TimeSpec => []TimesOK
<1>1. TimeInv => TimesOK
    BY DEF TimeInv
<1> QED
    BY <1>1, TimeStarts, TimeStepsKeep, PTL DEF TimeSpec

LEMMA StepNeverBack ==
  TimeInv /\ [TimeNext]_timeVars => [~timercmp(shown', shown)]_timeVars
<1> SUFFICES ASSUME TimeInv, TimeNext PROVE ~timercmp(shown', shown)
    OBVIOUS
<1> USE DEF timer, systemClocks
<1>1. ~timercmp(shown, shown)
    BY DEF TimeInv, TimesOK, timercmp, Timeval
<1>2. CASE GetCached
    BY <1>1, <1>2 DEF GetCached, TimeInv, CopyShown
<1>3. CASE GetKernel
    BY <1>3 DEF GetKernel, TimeInv, NotAhead
<1>4. CASE GetTimeOfDay
  <2>1. shown = last_time
      BY <1>4 DEF GetTimeOfDay, TimeInv, LastShown
  <2> QED
      BY <1>4, <2>1, ReadingIsCorrected
<1>5. CASE UNCHANGED shown
    BY <1>1, <1>5
<1> QED
    BY <1>2, <1>3, <1>4, <1>5
    DEF TimeNext, Configure, FillCache, ClearCache, TimeOfDayMoves, KernelMoves

(* The time of a base never goes back, for any clocks of the system and    *)
(* any number of times the time of day is set back (gettime).              *)
THEOREM TimeNeverGoesBack == TimeSpec => NeverBack
BY TimeStarts, TimeStepsKeep, StepNeverBack, PTL DEF TimeSpec, NeverBack

LEMMA StepElapsedShown ==
  TimeInv /\ [TimeNext]_timeVars =>
    [GetTimeOfDay =>
       shown' = IF timercmp(time_of_day, seen)
                THEN last_time
                ELSE timeradd(last_time, timersub(time_of_day, seen))]_timeVars
<1> SUFFICES ASSUME TimeInv, GetTimeOfDay
             PROVE  shown' = IF timercmp(time_of_day, seen)
                             THEN last_time
                             ELSE timeradd(last_time, timersub(time_of_day, seen))
    OBVIOUS
<1> DEFINE now == timeradd(time_of_day, adjust_monotonic_clock)
<1>1. /\ time_of_day \in Timeval /\ seen \in Timeval
      /\ adjust_monotonic_clock \in Timeval
    BY TimesAssumption DEF TimeInv, TimesOK
<1>2. last_time = timeradd(seen, adjust_monotonic_clock)
    BY DEF TimeInv, Corrected
<1>3. /\ timercmp(now, last_time) <=> timercmp(time_of_day, seen)
      /\ ~timercmp(time_of_day, seen) =>
           now = timeradd(last_time, timersub(time_of_day, seen))
    BY <1>1, <1>2, CorrectionKeepsOrder
<1>4. shown' = IF timercmp(now, last_time) THEN last_time ELSE now
    BY DEF GetTimeOfDay, adjust_monotonic_time
<1> QED
    BY <1>3, <1>4

(* However often the time of day was set back, the time of a base goes on  *)
(* by exactly what passed since the last reading and stands still where it *)
(* was set back (lu_evutil_adjust_monotonic_time).                         *)
THEOREM TimePassesOn == TimeSpec => ElapsedShown
BY TimeStarts, TimeStepsKeep, StepElapsedShown, PTL DEF TimeSpec, ElapsedShown

-----------------------------------------------------------------------------
(***************************************************************************)
(* The signals of a base: while one base catches them, none is lost and    *)
(* none is counted twice, for every set of signals and every size of pipe  *)
(* and array.  First how the number of times a signal stands in a sequence *)
(* changes with it, then the types, then one lemma per step of the         *)
(* callback.                                                               *)
(***************************************************************************)

Places(s, read, from, to) == {j \in from .. to : read[j] = s}

LEMMA PlacesFinite ==
  ASSUME NEW s, NEW read, NEW from \in Int, NEW to \in Int
  PROVE  /\ IsFiniteSet(Places(s, read, from, to))
         /\ Times(s, read, from, to) = Cardinality(Places(s, read, from, to))
         /\ Times(s, read, from, to) \in Nat
<1>1. IsFiniteSet(from .. to)
      BY FS_Interval
<1>2. IsFiniteSet(Places(s, read, from, to))
      BY <1>1, FS_Subset DEF Places
<1> QED BY <1>2, FS_CardinalityType DEF Times, Places

\* Sequences that agree have a signal as often.
LEMMA TimesSame ==
  ASSUME NEW s, NEW r1, NEW r2, NEW from \in Int, NEW to \in Int,
         \A j \in from .. to : r1[j] = r2[j]
  PROVE  Times(s, r1, from, to) = Times(s, r2, from, to)
<1>1. Places(s, r1, from, to) = Places(s, r2, from, to)
      BY DEF Places
<1> QED BY <1>1, PlacesFinite

LEMMA TimesEmpty ==
  ASSUME NEW s, NEW read, NEW from \in Int, NEW to \in Int, to < from
  PROVE  Times(s, read, from, to) = 0
<1>1. Places(s, read, from, to) = {}
      BY DEF Places
<1> QED BY <1>1, PlacesFinite, FS_EmptySet

LEMMA TimesSplit ==
  ASSUME NEW s, NEW read, NEW from \in Int, NEW mid \in Int, NEW to \in Int,
         from <= mid + 1, mid <= to
  PROVE  Times(s, read, from, to) =
           Times(s, read, from, mid) + Times(s, read, mid + 1, to)
<1> DEFINE A == Places(s, read, from, mid)
           B == Places(s, read, mid + 1, to)
<1>1. Places(s, read, from, to) = A \cup B
      BY DEF Places
<1>2. A \cap B = {}
      BY DEF Places
<1>3. /\ IsFiniteSet(A) /\ IsFiniteSet(B)
      /\ Cardinality(A) \in Nat /\ Cardinality(B) \in Nat
      BY PlacesFinite, FS_CardinalityType
<1>4. Cardinality(A \cap B) = 0
      BY <1>2, FS_EmptySet
<1>5. Cardinality(A \cup B) = Cardinality(A) + Cardinality(B) - Cardinality(A \cap B)
  <2> HIDE DEF A, B
  <2> QED BY <1>3, FS_Union
<1>6. Cardinality(A \cup B) = Cardinality(A) + Cardinality(B)
  <2> HIDE DEF A, B
  <2> QED BY <1>3, <1>4, <1>5
<1>7. /\ Times(s, read, from, mid) = Cardinality(A)
      /\ Times(s, read, mid + 1, to) = Cardinality(B)
      /\ Times(s, read, from, to) = Cardinality(Places(s, read, from, to))
      BY PlacesFinite
<1> QED BY <1>1, <1>6, <1>7

LEMMA TimesOne ==
  ASSUME NEW s, NEW read, NEW k \in Int
  PROVE  Times(s, read, k, k) = IF read[k] = s THEN 1 ELSE 0
<1>1. Places(s, read, k, k) = IF read[k] = s THEN {k} ELSE {}
      BY DEF Places
<1> QED BY <1>1, PlacesFinite, FS_EmptySet, FS_Singleton

\* What moves to the front of a sequence is there as often.
LEMMA TimesShift ==
  ASSUME NEW s, NEW r1, NEW r2, NEW d \in Nat, NEW len \in Nat,
         \A j \in 1 .. len : r1[j] = r2[j + d]
  PROVE  Times(s, r1, 1, len) = Times(s, r2, d + 1, d + len)
<1> DEFINE A == Places(s, r1, 1, len)
           B == Places(s, r2, d + 1, d + len)
           f == [j \in A |-> j + d]
<1>1. IsFiniteSet(A)
      BY PlacesFinite
<1>2. f \in [A -> B]
      BY DEF Places
<1>3. \A j, k \in A : f[j] = f[k] => j = k
      BY DEF Places
<1>4. \A k \in B : \E j \in A : f[j] = k
  <2> TAKE k \in B
  <2>1. k - d \in 1 .. len /\ k - d + d = k
        BY DEF Places
  <2>2. k - d \in A
        BY <2>1 DEF Places
  <2> WITNESS k - d \in A
  <2> QED BY <2>1, <2>2
<1>5. f \in Bijection(A, B)
      BY <1>2, <1>3, <1>4, Zenon DEF Bijection, Injection, Surjection, IsInjective
<1>6. Cardinality(A) = Cardinality(B)
      BY <1>1, <1>5, FS_Bijection DEF ExistsBijection
<1> QED BY <1>6, PlacesFinite

-----------------------------------------------------------------------------
PipeTypeInv ==
  /\ PipeTypeOK
  /\ pipe \in [Bases -> Seq(Numbers)]
  /\ ncaught \in [Bases -> [Numbers -> Nat]]
  /\ caught \in [Bases -> [Numbers -> Nat]]
  /\ active \in [Bases -> [Numbers -> Nat]]

LEMMA SignalNumbers == \A s \in Numbers : s \in Nat /\ s < NSIG
BY PipeConstants

LEMMA PipeInitTypes == PipeInit => PipeTypeInv
BY PipeConstants DEF PipeInit, PipeTypeInv, PipeTypeOK, None

LEMMA PipeStepTypes == PipeTypeInv /\ [PipeNext]_pipeVars => PipeTypeInv'
<1> SUFFICES ASSUME PipeTypeInv, [PipeNext]_pipeVars PROVE PipeTypeInv'
    OBVIOUS
<1> USE PipeConstants DEF PipeTypeInv, PipeTypeOK, MoveTo
<1>1. ASSUME NEW b \in Bases, NEW s \in Numbers, Caught(b, s) PROVE PipeTypeInv'
  <2>1. Append(pipe[b], s) \in Seq(Numbers)
        OBVIOUS
  <2>2. pipe' \in [Bases -> Seq(Numbers)]
        BY <1>1, <2>1 DEF Caught
  <2>3. ncaught' \in [Bases -> [Numbers -> Nat]] /\ caught' \in [Bases -> [Numbers -> Nat]]
        BY <1>1 DEF Caught
  <2> QED BY <1>1, <2>2, <2>3 DEF Caught
<1>2. ASSUME NEW b \in Bases, Enter(b) PROVE PipeTypeInv'
      BY <1>2 DEF Enter, None
<1>3. ASSUME NEW b \in Bases, Read(b) PROVE PipeTypeInv'
  <2> DEFINE got == IF Len(pipe[b]) < BufferSize THEN Len(pipe[b]) ELSE BufferSize
  <2>1. pipe[b] \in Seq(Numbers) /\ Len(pipe[b]) \in Nat
        OBVIOUS
  <2>2. got \in 1 .. BufferSize /\ got <= Len(pipe[b])
        BY <1>3, <2>1 DEF Read
  <2>3. SubSeq(pipe[b], got + 1, Len(pipe[b])) \in Seq(Numbers)
        BY <2>1, <2>2
  <2>4. \A j \in 1 .. got : pipe[b][j] \in Numbers
        BY <2>1, <2>2
  <2>5. /\ n' = [n EXCEPT ![b] = got] /\ i' = [i EXCEPT ![b] = 0]
        /\ pipe' = [pipe EXCEPT ![b] = SubSeq(@, got + 1, Len(@))]
        /\ signals' = [j \in 1 .. BufferSize |-> IF j <= got THEN pipe[b][j] ELSE signals[j]]
        /\ point' = [point EXCEPT ![b] = "count"]
        /\ UNCHANGED <<ncaught, caught, active>>
        BY <1>3 DEF Read
  <2>6. signals' \in [1 .. BufferSize -> Numbers \cup {0}]
        BY <2>2, <2>4, <2>5
  <2>7. pipe' \in [Bases -> Seq(Numbers)]
        BY <2>3, <2>5
  <2> HIDE DEF got
  <2> QED BY <2>2, <2>5, <2>6, <2>7
<1>4. ASSUME NEW b \in Bases, ReadFails(b) PROVE PipeTypeInv'
      BY <1>4 DEF ReadFails
<1>5. ASSUME NEW b \in Bases, Count(b) PROVE PipeTypeInv'
      BY <1>5 DEF Count
<1>6. ASSUME NEW b \in Bases, Counted(b) PROVE PipeTypeInv'
      BY <1>6 DEF Counted
<1>7. ASSUME NEW b \in Bases, Activate(b) PROVE PipeTypeInv'
      BY <1>7 DEF Activate
<1>8. CASE UNCHANGED pipeVars
      BY <1>8 DEF pipeVars
<1> QED BY <1>1, <1>2, <1>3, <1>4, <1>5, <1>6, <1>7, <1>8 DEF PipeNext, GoOn

(* No read goes past the array, and the loop over it not past what was     *)
(* read, with any number of bases (lu_evsig_cb).                           *)
THEOREM ArrayTypes == PipeSpec => []PipeTypeOK
<1>1. PipeTypeInv => PipeTypeOK
      BY DEF PipeTypeInv
<1> QED BY <1>1, PipeInitTypes, PipeStepTypes, PTL DEF PipeSpec
-----------------------------------------------------------------------------
PipeIInv == PipeTypeInv /\ EverySignalOnce

LEMMA PipeInitOnce == PipeInit => EverySignalOnce
<1> SUFFICES ASSUME PipeInit, NEW b \in Bases, NEW s \in Numbers
             PROVE caught[b][s] = Unread(b, s) + Uncounted(b, s) + Waiting(b, s) + active[b][s]
    BY DEF EverySignalOnce
<1>1. Times(s, pipe[b], 1, Len(pipe[b])) = 0
      BY TimesEmpty DEF PipeInit
<1> QED BY <1>1 DEF PipeInit, None, Unread, Uncounted, Waiting

\* What is on its way is a number of times.
LEMMA WayTypes ==
  ASSUME PipeTypeInv, NEW b \in Bases, NEW s \in Numbers
  PROVE  /\ Unread(b, s) \in Nat /\ Uncounted(b, s) \in Nat /\ Waiting(b, s) \in Nat
         /\ caught[b][s] \in Nat /\ active[b][s] \in Nat /\ ncaught[b][s] \in Nat
<1>1. Len(pipe[b]) \in Nat /\ i[b] \in Int /\ n[b] \in Int
      BY DEF PipeTypeInv, PipeTypeOK
<1>2. Unread(b, s) \in Nat
      BY <1>1, PlacesFinite DEF Unread
<1>3. Uncounted(b, s) \in Nat
      BY <1>1, PlacesFinite DEF Uncounted
<1> QED BY <1>2, <1>3 DEF PipeTypeInv, Waiting

LEMMA CaughtOnce ==
  ASSUME PipeIInv, NEW b \in Bases, NEW s \in Numbers, Caught(b, s), Bases = {b}
  PROVE  EverySignalOnce'
<1> USE DEF PipeIInv, PipeTypeInv, PipeTypeOK
<1> SUFFICES ASSUME NEW t \in Numbers
             PROVE (caught[b][t] = Unread(b, t) + Uncounted(b, t) + Waiting(b, t) + active[b][t])'
    BY DEF EverySignalOnce
<1> DEFINE p == pipe[b]
           q == Append(p, s)
<1>1. p \in Seq(Numbers) /\ Len(p) \in Nat
      OBVIOUS
<1>2. Len(q) = Len(p) + 1 /\ q[Len(p) + 1] = s /\ \A j \in 1 .. Len(p) : q[j] = p[j]
      BY <1>1
<1>3. pipe'[b] = q
      BY DEF Caught
<1> HIDE DEF p, q
<1>4. Times(t, q, 1, Len(q)) = Times(t, q, 1, Len(p)) + Times(t, q, Len(p) + 1, Len(p) + 1)
      BY <1>1, <1>2, TimesSplit
<1>5. Times(t, q, 1, Len(p)) = Times(t, p, 1, Len(p))
  <2>1. 1 \in Int /\ Len(p) \in Int /\ \A j \in 1 .. Len(p) : q[j] = p[j]
        BY <1>1, <1>2
  <2> HIDE DEF PipeIInv, PipeTypeInv, PipeTypeOK
  <2> QED BY ONLY <2>1, TimesSame
<1>6. Times(t, q, Len(p) + 1, Len(p) + 1) = IF t = s THEN 1 ELSE 0
      BY <1>1, <1>2, TimesOne
<1>7. Unread(b, t)' = Unread(b, t) + (IF t = s THEN 1 ELSE 0)
      BY <1>3, <1>4, <1>5, <1>6 DEF Unread, p
<1>8. caught'[b][t] = caught[b][t] + (IF t = s THEN 1 ELSE 0)
      BY DEF Caught
<1>9. Uncounted(b, t)' = Uncounted(b, t) /\ Waiting(b, t)' = Waiting(b, t) /\ active' = active
      BY DEF Caught, Uncounted, Waiting
<1>10. caught[b][t] = Unread(b, t) + Uncounted(b, t) + Waiting(b, t) + active[b][t]
      BY DEF EverySignalOnce
<1> HIDE DEF PipeIInv, PipeTypeInv, PipeTypeOK
<1> QED BY <1>7, <1>8, <1>9, <1>10, WayTypes DEF PipeIInv

\* What read takes from the pipe stands in the array.
LEMMA ReadOnce ==
  ASSUME PipeIInv, NEW b \in Bases, Read(b), Bases = {b}
  PROVE  EverySignalOnce'
<1> USE DEF PipeIInv, PipeTypeInv, PipeTypeOK
<1> SUFFICES ASSUME NEW t \in Numbers
             PROVE (caught[b][t] = Unread(b, t) + Uncounted(b, t) + Waiting(b, t) + active[b][t])'
    BY DEF EverySignalOnce
<1> DEFINE p == pipe[b]
           len == Len(p)
           got == IF len < BufferSize THEN len ELSE BufferSize
           rest == SubSeq(p, got + 1, len)
<1>1. p \in Seq(Numbers) /\ len \in Nat
      OBVIOUS
<1>2. got \in 1 .. BufferSize /\ got <= len /\ got \in Nat
      BY <1>1, PipeConstants DEF Read
<1>3. /\ pipe'[b] = rest /\ n'[b] = got /\ i'[b] = 0 /\ point'[b] = "count" /\ point[b] = "read"
      /\ signals' = [j \in 1 .. BufferSize |-> IF j <= got THEN p[j] ELSE signals[j]]
      /\ UNCHANGED <<ncaught, caught, active>>
      BY DEF Read, MoveTo
<1>4. Len(rest) = len - got /\ \A j \in 1 .. len - got : rest[j] = p[j + got]
  <2> HIDE DEF PipeIInv, PipeTypeInv, PipeTypeOK, got
  <2>1. got + 1 \in 1 .. len + 1 /\ len \in 0 .. len
        BY <1>1, <1>2
  <2>2. Len(rest) = len - got
        BY <1>1, <1>2, <2>1
  <2>3. ASSUME NEW j \in 1 .. len - got PROVE rest[j] = p[j + got]
    <3>1. rest[j] = p[got + 1 + j - 1]
          BY <1>1, <1>2, <2>1
    <3>2. got + 1 + j - 1 = j + got
          BY <1>2
    <3> QED BY <3>1, <3>2
  <2> QED BY <2>2, <2>3
<1>5. \A j \in 1 .. got : signals'[j] = p[j]
  <2> HIDE DEF PipeIInv, PipeTypeInv, PipeTypeOK, got, p
  <2>1. \A j \in 1 .. got : j \in 1 .. BufferSize /\ j <= got
        BY <1>2, PipeConstants
  <2> QED BY <1>3, <2>1
<1> HIDE DEF p, rest, got, len
<1>6. Times(t, p, 1, len) = Times(t, p, 1, got) + Times(t, p, got + 1, len)
      BY <1>1, <1>2, TimesSplit
<1>7. Times(t, rest, 1, len - got) = Times(t, p, got + 1, got + (len - got))
  <2>1. len - got \in Nat
        BY <1>1, <1>2
  <2> DEFINE m == len - got
  <2>2. m \in Nat /\ got \in Nat /\ \A j \in 1 .. m : rest[j] = p[j + got]
        BY <1>2, <1>4, <2>1
  <2> HIDE DEF m
  <2>3. Times(t, rest, 1, m) = Times(t, p, got + 1, got + m)
        BY ONLY <2>2, TimesShift
  <2> QED BY <2>3 DEF m
<1>8. Times(t, signals', 1, got) = Times(t, p, 1, got)
      BY <1>2, <1>5, TimesSame
<1>9. Unread(b, t) = Times(t, p, 1, len) /\ Uncounted(b, t) = 0
      BY <1>3 DEF Unread, Uncounted, p, len
<1>10. Unread(b, t)' = Times(t, p, got + 1, len)
  <2>1. got + (len - got) = len
        BY <1>1, <1>2
  <2> QED BY <1>3, <1>4, <1>7, <2>1 DEF Unread
<1>11. Uncounted(b, t)' = Times(t, p, 1, got)
      BY <1>3, <1>8 DEF Uncounted
<1>12. Waiting(b, t)' = Waiting(b, t) /\ caught' = caught /\ active' = active
      BY <1>3 DEF Waiting
<1>13. caught[b][t] = Unread(b, t) + Uncounted(b, t) + Waiting(b, t) + active[b][t]
      BY DEF EverySignalOnce
<1>14. Times(t, p, 1, got) \in Nat /\ Times(t, p, got + 1, len) \in Nat
      BY <1>1, <1>2, PlacesFinite
<1> HIDE DEF PipeIInv, PipeTypeInv, PipeTypeOK
<1> QED BY <1>6, <1>9, <1>10, <1>11, <1>12, <1>13, <1>14, WayTypes DEF PipeIInv

\* A turn of the loop takes the first of what is not counted.
LEMMA CountOnce ==
  ASSUME PipeIInv, NEW b \in Bases, Count(b), Bases = {b}
  PROVE  EverySignalOnce'
<1> USE DEF PipeIInv, PipeTypeInv, PipeTypeOK
<1> SUFFICES ASSUME NEW t \in Numbers
             PROVE (caught[b][t] = Unread(b, t) + Uncounted(b, t) + Waiting(b, t) + active[b][t])'
    BY DEF EverySignalOnce
<1> DEFINE k == i[b] + 1
<1>1. k \in Int /\ n[b] \in Int /\ k <= n[b] /\ point[b] = "count"
      BY DEF Count
<1>2. /\ i'[b] = k /\ UNCHANGED <<pipe, signals, point, n, caught, active>>
      /\ ncaught'[b][t] = ncaught[b][t] + (IF signals[k] = t THEN 1 ELSE 0)
      BY SignalNumbers DEF Count
<1> HIDE DEF k
<1>3. Times(t, signals, k, n[b]) = Times(t, signals, k, k) + Times(t, signals, k + 1, n[b])
      BY <1>1, TimesSplit
<1>4. Times(t, signals, k, k) = IF signals[k] = t THEN 1 ELSE 0
      BY <1>1, TimesOne
<1>5. Uncounted(b, t) = Times(t, signals, k, n[b])
      BY <1>1 DEF Uncounted, k
<1>6. Uncounted(b, t)' = Times(t, signals, k + 1, n[b])
      BY <1>1, <1>2 DEF Uncounted
<1>7. Waiting(b, t)' = Waiting(b, t) + (IF signals[k] = t THEN 1 ELSE 0)
      BY <1>1, <1>2 DEF Waiting
<1>8. Unread(b, t)' = Unread(b, t) /\ caught' = caught /\ active' = active
      BY <1>2 DEF Unread
<1>9. caught[b][t] = Unread(b, t) + Uncounted(b, t) + Waiting(b, t) + active[b][t]
      BY DEF EverySignalOnce
<1>10. Times(t, signals, k + 1, n[b]) \in Nat
      BY <1>1, PlacesFinite
<1> HIDE DEF PipeIInv, PipeTypeInv, PipeTypeOK
<1> QED BY <1>3, <1>4, <1>5, <1>6, <1>7, <1>8, <1>9, <1>10, WayTypes DEF PipeIInv

\* The steps that move no signal, or all of what was counted.
LEMMA OthersOnce ==
  ASSUME PipeIInv, NEW b \in Bases, Bases = {b},
         Enter(b) \/ ReadFails(b) \/ Counted(b) \/ Activate(b)
  PROVE  EverySignalOnce'
<1> USE DEF PipeIInv, PipeTypeInv, PipeTypeOK
<1> SUFFICES ASSUME NEW t \in Numbers
             PROVE (caught[b][t] = Unread(b, t) + Uncounted(b, t) + Waiting(b, t) + active[b][t])'
    BY DEF EverySignalOnce
<1>1. Unread(b, t)' = Unread(b, t) /\ caught' = caught
      BY DEF Enter, ReadFails, Counted, Activate, Unread
<1>2. caught[b][t] = Unread(b, t) + Uncounted(b, t) + Waiting(b, t) + active[b][t]
      BY DEF EverySignalOnce
<1>3. Uncounted(b, t)' = Uncounted(b, t)
  <2>1. CASE Counted(b)
    <3>1. Times(t, signals, i[b] + 1, n[b]) = 0
          BY <2>1, TimesEmpty DEF Counted
    <3> QED BY <2>1, <3>1 DEF Counted, MoveTo, Uncounted
  <2>2. CASE ~Counted(b)
        BY <2>2 DEF Enter, ReadFails, Activate, MoveTo, Uncounted
  <2> QED BY <2>1, <2>2
<1>4. Waiting(b, t)' + active'[b][t] = Waiting(b, t) + active[b][t]
  <2>1. CASE Enter(b)
        BY <2>1 DEF Enter, MoveTo, Waiting, None
  <2>2. CASE ReadFails(b) \/ Counted(b)
        BY <2>2 DEF ReadFails, Counted, MoveTo, Waiting
  <2>3. CASE Activate(b)
        BY <2>3 DEF Activate, MoveTo, Waiting
  <2> QED BY <2>1, <2>2, <2>3
<1>5. /\ Unread(b, t) \in Nat /\ Uncounted(b, t) \in Nat /\ Waiting(b, t) \in Nat
      /\ caught[b][t] \in Nat /\ active[b][t] \in Nat
      BY WayTypes
<1>6. Waiting(b, t)' \in Nat /\ active'[b][t] \in Nat
  <2>1. CASE Enter(b)
        BY <2>1 DEF Enter, MoveTo, Waiting, None
  <2>2. CASE ReadFails(b) \/ Counted(b)
        BY <2>2 DEF ReadFails, Counted, MoveTo, Waiting
  <2>3. CASE Activate(b)
        BY <2>3 DEF Activate, MoveTo, Waiting
  <2> QED BY <2>1, <2>2, <2>3
<1> HIDE DEF PipeIInv, PipeTypeInv, PipeTypeOK
<1> QED BY <1>1, <1>2, <1>3, <1>4, <1>5, <1>6

LEMMA PipeStepOnce ==
  ASSUME NEW b, Bases = {b}
  PROVE  PipeIInv /\ [PipeNext]_pipeVars => PipeIInv'
<1> SUFFICES ASSUME PipeIInv, [PipeNext]_pipeVars PROVE EverySignalOnce'
    BY PipeStepTypes DEF PipeIInv
<1> b \in Bases
    OBVIOUS
<1>1. CASE PipeNext
      BY <1>1, CaughtOnce, ReadOnce, CountOnce, OthersOnce DEF PipeNext, GoOn
<1>2. CASE UNCHANGED pipeVars
      BY <1>2 DEF pipeVars, PipeIInv, EverySignalOnce, Unread, Uncounted, Waiting
<1> QED BY <1>1, <1>2

(* While one base catches signals, each signal the handler wrote is in the *)
(* pipe, in the array, counted, or told to the map, and in one of these    *)
(* only; the static array breaks this for two bases (lu_evsig_cb).         *)
THEOREM SignalsCountedOnce ==
  ASSUME NEW b, Bases = {b}
  PROVE  PipeSpec => []PipeInv
<1>1. PipeInit => PipeIInv
      BY PipeInitTypes, PipeInitOnce DEF PipeIInv
<1>2. PipeIInv /\ [PipeNext]_pipeVars => PipeIInv'
      BY PipeStepOnce
<1>3. PipeIInv => PipeInv
      BY DEF PipeIInv, PipeTypeInv, PipeInv
<1> QED BY <1>1, <1>2, <1>3, PTL DEF PipeSpec
==============================================================================
