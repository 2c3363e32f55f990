-------------------------------- MODULE LuLog --------------------------------
(***************************************************************************)
(* The log: src/src/lu_log.c, used by several threads.  A message is built *)
(* in a buffer of its thread, printed and given to the handler under       *)
(* lu_log_config_lock; what the lock protects is changed without it.  The  *)
(* default log file is opened and made the handler's by one function and   *)
(* closed by a destructor.                                                 *)
(*                                                                         *)
(* Texts are left out, their lengths are kept where the code reckons with  *)
(* them.  A handler of the program does not log; the time can be told.     *)
(***************************************************************************)
EXTENDS Integers, FiniteSets

CONSTANTS
  Threads,
  Calls,      \* the calls threads make: functions of the log with a length
  ErrLength,  \* the length of a text of errstr
  Levels,     \* the levels that are set
  Quiet,      \* the values quiet is set to
  Files,      \* the files fopen can return, each once at a time
  OpenFails,  \* whether fopen may fail
  Early,      \* whether the log is set up and used at different times only
  MayEnd,     \* whether main may return while threads log
  NULL, USER

LU_EVENT_LOG_LEVEL_DEBUG == 0
LU_EVENT_LOG_LEVEL_MSG   == 1
LU_EVENT_LOG_LEVEL_WARN  == 2
LU_EVENT_LOG_LEVEL_ERROR == 3
LU_EVENT_LOG_LEVEL_FATAL == 4
BuffSize == 1024

Severity == [lu_event_debugx_    |-> LU_EVENT_LOG_LEVEL_DEBUG,
             lu_event_msgx       |-> LU_EVENT_LOG_LEVEL_MSG,
             lu_event_warn       |-> LU_EVENT_LOG_LEVEL_WARN,
             lu_event_sock_warn  |-> LU_EVENT_LOG_LEVEL_WARN,
             lu_event_error      |-> LU_EVENT_LOG_LEVEL_ERROR,
             lu_event_errorv     |-> LU_EVENT_LOG_LEVEL_ERROR,
             lu_event_errorx     |-> LU_EVENT_LOG_LEVEL_ERROR,
             lu_event_sock_error |-> LU_EVENT_LOG_LEVEL_ERROR,
             lu_event_fatal      |-> LU_EVENT_LOG_LEVEL_FATAL]
WithErrstr ==
  {"lu_event_error", "lu_event_errorx", "lu_event_sock_error", "lu_event_sock_warn"}
Exiting == {"lu_event_errorx", "lu_event_sock_error"}

ASSUME LogThreads ==
  /\ NULL \notin Threads \cup Files /\ USER \notin Files \cup {NULL}
  /\ "lu_file_handler" \notin {NULL, USER}
ASSUME LogCalls == Calls \subseteq (DOMAIN Severity) \X Int
ASSUME LogValues == ErrLength \in Nat /\ Levels \subseteq Int
ASSUME LogSwitches == {OpenFails, Early, MayEnd} \cup Quiet \subseteq BOOLEAN

VARIABLES
  mutex,      \* the thread that holds lu_log_config_lock, NULL for none
  config,     \* lu_log_config_t: severity, quiet and its one callback
  mask,       \* whether lu_event_debug_logging_mask_ is not 0
  log_cb,     \* whether lu_event_log_global_fn_ is set
  fatal_cb,   \* whether lu_event_fatal_global_fn_ is
  open,       \* the files that are open
  default_fp, \* default_file_log_fp_
  enabled,    \* enbale_default_file_log_
  phase,      \* what the process is at
  at,         \* thread -> where it is
  call,       \* thread -> its call of the log
  start,      \* thread -> where errstr was written in its buffer, NULL for nowhere
  event,      \* thread -> the handler it calls and the data it gives it
  adding,     \* thread -> the handler it adds
  out         \* thread -> where its message went

settings == <<config, mask, log_cb, fatal_cb>>
files == <<open, default_fp, enabled>>
vars == <<mutex, settings, files, phase, at, call, start, event, adding, out>>

NoHandler == [handler |-> NULL, data |-> NULL, severity |-> 0]

Init ==
  /\ mutex = NULL
  /\ config = [severity |-> 0, quiet |-> FALSE, callbacks |-> NoHandler]
  /\ mask = TRUE /\ log_cb = FALSE /\ fatal_cb = FALSE
  /\ open = {} /\ default_fp = NULL /\ enabled = FALSE
  /\ phase = "running"
  /\ at = [t \in Threads |-> "idle"]
  /\ call = [t \in Threads |-> NULL]
  /\ start = [t \in Threads |-> NULL]
  /\ event = [t \in Threads |-> NULL]
  /\ adding = [t \in Threads |-> NULL]
  /\ out = [t \in Threads |-> {}]

Goto(t, p) == at' = [at EXCEPT ![t] = p]
Runs == phase \in {"running", "finalizing"}
From(t, p) == Runs /\ at[t] = p
LevelOf(t) == Severity[call[t][1]]
Settles == Early => \A t \in Threads : at[t] = "idle"
Adding(t) == at[t] \in {"adding", "adding data", "adding severity"}
Settled == Early => \A t \in Threads : ~Adding(t)

------------------------------------------------------------------------------
(* Setting the log up.                                                     *)

Sets(t) ==
  /\ From(t, "idle") /\ Settles
  /\ UNCHANGED <<mutex, files, phase, at, call, start, event, adding, out>>

lu_log_set_level(t, level) ==
  /\ Sets(t)
  /\ config' = [config EXCEPT !.severity = level]
  /\ UNCHANGED <<mask, log_cb, fatal_cb>>

lu_log_set_quiet(t, enable) ==
  /\ Sets(t)
  /\ config' = [config EXCEPT !.quiet = enable]
  /\ UNCHANGED <<mask, log_cb, fatal_cb>>

lu_event_enable_debug_logging(t, which_mask) ==
  /\ Sets(t)
  /\ mask' = which_mask
  /\ UNCHANGED <<config, log_cb, fatal_cb>>

lu_event_set_log_callback(t, cb) ==
  /\ Sets(t)
  /\ log_cb' = cb
  /\ UNCHANGED <<config, mask, fatal_cb>>

lu_event_set_fatal_callback(t, cb) ==
  /\ Sets(t)
  /\ fatal_cb' = cb
  /\ UNCHANGED <<config, mask, log_cb>>

\* lu_log_add_handler, with a handler of the program, which has its data.
AddHandler(t, level) ==
  /\ From(t, "idle") /\ Settles
  /\ adding' = [adding EXCEPT
       ![t] = [handler |-> USER, data |-> USER, severity |-> level, default |-> FALSE]]
  /\ Goto(t, "adding")
  /\ UNCHANGED <<mutex, settings, files, phase, call, start, event, out>>

EnableDefault_addsFirst(t, level) ==
  /\ From(t, "idle") /\ Settles
  /\ \E f \in (Files \ open) \cup (IF OpenFails THEN {NULL} ELSE {}) :
       /\ open' = open \cup ({f} \ {NULL})
       /\ default_fp' = f
       /\ adding' = [adding EXCEPT
            ![t] = [handler |-> "lu_file_handler", data |-> default_fp, default |-> TRUE,
                    severity |-> level]]
  /\ Goto(t, "adding")
  /\ UNCHANGED <<mutex, settings, enabled, phase, call, start, event, out>>

\* lu_enable_default_file_logging, when the directory is there or could be made;
\* without it nothing changes.
EnableDefault(t, level) ==
  /\ From(t, "idle") /\ Settles
  /\ \E f \in (Files \ open) \cup (IF OpenFails THEN {NULL} ELSE {}) :
       /\ open' = open \cup ({f} \ {NULL})
       /\ default_fp' = f
       /\ adding' = [adding EXCEPT
            ![t] = [handler |-> "lu_file_handler", data |-> f, default |-> TRUE,
                    severity |->
                      IF level \in LU_EVENT_LOG_LEVEL_DEBUG .. LU_EVENT_LOG_LEVEL_ERROR
                      THEN level ELSE LU_EVENT_LOG_LEVEL_DEBUG]]
  /\ Goto(t, "adding")
  /\ UNCHANGED <<mutex, settings, enabled, phase, call, start, event, out>>

\* The three stores of the assignment, in the order of the fields.
Store(t, p, field, q) ==
  /\ From(t, p)
  /\ config' = [config EXCEPT !.callbacks[field] = adding[t][field]]
  /\ Goto(t, q)
  /\ UNCHANGED <<mutex, mask, log_cb, fatal_cb, open, default_fp, phase,
                 call, start, event, out>>

StoreHandler(t) ==
  Store(t, "adding", "handler", "adding data") /\ UNCHANGED <<adding, enabled>>

StoreData_skips(t) ==
  /\ From(t, "adding data")
  /\ Goto(t, "adding severity")
  /\ UNCHANGED <<mutex, settings, files, phase, call, start, event, adding, out>>

StoreData(t) ==
  Store(t, "adding data", "data", "adding severity") /\ UNCHANGED <<adding, enabled>>

StoreSeverity(t) ==
  /\ Store(t, "adding severity", "severity", "idle")
  /\ enabled' = (enabled \/ adding[t].default)
  /\ adding' = [adding EXCEPT ![t] = NULL]
------------------------------------------------------------------------------
(* Logging a message.                                                      *)

Log(t, c) ==
  /\ From(t, "idle") /\ Settled
  /\ call' = [call EXCEPT ![t] = c]
  /\ Goto(t, "called")
  /\ UNCHANGED <<mutex, settings, files, phase, start, event, adding, out>>

\* Where errstr is written in the buffer, NULL when it is not.  The length is
\* unsigned and that of a text that could not be formatted the largest there
\* is, yet no sum leaves its range for good.
ErrstrAt(length) ==
  IF length + ErrLength + 2 < BuffSize THEN length ELSE NULL

Masked(t) == LevelOf(t) = LU_EVENT_LOG_LEVEL_DEBUG /\ ~mask
OldWay(t) == call[t][1] = "lu_event_error"

Skip(t) ==
  /\ From(t, "called") /\ Masked(t)
  /\ Goto(t, "logged")
  /\ UNCHANGED <<mutex, settings, files, phase, call, start, event, adding, out>>

\* lu_event_error takes the way of lu_event_logv_, which reads the length off
\* the buffer and writes or calls back at once.
LogOldWay(t) ==
  /\ From(t, "called") /\ ~Masked(t) /\ OldWay(t)
  /\ out' = [out EXCEPT ![t] = {IF log_cb THEN "log_cb" ELSE "stderr"}]
  /\ Goto(t, "logged")
  /\ UNCHANGED <<mutex, settings, files, phase, call, start, event, adding>>

\* All others build the message and go on to the lock.
Build(t) ==
  /\ From(t, "called") /\ ~Masked(t) /\ ~OldWay(t)
  /\ start' = [start EXCEPT
       ![t] = IF call[t][1] \in WithErrstr THEN ErrstrAt(call[t][2]) ELSE NULL]
  /\ Goto(t, "built")
  /\ UNCHANGED <<mutex, settings, files, phase, call, event, adding, out>>

Lock_shared(t) ==
  /\ From(t, "built")
  /\ mutex' = t
  /\ Goto(t, "locked")
  /\ start' = [start EXCEPT ![t] = NULL]
  /\ UNCHANGED <<settings, files, phase, call, event, adding, out>>

Lock(t) ==
  /\ From(t, "built")
  /\ mutex = NULL
  /\ mutex' = t
  /\ Goto(t, "locked")
  /\ start' = [start EXCEPT ![t] = NULL]
  /\ UNCHANGED <<settings, files, phase, call, event, adding, out>>

\* The console, unless it is quiet.
WriteConsole(t) ==
  /\ From(t, "locked")
  /\ IF ~config.quiet /\ LevelOf(t) >= config.severity
     THEN out' = [out EXCEPT ![t] = {"stderr"}] ELSE UNCHANGED out
  /\ Goto(t, "printed")
  /\ UNCHANGED <<mutex, settings, files, phase, call, start, event, adding>>

\* The handler: the test, then the data are read, then the handler again.
TestHandler(t) ==
  /\ From(t, "printed")
  /\ LET cb == config.callbacks
     IN Goto(t, IF cb.handler /= NULL /\ LevelOf(t) >= cb.severity
                THEN "tested" ELSE "handled")
  /\ UNCHANGED <<mutex, settings, files, phase, call, start, event, adding, out>>

ReadData(t) ==
  /\ From(t, "tested")
  /\ event' = [event EXCEPT ![t] = <<NULL, config.callbacks.data>>]
  /\ Goto(t, "handling")
  /\ UNCHANGED <<mutex, settings, files, phase, call, start, adding, out>>

CallHandler(t) ==
  /\ From(t, "handling")
  /\ event' = [event EXCEPT ![t] = <<config.callbacks.handler, @[2]>>]
  /\ Goto(t, "in handler")
  /\ UNCHANGED <<mutex, settings, files, phase, call, start, adding, out>>

HandlerReturns_again(t) ==
  /\ From(t, "in handler")
  /\ Goto(t, "built")
  /\ mutex' = NULL
  /\ UNCHANGED <<settings, files, phase, call, start, event, adding, out>>

\* Nothing is known of what lu_file_handler does without an open file.
HandlerReturns(t) ==
  /\ From(t, "in handler")
  /\ event[t][1] = "lu_file_handler" => event[t][2] \in open
  /\ out' = [out EXCEPT ![t] = @ \cup {event[t][2]}]
  /\ Goto(t, "handled")
  /\ UNCHANGED <<mutex, settings, files, phase, call, start, event, adding>>

Unlock(t) ==
  /\ From(t, "handled")
  /\ mutex' = NULL
  /\ event' = [event EXCEPT ![t] = NULL]
  /\ Goto(t, "logged")
  /\ UNCHANGED <<settings, files, phase, call, start, adding, out>>

\* lu_event_exit, or the return.
Return(t) ==
  /\ From(t, "logged")
  /\ IF call[t][1] \in Exiting
     THEN /\ Goto(t, "exiting")
          /\ \/ fatal_cb /\ out' = [out EXCEPT ![t] = @ \cup {"fatal_cb"}]
             \/ ~fatal_cb /\ UNCHANGED out
          /\ \/ phase' = IF phase = "running" THEN "finalizing" ELSE phase
             \/ ~fatal_cb /\ phase' = "ended"
     ELSE /\ Goto(t, "idle")
          /\ out' = [out EXCEPT ![t] = {}]
          /\ UNCHANGED phase
  /\ call' = IF call[t][1] \in Exiting THEN call ELSE [call EXCEPT ![t] = NULL]
  /\ UNCHANGED <<mutex, settings, files, start, event, adding>>
------------------------------------------------------------------------------
(* The end of the process.                                                 *)

MainReturns ==
  /\ MayEnd /\ phase = "running"
  /\ phase' = "finalizing"
  /\ UNCHANGED <<mutex, settings, files, at, call, start, event, adding, out>>

destroy_default_file_log ==
  /\ phase = "finalizing"
  /\ IF enabled
     THEN /\ enabled' = FALSE
          /\ open' = open \ {default_fp}
          /\ UNCHANGED <<phase, default_fp>>
     ELSE phase' = "ended" /\ UNCHANGED files
  /\ UNCHANGED <<mutex, settings, at, call, start, event, adding, out>>

SetUp(t) ==
  \/ \E level \in Levels :
       lu_log_set_level(t, level) \/ AddHandler(t, level) \/ EnableDefault(t, level)
  \/ \E enable \in Quiet : lu_log_set_quiet(t, enable)
  \/ \E b \in BOOLEAN :
       \/ lu_event_enable_debug_logging(t, b)
       \/ lu_event_set_log_callback(t, b)
       \/ lu_event_set_fatal_callback(t, b)

GoOn(t) ==
  \/ StoreHandler(t) \/ StoreData(t) \/ StoreSeverity(t)
  \/ Skip(t) \/ LogOldWay(t) \/ Build(t)
  \/ WriteConsole(t)
  \/ TestHandler(t) \/ ReadData(t) \/ CallHandler(t) \/ HandlerReturns(t)
  \/ Unlock(t)
  \/ Return(t)

ThreadStep(t) ==
  SetUp(t) \/ (\E c \in Calls : Log(t, c)) \/ Lock(t) \/ GoOn(t)

Next ==
  \/ \E t \in Threads : ThreadStep(t)
  \/ MainReturns
  \/ destroy_default_file_log

\* A thread that is in the log goes on, handlers return, and a lock that is free
\* again and again is had at last.
Spec ==
  /\ Init /\ [][Next]_vars
  /\ \A t \in Threads : WF_vars(GoOn(t)) /\ SF_vars(Lock(t))
------------------------------------------------------------------------------
\* What a thread adds: a callback, and whether it is that of the default file.
Added == [handler : {USER, "lu_file_handler"}, default : BOOLEAN,
          data : Files \cup {NULL, USER}, severity : Int]

(* Every variable keeps its type.                                          *)
TypeOK ==
  /\ mutex \in Threads \cup {NULL}
  /\ config \in [severity : Int, quiet : BOOLEAN,
                 callbacks : [handler : {NULL, USER, "lu_file_handler"},
                              data : Files \cup {NULL, USER},
                              severity : Int]]
  /\ mask \in BOOLEAN /\ log_cb \in BOOLEAN
  /\ fatal_cb \in BOOLEAN /\ enabled \in BOOLEAN
  /\ open \subseteq Files /\ default_fp \in Files \cup {NULL}
  /\ phase \in {"running", "finalizing", "ended"}
  /\ at \in [Threads ->
       {"idle", "adding", "adding data", "adding severity", "called", "built",
        "locked", "printed", "tested", "handling", "in handler", "handled",
        "logged", "exiting"}]
  /\ call \in [Threads -> Calls \cup {NULL}]
  /\ adding \in [Threads -> Added \cup {NULL}]
  /\ \A t \in Threads : Adding(t) => adding[t] \in Added

(* Lines of two threads do not mix: one thread at a time is between        *)
(* lu_lock and lu_unlock (src/src/lu_log.c lu_event_log_logv_).            *)
Writing(t) ==
  at[t] \in {"locked", "printed", "tested", "handling", "in handler", "handled"}
OneWriter == \A t, u \in Threads : Writing(t) /\ Writing(u) => t = u

(* Every variable keeps its type, and lines do not mix                     *)
(* (lu_event_log_logv_).                                                   *)
LogInv == TypeOK /\ OneWriter

(* A handler is given the data it was added with.  "Add the lock logic of  *)
(* lu_log_config_t" (src/src/lu_log.c:63).                                 *)
HandlerGetsItsData ==
  \A t \in Threads :
    at[t] = "in handler" =>
      (event[t][1] = USER <=> event[t][2] = USER)

(* Until the process ends lu_file_handler writes to an open file           *)
(* (lu_enable_default_file_logging).                                       *)
WritesOpenFiles ==
  \A t \in Threads :
    at[t] = "in handler" /\ event[t][1] = "lu_file_handler" /\ phase = "running"
    => event[t][2] \in open

(* Every message is dealt with, if the process does not end before         *)
(* (lu_event_log_logv_).                                                   *)
MessagesEnd ==
  \A t \in Threads :
    at[t] = "called" ~> at[t] \in {"idle", "exiting"} \/ phase /= "running"

(* "[ INFO ] Enable file logging to %s" (src/src/lu_log.c:509): the file   *)
(* is open when this has been said.                                        *)
EnabledIsOpen == enabled /\ phase = "running" => default_fp \in open

(* MAX_CALLBACKS is 32 (src/src/lu_log.c:24): a handler that is added does *)
(* not take the place of another.                                          *)
HandlersStay ==
  [][config.callbacks.handler /= NULL
     => config'.callbacks.handler = config.callbacks.handler]_vars

(* lu_event_set_log_callback "redirects luevent's log messages"            *)
(* (src/include/lu_log-internal.h:143): none goes elsewhere.               *)
Redirects ==
  [][\A t \in Threads : log_cb => "stderr" \notin out'[t] \ out[t]]_vars

(* The fatal callback is "to be called if luevent encounters a fatal       *)
(* error" (src/include/lu_log-internal.h:135).                             *)
FatalCallsBack ==
  [][\A t \in Threads :
       at[t] = "logged" /\ at'[t] /= "logged" /\ fatal_cb
         /\ LevelOf(t) = LU_EVENT_LOG_LEVEL_FATAL
       => "fatal_cb" \in out'[t]]_vars

(* "Ensure there is enough space for errstr" (src/src/lu_log.c:403): it is *)
(* written inside the buffer.                                              *)
InsideBuffer ==
  \A t \in Threads :
    start[t] /= NULL => start[t] >= 0 /\ start[t] + ErrLength + 2 < BuffSize
==============================================================================
