----------------------------- MODULE LuLogProofs -----------------------------
(***************************************************************************)
(* Proofs about LuLog for any threads, calls and files: lines of two       *)
(* threads do not mix, and a log that is set up and used at different      *)
(* times gives every handler its data and an open file.                    *)
(***************************************************************************)
EXTENDS LuLog, TLAPS

Places == {"idle", "adding", "adding data", "adding severity", "called", "built",
           "locked", "printed", "tested", "handling", "in handler", "handled",
           "logged", "exiting"}

\* Who holds the mutex is between lu_lock and lu_unlock.
LockInv ==
  /\ at \in [Threads -> Places]
  /\ mutex \in Threads \cup {NULL}
  /\ \A t \in Threads : Writing(t) <=> mutex = t

LEMMA InitLockInv == Init => LockInv
BY LogThreads DEF Init, LockInv, Writing, Places

LEMMA StepLockInv == LockInv /\ [Next]_vars => LockInv'
<1> SUFFICES ASSUME LockInv, [Next]_vars PROVE LockInv'
    OBVIOUS
<1> USE LogThreads DEF LockInv, Writing, Places, Goto, From
<1>1. ASSUME NEW t \in Threads, SetUp(t) PROVE LockInv'
      BY <1>1 DEF SetUp, Sets, lu_log_set_level, lu_log_set_quiet, AddHandler,
         EnableDefault, lu_event_enable_debug_logging, lu_event_set_log_callback,
         lu_event_set_fatal_callback
<1>2. ASSUME NEW t \in Threads, NEW c \in Calls, Log(t, c) PROVE LockInv'
      BY <1>2 DEF Log
<1>3. ASSUME NEW t \in Threads, Lock(t) PROVE LockInv'
      BY <1>3 DEF Lock
<1>4. ASSUME NEW t \in Threads, StoreHandler(t) \/ StoreData(t) \/ StoreSeverity(t)
      PROVE LockInv'
      BY <1>4 DEF Store, StoreHandler, StoreData, StoreSeverity
<1>5. ASSUME NEW t \in Threads, Skip(t) \/ LogOldWay(t) \/ Build(t) PROVE LockInv'
      BY <1>5 DEF Skip, LogOldWay, Build
<1>6. ASSUME NEW t \in Threads, WriteConsole(t) \/ TestHandler(t) PROVE LockInv'
      BY <1>6 DEF WriteConsole, TestHandler
<1>7. ASSUME NEW t \in Threads, ReadData(t) \/ CallHandler(t) \/ HandlerReturns(t)
      PROVE LockInv'
      BY <1>7 DEF ReadData, CallHandler, HandlerReturns
<1>8. ASSUME NEW t \in Threads, Unlock(t) PROVE LockInv'
      BY <1>8 DEF Unlock
<1>9. ASSUME NEW t \in Threads, Return(t) PROVE LockInv'
      BY <1>9 DEF Return
<1>10. ASSUME MainReturns \/ destroy_default_file_log PROVE LockInv'
      BY <1>10 DEF MainReturns, destroy_default_file_log
<1>11. CASE UNCHANGED vars
      BY <1>11 DEF vars
<1> QED
    BY <1>1, <1>2, <1>3, <1>4, <1>5, <1>6, <1>7, <1>8, <1>9, <1>10, <1>11
    DEF Next, ThreadStep, GoOn

\* The type invariant by parts: what is switched and opened, the calls, what is
\* added, and the configuration.
Callbacks == [handler : {NULL, USER, "lu_file_handler"},
              data : Files \cup {NULL, USER}, severity : Int]
Configs == [severity : Int, quiet : BOOLEAN, callbacks : Callbacks]

SwitchTypes ==
  /\ mask \in BOOLEAN /\ log_cb \in BOOLEAN
  /\ fatal_cb \in BOOLEAN /\ enabled \in BOOLEAN
  /\ open \subseteq Files /\ default_fp \in Files \cup {NULL}
  /\ phase \in {"running", "finalizing", "ended"}
CallTypes == call \in [Threads -> Calls \cup {NULL}]
AddingTypes ==
  /\ adding \in [Threads -> Added \cup {NULL}]
  /\ \A t \in Threads : Adding(t) => adding[t] \in Added
ConfigTypes == config \in Configs

LEMMA TypeParts ==
  LockInv /\ SwitchTypes /\ CallTypes /\ AddingTypes /\ ConfigTypes => TypeOK
BY DEF LockInv, SwitchTypes, CallTypes, AddingTypes, ConfigTypes, Configs, Callbacks,
   Places, TypeOK

LEMMA InitTypes ==
  Init => SwitchTypes /\ CallTypes /\ AddingTypes /\ ConfigTypes
<1> SUFFICES ASSUME Init PROVE SwitchTypes /\ CallTypes /\ AddingTypes /\ ConfigTypes
    OBVIOUS
<1>1. NoHandler \in Callbacks
      BY DEF NoHandler, Callbacks
<1>2. ConfigTypes
      BY <1>1 DEF Init, ConfigTypes, Configs
<1>3. SwitchTypes /\ CallTypes
      BY DEF Init, SwitchTypes, CallTypes
<1>4. AddingTypes
      BY DEF Init, AddingTypes, Adding
<1> QED BY <1>2, <1>3, <1>4

\* The steps of one thread, sorted by what they write.
Switches(t) ==
  \E b \in BOOLEAN :
    \/ lu_event_enable_debug_logging(t, b)
    \/ lu_event_set_log_callback(t, b)
    \/ lu_event_set_fatal_callback(t, b)
Configures(t) ==
  \/ \E level \in Levels : lu_log_set_level(t, level)
  \/ \E enable \in Quiet : lu_log_set_quiet(t, enable)
Adds(t) ==
  \E level \in Levels : AddHandler(t, level) \/ EnableDefault(t, level)
Stores(t) == StoreHandler(t) \/ StoreData(t) \/ StoreSeverity(t)
Logs(t) ==
  \/ \E c \in Calls : Log(t, c)
  \/ Lock(t) \/ Skip(t) \/ LogOldWay(t) \/ Build(t) \/ WriteConsole(t)
  \/ TestHandler(t) \/ ReadData(t) \/ CallHandler(t) \/ HandlerReturns(t)
  \/ Unlock(t) \/ Return(t)

LEMMA StepKinds ==
  ASSUME [Next]_vars
  PROVE  \/ \E t \in Threads :
               Switches(t) \/ Configures(t) \/ Adds(t) \/ Stores(t) \/ Logs(t)
         \/ MainReturns \/ destroy_default_file_log \/ UNCHANGED vars
BY DEF Next, ThreadStep, SetUp, GoOn, Switches, Configures, Adds, Stores, Logs

\* Logging changes neither the settings nor what is added, and a thread that logs
\* does not add.
LEMMA LogsKeep ==
  ASSUME NEW t \in Threads, Logs(t), LockInv
  PROVE  /\ UNCHANGED <<config, mask, log_cb, fatal_cb, open, default_fp, enabled, adding>>
         /\ \A u \in Threads : ~Adding(t) /\ (Adding(u)' => Adding(u))
<1> USE DEF Goto, From, settings, files
<1>1. UNCHANGED <<config, mask, log_cb, fatal_cb, open, default_fp, enabled, adding>>
      BY DEF Logs, Log, Lock, Skip, LogOldWay, Build, WriteConsole, TestHandler,
         ReadData, CallHandler, HandlerReturns, Unlock, Return
<1>2. /\ at[t] \in Places \ {"adding", "adding data", "adding severity"}
      /\ \E p \in Places \ {"adding", "adding data", "adding severity"} :
           at' = [at EXCEPT ![t] = p]
      BY DEF Logs, Log, Lock, Skip, LogOldWay, Build, WriteConsole, TestHandler,
         ReadData, CallHandler, HandlerReturns, Unlock, Return, Places
<1>3. at \in [Threads -> Places]
      BY DEF LockInv
<1> QED BY ONLY <1>1, <1>2, <1>3 DEF Adding

LEMMA StepSwitchTypes ==
  ASSUME [Next]_vars, SwitchTypes, LockInv PROVE SwitchTypes'
<1>1. ASSUME NEW t \in Threads, Switches(t) PROVE SwitchTypes'
      BY <1>1 DEF Switches, SwitchTypes, Sets, files, lu_event_enable_debug_logging,
         lu_event_set_log_callback, lu_event_set_fatal_callback
<1>2. ASSUME NEW t \in Threads, Configures(t) PROVE SwitchTypes'
      BY <1>2 DEF Configures, SwitchTypes, Sets, files, lu_log_set_level,
         lu_log_set_quiet
<1>3. ASSUME NEW t \in Threads, Adds(t) PROVE SwitchTypes'
  <2>1. UNCHANGED <<mask, log_cb, fatal_cb, enabled, phase>>
        BY <1>3 DEF Adds, AddHandler, EnableDefault, settings, files
  <2>2. \/ UNCHANGED <<open, default_fp>>
        \/ \E f \in Files \cup {NULL} : open' = open \cup ({f} \ {NULL}) /\ default_fp' = f
        BY <1>3 DEF Adds, AddHandler, EnableDefault, files
  <2> QED BY <2>1, <2>2 DEF SwitchTypes
<1>4. ASSUME NEW t \in Threads, Stores(t) PROVE SwitchTypes'
  <2>1. UNCHANGED <<mask, log_cb, fatal_cb, open, default_fp, phase>>
        BY <1>4 DEF Stores, StoreHandler, StoreData, StoreSeverity, Store
  <2>2. enabled' \in BOOLEAN
        BY <1>4 DEF Stores, StoreHandler, StoreData, StoreSeverity, SwitchTypes
  <2> QED BY <2>1, <2>2 DEF SwitchTypes
<1>5. ASSUME NEW t \in Threads, Logs(t) PROVE SwitchTypes'
  <2>1. UNCHANGED <<mask, log_cb, fatal_cb, open, default_fp, enabled>>
        BY <1>5, LogsKeep
  <2>2. phase' \in {"running", "finalizing", "ended"}
        BY <1>5 DEF SwitchTypes, Logs, Log, Lock, Skip, LogOldWay, Build, WriteConsole,
           TestHandler, ReadData, CallHandler, HandlerReturns, Unlock, Return
  <2> QED BY <2>1, <2>2 DEF SwitchTypes
<1>6. ASSUME MainReturns \/ destroy_default_file_log \/ UNCHANGED vars PROVE SwitchTypes'
      BY <1>6 DEF SwitchTypes, MainReturns, destroy_default_file_log, vars, settings, files
<1> QED BY <1>1, <1>2, <1>3, <1>4, <1>5, <1>6, StepKinds

LEMMA StepCallTypes ==
  ASSUME [Next]_vars, CallTypes PROVE CallTypes'
<1>1. ASSUME NEW t \in Threads,
             Switches(t) \/ Configures(t) \/ Adds(t) \/ Stores(t)
      PROVE  UNCHANGED call
      BY <1>1 DEF Switches, Configures, Sets, lu_event_enable_debug_logging,
         lu_event_set_log_callback, lu_event_set_fatal_callback, lu_log_set_level,
         lu_log_set_quiet, Adds, AddHandler, EnableDefault, Stores, StoreHandler,
         StoreData, StoreSeverity, Store
<1>2. ASSUME NEW t \in Threads, Logs(t)
      PROVE  \/ UNCHANGED call
             \/ \E c \in Calls \cup {NULL} : call' = [call EXCEPT ![t] = c]
      BY <1>2 DEF Logs, Log, Lock, Skip, LogOldWay, Build, WriteConsole, TestHandler,
         ReadData, CallHandler, HandlerReturns, Unlock, Return
<1>3. ASSUME MainReturns \/ destroy_default_file_log \/ UNCHANGED vars PROVE UNCHANGED call
      BY <1>3 DEF MainReturns, destroy_default_file_log, vars
<1> QED BY <1>1, <1>2, <1>3, StepKinds DEF CallTypes

\* What a thread adds has the type of a handler with its data.
LEMMA AddsAdded ==
  ASSUME NEW t \in Threads, Adds(t)
  PROVE  \E a \in Added : adding' = [adding EXCEPT ![t] = a]
<1>0. LU_EVENT_LOG_LEVEL_DEBUG \in Int /\ Levels \subseteq Int
      BY LogValues DEF LU_EVENT_LOG_LEVEL_DEBUG
<1>1. PICK level \in Levels : AddHandler(t, level) \/ EnableDefault(t, level)
      BY DEF Adds
<1>2. CASE AddHandler(t, level)
  <2>1. [handler |-> USER, data |-> USER, severity |-> level, default |-> FALSE] \in Added
        BY ONLY <1>0, level \in Levels DEF Added
  <2> QED BY ONLY <1>2, <2>1 DEF AddHandler
<1>3. CASE EnableDefault(t, level)
  <2> DEFINE kept == IF level \in LU_EVENT_LOG_LEVEL_DEBUG .. LU_EVENT_LOG_LEVEL_ERROR
                     THEN level ELSE LU_EVENT_LOG_LEVEL_DEBUG
  <2>1. PICK f \in Files \cup {NULL} :
          adding' = [adding EXCEPT ![t] = [handler |-> "lu_file_handler", data |-> f,
                                           default |-> TRUE, severity |-> kept]]
        BY ONLY <1>3 DEF EnableDefault
  <2>2. kept \in Int
        BY ONLY <1>0, level \in Levels, Zenon
  <2> HIDE DEF kept
  <2>3. [handler |-> "lu_file_handler", data |-> f, default |-> TRUE,
         severity |-> kept] \in Added
        BY ONLY <2>2, f \in Files \cup {NULL} DEF Added
  <2> QED BY ONLY <2>1, <2>3
<1> QED BY ONLY <1>1, <1>2, <1>3

LEMMA StepAddingTypes ==
  ASSUME [Next]_vars, AddingTypes, LockInv PROVE AddingTypes'
<1>0. at \in [Threads -> Places]
      BY DEF LockInv
<1>1. ASSUME NEW t \in Threads, Switches(t) \/ Configures(t) PROVE UNCHANGED <<at, adding>>
      BY <1>1 DEF Switches, Configures, Sets, lu_event_enable_debug_logging,
         lu_event_set_log_callback, lu_event_set_fatal_callback, lu_log_set_level,
         lu_log_set_quiet
<1>2. ASSUME NEW t \in Threads, Adds(t) PROVE AddingTypes'
  <2>1. PICK a \in Added : adding' = [adding EXCEPT ![t] = a]
        BY <1>2, AddsAdded
  <2>2. at' = [at EXCEPT ![t] = "adding"]
        BY <1>2 DEF Adds, AddHandler, EnableDefault, Goto
  <2> QED BY ONLY <1>0, <2>1, <2>2, AddingTypes DEF AddingTypes, Adding
<1>3. ASSUME NEW t \in Threads, Stores(t) PROVE AddingTypes'
  <2>1. CASE StoreHandler(t) \/ StoreData(t)
    <3>1. Adding(t) /\ UNCHANGED adding
          BY <2>1 DEF StoreHandler, StoreData, Store, From, Adding
    <3>2. at' = [at EXCEPT ![t] = "adding data"] \/ at' = [at EXCEPT ![t] = "adding severity"]
          BY <2>1 DEF StoreHandler, StoreData, Store, Goto
    <3>3. \A u \in Threads : Adding(u)' => Adding(u)
          BY ONLY <1>0, <3>1, <3>2 DEF Adding
    <3> QED BY ONLY <3>1, <3>3, AddingTypes DEF AddingTypes
  <2>2. CASE StoreSeverity(t)
    <3>1. adding' = [adding EXCEPT ![t] = NULL] /\ at' = [at EXCEPT ![t] = "idle"]
          BY <2>2 DEF StoreSeverity, Store, Goto
    <3> QED BY ONLY <1>0, <3>1, AddingTypes DEF AddingTypes, Adding
  <2> QED BY <1>3, <2>1, <2>2 DEF Stores
<1>4. ASSUME NEW t \in Threads, Logs(t) PROVE AddingTypes'
  <2>1. UNCHANGED adding /\ \A u \in Threads : Adding(u)' => Adding(u)
        BY <1>4, LogsKeep
  <2> QED BY ONLY <2>1, AddingTypes DEF AddingTypes
<1>5. ASSUME MainReturns \/ destroy_default_file_log \/ UNCHANGED vars
      PROVE  UNCHANGED <<at, adding>>
      BY <1>5 DEF MainReturns, destroy_default_file_log, vars
<1>6. CASE UNCHANGED <<at, adding>>
      BY ONLY <1>6, AddingTypes DEF AddingTypes, Adding
<1> QED BY <1>1, <1>2, <1>3, <1>4, <1>5, <1>6, StepKinds

\* Storing a part of what is added.
LEMMA StoredConfigs ==
  ASSUME NEW c \in Configs, NEW a \in Added,
         NEW field \in {"handler", "data", "severity"}
  PROVE  [c EXCEPT !.callbacks[field] = a[field]] \in Configs
<1>1. c.callbacks \in Callbacks
      BY DEF Configs
<1>2. [c.callbacks EXCEPT ![field] = a[field]] \in Callbacks
  <2>1. CASE field = "handler"
        BY <1>1, <2>1 DEF Callbacks, Added
  <2>2. CASE field = "data"
        BY <1>1, <2>2 DEF Callbacks, Added
  <2>3. CASE field = "severity"
        BY <1>1, <2>3 DEF Callbacks, Added
  <2> QED BY <2>1, <2>2, <2>3
<1>3. [c EXCEPT !.callbacks[field] = a[field]]
        = [c EXCEPT !.callbacks = [c.callbacks EXCEPT ![field] = a[field]]]
      BY DEF Configs
<1> QED BY ONLY <1>2, <1>3, c \in Configs DEF Configs

LEMMA StepConfigTypes ==
  ASSUME [Next]_vars, ConfigTypes, AddingTypes, LockInv PROVE ConfigTypes'
<1>1. ASSUME NEW t \in Threads, Switches(t) \/ Adds(t) PROVE UNCHANGED config
      BY <1>1 DEF Switches, Adds, AddHandler, EnableDefault, settings,
         lu_event_enable_debug_logging, lu_event_set_log_callback,
         lu_event_set_fatal_callback
<1>2. ASSUME NEW t \in Threads, Configures(t) PROVE ConfigTypes'
  <2>1. \/ \E level \in Int : config' = [config EXCEPT !.severity = level]
        \/ \E enable \in BOOLEAN : config' = [config EXCEPT !.quiet = enable]
        BY <1>2, LogValues, LogSwitches DEF Configures, lu_log_set_level, lu_log_set_quiet
  <2> QED BY ONLY <2>1, ConfigTypes DEF ConfigTypes, Configs
<1>3. ASSUME NEW t \in Threads, Stores(t) PROVE ConfigTypes'
  <2>1. Adding(t)
        BY <1>3 DEF Stores, StoreHandler, StoreData, StoreSeverity, Store, From, Adding
  <2>2. adding[t] \in Added
        BY <2>1 DEF AddingTypes
  <2>3. PICK field \in {"handler", "data", "severity"} :
          config' = [config EXCEPT !.callbacks[field] = adding[t][field]]
        BY <1>3 DEF Stores, StoreHandler, StoreData, StoreSeverity, Store
  <2> QED BY ONLY <2>2, <2>3, ConfigTypes, StoredConfigs DEF ConfigTypes
<1>4. ASSUME NEW t \in Threads, Logs(t) PROVE UNCHANGED config
      BY <1>4, LogsKeep
<1>5. ASSUME MainReturns \/ destroy_default_file_log \/ UNCHANGED vars PROVE UNCHANGED config
      BY <1>5 DEF MainReturns, destroy_default_file_log, vars, settings
<1> QED BY <1>1, <1>2, <1>3, <1>4, <1>5, StepKinds DEF ConfigTypes

LogTypes == LockInv /\ SwitchTypes /\ CallTypes /\ AddingTypes /\ ConfigTypes

LEMMA SpecLogTypes == Spec => []LogTypes
<1>1. Init => LogTypes
      BY InitLockInv, InitTypes DEF LogTypes
<1>2. LogTypes /\ [Next]_vars => LogTypes'
      BY StepLockInv, StepSwitchTypes, StepCallTypes, StepAddingTypes, StepConfigTypes
      DEF LogTypes
<1> QED BY <1>1, <1>2, PTL DEF Spec

(* However many threads log, one at a time writes its line, and every      *)
(* variable keeps its type (lu_event_log_logv_ under lu_log_config_lock).  *)
THEOREM LinesDoNotMix == Spec => []LogInv
<1>1. LogTypes => LogInv
      BY TypeParts DEF LogTypes, LockInv, OneWriter, LogInv
<1> QED BY <1>1, SpecLogTypes, PTL
-------------------------------------------------------------------------------
\* A handler with data that belong together: for the file handler while the
\* process runs, and fopen does not fail, a file that is open.
Belong(h, d) ==
  /\ h = USER <=> d = USER
  /\ h = "lu_file_handler" /\ phase = "running" /\ ~OpenFails => d \in open

\* Who sets the log up is alone.
AddingAlone ==
  \A t \in Threads : Adding(t) => \A u \in Threads \ {t} : at[u] = "idle"

\* The callback is replaced as a whole, seen from a time when nobody replaces it.
CallbackWhole ==
  /\ \A t \in Threads :
       Adding(t) => Belong(adding[t].handler, adding[t].data)
  /\ \A t \in Threads :
       at[t] \in {"adding data", "adding severity"} =>
         config.callbacks.handler = adding[t].handler
  /\ (\A t \in Threads : at[t] /= "adding data") =>
       Belong(config.callbacks.handler, config.callbacks.data)

\* What a thread read of it is what it still is.
ReadsHold ==
  /\ DOMAIN event = Threads
  /\ \A t \in Threads :
       /\ at[t] = "handling" => event[t][2] = config.callbacks.data
       /\ at[t] = "in handler" =>
            /\ event[t][1] = config.callbacks.handler
            /\ event[t][2] = config.callbacks.data

HandlerInv == AddingAlone /\ CallbackWhole /\ ReadsHold

LEMMA InitHandlerInv == Init => HandlerInv
<1> SUFFICES ASSUME Init PROVE HandlerInv
    OBVIOUS
<1>1. \A t \in Threads : at[t] = "idle"
      BY DEF Init
<1>2. AddingAlone /\ ReadsHold
      BY ONLY <1>1, Init DEF Init, AddingAlone, Adding, ReadsHold
<1>3. Belong(config.callbacks.handler, config.callbacks.data)
      BY LogThreads DEF Init, NoHandler, Belong
<1> QED BY <1>1, <1>2, <1>3 DEF HandlerInv, CallbackWhole, Adding

\* What belongs together does so as long as files are closed only at the end.
LEMMA BelongStays ==
  ASSUME NEW h, NEW d, Belong(h, d),
         phase' = "running" => phase = "running" /\ open \subseteq open'
  PROVE  Belong(h, d)'
BY DEF Belong

\* A step that leaves the callback alone, and who replaces it, and lets a thread
\* of those that log go on.
LEMMA HandlersStand ==
  ASSUME HandlerInv, LockInv,
         UNCHANGED adding, config'.callbacks = config.callbacks,
         phase' = "running" => phase = "running" /\ open \subseteq open',
         \A u \in Threads : Adding(u)' => Adding(u) /\ at'[u] = at[u],
         \A u \in Threads : at[u] = "adding data" => at'[u] = at[u]
  PROVE  CallbackWhole'
<1>1. \A t \in Threads : Adding(t)' => Belong(adding[t].handler, adding[t].data)'
  <2> SUFFICES ASSUME NEW t \in Threads, Adding(t)'
               PROVE  Belong(adding[t].handler, adding[t].data)'
      OBVIOUS
  <2>1. Belong(adding[t].handler, adding[t].data)
        BY DEF HandlerInv, CallbackWhole
  <2> QED BY <2>1 DEF Belong
<1>2. \A t \in Threads :
        at'[t] \in {"adding data", "adding severity"} =>
          config'.callbacks.handler = adding'[t].handler
      BY DEF HandlerInv, CallbackWhole, Adding
<1>3. (\A t \in Threads : at'[t] /= "adding data") =>
        Belong(config.callbacks.handler, config.callbacks.data)'
  <2> SUFFICES ASSUME \A t \in Threads : at'[t] /= "adding data"
               PROVE  Belong(config.callbacks.handler, config.callbacks.data)'
      OBVIOUS
  <2>1. Belong(config.callbacks.handler, config.callbacks.data)
        BY DEF HandlerInv, CallbackWhole
  <2> QED BY <2>1 DEF Belong
<1> QED BY <1>1, <1>2, <1>3 DEF CallbackWhole

\* A thread that adds while the others are idle.
LEMMA AddsHandlers ==
  ASSUME HandlerInv, LockInv, AddingTypes, Early, NEW t \in Threads, Adds(t)
  PROVE  HandlerInv'
<1>1. PICK level \in Levels : AddHandler(t, level) \/ EnableDefault(t, level)
      BY DEF Adds
<1>2. /\ \A u \in Threads : at[u] = "idle"
      /\ at' = [at EXCEPT ![t] = "adding"]
      /\ UNCHANGED <<config, phase, event>>
      BY <1>1 DEF AddHandler, EnableDefault, Settles, Goto, settings
<1>3. /\ open \subseteq open'
      /\ Belong(adding[t].handler, adding[t].data)'
  <2>0. DOMAIN adding = Threads
        BY DEF AddingTypes
  <2>1. CASE AddHandler(t, level)
    <3>1. adding'[t].handler = USER /\ adding'[t].data = USER /\ UNCHANGED open
          BY <2>0, <2>1 DEF AddHandler, files
    <3> QED BY <3>1, LogThreads DEF Belong
  <2>2. CASE EnableDefault(t, level)
    <3>1. PICK f \in (Files \ open) \cup (IF OpenFails THEN {NULL} ELSE {}) :
            /\ open' = open \cup ({f} \ {NULL})
            /\ adding'[t].handler = "lu_file_handler" /\ adding'[t].data = f
          BY <2>0, <2>2 DEF EnableDefault
    <3>2. f /= USER /\ (~OpenFails => f \in open')
          BY <3>1, LogThreads
    <3> QED BY ONLY <3>1, <3>2, LogThreads DEF Belong
  <2> QED BY ONLY <1>1, <2>1, <2>2
<1>4. at \in [Threads -> Places]
      BY DEF LockInv
<1>5. \A u \in Threads : /\ at'[u] = IF u = t THEN "adding" ELSE "idle"
                         /\ Adding(u)' => u = t
      BY ONLY <1>2, <1>4 DEF Adding
<1>6. AddingAlone' /\ ReadsHold'
  <2>1. AddingAlone'
        BY ONLY <1>5 DEF AddingAlone, Adding
  <2>2. \A u \in Threads : at'[u] \notin {"handling", "in handler"}
        BY ONLY <1>5
  <2> QED BY ONLY <1>2, <2>1, <2>2, HandlerInv DEF HandlerInv, ReadsHold
<1>7. Belong(config.callbacks.handler, config.callbacks.data)
      BY <1>2 DEF HandlerInv, CallbackWhole
<1>8. Belong(config.callbacks.handler, config.callbacks.data)'
      BY <1>2, <1>3, <1>7 DEF Belong
<1>9. CallbackWhole'
      BY ONLY <1>3, <1>5, <1>8 DEF CallbackWhole, Adding
<1> QED BY <1>6, <1>9 DEF HandlerInv

\* The stores of a thread that is alone.
LEMMA StoresHandlers ==
  ASSUME HandlerInv, LockInv, ConfigTypes, NEW t \in Threads, Stores(t)
  PROVE  HandlerInv'
<1>1. /\ Adding(t) /\ UNCHANGED <<open, phase, event>>
      /\ \E q \in {"adding data", "adding severity", "idle"} : at' = [at EXCEPT ![t] = q]
      BY DEF Stores, StoreHandler, StoreData, StoreSeverity, Store, From, Goto, Adding
<1>2. at \in [Threads -> Places]
      BY DEF LockInv
<1>3. \A u \in Threads \ {t} : at[u] = "idle" /\ at'[u] = "idle" /\ ~Adding(u)'
      BY ONLY <1>1, <1>2, HandlerInv DEF HandlerInv, AddingAlone, Adding
<1>4. at'[t] \in {"adding data", "adding severity", "idle"}
      BY <1>1, <1>2
<1>5. AddingAlone'
      BY ONLY <1>3, <1>4 DEF AddingAlone
<1>6. ReadsHold'
      BY ONLY <1>1, <1>3, <1>4, HandlerInv DEF HandlerInv, ReadsHold
<1>7. Belong(adding[t].handler, adding[t].data)
      BY <1>1 DEF HandlerInv, CallbackWhole
<1>8. /\ "callbacks" \in DOMAIN config
      /\ {"handler", "data", "severity"} \subseteq DOMAIN config.callbacks
      BY ONLY ConfigTypes DEF ConfigTypes, Configs, Callbacks
<1>9. CallbackWhole'
  <2>1. CASE StoreHandler(t)
    <3>1. at'[t] = "adding data" /\ UNCHANGED adding
          BY <1>2, <2>1 DEF StoreHandler, Store, Goto
    <3>2. config' = [config EXCEPT !.callbacks["handler"] = adding[t]["handler"]]
          BY <2>1 DEF StoreHandler, Store
    <3>3. config'.callbacks.handler = adding[t].handler
          BY ONLY <1>8, <3>2
    <3> QED BY ONLY <1>1, <1>3, <1>7, <3>1, <3>3 DEF CallbackWhole, Belong
  <2>2. CASE StoreData(t)
    <3>1. at[t] = "adding data" /\ at'[t] = "adding severity" /\ UNCHANGED adding
          BY <1>2, <2>2 DEF StoreData, Store, Goto, From
    <3>2. config' = [config EXCEPT !.callbacks["data"] = adding[t]["data"]]
          BY <2>2 DEF StoreData, Store
    <3>3. /\ config'.callbacks.data = adding[t].data
          /\ config'.callbacks.handler = config.callbacks.handler
          BY ONLY <1>8, <3>2
    <3>4. config'.callbacks.handler = adding[t].handler
          BY <3>1, <3>3 DEF HandlerInv, CallbackWhole
    <3> QED BY ONLY <1>1, <1>3, <1>7, <3>1, <3>3, <3>4 DEF CallbackWhole, Belong
  <2>3. CASE StoreSeverity(t)
    <3>1. at[t] = "adding severity" /\ at'[t] = "idle"
          BY <1>2, <2>3 DEF StoreSeverity, Store, Goto, From
    <3>2. config' = [config EXCEPT !.callbacks["severity"] = adding[t]["severity"]]
          BY <2>3 DEF StoreSeverity, Store
    <3>3. /\ config'.callbacks.data = config.callbacks.data
          /\ config'.callbacks.handler = config.callbacks.handler
          BY ONLY <1>8, <3>2
    <3>4. Belong(config.callbacks.handler, config.callbacks.data)
          BY <1>3, <3>1 DEF HandlerInv, CallbackWhole
    <3>5. ~Adding(t)'
          BY <3>1 DEF Adding
    <3> QED BY ONLY <1>1, <1>3, <3>1, <3>3, <3>4, <3>5 DEF CallbackWhole, Belong
  <2> QED BY <2>1, <2>2, <2>3 DEF Stores
<1> QED BY <1>5, <1>6, <1>9 DEF HandlerInv

\* A thread goes on in the log only when nobody adds, or alone.
LEMMA LogsHandlers ==
  ASSUME HandlerInv, LockInv, Early, NEW t \in Threads, Logs(t)
  PROVE  HandlerInv'
<1>1. /\ UNCHANGED <<config, open, adding>>
      /\ \A u \in Threads : ~Adding(t) /\ (Adding(u)' => Adding(u))
      BY LogsKeep
<1>2. phase' = "running" => phase = "running"
      BY DEF Logs, Log, Lock, Skip, LogOldWay, Build, WriteConsole,
         TestHandler, ReadData, CallHandler, HandlerReturns, Unlock, Return, From, Runs
<1>3. PICK p \in Places : at' = [at EXCEPT ![t] = p]
      BY DEF Logs, Log, Lock, Skip, LogOldWay, Build, WriteConsole,
         TestHandler, ReadData, CallHandler, HandlerReturns, Unlock, Return, Goto, Places
<1>4. at \in [Threads -> Places]
      BY DEF LockInv
<1>5. \A u \in Threads \ {t} : at'[u] = at[u]
      BY ONLY <1>3, <1>4
<1>6. CallbackWhole'
  <2>1. \A u \in Threads : Adding(u)' => Adding(u) /\ at'[u] = at[u]
        BY ONLY <1>1, <1>5
  <2>2. \A u \in Threads : at[u] = "adding data" => at'[u] = at[u]
        BY ONLY <1>1, <1>5 DEF Adding
  <2> QED BY <1>1, <1>2, <2>1, <2>2, HandlersStand
<1>7. AddingAlone'
  <2>1. at[t] = "idle" => \A u \in Threads : ~Adding(u)
        BY DEF Logs, Log, Lock, Skip, LogOldWay, Build, WriteConsole, TestHandler,
           ReadData, CallHandler, HandlerReturns, Unlock, Return, From, Settled
  <2> QED BY ONLY <1>1, <1>5, <2>1, HandlerInv DEF HandlerInv, AddingAlone
<1>8. ReadsHold'
  <2>1. \/ UNCHANGED event /\ at'[t] \notin {"handling", "in handler"}
        \/ ReadData(t) \/ CallHandler(t)
        \/ /\ event' = [event EXCEPT ![t] = NULL]
           /\ at'[t] = "logged"
        BY <1>4 DEF Logs, Log, Lock, Skip, LogOldWay, Build, WriteConsole,
           TestHandler, HandlerReturns, Unlock, Return, Goto
  <2>2. CASE ReadData(t)
    <3>1. event' = [event EXCEPT ![t] = <<NULL, config.callbacks.data>>]
          BY <2>2 DEF ReadData
    <3>2. at'[t] = "handling"
          BY <1>4, <2>2 DEF ReadData, Goto
    <3> QED BY ONLY <1>1, <1>5, <3>1, <3>2, HandlerInv DEF HandlerInv, ReadsHold
  <2>3. CASE CallHandler(t)
    <3>1. event' = [event EXCEPT ![t] = <<config.callbacks.handler, @[2]>>]
          BY <2>3 DEF CallHandler
    <3>2. at[t] = "handling" /\ at'[t] = "in handler"
          BY <1>4, <2>3 DEF CallHandler, Goto, From
    <3> QED BY ONLY <1>1, <1>5, <3>1, <3>2, HandlerInv DEF HandlerInv, ReadsHold
  <2>4. CASE \/ UNCHANGED event /\ at'[t] \notin {"handling", "in handler"}
             \/ event' = [event EXCEPT ![t] = NULL] /\ at'[t] = "logged"
        BY ONLY <1>1, <1>5, <2>4, HandlerInv DEF HandlerInv, ReadsHold
  <2> QED BY <2>1, <2>2, <2>3, <2>4
<1> QED BY <1>6, <1>7, <1>8 DEF HandlerInv

LEMMA StepHandlerInv ==
  ASSUME Early, LogTypes, HandlerInv, [Next]_vars PROVE HandlerInv'
<1>0. LockInv /\ AddingTypes /\ ConfigTypes
      BY DEF LogTypes
<1>1. CASE /\ UNCHANGED <<at, adding, event>> /\ config'.callbacks = config.callbacks
           /\ phase' = "running" => phase = "running" /\ open \subseteq open'
  <2>1. CallbackWhole'
        BY <1>0, <1>1, HandlersStand DEF Adding
  <2> QED BY ONLY <1>1, <2>1, HandlerInv DEF HandlerInv, AddingAlone, ReadsHold, Adding
<1>2. ASSUME NEW t \in Threads, Switches(t)
      PROVE  UNCHANGED <<at, adding, event, config, phase, open>>
      BY <1>2 DEF Switches, Sets, files, lu_event_enable_debug_logging,
         lu_event_set_log_callback, lu_event_set_fatal_callback
<1>3. ASSUME NEW t \in Threads, Configures(t)
      PROVE  /\ UNCHANGED <<at, adding, event, phase, open>>
             /\ config'.callbacks = config.callbacks
  <2>1. UNCHANGED <<at, adding, event, phase, open>>
        BY <1>3 DEF Configures, Sets, files, lu_log_set_level, lu_log_set_quiet
  <2>2. \/ \E level : config' = [config EXCEPT !.severity = level]
        \/ \E enable : config' = [config EXCEPT !.quiet = enable]
        BY <1>3 DEF Configures, lu_log_set_level, lu_log_set_quiet
  <2>3. "callbacks" \in DOMAIN config
        BY ONLY <1>0 DEF ConfigTypes, Configs
  <2> QED BY ONLY <2>1, <2>2, <2>3
<1>4. ASSUME NEW t \in Threads, Adds(t) PROVE HandlerInv'
      BY <1>0, <1>4, AddsHandlers
<1>5. ASSUME NEW t \in Threads, Stores(t) PROVE HandlerInv'
      BY <1>0, <1>5, StoresHandlers
<1>6. ASSUME NEW t \in Threads, Logs(t) PROVE HandlerInv'
      BY <1>0, <1>6, LogsHandlers
<1>7. ASSUME MainReturns \/ destroy_default_file_log \/ UNCHANGED vars
      PROVE  /\ UNCHANGED <<at, adding, event, config>>
             /\ phase' = "running" => phase = "running" /\ open \subseteq open'
      BY <1>7 DEF MainReturns, destroy_default_file_log, vars, settings, files
<1> QED BY <1>1, <1>2, <1>3, <1>4, <1>5, <1>6, <1>7, StepKinds

LEMMA EarlyHandlerInv ==
  ASSUME Early
  PROVE  Spec => []HandlerInv
<1>1. LogTypes /\ HandlerInv /\ [Next]_vars => HandlerInv'
      BY StepHandlerInv
<1>2. Spec => []LogTypes
      BY SpecLogTypes
<1> QED BY <1>1, <1>2, InitHandlerInv, PTL DEF Spec

(* A log that is set up while nobody logs gives every handler the data it  *)
(* was added with, however many threads log later (lu_log_add_handler).    *)
THEOREM HandlersHaveTheirData ==
  ASSUME Early
  PROVE  Spec => []HandlerGetsItsData
<1>1. HandlerInv => HandlerGetsItsData
  <2> SUFFICES ASSUME HandlerInv, NEW t \in Threads, at[t] = "in handler"
               PROVE  event[t][1] = USER <=> event[t][2] = USER
      BY DEF HandlerGetsItsData
  <2>1. \A u \in Threads : at[u] /= "adding data"
        BY DEF HandlerInv, AddingAlone, Adding
  <2>2. Belong(config.callbacks.handler, config.callbacks.data)
        BY <2>1 DEF HandlerInv, CallbackWhole
  <2>3. /\ event[t][1] = config.callbacks.handler
        /\ event[t][2] = config.callbacks.data
        BY DEF HandlerInv, ReadsHold
  <2> QED BY <2>2, <2>3 DEF Belong
<1> QED BY <1>1, EarlyHandlerInv, PTL

(* Where fopen does not fail, the default log is then written to an open   *)
(* file until the process ends (lu_enable_default_file_logging).           *)
THEOREM LogFilesAreOpen ==
  ASSUME Early, ~OpenFails
  PROVE  Spec => []WritesOpenFiles
<1>1. HandlerInv => WritesOpenFiles
  <2> SUFFICES ASSUME HandlerInv, NEW t \in Threads, at[t] = "in handler",
                      event[t][1] = "lu_file_handler", phase = "running"
               PROVE  event[t][2] \in open
      BY DEF WritesOpenFiles
  <2>1. \A u \in Threads : at[u] /= "adding data"
        BY DEF HandlerInv, AddingAlone, Adding
  <2>2. Belong(config.callbacks.handler, config.callbacks.data)
        BY <2>1 DEF HandlerInv, CallbackWhole
  <2>3. /\ event[t][1] = config.callbacks.handler
        /\ event[t][2] = config.callbacks.data
        BY DEF HandlerInv, ReadsHold
  <2> QED BY <2>2, <2>3 DEF Belong
<1> QED BY <1>1, EarlyHandlerInv, PTL
===============================================================================
