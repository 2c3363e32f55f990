----------------------------- MODULE LuErrorTable -----------------------------
(***************************************************************************)
(* The texts of error codes: src/src/lu_error.c, called by several         *)
(* threads.  lu_get_error_string reads the table of texts;                 *)
(* lu_get_error_string_hash looks the code up in a hash table, under       *)
(* error_table_mutex, and makes and loads an entry where there is none.    *)
(* A destructor frees the entries, the hash table and the mutex when the   *)
(* program exits, whatever other threads do.                               *)
(*                                                                         *)
(* A text is named by its code.  An entry is named by its code and the     *)
(* thread that made it.                                                    *)
(***************************************************************************)
EXTENDS Integers, FiniteSets, TLAPS

CONSTANTS
  Threads,
  Codes,     \* the codes that are asked for
  Exits,     \* whether the program exits while its threads run
  NULL, OUTSIDE

LU_ERROR_CODE_START_VALUE == 255
LU_MAX_ERROR_CODE == 298

ASSUME ThreadsAssumption == NULL \notin Threads \cup Codes
ASSUME CodesAssumption == Codes \subseteq Int /\ Exits \in BOOLEAN

VARIABLES
  mutex,      \* the thread that holds error_table_mutex, NULL for none
  finalizer,  \* how far error_table_finalizer is
  allocated,  \* the entries
  table,      \* those in the hash table
  message,    \* entry -> error_message, NULL until is_loaded
  buffer,     \* function -> the code its static buffer was written for
  at,         \* thread -> where it is
  calls,      \* thread -> the function and code of its call
  entry,      \* thread -> the entry it found or made
  answer      \* thread -> the text it was given, or the function of the buffer

heap == <<allocated, table, message>>
vars == <<mutex, finalizer, heap, buffer, at, calls, entry, answer>>

Functions == {"lu_get_error_string", "lu_get_error_string_hash"}
Entry == Codes \X Threads
Unknown(code) == code < 0 \/ code > LU_MAX_ERROR_CODE

\* lu_error_strings_global: the last place has no text, and there are none
\* before the first.
Text(code) ==
  IF code \in LU_ERROR_CODE_START_VALUE .. LU_MAX_ERROR_CODE - 1 THEN code
  ELSE IF code = LU_MAX_ERROR_CODE THEN NULL ELSE OUTSIDE

Init ==
  /\ mutex = NULL /\ finalizer = "before"
  /\ allocated = {} /\ table = {} /\ message = [e \in Entry |-> NULL]
  /\ buffer = [f \in Functions |-> NULL]
  /\ at = [t \in Threads |-> "idle"]
  /\ calls = [t \in Threads |-> NULL]
  /\ entry = [t \in Threads |-> NULL]
  /\ answer = [t \in Threads |-> NULL]

Goto(t, p) == at' = [at EXCEPT ![t] = p]
CodeOf(t) == calls[t][2]

------------------------------------------------------------------------------
Call(t, f, code) ==
  /\ at[t] = "idle"
  /\ calls' = [calls EXCEPT ![t] = <<f, code>>]
  /\ Goto(t, "called")
  /\ UNCHANGED <<mutex, finalizer, heap, buffer, entry, answer>>

\* Both functions write the name of a code they do not know to a buffer of
\* theirs, which is the same for all threads.
AnswerUnknown(t) ==
  /\ at[t] = "called" /\ Unknown(CodeOf(t))
  /\ buffer' = [buffer EXCEPT ![calls[t][1]] = CodeOf(t)]
  /\ answer' = [answer EXCEPT ![t] = calls[t][1]]
  /\ Goto(t, "answered")
  /\ UNCHANGED <<mutex, finalizer, heap, calls, entry>>

\* lu_get_error_string
AnswerDirectly(t) ==
  /\ at[t] = "called" /\ ~Unknown(CodeOf(t))
  /\ calls[t][1] = "lu_get_error_string"
  /\ answer' = [answer EXCEPT ![t] = Text(CodeOf(t))]
  /\ Goto(t, "answered")
  /\ UNCHANGED <<mutex, finalizer, heap, buffer, calls, entry>>

Lock_shared(t) ==
  /\ at[t] = "called" /\ ~Unknown(CodeOf(t))
  /\ calls[t][1] = "lu_get_error_string_hash"
  /\ finalizer /= "done"
  /\ mutex' = t
  /\ Goto(t, "locked")
  /\ UNCHANGED <<finalizer, heap, buffer, calls, entry, answer>>

\* A mutex that was destroyed cannot be locked; the call says so.
Lock(t) ==
  /\ at[t] = "called" /\ ~Unknown(CodeOf(t))
  /\ calls[t][1] = "lu_get_error_string_hash"
  /\ \/ /\ finalizer /= "done" /\ mutex = NULL
        /\ mutex' = t
        /\ Goto(t, "locked")
        /\ UNCHANGED answer
     \/ /\ finalizer = "done"
        /\ Goto(t, "answered")
        /\ answer' = [answer EXCEPT ![t] = "error_buffer"]
        /\ UNCHANGED mutex
  /\ UNCHANGED <<finalizer, heap, buffer, calls, entry>>

\* get_or_create_error_entry_ looks the code up.  When the hash table was freed
\* nothing is known of what follows.
Find(t) ==
  /\ at[t] = "locked"
  /\ \/ /\ finalizer = "before"
        /\ \E e \in table :
             /\ e[1] = CodeOf(t)
             /\ entry' = [entry EXCEPT ![t] = e]
        /\ Goto(t, "found")
     \/ /\ finalizer = "before"
        /\ \A e \in table : e[1] /= CodeOf(t)
        /\ Goto(t, "missing")
        /\ UNCHANGED entry
     \/ /\ finalizer /= "before"
        /\ Goto(t, "undefined")
        /\ UNCHANGED entry
  /\ UNCHANGED <<mutex, finalizer, heap, buffer, calls, answer>>

\* It makes a missing entry.  A failing allocation ends the program.
Create(t) ==
  /\ at[t] = "missing"
  /\ LET e == <<CodeOf(t), t>>
     IN /\ allocated' = allocated \cup {e}
        /\ table' = table \cup {e}
        /\ message' = [message EXCEPT ![e] = NULL]
        /\ entry' = [entry EXCEPT ![t] = e]
  /\ Goto(t, "found")
  /\ UNCHANGED <<mutex, finalizer, buffer, calls, answer>>

LoadAndUnlock_retries(t) ==
  /\ at[t] = "found"
  /\ mutex' = NULL
  /\ Goto(t, IF message[entry[t]] = NULL THEN "called" ELSE "unlocked")
  /\ UNCHANGED <<finalizer, heap, buffer, calls, entry, answer>>

LoadAndUnlock_next(t) ==
  /\ at[t] = "found"
  /\ message' = IF message[entry[t]] = NULL
                THEN [message EXCEPT ![entry[t]] = Text(CodeOf(t) + 1)] ELSE message
  /\ mutex' = NULL
  /\ Goto(t, "unlocked")
  /\ UNCHANGED <<finalizer, allocated, table, buffer, calls, entry, answer>>

\* The text is loaded once, by whoever comes first.
LoadAndUnlock(t) ==
  /\ at[t] = "found"
  /\ message' = IF message[entry[t]] = NULL
                THEN [message EXCEPT ![entry[t]] = Text(CodeOf(t))] ELSE message
  /\ mutex' = NULL
  /\ Goto(t, "unlocked")
  /\ UNCHANGED <<finalizer, allocated, table, buffer, calls, entry, answer>>

\* The entry is read once more when the lock is given up already; one that was
\* freed meanwhile may hold anything.
AnswerFromEntry(t) ==
  /\ at[t] = "unlocked"
  /\ \E text \in {message[entry[t]], OUTSIDE} :
       /\ entry[t] \in allocated => text = message[entry[t]]
       /\ answer' = [answer EXCEPT ![t] = text]
  /\ Goto(t, "answered")
  /\ UNCHANGED <<mutex, finalizer, heap, buffer, calls, entry>>

\* The caller reads its text and goes on.
Use(t) ==
  /\ at[t] = "answered"
  /\ Goto(t, "idle")
  /\ calls' = [calls EXCEPT ![t] = NULL]
  /\ entry' = [entry EXCEPT ![t] = NULL]
  /\ answer' = [answer EXCEPT ![t] = NULL]
  /\ UNCHANGED <<mutex, finalizer, heap, buffer>>

\* cleanup_error_table_: under the lock the entries of the codes it counts
\* through are freed, then the hash table.
CleanUp ==
  /\ Exits /\ finalizer = "before"
  /\ mutex = NULL
  /\ finalizer' = "cleaned"
  /\ allocated' =
       {e \in allocated :
          e[1] \notin LU_ERROR_CODE_START_VALUE .. LU_MAX_ERROR_CODE - 1}
  /\ table' = {}
  /\ UNCHANGED <<mutex, message, buffer, at, calls, entry, answer>>

\* The mutex is destroyed when it was unlocked already.  It was initialised while
\* it was locked and may be locked again by now, both of which POSIX leaves
\* undefined: what the C library counts decides whether it goes or stays.
DestroyMutex ==
  /\ finalizer = "cleaned"
  /\ finalizer' \in {"done", "refused"}
  /\ UNCHANGED <<mutex, heap, buffer, at, calls, entry, answer>>

Answers(t) ==
  \/ AnswerUnknown(t)
  \/ AnswerDirectly(t)
  \/ Find(t)
  \/ Create(t)
  \/ LoadAndUnlock(t)
  \/ AnswerFromEntry(t)

ThreadStep(t) ==
  \/ \E f \in Functions, code \in Codes : Call(t, f, code)
  \/ Lock(t)
  \/ Answers(t)
  \/ Use(t)

Next == (\E t \in Threads : ThreadStep(t)) \/ CleanUp \/ DestroyMutex

\* A thread in the middle of a call goes on, and a mutex that is free again and
\* again is had at last.
Spec ==
  /\ Init /\ [][Next]_vars
  /\ \A t \in Threads : WF_vars(Answers(t)) /\ SF_vars(Lock(t))
------------------------------------------------------------------------------
(* Every variable keeps its type.                                          *)
TypeOK ==
  /\ mutex \in Threads \cup {NULL}
  /\ finalizer \in {"before", "cleaned", "done", "refused"}
  /\ allocated \subseteq Entry /\ table \subseteq allocated
  /\ message \in [Entry -> Codes \cup {NULL, OUTSIDE}]
  /\ at \in [Threads -> {"idle", "called", "locked", "missing", "found",
                         "undefined", "unlocked", "answered"}]
  /\ calls \in [Threads -> (Functions \X Codes) \cup {NULL}]
  /\ entry \in [Threads -> Entry \cup {NULL}]
  /\ DOMAIN answer = Threads

(* However many threads ask for a code first, it has one entry             *)
(* (get_or_create_error_entry_ under error_table_mutex).                   *)
OneEntryPerCode == \A d, e \in allocated : d[1] = e[1] => d = e

(* A thread that asks for a code of the table is given the text of this    *)
(* code, though another thread may have loaded it, while the program runs  *)
(* (src/src/lu_error.c lu_get_error_string_hash).                          *)
KnownAnswered ==
  finalizer = "before" =>
    \A t \in Threads :
      at[t] = "answered"
        /\ CodeOf(t) \in LU_ERROR_CODE_START_VALUE .. LU_MAX_ERROR_CODE - 1
      => answer[t] = CodeOf(t)

(* Every call is answered as long as the program does not exit: the mutex   *)
(* is always given up again (lu_get_error_string_hash).                    *)
CallsAnswered ==
  \A t \in Threads :
    at[t] = "called" ~> at[t] = "answered" \/ finalizer /= "before"

(* The destructor frees no entry that a thread is about to load under the  *)
(* mutex (cleanup_error_table_ against lu_get_error_string_hash).          *)
LoadsLiveEntries == \A t \in Threads : at[t] = "found" => entry[t] \in allocated

(* Every variable keeps its type, a code has one entry, and who loads an   *)
(* entry holds a live one (get_or_create_error_entry_).                    *)
TextsInv == TypeOK /\ OneEntryPerCode /\ LoadsLiveEntries
------------------------------------------------------------------------------
(* What the comments say and the code does not do.                         *)

(* A code the functions do not know is named in "more detailed information *)
(* about the error" (src/src/lu_error.c:85, 189): in that of its caller.   *)
UnknownNamed ==
  \A t \in Threads :
    at[t] = "answered" /\ answer[t] \in Functions
    => buffer[answer[t]] = CodeOf(t)

(* "Custom error codes start from 0x100" (src/include/lu_erron.h:9): no    *)
(* text is taken from outside the table.                                   *)
InsideTable == \A t \in Threads : answer[t] /= OUTSIDE

(* The mutex is there "to protect the thread safety of error_table"        *)
(* (src/src/lu_error.c:69): nobody reads an entry that was freed.          *)
ReadsLiveEntries == \A t \in Threads : at[t] = "unlocked" => entry[t] \in allocated

(* The same for the table: nobody looks a code up in one that was freed.   *)
UsesLiveTable == \A t \in Threads : at[t] /= "undefined"

(* Cleaning up means to "traverse the hash table and clean every entry"    *)
(* (src/src/lu_error.c:131).                                               *)
EveryEntryCleaned == finalizer /= "before" => allocated = {}
------------------------------------------------------------------------------
(***************************************************************************)
(* Proofs for any threads and codes: a code has one entry, a thread loads  *)
(* a live one, and the text of a known code is given to whoever asks.      *)
(***************************************************************************)

\* The places of a thread that holds error_table_mutex.
Inside(t) == at[t] \in {"locked", "missing", "found", "undefined"}

\* The mutex is held by the thread inside, which knows what the table holds; the
\* table has all entries until it is freed.
Locking ==
  /\ \A t \in Threads : Inside(t) <=> mutex = t
  /\ \A t \in Threads :
       at[t] /= "idle" => calls[t] \in Functions \X Codes
  /\ \A t \in Threads :
       at[t] = "missing" => \A e \in table : e[1] /= CodeOf(t)
  /\ \A t \in Threads :
       at[t] = "found" => entry[t] \in table /\ entry[t][1] = CodeOf(t)
  /\ finalizer = "before" => allocated = table
  /\ finalizer /= "before" =>
       Exits /\ \A t \in Threads : at[t] \notin {"missing", "found"}

IInv == TypeOK /\ Locking /\ OneEntryPerCode

LEMMA TextType ==
  \A code \in Codes : Text(code) \in Codes \cup {NULL, OUTSIDE}
BY DEF Text

LEMMA InitIInv == Init => IInv
BY ThreadsAssumption
   DEF Init, IInv, TypeOK, Locking, Inside, OneEntryPerCode, Functions, Entry

LEMMA StepIInv == IInv /\ [Next]_vars => IInv'
<1> SUFFICES ASSUME IInv, [Next]_vars PROVE IInv'
    OBVIOUS
<1> USE ThreadsAssumption DEF IInv, TypeOK, Locking, OneEntryPerCode, Goto, heap
<1>1. ASSUME NEW t \in Threads, NEW f \in Functions, NEW code \in Codes,
             Call(t, f, code)
      PROVE IInv'
      BY <1>1 DEF Call, Inside, CodeOf
<1>2. ASSUME NEW t \in Threads, Lock(t) PROVE IInv'
      BY <1>2 DEF Lock, Inside, CodeOf
<1>3. ASSUME NEW t \in Threads, AnswerUnknown(t) PROVE IInv'
      BY <1>3 DEF AnswerUnknown, Inside, CodeOf
<1>4. ASSUME NEW t \in Threads, AnswerDirectly(t) PROVE IInv'
      BY <1>4 DEF AnswerDirectly, Inside, CodeOf
<1>5. ASSUME NEW t \in Threads, Find(t) PROVE IInv'
      BY <1>5 DEF Find, Inside, CodeOf
<1>6. ASSUME NEW t \in Threads, Create(t) PROVE IInv'
      BY <1>6 DEF Create, Inside, CodeOf, Entry
<1>7. ASSUME NEW t \in Threads, LoadAndUnlock(t) PROVE IInv'
      BY <1>7, TextType DEF LoadAndUnlock, Inside, CodeOf
<1>8. ASSUME NEW t \in Threads, AnswerFromEntry(t) PROVE IInv'
      BY <1>8 DEF AnswerFromEntry, Inside, CodeOf
<1>9. ASSUME NEW t \in Threads, Use(t) PROVE IInv'
      BY <1>9 DEF Use, Inside, CodeOf
<1>10. ASSUME CleanUp PROVE IInv'
      BY <1>10 DEF CleanUp, Inside, CodeOf
<1>11. ASSUME DestroyMutex PROVE IInv'
      BY <1>11 DEF DestroyMutex, Inside, CodeOf
<1>12. CASE UNCHANGED vars
      BY <1>12 DEF vars, Inside, CodeOf
<1> QED
    BY <1>1, <1>2, <1>3, <1>4, <1>5, <1>6, <1>7, <1>8, <1>9, <1>10, <1>11, <1>12
    DEF Next, ThreadStep, Answers

LEMMA IInvHolds == Spec => []IInv
BY InitIInv, StepIInv, PTL DEF Spec

(* However the threads and the destructor interleave, every variable keeps *)
(* its type, any number of threads that ask for a code first make one      *)
(* entry, and the destructor frees none that a thread is about to load     *)
(* (get_or_create_error_entry_, cleanup_error_table_).                     *)
THEOREM EntriesAreUnique == Spec => []TextsInv
<1>1. IInv => LoadsLiveEntries
      BY DEF IInv, TypeOK, Locking, LoadsLiveEntries
<1>2. IInv => TextsInv
      BY <1>1 DEF IInv, TextsInv
<1> QED BY <1>2, IInvHolds, PTL
-------------------------------------------------------------------------------
HasText(code) == code \in LU_ERROR_CODE_START_VALUE .. LU_MAX_ERROR_CODE - 1

\* An entry holds the text of its code or none yet, and a thread that left the
\* mutex goes on with a loaded one.
Loaded ==
  /\ \A e \in allocated : message[e] \in {NULL, Text(e[1])}
  /\ \A t \in Threads :
       at[t] = "unlocked" =>
         /\ entry[t] \in allocated /\ entry[t][1] = CodeOf(t)
         /\ message[entry[t]] = Text(CodeOf(t))

LInv == IInv /\ (finalizer = "before" => Loaded /\ KnownAnswered)

LEMMA KnownText ==
  \A code : HasText(code) => Text(code) = code /\ ~Unknown(code)
BY DEF HasText, Text, Unknown, LU_ERROR_CODE_START_VALUE, LU_MAX_ERROR_CODE

LEMMA InitLInv == Init => LInv
BY InitIInv DEF Init, LInv, Loaded, KnownAnswered

LEMMA StepLInv == LInv /\ [Next]_vars => LInv'
<1> SUFFICES ASSUME LInv, [Next]_vars, finalizer' = "before"
             PROVE Loaded' /\ KnownAnswered'
    BY StepIInv DEF LInv
<1>10. ~CleanUp /\ ~DestroyMutex
      BY DEF CleanUp, DestroyMutex
<1> finalizer = "before"
    BY <1>10 DEF Next, ThreadStep, Answers, Call, Lock, AnswerUnknown,
                 AnswerDirectly, Find, Create, LoadAndUnlock, AnswerFromEntry,
                 Use, vars
<1>0. IInv /\ Loaded /\ KnownAnswered
      BY DEF LInv
<1> USE <1>0 DEF IInv, TypeOK, Locking, Loaded, KnownAnswered, Goto, heap
<1> HIDE <1>0
<1>1. ASSUME NEW t \in Threads, NEW f \in Functions, NEW code \in Codes,
             Call(t, f, code)
      PROVE Loaded' /\ KnownAnswered'
      BY <1>0, <1>1 DEF Call, CodeOf
<1>2. ASSUME NEW t \in Threads, Lock(t) PROVE Loaded' /\ KnownAnswered'
      BY <1>0, <1>2 DEF Lock, CodeOf
<1>3. ASSUME NEW t \in Threads, AnswerUnknown(t) PROVE Loaded' /\ KnownAnswered'
      BY <1>0, <1>3, KnownText DEF AnswerUnknown, CodeOf, HasText
<1>4. ASSUME NEW t \in Threads, AnswerDirectly(t) PROVE Loaded' /\ KnownAnswered'
      BY <1>0, <1>4, KnownText DEF AnswerDirectly, CodeOf, HasText
<1>5. ASSUME NEW t \in Threads, Find(t) PROVE Loaded' /\ KnownAnswered'
      BY <1>0, <1>5 DEF Find, CodeOf
<1>6. ASSUME NEW t \in Threads, Create(t) PROVE Loaded' /\ KnownAnswered'
      BY <1>0, <1>6 DEF Create, CodeOf, Entry
<1>7. ASSUME NEW t \in Threads, LoadAndUnlock(t) PROVE Loaded' /\ KnownAnswered'
      BY <1>0, <1>7 DEF LoadAndUnlock, CodeOf, Entry
<1>8. ASSUME NEW t \in Threads, AnswerFromEntry(t)
      PROVE Loaded' /\ KnownAnswered'
      BY <1>0, <1>8, KnownText DEF AnswerFromEntry, CodeOf, HasText
<1>9. ASSUME NEW t \in Threads, Use(t) PROVE Loaded' /\ KnownAnswered'
      BY <1>0, <1>9 DEF Use, CodeOf
<1>11. CASE UNCHANGED vars
      BY <1>0, <1>11 DEF vars, CodeOf
<1> QED
    BY <1>1, <1>2, <1>3, <1>4, <1>5, <1>6, <1>7, <1>8, <1>9, <1>10, <1>11
    DEF Next, ThreadStep, Answers

(* While the program runs, a thread that asks for a code with a text is    *)
(* given this text, whoever loaded it (lu_get_error_string_hash).          *)
THEOREM KnownCodesAnswered == Spec => []KnownAnswered
<1>1. LInv => KnownAnswered
      BY DEF LInv, KnownAnswered
<1>2. Spec => []LInv
      BY InitLInv, StepLInv, PTL DEF Spec
<1> QED BY <1>1, <1>2, PTL
==============================================================================
