----------------------------- MODULE LuSignalPipe -----------------------------
(***************************************************************************)
(* How a signal reaches the loop of a base: the handler writes its number  *)
(* into the internal pipe, and lu_evsig_cb of src/src/lu_evsignal.c, run   *)
(* by the loop of the base, reads the pipe and makes the events active.    *)
(* Each base has its loop and its pipe; the array lu_evsig_cb reads into   *)
(* is static, so all have the one.                                         *)
(***************************************************************************)
EXTENDS Integers, Sequences, FiniteSets

CONSTANTS
  Bases,
  Numbers,    \* the numbers that are caught
  NSIG,
  BufferSize, \* sizeof(signals), 1024 in the code
  PipeSize,   \* what the pipe holds
  MaxSent     \* bounds how often one signal is caught in a run

ASSUME PipeConstants ==
  /\ NSIG \in Nat /\ Numbers \subseteq 1 .. NSIG - 1 /\ IsFiniteSet(Numbers)
  /\ BufferSize \in Nat \ {0} /\ PipeSize \in Nat \ {0} /\ MaxSent \in Nat

VARIABLES
  pipe,    \* base -> what its handler wrote
  signals, \* the static array
  point,   \* base -> where its callback is
  n,       \* base -> what read returned
  i,       \* base -> the loop over what was read
  ncaught, \* base -> signal -> how often its callback read it
  caught,  \* base -> signal -> how often it was written
  active   \* base -> signal -> how often lu_evmap_signal_active_ was told of it

pipeVars == <<pipe, signals, point, n, i, ncaught, caught, active>>

None == [s \in Numbers |-> 0]

PipeInit ==
  /\ pipe = [b \in Bases |-> << >>]
  /\ signals = [j \in 1 .. BufferSize |-> 0]
  /\ point = [b \in Bases |-> "idle"]
  /\ n = [b \in Bases |-> 0] /\ i = [b \in Bases |-> 0]
  /\ ncaught = [b \in Bases |-> None]
  /\ caught = [b \in Bases |-> None] /\ active = [b \in Bases |-> None]

MoveTo(b, q) == point' = [point EXCEPT ![b] = q]

\* The handler; the pipe does not block and drops what it has no room for.
Caught(b, s) ==
  /\ Len(pipe[b]) < PipeSize /\ caught[b][s] < MaxSent
  /\ pipe' = [pipe EXCEPT ![b] = Append(@, s)]
  /\ caught' = [caught EXCEPT ![b][s] = @ + 1]
  /\ UNCHANGED <<signals, point, n, i, ncaught, active>>

Enter_keepsCounts(b) ==
  /\ point[b] = "idle" /\ pipe[b] /= << >>
  /\ MoveTo(b, "read")
  /\ UNCHANGED <<pipe, signals, n, i, ncaught, caught, active>>

\* The loop finds the pipe readable and runs the callback.
Enter(b) ==
  /\ point[b] = "idle" /\ pipe[b] /= << >>
  /\ ncaught' = [ncaught EXCEPT ![b] = None]
  /\ MoveTo(b, "read")
  /\ UNCHANGED <<pipe, signals, n, i, caught, active>>

Read(b) ==
  LET got == IF Len(pipe[b]) < BufferSize THEN Len(pipe[b]) ELSE BufferSize
  IN /\ point[b] = "read" /\ got > 0
     /\ n' = [n EXCEPT ![b] = got]
     /\ signals' = [j \in 1 .. BufferSize |-> IF j <= got THEN pipe[b][j] ELSE signals[j]]
     /\ pipe' = [pipe EXCEPT ![b] = SubSeq(@, got + 1, Len(@))]
     /\ i' = [i EXCEPT ![b] = 0]
     /\ MoveTo(b, "count")
     /\ UNCHANGED <<ncaught, caught, active>>

\* read returns -1, since the pipe is empty or the call was interrupted; an error of
\* another kind would be logged as one that ends the process.
ReadFails(b) ==
  /\ point[b] = "read"
  /\ n' = [n EXCEPT ![b] = -1]
  /\ MoveTo(b, "lock")
  /\ UNCHANGED <<pipe, signals, i, ncaught, caught, active>>

Count_passesFirst(b) ==
  LET j == i[b] + 1 IN
  /\ point[b] = "count" /\ i[b] < n[b]
  /\ i' = [i EXCEPT ![b] = j]
  /\ ncaught' = [ncaught EXCEPT ![b] =
       [s \in Numbers |-> IF j > 1 /\ signals[j] = s THEN @[s] + 1 ELSE @[s]]]
  /\ UNCHANGED <<pipe, signals, point, n, caught, active>>

\* One turn of the loop over what was read: the array may be another's by now.
Count(b) ==
  LET sig == signals[i[b] + 1] IN
  /\ point[b] = "count" /\ i[b] < n[b]
  /\ i' = [i EXCEPT ![b] = @ + 1]
  /\ ncaught' = [ncaught EXCEPT ![b] =
       [s \in Numbers |-> IF sig = s /\ sig < NSIG THEN @[s] + 1 ELSE @[s]]]
  /\ UNCHANGED <<pipe, signals, point, n, caught, active>>

Counted(b) ==
  /\ point[b] = "count" /\ i[b] = n[b]
  /\ MoveTo(b, "read")
  /\ UNCHANGED <<pipe, signals, n, i, ncaught, caught, active>>

\* lu_evmap_signal_active_ of all that were read, under th_base_lock.
Activate(b) ==
  /\ point[b] = "lock"
  /\ active' = [active EXCEPT ![b] = [s \in Numbers |-> @[s] + ncaught[b][s]]]
  /\ MoveTo(b, "idle")
  /\ UNCHANGED <<pipe, signals, n, i, ncaught, caught>>

GoOn(b) == Enter(b) \/ Read(b) \/ Count(b) \/ Counted(b) \/ Activate(b)
PipeNext ==
  \E b \in Bases : GoOn(b) \/ ReadFails(b) \/ \E s \in Numbers : Caught(b, s)

\* The loop goes on; a read that finds the pipe empty returns, and a read of what
\* is there is not interrupted every time.
PipeSpec ==
  /\ PipeInit /\ [][PipeNext]_pipeVars
  /\ \A b \in Bases : WF_pipeVars(GoOn(b) \/ ReadFails(b)) /\ SF_pipeVars(Read(b))
------------------------------------------------------------------------------
PipeTypeOK ==
  /\ point \in [Bases -> {"idle", "read", "count", "lock"}]
  /\ n \in [Bases -> -1 .. BufferSize] /\ i \in [Bases -> 0 .. BufferSize]
  /\ signals \in [1 .. BufferSize -> Numbers \cup {0}]
  /\ \A b \in Bases : point[b] = "count" => i[b] <= n[b]

Times(s, read, from, to) == Cardinality({j \in from .. to : read[j] = s})

\* How often a signal is still on its way.
Unread(b, s) == Times(s, pipe[b], 1, Len(pipe[b]))
Uncounted(b, s) == IF point[b] = "count" THEN Times(s, signals, i[b] + 1, n[b]) ELSE 0
Waiting(b, s) == IF point[b] = "idle" THEN 0 ELSE ncaught[b][s]

(* "When signals arrive, this function is called, and reads and handles    *)
(* them" (src/src/lu_evsignal.c:53): every signal the handler wrote is in  *)
(* the pipe, in the array, counted, or told to the map, and in one of      *)
(* these only.                                                             *)
EverySignalOnce ==
  \A b \in Bases, s \in Numbers :
    caught[b][s] = Unread(b, s) + Uncounted(b, s) + Waiting(b, s) + active[b][s]

(* Every variable keeps its type, and no signal is lost or counted twice   *)
(* (lu_evsig_handler_, lu_evsig_cb).                                       *)
PipeInv == PipeTypeOK /\ EverySignalOnce

(* Each signal that was caught makes its events active, though reads may   *)
(* be interrupted before the pipe is empty (lu_evsig_cb).                  *)
SignalsBecomeActive ==
  \A b \in Bases, s \in Numbers, k \in 1 .. MaxSent :
    caught[b][s] = k ~> active[b][s] >= k
==============================================================================
