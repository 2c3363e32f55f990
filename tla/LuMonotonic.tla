----------------------------- MODULE LuMonotonic -----------------------------
(***************************************************************************)
(* The clock of an lu_event_base_t: src/src/lu_evutil_time.c, the macros   *)
(* for struct timeval in src/include/lu_util.h, and gettime of             *)
(* src/src/lu_event.c.                                                     *)
(*                                                                         *)
(* The base reads one of the kernel's monotonic clocks.  When there is     *)
(* none it reads the time of day, which an administrator may set back, and *)
(* corrects it by what was set back so far.                                *)
(*                                                                         *)
(* LuBaseProofs extends this module and LuEventConfig, so that the names   *)
(* of the specification are not Init, Next and Spec here.                  *)
(***************************************************************************)
EXTENDS Integers

CONSTANTS
  TimesOfDay,   \* what gettimeofday may return
  KernelTimes,  \* what clock_gettime may return
  MaxSetBack,   \* the bound of set_back
  NONE

Million == 1000000
Timeval == [tv_sec : Nat, tv_usec : 0 .. Million - 1]
Timespec == [tv_sec : Nat, tv_nsec : 0 .. 1000 * Million - 1]
Clocks == {"CLOCK_MONOTONIC_COARSE", "CLOCK_MONOTONIC"}
Flags == {"LU_EVENT_MONOT_PRECISE", "LU_EVENT_MONOT_FALLBACK"}

ASSUME TimesAssumption ==
  TimesOfDay \subseteq Timeval /\ KernelTimes \subseteq Timespec
ASSUME BoundAssumption == MaxSetBack \in Nat /\ NONE \notin Clocks \cup {"TIME_OF_DAY"}

VARIABLES
  monotonic_clock,         \* the clock in use; -1 is "TIME_OF_DAY"
  adjust_monotonic_clock,
  last_time,
  tv_cache,                \* the loop's copy of the time, {0, 0} for none
  time_of_day, kernel,     \* the clocks of the system
  set_back,                \* how often the time of day was set back
  seen,                    \* the time of day at the last reading
  shown                    \* the last time gettime stored

timer == <<monotonic_clock, adjust_monotonic_clock, last_time>>
systemClocks == <<time_of_day, kernel, set_back>>
timeVars == <<timer, tv_cache, systemClocks, seen, shown>>

zero == [tv_sec |-> 0, tv_usec |-> 0]

------------------------------------------------------------------------------
timercmp(s, t) ==
  s.tv_sec < t.tv_sec \/ (s.tv_sec = t.tv_sec /\ s.tv_usec < t.tv_usec)

timeradd(s, t) ==
  LET usec == s.tv_usec + t.tv_usec
      carry == IF usec >= Million THEN 1 ELSE 0
  IN [tv_sec |-> s.tv_sec + t.tv_sec + carry,
      tv_usec |-> usec - carry * Million]

timersub(s, t) ==
  LET usec == s.tv_usec - t.tv_usec
      borrow == IF usec < 0 THEN 1 ELSE 0
  IN [tv_sec |-> s.tv_sec - t.tv_sec - borrow,
      tv_usec |-> usec + borrow * Million]

\* clock_gettime's nanoseconds are cut.
ToTimeval(ts) == [tv_sec |-> ts.tv_sec, tv_usec |-> ts.tv_nsec \div 1000]

Later(s, t) ==
  \/ s.tv_sec < t.tv_sec
  \/ s.tv_sec = t.tv_sec /\ s.tv_nsec <= t.tv_nsec

TimeInit ==
  /\ monotonic_clock = NONE
  /\ adjust_monotonic_clock = zero /\ last_time = zero /\ tv_cache = zero
  /\ time_of_day \in TimesOfDay
  /\ kernel \in [Clocks -> KernelTimes]
  /\ Later(kernel["CLOCK_MONOTONIC_COARSE"], kernel["CLOCK_MONOTONIC"])
  /\ set_back = 0
  /\ seen = zero /\ shown = zero

------------------------------------------------------------------------------
\* lu_evutil_configure_monotonic_time_; works are the clocks the kernel has.
\* The coarse clock is the first choice of who asks for nothing.
Configure(flags, works) ==
  LET choice ==
        IF "LU_EVENT_MONOT_FALLBACK" \in flags THEN {}
        ELSE IF "LU_EVENT_MONOT_PRECISE" \in flags
             THEN works \ {"CLOCK_MONOTONIC_COARSE"}
             ELSE works
  IN /\ monotonic_clock = NONE
     /\ monotonic_clock' =
          IF "CLOCK_MONOTONIC_COARSE" \in choice THEN "CLOCK_MONOTONIC_COARSE"
          ELSE IF "CLOCK_MONOTONIC" \in choice THEN "CLOCK_MONOTONIC" ELSE "TIME_OF_DAY"
     /\ adjust_monotonic_clock' = zero /\ last_time' = zero
     /\ UNCHANGED <<tv_cache, systemClocks, seen, shown>>

adjust_monotonic_time_forgets(tv) ==
  LET now == timeradd(tv, adjust_monotonic_clock)
  IN IF timercmp(now, last_time)
     THEN /\ adjust_monotonic_clock' = timersub(last_time, now)
          /\ UNCHANGED last_time
          /\ shown' = last_time
     ELSE /\ last_time' = now
          /\ shown' = now
          /\ UNCHANGED adjust_monotonic_clock

adjust_monotonic_time_always(tv) ==
  LET now == timeradd(tv, adjust_monotonic_clock)
  IN /\ last_time' = now
     /\ shown' = now
     /\ UNCHANGED adjust_monotonic_clock

\* lu_evutil_adjust_monotonic_time: time that would go back stands still, and
\* the difference is added from now on.
adjust_monotonic_time(tv) ==
  LET now == timeradd(tv, adjust_monotonic_clock)
  IN IF timercmp(now, last_time)
     THEN /\ adjust_monotonic_clock' =
               timeradd(timersub(last_time, now), adjust_monotonic_clock)
          /\ UNCHANGED last_time
          /\ shown' = last_time
     ELSE /\ last_time' = now
          /\ shown' = now
          /\ UNCHANGED adjust_monotonic_clock

\* gettime with a valid copy.  A copy whose tv_sec is 0 counts as none.
GetCached ==
  /\ monotonic_clock /= NONE
  /\ tv_cache.tv_sec /= 0
  /\ shown' = tv_cache
  /\ UNCHANGED <<timer, tv_cache, systemClocks, seen>>

\* gettime through lu_evutil_gettime_monotonic_.  A clock that fails stores
\* nothing and changes nothing.
GetKernel ==
  /\ monotonic_clock \in Clocks
  /\ tv_cache.tv_sec = 0
  /\ shown' = ToTimeval(kernel[monotonic_clock])
  /\ UNCHANGED <<timer, tv_cache, systemClocks, seen>>

GetTimeOfDay ==
  /\ monotonic_clock = "TIME_OF_DAY"
  /\ tv_cache.tv_sec = 0
  /\ adjust_monotonic_time(time_of_day)
  /\ seen' = time_of_day
  /\ UNCHANGED <<monotonic_clock, tv_cache, systemClocks>>

\* The loop keeps a copy of the time while it runs callbacks; no later than
\* the time it read last.
FillCache ==
  /\ tv_cache.tv_sec = 0
  /\ tv_cache' = shown
  /\ UNCHANGED <<timer, systemClocks, seen, shown>>

ClearCache ==
  /\ tv_cache' = zero
  /\ UNCHANGED <<timer, systemClocks, seen, shown>>

------------------------------------------------------------------------------
\* The clocks of the system.  The time of day may be set; the coarse clock
\* follows the other and is never ahead of it.
TimeOfDayMoves(t) ==
  /\ time_of_day' = t
  /\ IF timercmp(t, time_of_day)
     THEN set_back < MaxSetBack /\ set_back' = set_back + 1
     ELSE UNCHANGED set_back
  /\ UNCHANGED <<timer, tv_cache, kernel, seen, shown>>

KernelMoves(k) ==
  /\ kernel' = k
  /\ \A c \in Clocks : Later(kernel[c], k[c])
  /\ Later(k["CLOCK_MONOTONIC_COARSE"], k["CLOCK_MONOTONIC"])
  /\ UNCHANGED <<timer, tv_cache, time_of_day, set_back, seen, shown>>

TimeNext ==
  \/ \E flags \in SUBSET Flags, works \in SUBSET Clocks : Configure(flags, works)
  \/ GetCached
  \/ GetKernel
  \/ GetTimeOfDay
  \/ FillCache
  \/ ClearCache
  \/ \E t \in TimesOfDay : TimeOfDayMoves(t)
  \/ \E k \in [Clocks -> KernelTimes] : KernelMoves(k)

TimeSpec == TimeInit /\ [][TimeNext]_timeVars

------------------------------------------------------------------------------
(* Every variable keeps its type: microseconds stay below a million, and   *)
(* no difference of times is negative (lu_evutil_timeradd, timersub).      *)
TimesOK ==
  /\ monotonic_clock \in Clocks \cup {"TIME_OF_DAY", NONE}
  /\ {adjust_monotonic_clock, last_time, tv_cache, seen, shown} \subseteq Timeval
  /\ time_of_day \in TimesOfDay
  /\ kernel \in [Clocks -> KernelTimes]
  /\ set_back \in 0 .. MaxSetBack

(* The time of a base never goes back, whichever clock was chosen, however *)
(* often the time of day is set back and whether or not the loop has a     *)
(* copy: the order of the timeout heap rests on it                         *)
(* (src/src/lu_event.c gettime, lu_evutil_gettime_monotonic_).             *)
NeverBack == [][~timercmp(shown', shown)]_timeVars

(* Read from the time of day, time goes on by exactly what passed since    *)
(* the last reading, and stands still where the clock was set back: the    *)
(* corrections of several set backs add up                                 *)
(* (lu_evutil_adjust_monotonic_time).                                      *)
ElapsedShown ==
  [][GetTimeOfDay =>
       shown' = IF timercmp(time_of_day, seen)
                THEN last_time
                ELSE timeradd(last_time, timersub(time_of_day, seen))]_timeVars
==============================================================================
