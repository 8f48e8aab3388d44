----------------------------- MODULE TaskTimes -----------------------------
(***************************************************************************)
(* The user and system times reported of a task or of a process            *)
(* (kernel/sched/core.c, task_times() and thread_group_times()): the ticks *)
(* only give the ratio in which the precise run time is divided, and what  *)
(* was reported before is kept in prev_utime and prev_stime.               *)
(*                                                                         *)
(* thread_group_times() is called with siglock held (Siglock).             *)
(* task_times() takes no lock, and two readers of a task's times may be in *)
(* it at once.                                                             *)
(***************************************************************************)
EXTENDS Integers

CONSTANTS
  Reader,
  Siglock,     \* the callers hold siglock
  MaxTime,     \* bound on the run time and on the ticks
  Wrap         \* number of values of a cputime_t

ASSUME TimesAssumption == Siglock \in BOOLEAN /\ Wrap \in Nat \ {0}

VARIABLES
  ticks_user, ticks_system,    \* ticks of the task
  rtime,           \* its run time, in ticks
  prev_utime, prev_stime,
  reader           \* a reader: where it is, and the values it holds

times_vars == <<ticks_user, ticks_system, rtime, prev_utime, prev_stime, reader>>

Away == [at |-> "away", utime |-> 0, rtime |-> 0]

TimesInit ==
  /\ ticks_user = 0 /\ ticks_system = 0 /\ rtime = 0
  /\ prev_utime = 0 /\ prev_stime = 0
  /\ reader = [r \in Reader |-> Away]

\* A tick, and time that is charged.
Tick ==
  /\ ticks_user + ticks_system < MaxTime
  /\ \/ ticks_user' = ticks_user + 1 /\ UNCHANGED ticks_system
     \/ ticks_system' = ticks_system + 1 /\ UNCHANGED ticks_user
  /\ UNCHANGED <<rtime, prev_utime, prev_stime, reader>>

UpdateCurr ==
  /\ rtime < MaxTime /\ rtime' = rtime + 1
  /\ UNCHANGED <<ticks_user, ticks_system, prev_utime, prev_stime, reader>>

scale_utime(u, r, total) == (r * u) \div total

larger(a, b) == IF a > b THEN a ELSE b

\* The call begins: ticks and run time are read, and utime is scaled.
Sample(r) ==
  LET total == ticks_user + ticks_system
  IN /\ reader[r].at = "away"
     /\ Siglock => \A other \in Reader : reader[other].at = "away"
     /\ reader' = [reader EXCEPT ![r] =
                     [at |-> "load", rtime |-> rtime,
                      utime |-> IF total = 0 THEN rtime ELSE scale_utime(ticks_user, rtime, total)]]
     /\ UNCHANGED <<ticks_user, ticks_system, rtime, prev_utime, prev_stime>>

\* max(prev_utime, utime) is computed, and stored.
LoadPrev(r) ==
  /\ reader[r].at = "load"
  /\ reader' = [reader EXCEPT ![r].at = "store", ![r].utime = larger(prev_utime, @)]
  /\ UNCHANGED <<ticks_user, ticks_system, rtime, prev_utime, prev_stime>>

StoreUtime(r) ==
  /\ reader[r].at = "store"
  /\ prev_utime' = reader[r].utime
  /\ reader' = [reader EXCEPT ![r].at = "stime"]
  /\ UNCHANGED <<ticks_user, ticks_system, rtime, prev_stime>>

\* The rest of the run time is system time; the difference is unsigned.
StoreStime(r) ==
  /\ reader[r].at = "stime"
  /\ prev_stime' = larger(prev_stime, (reader[r].rtime - prev_utime) % Wrap)
  /\ reader' = [reader EXCEPT ![r] = Away]
  /\ UNCHANGED <<ticks_user, ticks_system, rtime, prev_utime>>

TimesNext ==
  \/ Tick
  \/ UpdateCurr
  \/ \E r \in Reader : Sample(r) \/ LoadPrev(r) \/ StoreUtime(r) \/ StoreStime(r)

TimesSpec == TimesInit /\ [][TimesNext]_times_vars

---------------------------------------------------------------------------
\* Neither time reported is ever more than the run time: the difference that
\* becomes the system time does not wrap around.
TimesWithinRuntime == prev_utime <= rtime /\ prev_stime <= rtime
=============================================================================
