----------------------------- MODULE MCServices -----------------------------
(***************************************************************************)
(* Instances for TLC of the parts of kernel/sched/core.c that keep state   *)
(* of their own: completions, sleepers on a wait queue, the load averages, *)
(* cpu_load[] and calls that set an affinity mask.  They share no state,   *)
(* so a behaviour is one of a single part.                                 *)
(***************************************************************************)
EXTENDS Completion, SleepOn, LoadAvg, Affinity, TLC

CONSTANTS w1, w2, s1, s2, x1, x2, a1, a2

CONSTANTS Weight, Missed

VARIABLE part
VARIABLES weight, cpu_load, cpu_idle, pending

P == INSTANCE CpuLoad WITH tick_stopped <- cpu_idle

cpu_vars == <<weight, cpu_load, cpu_idle, pending>>

ServicesInit ==
  /\ part \in {"completion", "sleep_on", "load_avg", "cpu_load", "affinity"}
  /\ Init /\ SleepInit /\ LoadInit /\ P!Init /\ AffinityInit

ServicesNext ==
  \/ /\ part = "completion" /\ Next
     /\ UNCHANGED <<part, sleep_vars, load_vars, cpu_vars, affinity_vars>>
  \/ /\ part = "sleep_on" /\ SleepNext
     /\ UNCHANGED <<part, vars, load_vars, cpu_vars, affinity_vars>>
  \/ /\ part = "load_avg" /\ LoadNext
     /\ UNCHANGED <<part, vars, sleep_vars, cpu_vars, affinity_vars>>
  \/ /\ part = "cpu_load" /\ P!Next
     /\ UNCHANGED <<part, vars, sleep_vars, load_vars, affinity_vars>>
  \/ /\ part = "affinity" /\ AffinityNext
     /\ UNCHANGED <<part, vars, sleep_vars, load_vars, cpu_vars>>

ServicesSpec ==
  /\ ServicesInit
  /\ [][ServicesNext]_<<part, vars, sleep_vars, load_vars, cpu_vars, affinity_vars>>
  /\ Fairness /\ P!Fairness /\ AffinityFairness

\* Completion's: events reach waiters in the order they came, no waiter sleeps
\* on while there are events for it, and a wait with a timeout ends.
WaitsEnd == WokenInOrder /\ WaitersServed /\ TimedWaitEnds

\* CpuLoad's: missed ticks are made up for with the accuracy of the table, and
\* averages of a steady load stay below the largest and reach it.
CpuLoadFollows ==
  [](part = "cpu_load" => P!TypeOK /\ P!DecayAccurate) /\ P!AveragesSettle

=============================================================================
