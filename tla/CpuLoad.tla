------------------------------ MODULE CpuLoad -------------------------------
(***************************************************************************)
(* rq->cpu_load[] of kernel/sched/core.c: five averages of the weight of   *)
(* the runnable tasks, updated at every tick; ticks that did not happen    *)
(* because the CPU was idle are made up for at the next one.               *)
(***************************************************************************)
EXTENDS Integers, Sequences

CONSTANTS
  Weight,   \* values of rq->load.weight
  Missed    \* jiffies that pass while the tick is stopped

VARIABLES
  weight,        \* rq->load.weight
  cpu_load,      \* rq->cpu_load[]
  tick_stopped,
  pending        \* jiffies - rq->last_load_update_tick

vars == <<weight, cpu_load, tick_stopped, pending>>

Idx == 0..4  \* CPU_LOAD_IDX_MAX is 5

-----------------------------------------------------------------------------
(* Decay over missed ticks *)

degrade_zero_ticks == <<0, 8, 32, 64, 128>>

degrade_factor ==
  << <<0, 0, 0, 0, 0, 0, 0>>,
     <<64, 32, 8, 0, 0, 0, 0>>,
     <<96, 72, 40, 12, 1, 0, 0>>,
     <<112, 98, 75, 43, 15, 1, 0>>,
     <<120, 112, 98, 76, 45, 16, 2>> >>

\* The loop of decay_load_missed(): a factor for every binary digit of missed.
degrade[load \in Nat, missed \in Nat, idx \in Idx, j \in Nat] ==
  IF missed = 0 THEN load
  ELSE degrade[IF missed % 2 = 1 THEN (load * degrade_factor[idx + 1][j]) \div 128 ELSE load,
               missed \div 2, idx, j + 1]

\* Fault: off by one digit.
decay_shifted(load, missed, idx) ==
  IF missed = 0 THEN load
  ELSE IF missed >= degrade_zero_ticks[idx + 1] THEN 0
  ELSE IF idx = 1 THEN load \div 2^missed
  ELSE degrade[load, missed, idx, 2]

decay_load_missed(load, missed, idx) ==
  IF missed = 0 THEN load
  ELSE IF missed >= degrade_zero_ticks[idx + 1] THEN 0
  ELSE IF idx = 1 THEN load \div 2^missed
  ELSE degrade[load, missed, idx, 1]

\* Rounded up if the load is increasing.
average(old, new, idx) ==
  (old * (2^idx - 1) + IF new > old THEN new + 2^idx - 1 ELSE new) \div 2^idx

\* update_cpu_load(), n jiffies after the last one.
update_cpu_load(n) ==
  /\ pending' = 0
  /\ cpu_load' = IF n = 0 THEN cpu_load
                 ELSE [i \in Idx |-> average(decay_load_missed(cpu_load[i], n - 1, i), weight, i)]

-----------------------------------------------------------------------------

\* The tick, with or without a new jiffy: one made up for when idling ended
\* does not pass again.
Tick(n) ==
  /\ ~tick_stopped
  /\ update_cpu_load(pending + n)
  /\ UNCHANGED <<weight, tick_stopped>>

\* Tasks are queued and dequeued.
SetWeight(w) ==
  /\ ~tick_stopped
  /\ w # weight
  /\ weight' = w
  /\ UNCHANGED <<cpu_load, tick_stopped, pending>>

StopTick ==
  /\ ~tick_stopped
  /\ weight = 0
  /\ tick_stopped' = TRUE
  /\ UNCHANGED <<weight, cpu_load, pending>>

\* Idling ends after n jiffies without a tick.
RestartTick(n) ==
  /\ tick_stopped
  /\ tick_stopped' = FALSE
  /\ pending' = n
  /\ UNCHANGED <<weight, cpu_load>>

Init ==
  /\ weight = 0
  /\ cpu_load = [i \in Idx |-> 0]
  /\ tick_stopped = FALSE
  /\ pending = 0

Next ==
  \/ \E n \in 0..1 : Tick(n)
  \/ \E w \in Weight : SetWeight(w)
  \/ StopTick
  \/ \E n \in Missed : RestartTick(n)

Spec == Init /\ [][Next]_vars

\* A CPU that does not stop its tick takes one every jiffy.
Fairness == WF_vars(Tick(1))

-----------------------------------------------------------------------------
(* Properties *)

\* Type correctness; no average exceeds the largest weight.
TypeOK ==
  /\ weight \in Weight
  /\ cpu_load \in [Idx -> UNION {0..w : w \in Weight}]
  /\ tick_stopped \in BOOLEAN
  /\ pending \in Nat

\* One tick after the other with nothing to run, at 256 times the precision.
decayed[load \in Nat, missed \in Nat, idx \in Idx] ==
  IF missed = 0 THEN load
  ELSE decayed[(load * (2^idx - 1)) \div 2^idx, missed - 1, idx]

distance(a, b) == IF a < b THEN b - a ELSE a - b

\* "The calculation is approximated on a 128 point scale": decay over the ticks
\* that are pending leaves of a small load, of one and of three tasks what
\* taking every tick would have left, up to two points and two roundings.
DecayAccurate ==
  \A load \in {10, 1024, 3072}, idx \in Idx :
    distance(256 * decay_load_missed(load, pending, idx), decayed[256 * load, pending, idx])
      <= (256 * 2 * load) \div 128 + 2 * 256

\* "This prevents us from getting stuck on 9 if the load is 10": under a steady
\* load every average reaches it, from above and from below.
AveragesSettle ==
  \A w \in Weight :
    <>[](weight = w /\ ~tick_stopped) => <>[](\A i \in Idx : cpu_load[i] = w)

=============================================================================
