----------------------------- MODULE MCProgress -----------------------------
(***************************************************************************)
(* Instances for TLC of what scheduling promises to do again and again:    *)
(* WRR tasks get their turns, throttled RT tasks come back, and RT tasks   *)
(* leave the CPU to others.  A behaviour is one of a single instance.      *)
(***************************************************************************)
EXTENDS MCStarvation, TLC

CONSTANTS r1, r2, other

VARIABLE part
VARIABLES rt_task, linked, rt_rq, rt_curr, rt_resched, delta, now

\* Two tasks in two groups that may use half of the CPU.
R == INSTANCE RtBandwidth WITH
       Task <- {r1, r2}, Group <- {"root", "apps"}, Root <- "root", Parent <- "apps" :> "root",
       Other <- other, MAX_RT_PRIO <- 1, Period <- 2, GlobalRuntime <- 1, Runtime <- {1},
       RUNTIME_INF <- 9, BoostPrio <- {}, MaxOverrun <- 1, MaxRtTime <- 2,
       task <- rt_task, curr <- rt_curr, need_resched <- rt_resched

rt_vars == <<rt_task, linked, rt_rq, rt_curr, rt_resched, delta, now>>

ProgressInit == part \in {"turns", "rt"} /\ Init /\ R!Init

ProgressNext ==
  \/ part = "turns" /\ TurnNext /\ UNCHANGED <<part, rt_vars>>
  \/ part = "rt" /\ R!Next /\ UNCHANGED <<part, vars>>

\* KernelFairness and DaemonFairness of MCStarvation, asked of a behaviour of
\* that part only: in the other what is enabled at first stays so.
TurnFairness ==
  /\ WF_vars(part = "turns" /\ Preempt)
  /\ SF_vars(part = "turns" /\ TickWrr)
  /\ SF_vars(part = "turns" /\ TickFairEnds)
  /\ SF_vars(part = "turns" /\ PreemptUnthrottled)
  /\ WF_vars(part = "turns" /\ TryToWakeUp(Daemon))
  /\ SF_vars(part = "turns" /\ DaemonPrepares)
  /\ SF_vars(part = "turns" /\ DaemonSleeps)

\* The fairness of RtBandwidth's FairSpec, likewise.
RtFairness ==
  /\ WF_rt_vars(part = "rt" /\ R!Elapse)
  /\ R!InterruptsTaken
  /\ R!SettingsSettle

ProgressSpec ==
  ProgressInit /\ [][ProgressNext]_<<part, vars, rt_vars>> /\ TurnFairness /\ RtFairness

\* RtBandwidth's: a throttled task with a positive limit is eligible again.
ThrottleEnds == R!ThrottleEnds

\* RtBandwidth's: the other classes get the CPU again and again.
OthersRun == R!OthersRun

=============================================================================
