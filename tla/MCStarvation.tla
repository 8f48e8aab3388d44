---------------------------- MODULE MCStarvation ----------------------------
(***************************************************************************)
(* Does every queued WRR task get its turn?  The tasks of SchedCore with   *)
(* one of them, Daemon, staying in the fair class: it forks the others,    *)
(* which become WRR tasks, and later only wakes up and sleeps again, as    *)
(* the kernel's own threads do.                                            *)
(***************************************************************************)
EXTENDS SchedCore

Daemon == BootTask

TurnNext ==
  \/ Schedule \/ Preempt \/ Yield \/ Tick
  \/ \E s \in SleepState \cup {"R"} : SetCurrentState(s)
  \/ \E t \in Task :
       \/ TryToWakeUp(t) \/ SchedFork(t) \/ WakeUpNewTask(t)
       \/ t # Daemon /\ SchedSetscheduler(t, "WRR", 0, FALSE)

\* A reschedule at which pick_next_task_wrr() is not throttled.
PreemptUnthrottled == Preempt /\ curr' \in Entries(rq.active)

\* A tick at which the fair class ends the turn of the running task.
TickFairEnds == TickFair /\ need_resched'

\* What the kernel guarantees: a reschedule that was asked for happens on the
\* way out of the interrupt, a task that uses the CPU meets the timer tick,
\* the fair class shares the CPU among its tasks, and the clock does not
\* throttle every reschedule.
KernelFairness ==
  /\ WF_vars(Preempt)
  /\ SF_vars(TickWrr)
  /\ SF_vars(TickFairEnds)
  /\ SF_vars(PreemptUnthrottled)

DaemonPrepares == curr = Daemon /\ SetCurrentState("S")
DaemonSleeps   == curr = Daemon /\ Schedule /\ ~task'[Daemon].on_rq

\* A daemon that wakes up again and again, and never works for long.
DaemonFairness ==
  /\ WF_vars(TryToWakeUp(Daemon))
  /\ SF_vars(DaemonPrepares)
  /\ SF_vars(DaemonSleeps)

TurnSpec == Init /\ [][TurnNext]_vars /\ KernelFairness

PeriodicSpec == TurnSpec /\ DaemonFairness

\* Every queued WRR task runs eventually.
TurnComes == \A t \in Task : (t \in Entries(rq.active)) ~> (curr = t)

=============================================================================
