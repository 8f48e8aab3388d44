------------------------------- MODULE MCCore -------------------------------
(***************************************************************************)
(* SchedCore on three small instances: two tasks whose policies and        *)
(* priorities change, two that are moved between groups and given weights, *)
(* and three that take turns.  A behaviour is one of a single instance.    *)
(***************************************************************************)
EXTENDS SchedCore, TLC

CONSTANTS fg, bg, t3

VARIABLE part

\* RR and WRR tasks of one group.
Priorities == INSTANCE SchedCore WITH Group <- {fg}, Background <- {}

\* WRR and fair tasks, all workers, in a foreground and a background group.
Weights == INSTANCE SchedCore WITH
  Worker <- Task, SleepState <- {"S", "D"},
  Policy <- {"NORMAL", "WRR"}, SchedPriority <- {0, 3},
  StaticPrio <- {DEFAULT_PRIO}, BoostPrio <- {}, ResetOnFork <- {FALSE}

\* Tasks of one group that take turns.
Turns == INSTANCE SchedCore WITH
  Policy <- {"NORMAL", "WRR"}, SchedPriority <- {0},
  StaticPrio <- {DEFAULT_PRIO}, BoostPrio <- {},
  Group <- {fg}, Background <- {}, ResetOnFork <- {FALSE}

CoreInit ==
  /\ part \in {"priorities", "weights", "turns"}
  /\ IF part = "weights" THEN Weights!Init ELSE Priorities!Init

\* Bound: only the tasks that take turns are three.
TwoTasks == task'[t3].phase = "none"

CoreNext ==
  /\ \/ part = "priorities" /\ Priorities!Next /\ TwoTasks
     \/ part = "weights" /\ Weights!Next /\ TwoTasks
     \/ part = "turns" /\ Turns!Next
  /\ UNCHANGED part

CoreSpec == CoreInit /\ [][CoreNext]_<<part, vars>>

=============================================================================
