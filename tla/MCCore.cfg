\* Of the constants each instance of MCCore uses a part: RR and WRR tasks that
\* fork, are reniced and inherit priorities; tasks with weights; and tasks that
\* take turns.
SPECIFICATION CoreSpec
CONSTANTS
  t1 = t1
  t2 = t2
  t3 = t3
  fg = fg
  bg = bg
  Task = {t1, t2, t3}
  BootTask = t1
  Idle = idle
  Worker = {}
  Policy = {"WRR", "RR"}
  SchedPriority = {0, 1}
  MAX_RT_PRIO = 4
  RR_TIMESLICE = 1
  StaticPrio = {4, 5}
  DEFAULT_PRIO = 5
  MAX_PRIO = 6
  BoostPrio = {0}
  Group = {fg, bg}
  Background = {bg}
  RtGroup = {fg}
  SleepState = {"S"}
  ResetOnFork = {TRUE, FALSE}
  WRR_WEIGHT_UNIT = 1
  WRR_FG_WEIGHT = 2
  WRR_BG_WEIGHT = 1
CHECK_DEADLOCK FALSE
INVARIANTS
  WrrQueueConsistent
  RtQueueConsistent
  CountersConsistent
  SliceWithinTurn
  WeightFollowsGroup
  ClassMatches
  NoTaskLost
  IndInv
  WeightsConsistent
  SleepersKept
PROPERTIES
  RtWaitsOnlyForDemotion
  TurnsGoRound
