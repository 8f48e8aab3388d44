\* A running RT task is moved to SCHED_WRR.
SPECIFICATION Spec
CONSTANTS
  t1 = t1
  t2 = t2
  t3 = t3
  idle = idle
  fg = fg
  bg = bg
  Task = {t1, t2}
  BootTask = t1
  Idle = idle
  Worker = {}
  Policy = {"FIFO", "WRR"}
  SchedPriority = {0, 1}
  MAX_RT_PRIO = 3
  RR_TIMESLICE = 1
  StaticPrio = {3}
  DEFAULT_PRIO = 3
  MAX_PRIO = 4
  BoostPrio = {}
  Group = {fg}
  Background = {}
  RtGroup = {fg}
  SleepState = {"S"}
  ResetOnFork = {FALSE}
  WRR_WEIGHT_UNIT = 1
  WRR_FG_WEIGHT = 2
  WRR_BG_WEIGHT = 1
CHECK_DEADLOCK FALSE
INVARIANT
  RtRunsFirst
