\* The same tasks when nothing is known of the daemon.
SPECIFICATION TurnSpec
CONSTANTS
  t1 = t1
  t2 = t2
  t3 = t3
  idle = idle
  fg = fg
  bg = bg
  Task = {t1, t2, t3}
  BootTask = t1
  Idle = idle
  Worker = {}
  Policy = {"NORMAL", "WRR"}
  SchedPriority = {0}
  MAX_RT_PRIO = 4
  RR_TIMESLICE = 1
  StaticPrio = {4}
  DEFAULT_PRIO = 4
  MAX_PRIO = 5
  BoostPrio = {}
  Group = {fg}
  Background = {}
  RtGroup = {fg}
  SleepState = {"S"}
  ResetOnFork = {FALSE}
  WRR_WEIGHT_UNIT = 1
  WRR_FG_WEIGHT = 2
  WRR_BG_WEIGHT = 1
CHECK_DEADLOCK FALSE
PROPERTY
  TurnComes
