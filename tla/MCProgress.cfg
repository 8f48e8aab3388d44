\* Three tasks, one of them a fair-class daemon that keeps waking up; and two RT
\* tasks in two groups.
SPECIFICATION ProgressSpec
CONSTANTS
  t1 = t1
  t2 = t2
  t3 = t3
  r1 = r1
  r2 = r2
  other = other
  fg = fg
  bg = bg
  Task = {t1, t2, t3}
  BootTask = t1
  Idle = idle
  Worker = {}
  Policy = {"NORMAL", "WRR"}
  SchedPriority = {0}
  MAX_RT_PRIO = 4
  RR_TIMESLICE = 1
  StaticPrio = {4}
  DEFAULT_PRIO = 4
  MAX_PRIO = 5
  BoostPrio = {}
  Group = {fg}
  Background = {}
  RtGroup = {fg}
  SleepState = {"S"}
  ResetOnFork = {FALSE}
  WRR_WEIGHT_UNIT = 1
  WRR_FG_WEIGHT = 2
  WRR_BG_WEIGHT = 1
PROPERTIES
  TurnComes
  ThrottleEnds
  
