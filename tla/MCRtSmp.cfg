\* Three RT tasks of two priorities, one of which changes its priority and its
\* affinity, on two CPUs, one of which changes its root domain; two CPUs that
\* lend each other runtime; a clock read while it is written; and two writers
\* of the limits of groups.
SPECIFICATION RtSmpSpec
CONSTANTS
  t1 = t1
  t2 = t2
  t3 = t3
  Task = {t1, t2, t3}
  NrCpus = 2
  RtPrio = {1, 2}
  MAX_RT_PRIO = 3
  Mask = {{1}, {1, 2}}
  Changed = {t1}
  Rebuilt = {2}
  Idle = Idle
  Stop = Stop
  Word = 2
  MaxTime = 3
  MaxSequence = 8
  Group = {"root", "a", "b", "c", "d"}
  Root = "root"
  Parent <- Tree
  w1 = w1
  w2 = w2
  RtWriter = {w1, w2}
  CfsWriter = {w1, w2}
  Domain = {"def", "cpuset"}
  DefDomain = "def"
  Period = 6
  MaxRtTime = 5
  Limit <- GroupLimits
  RtRuntimes <- Runtimes
  RtPeriods = {0, 1, 2}
  InitRtRuntime = 1
  InitRtPeriod = 2
  Quotas <- QuotaValues
  QuotaPeriods = {0, 1, 2, 3}
  MinQuotaPeriod = 1
  MaxQuotaPeriod = 2
  InitQuotaPeriod = 2
  MaxUsed = 2
CONSTRAINT Bounds
SYMMETRY Symmetry
INVARIANTS
  PeersInformed
  Balanced
  
PROPERTIES
  MovedWhileWaiting
  
  ClockTaskRight
