\* One task whose parameters two callers change, one of them capable; the ticks
\* of a task and ksoftirqd in a chain of three groups, two readers of a task's
\* times, and two files of cpuacct.usage; two tasks of two address spaces on two
\* CPUs; and four CPUs that cpusets divide.
SPECIFICATION CallsSpec
CONSTANTS
  t1 = t1
  c1 = c1
  c2 = c2
  p1 = p1
  p2 = p2
  Target = {t1}
  Caller = {c1, c2}
  Capable = {c1}
  Owner <- Owners
  Policy = {"NORMAL", "IDLE", "FIFO", "WRR"}
  Priority = {0, 1}
  RlimitRtprio = 0
  RlimitNice = 1
  MAX_USER_RT_PRIO = 2
  MinNice <- Nice
  MaxNice = 0
  Increment <- Increments
  Keep = Keep
  Task = {p1, p2}
  Mm = {"m1", "m2"}
  NrCpus = 2
  Accounted = {"task", "ksoftirqd"}
  Ksoftirqd = "ksoftirqd"
  Group = {"root", "a", "b"}
  Root = "root"
  Parent <- Tree
  IdleTicks = {1, 2}
  MaxTicks = 2
  Reader = {"r1", "r2"}
  Siglock = TRUE
  MaxTime = 6
  Wrap = 64
  File = {"f1", "f2"}
  MaxCharge = 2
  DomCpu = {1, 2, 3, 4}
  Boot = 1
  Isolated = {4}
  Config <- Configs
  RootDomain = {"def", "a", "b", "c", "d"}
  Def = "def"
CONSTRAINT TwoUsageGroups
INVARIANTS
  TimesAccounted
  ReferencesExact
  PartitionRestored
PROPERTIES
  ParametersChecked
  SuccessSets
