\* One task whose group loses its runtime.
SPECIFICATION FairSpec
CONSTANTS
  t1 = t1
  t2 = t2
  root = root
  apps = apps
  bg = bg
  other = other
  Task = {t1}
  Group = {root, apps}
  Root = root
  Parent <- OneGroup
  Other = other
  MAX_RT_PRIO = 1
  Period = 2
  GlobalRuntime = 1
  Runtime = {0, 1}
  RUNTIME_INF = 9
  BoostPrio = {}
  MaxOverrun = 1
  MaxRtTime = 2
PROPERTIES
  ThrottleEnds
