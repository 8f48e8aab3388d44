\* Two tasks in two groups, with inherited priorities; and two in a chain of
\* three groups whose limits stay as they are.
SPECIFICATION GroupsSpec
CONSTANTS
  t1 = t1
  t2 = t2
  root = root
  apps = apps
  bg = bg
  other = other
  Task = {t1, t2}
  Group = {root, apps}
  Root = root
  Parent <- OneGroup
  Other = other
  MAX_RT_PRIO = 2
  Period = 2
  GlobalRuntime = 1
  Runtime = {1}
  RUNTIME_INF = 9
  BoostPrio = {0}
  MaxOverrun = 1
  MaxRtTime = 2
SYMMETRY Symmetry
INVARIANTS
  GroupsConsistent
  NestedConsistent
PROPERTIES
  PassedOverOnlyAfter
