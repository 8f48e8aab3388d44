\* Two tasks woken, moved and put to sleep on two CPUs one of which comes and
\* goes.
SPECIFICATION Spec
CONSTANTS
  t1 = t1
  t2 = t2
  c1 = c1
  c2 = c2
  Task = {t1, t2}
  Cpu = {c1, c2}
  BootCpu = c1
  Idle = Idle
  Stop = Stop
  NoTask = NoTask
  SleepState = {"S", "D"}
  Mask <- Masks
  MaxWorks = 2
  MaxDrift = 1
SYMMETRY Symmetry
INVARIANTS
  EachOnOneCpu
  NoLostWakeUp
  NothingOnDeadCpu
PROPERTIES
  AstrayOnlyWhileWaking
