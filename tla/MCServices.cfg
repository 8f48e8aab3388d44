\* Waiters of a completion, with and without timeouts, whose counter wraps at
\* UINT_MAX; two plain sleepers and two exclusive ones on a queue; three sample
\* windows of the load average; cpu_load[] under a changing weight;
\* and two callers that set the affinity of a task whose cpuset changes.
SPECIFICATION ServicesSpec
CONSTANTS
  w1 = w1
  w2 = w2
  s1 = s1
  s2 = s2
  x1 = x1
  x2 = x2
  a1 = a1
  a2 = a2
  Waiter = {w1, w2}
  Mode = {"S", "D", "K"}
  Timeout = {0, 1}
  Forever = Forever
  UINT_MAX = 7
  Sleeper = {s1, s2, x1, x2}
  Exclusive = {x1, x2}
  NrExclusive = {0, 1, 2}
  LOAD_FREQ = 4
  Window = 2
  FSHIFT = 11
  Exp = {1884}
  MaxActive = 2
  MaxIdle = 9
  MaxJiffies = 15
  Cpu = {1, 2, 3}
  Caller = {a1, a2}
  Mask = {{1}, {2}, {1, 2}, {2, 3}}
  Weight = {0, 10}
  Missed = {0, 1, 5, 31, 40, 63, 127, 130}
INVARIANTS
  NoLostCompletion
PROPERTIES
  ImplementsSemaphore
  WaitsEnd
  WakesTheRightTasks
  LoadSampled
  CpuLoadFollows
  AffinityInCpuset
