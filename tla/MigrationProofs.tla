-------------------------- MODULE MigrationProofs ---------------------------
(***************************************************************************)
(* Proofs about Migration for every number of tasks and CPUs: a task runs  *)
(* on one CPU at a time, a wake-up is not lost, an offline CPU holds       *)
(* nothing, and affinity is respected.                                     *)
(***************************************************************************)
EXTENDS Migration, DataProofs

-----------------------------------------------------------------------------
(* The inductive invariant *)

\* CPU c runs t, or still switches away from it.
holds(c, t) == t \in {curr[c], prev[c]}

\* p->on_cpu says that one CPU holds the task.  A task a CPU still switches
\* away from stays where it is queued, because that CPU holds its rq->lock.
RunningOK ==
  /\ \A t \in Task, c, d \in Cpu : holds(c, t) /\ holds(d, t) => c = d
  /\ \A t \in Task : task[t].on_cpu <=> \E c \in Cpu : holds(c, t)
  /\ \A c \in Cpu : curr[c] \in Task => task[curr[c]].cpu = c /\ task[curr[c]].on_rq
  /\ \A c \in Cpu : prev[c] \in Task => /\ prev[c] # curr[c]
                                        /\ task[prev[c]].on_rq => task[prev[c]].cpu = c

\* What the state of a task says, for a task that is being woken by nobody,
\* by the wake-up that holds its pi_lock, or through a wake list.
WakeOK(e, w, waiting) ==
  /\ e.on_rq => e.state # "WAKING"
  /\ ~e.on_rq => e.state # "R"
  /\ ~e.on_rq /\ e.state = "WAKING" => waiting
  /\ e.state # "WAKING" => e.contributes = 0
  /\ w # "none" => e.state # "WAKING"
  /\ w = "wait" => ~e.on_rq

WakingOK ==
  /\ \A t \in Task : WakeOK(task[t], wake[t], t \in wake_list[task[t].cpu])
  /\ \A c \in Cpu : wake_list[c] # {} => ipi[c]
  /\ \A c \in Cpu : \A t \in wake_list[c] :
       task[t].state = "WAKING" /\ task[t].cpu = c /\ ~task[t].on_cpu

\* Nothing happens on an offline CPU.
DeadOK ==
  \A c \in Cpu \ online :
    /\ curr[c] = Idle /\ prev[c] = NoTask /\ wake_list[c] = {} /\ works[c] = << >>
    /\ \A t \in Task : task[t].on_rq => task[t].cpu # c

\* Only the CPU on its way down is not active, only the CPU on its way up is
\* active before it is online.
HotplugOK ==
  /\ BootCpu \in online
  /\ hotplug[1] \in {"down", "dying"} =>
       hotplug[2] \in online /\ hotplug[2] \notin active /\ hotplug[2] # BootCpu
  /\ hotplug[1] = "up" => hotplug[2] \notin online
  /\ \A c \in active : c \in online \/ hotplug = <<"up", c>>

\* A stopper's work while act are active, on online, and hp is under way:
\* sched_setaffinity() keeps hotplug away, and no work leads to a CPU that is
\* gone or, behind the work of stop_machine(), to the one that goes.
GoodWork(w, on, act, hp) ==
  /\ w.dest \in on
  /\ w = Machine => hp[1] = "dying"
  /\ w # Machine => w.t \in Task
  /\ w.by = "affinity" => hp = NoHotplug /\ w.dest \in act

WorkListOK(s, on, act, hp) ==
  /\ \A i \in DOMAIN s : GoodWork(s[i], on, act, hp)
  /\ \A i, j \in DOMAIN s :
       i < j /\ s[i] = Machine => s[j] # Machine /\ s[j].dest # hp[2]

WorksOK == \A c \in Cpu : WorkListOK(works[c], online, active, hotplug)

IndInv ==
  TypeOK /\ RunningOK /\ WakingOK /\ DeadOK /\ HotplugOK /\ WorksOK /\ UninterruptibleSum

-----------------------------------------------------------------------------
(* The works of a stopper *)

LEMMA AppendWork ==
  ASSUME NEW s \in Seq(Work), NEW w \in Work
  PROVE  /\ Append(s, w) \in Seq(Work)
         /\ \A i \in DOMAIN Append(s, w) :
              \/ i \in DOMAIN s /\ Append(s, w)[i] = s[i]
              \/ i \notin DOMAIN s /\ Append(s, w)[i] = w /\ \A j \in DOMAIN s : j < i
         /\ \A i \in DOMAIN s : i \in DOMAIN Append(s, w)
         /\ Len(s) + 1 \in DOMAIN Append(s, w) /\ Append(s, w)[Len(s) + 1] = w
OBVIOUS

LEMMA FirstWork ==
  ASSUME NEW s \in Seq(Work), s # << >>
  PROVE  /\ Tail(s) \in Seq(Work) /\ Head(s) \in Work
         /\ 1 \in DOMAIN s /\ Head(s) = s[1]
         /\ \A i \in DOMAIN Tail(s) : i \in Nat /\ i + 1 \in DOMAIN s /\ Tail(s)[i] = s[i + 1] /\ 1 < i + 1
OBVIOUS

LEMMA WorkListAppend ==
  ASSUME NEW s \in Seq(Work), NEW w \in Work, NEW on, NEW act, NEW hp,
         WorkListOK(s, on, act, hp), GoodWork(w, on, act, hp),
         hp[1] = "dying" => w # Machine /\ w.dest # hp[2]
  PROVE  WorkListOK(Append(s, w), on, act, hp)
<1> DEFINE a == Append(s, w)
<1>1. /\ \A i \in DOMAIN a : \/ i \in DOMAIN s /\ a[i] = s[i]
                             \/ i \notin DOMAIN s /\ a[i] = w /\ \A j \in DOMAIN s : j < i
      /\ DOMAIN a \subseteq Int
  BY AppendWork
<1> HIDE DEF a
<1>2. \A i \in DOMAIN a : GoodWork(a[i], on, act, hp)
  BY <1>1 DEF WorkListOK
<1>3. ASSUME NEW i \in DOMAIN a, NEW j \in DOMAIN a, i < j, a[i] = Machine
      PROVE  a[j] # Machine /\ a[j].dest # hp[2]
  <2>1. hp[1] = "dying"
    BY <1>2, <1>3 DEF GoodWork
  <2>2. i \in DOMAIN s /\ a[i] = s[i]
    BY <1>1, <1>3, <2>1
  <2> QED BY <1>1, <1>3, <2>1, <2>2 DEF WorkListOK
<1> QED BY <1>2, <1>3 DEF WorkListOK, a

LEMMA WorkListTail ==
  ASSUME NEW s \in Seq(Work), s # << >>, NEW on, NEW act, NEW hp, WorkListOK(s, on, act, hp)
  PROVE  WorkListOK(Tail(s), on, act, hp)
<1>1. \A i \in DOMAIN Tail(s) : i \in Nat /\ i + 1 \in DOMAIN s /\ Tail(s)[i] = s[i + 1]
  BY FirstWork
<1> QED BY <1>1 DEF WorkListOK

\* Works of sched_exec() alone do not mind what hotplug does elsewhere.
LEMMA WorkListQuiet ==
  ASSUME NEW s, NEW on, NEW act, NEW hp,
         \A i \in DOMAIN s : /\ s[i].dest \in on /\ s[i] # Machine /\ s[i].t \in Task
                             /\ s[i].by # "affinity"
  PROVE  WorkListOK(s, on, act, hp)
BY DEF WorkListOK, GoodWork

-----------------------------------------------------------------------------
(* Running *)

LEMMA HeldOnCpu ==
  ASSUME RunningOK, NEW t \in Task, ~task[t].on_cpu
  PROVE  \A c \in Cpu : ~holds(c, t)
BY DEF RunningOK

\* Tasks that no CPU holds may change in any way.
LEMMA RunFrame ==
  ASSUME RunningOK, curr' = curr, prev' = prev,
         \A t \in Task : /\ task'[t].on_cpu = task[t].on_cpu
                         /\ task[t].on_cpu => /\ task'[t].on_rq = task[t].on_rq
                                              /\ task'[t].cpu = task[t].cpu
  PROVE  RunningOK'
<1>1. \A t \in Task, c \in Cpu : holds(c, t)' <=> holds(c, t)
  BY DEF holds
<1>2. \A c \in Cpu : curr[c] \in Task => task[curr[c]].on_cpu
  BY DEF RunningOK, holds
<1>3. \A c \in Cpu : prev[c] \in Task => task[prev[c]].on_cpu
  BY DEF RunningOK, holds
<1>4. (\A t \in Task, c, d \in Cpu : holds(c, t) /\ holds(d, t) => c = d)'
  BY <1>1 DEF RunningOK
<1>5. (\A t \in Task : task[t].on_cpu <=> \E c \in Cpu : holds(c, t))'
  BY <1>1 DEF RunningOK
<1>6. (\A c \in Cpu : curr[c] \in Task => task[curr[c]].cpu = c /\ task[curr[c]].on_rq)'
  BY <1>2 DEF RunningOK
<1>7. (\A c \in Cpu : prev[c] \in Task =>
         prev[c] # curr[c] /\ (task[prev[c]].on_rq => task[prev[c]].cpu = c))'
  BY <1>3 DEF RunningOK
<1> QED BY <1>4, <1>5, <1>6, <1>7 DEF RunningOK

\* A CPU switches to a task queued on it; ts are the tasks when the one that
\* ran has been taken off the run queue.
LEMMA SwitchRuns ==
  ASSUME TypeOK, RunningOK, NEW c \in Cpu, NEW next, NEW ts \in [Task -> TaskStruct],
         rq_free(c), NoTask \notin Task,
         \A t \in Task : /\ ts[t].on_cpu = task[t].on_cpu /\ ts[t].cpu = task[t].cpu
                         /\ t # curr[c] => ts[t].on_rq = task[t].on_rq,
         next \in Task => ts[next].on_rq /\ ts[next].cpu = c,
         switch_to(ts, c, next)
  PROVE  RunningOK'
<1>1. /\ next # curr[c] /\ prev[c] = NoTask
      /\ curr' = [curr EXCEPT ![c] = next] /\ prev' = [prev EXCEPT ![c] = curr[c]]
      /\ \A t \in Task : task'[t] = IF t = next THEN [ts[t] EXCEPT !.on_cpu = TRUE] ELSE ts[t]
  BY DEF switch_to, rq_free
<1>2. /\ curr'[c] = next /\ prev'[c] = curr[c]
      /\ \A d \in Cpu : d # c => curr'[d] = curr[d] /\ prev'[d] = prev[d]
  BY <1>1 DEF TypeOK
<1>3. \A t \in Task : /\ task'[t].cpu = task[t].cpu
                      /\ t # curr[c] => task'[t].on_rq = task[t].on_rq
                      /\ task'[t].on_cpu = (task[t].on_cpu \/ t = next)
  <2> SUFFICES ASSUME NEW t \in Task
               PROVE  /\ task'[t].cpu = task[t].cpu
                      /\ t # curr[c] => task'[t].on_rq = task[t].on_rq
                      /\ task'[t].on_cpu = (task[t].on_cpu \/ t = next)
    OBVIOUS
  <2>1. ts[t] \in TaskStruct /\ task[t] \in TaskStruct
    BY DEF TypeOK
  <2> QED BY <1>1, <2>1, ZenonT(60) DEF TaskStruct
<1>4. next \in Task => /\ task[next].cpu = c /\ task[next].on_rq
                       /\ task'[next].on_rq
                       /\ \A d \in Cpu : ~holds(d, next)
  <2> SUFFICES ASSUME next \in Task
               PROVE  /\ task[next].cpu = c /\ task[next].on_rq
                      /\ task'[next].on_rq
                      /\ \A d \in Cpu : ~holds(d, next)
    OBVIOUS
  <2>1. task[next].cpu = c /\ task[next].on_rq /\ task'[next].on_rq
    BY <1>1, <1>3
  <2>2. ASSUME NEW d \in Cpu, holds(d, next) PROVE FALSE
    <3>1. d = c
      BY <2>1, <2>2 DEF RunningOK, holds
    <3> QED BY <1>1, <2>2, <3>1 DEF holds
  <2> QED BY <2>1, <2>2
<1>5. \A t \in Task, d \in Cpu : holds(d, t)' <=> holds(d, t) \/ (t = next /\ d = c)
  BY <1>1, <1>2 DEF holds
<1>6. (\A t \in Task, d, e \in Cpu : holds(d, t) /\ holds(e, t) => d = e)'
  BY <1>4, <1>5 DEF RunningOK
<1>7. (\A t \in Task : task[t].on_cpu <=> \E d \in Cpu : holds(d, t))'
  BY <1>3, <1>5 DEF RunningOK
<1>8. ASSUME NEW d \in Cpu, curr'[d] \in Task
      PROVE  task'[curr'[d]].cpu = d /\ task'[curr'[d]].on_rq
  <2>1. CASE d = c
    BY <1>2, <1>3, <1>4, <1>8, <2>1
  <2>2. CASE d # c
    <3>1. curr'[d] = curr[d] /\ task[curr[d]].cpu = d /\ task[curr[d]].on_rq
      BY <1>2, <1>8, <2>2 DEF RunningOK
    <3>2. curr[d] # curr[c]
      BY <1>8, <2>2, <3>1 DEF RunningOK, holds
    <3> QED BY <1>3, <1>8, <3>1, <3>2
  <2> QED BY <2>1, <2>2
<1>9. ASSUME NEW d \in Cpu, prev'[d] \in Task
      PROVE  prev'[d] # curr'[d] /\ (task'[prev'[d]].on_rq => task'[prev'[d]].cpu = d)
  <2>1. CASE d = c
    BY <1>1, <1>2, <1>3, <1>9, <2>1 DEF RunningOK
  <2>2. CASE d # c
    <3>1. prev'[d] = prev[d] /\ curr'[d] = curr[d]
      BY <1>2, <2>2
    <3>2. prev[d] # curr[c]
      BY <1>9, <2>2, <3>1 DEF RunningOK, holds
    <3> QED BY <1>3, <1>9, <3>1, <3>2 DEF RunningOK
  <2> QED BY <2>1, <2>2
<1> QED BY <1>6, <1>7, <1>8, <1>9 DEF RunningOK

\* finish_task_switch() lets go of the task the CPU switched away from.
LEMMA FinishRuns ==
  ASSUME TypeOK, RunningOK, NEW c \in Cpu, FinishTaskSwitch(c), NoTask \notin Task
  PROVE  RunningOK'
<1>1. /\ prev' = [prev EXCEPT ![c] = NoTask] /\ curr' = curr
      /\ \A t \in Task : task'[t] = IF t = prev[c] THEN [task[t] EXCEPT !.on_cpu = FALSE]
                                    ELSE task[t]
  BY DEF FinishTaskSwitch
<1>2. prev'[c] = NoTask /\ \A d \in Cpu : d # c => prev'[d] = prev[d]
  BY <1>1 DEF TypeOK
<1>3. \A t \in Task : /\ task'[t].cpu = task[t].cpu /\ task'[t].on_rq = task[t].on_rq
                      /\ task'[t].on_cpu = (task[t].on_cpu /\ t # prev[c])
  <2> SUFFICES ASSUME NEW t \in Task
               PROVE  /\ task'[t].cpu = task[t].cpu /\ task'[t].on_rq = task[t].on_rq
                      /\ task'[t].on_cpu = (task[t].on_cpu /\ t # prev[c])
    OBVIOUS
  <2>1. task[t] \in TaskStruct
    BY DEF TypeOK
  <2>2. CASE t = prev[c]
    BY <1>1, <2>1, <2>2 DEF TaskStruct
  <2>3. CASE t # prev[c]
    <3>1. task'[t] = task[t]
      BY <1>1, <2>3
    <3> QED BY <2>1, <2>3, <3>1 DEF TaskStruct
  <2> QED BY <2>2, <2>3
<1>4. \A t \in Task, d \in Cpu : holds(d, t)' <=> holds(d, t) /\ t # prev[c]
  <2> SUFFICES ASSUME NEW t \in Task, NEW d \in Cpu
               PROVE  holds(d, t)' <=> holds(d, t) /\ t # prev[c]
    OBVIOUS
  <2>1. CASE d = c
    BY <1>1, <1>2, <2>1 DEF holds, RunningOK
  <2>2. CASE d # c
    <3>1. holds(d, t)' <=> holds(d, t)
      BY <1>1, <1>2, <2>2 DEF holds
    <3>2. ~(holds(d, t) /\ t = prev[c])
      BY <2>2 DEF holds, RunningOK
    <3> QED BY <3>1, <3>2
  <2> QED BY <2>1, <2>2
<1>5. (\A t \in Task, d, e \in Cpu : holds(d, t) /\ holds(e, t) => d = e)'
  BY <1>4 DEF RunningOK
<1>6. (\A t \in Task : task[t].on_cpu <=> \E d \in Cpu : holds(d, t))'
  BY <1>3, <1>4 DEF RunningOK
<1>7. (\A d \in Cpu : curr[d] \in Task => task[curr[d]].cpu = d /\ task[curr[d]].on_rq)'
  BY <1>1, <1>3 DEF RunningOK
<1>8. (\A d \in Cpu : prev[d] \in Task =>
         prev[d] # curr[d] /\ (task[prev[d]].on_rq => task[prev[d]].cpu = d))'
  BY <1>1, <1>2, <1>3 DEF RunningOK
<1> QED BY <1>5, <1>6, <1>7, <1>8 DEF RunningOK

-----------------------------------------------------------------------------
(* Uninterruptible sleepers *)

\* What a task adds to the sum of nr_uninterruptible.
Blocked(e) == IF ~e.on_rq /\ (e.state = "D" \/ e.contributes = 1) THEN 1 ELSE 0

BlockedTasks(ts) == [t \in Task |-> Blocked(ts[t])]

LEMMA Finite == IsFiniteSet(Task) /\ IsFiniteSet(Cpu) /\ BootCpu \in Cpu
BY MigrationAssumption

LEMMA Names == NoTask \notin Task /\ Idle \notin Task /\ Stop \notin Task
BY MigrationAssumption

LEMMA BlockedSum ==
  ASSUME NEW ts
  PROVE  Cardinality({t \in Task : ~ts[t].on_rq /\ (ts[t].state = "D" \/ ts[t].contributes = 1)})
           = SumFunctionOnSet(BlockedTasks(ts), Task)
<1> DEFINE f == BlockedTasks(ts)
<1>1. \A t \in Task : f[t] \in {0, 1}
  BY DEF BlockedTasks, Blocked
<1>2. {t \in Task : ~ts[t].on_rq /\ (ts[t].state = "D" \/ ts[t].contributes = 1)}
        = {t \in Task : f[t] = 1}
  BY DEF BlockedTasks, Blocked
<1> HIDE DEF f
<1>3. SumFunctionOnSet(f, Task) = Cardinality({t \in Task : f[t] = 1})
  BY <1>1, Finite, SumCounts
<1> QED BY <1>2, <1>3 DEF f

\* The counters of the CPUs balance the sleepers among the tasks ts.
CountersBalance(ts, nr) == SumFunctionOnSet(nr, Cpu) = SumFunctionOnSet(BlockedTasks(ts), Task)

LEMMA SumIsBalance ==
  /\ UninterruptibleSum <=> CountersBalance(task, nr_uninterruptible)
  /\ UninterruptibleSum' <=> CountersBalance(task', nr_uninterruptible')
<1>1. UninterruptibleSum <=> CountersBalance(task, nr_uninterruptible)
  BY BlockedSum DEF UninterruptibleSum, CountersBalance
<1>2. Cardinality({t \in Task : ~task'[t].on_rq /\ (task'[t].state = "D" \/ task'[t].contributes = 1)})
        = SumFunctionOnSet(BlockedTasks(task'), Task)
  BY BlockedSum
<1>3. UninterruptibleSum' <=> CountersBalance(task', nr_uninterruptible')
  BY <1>2 DEF UninterruptibleSum, CountersBalance
<1> QED BY <1>1, <1>3

LEMMA BalanceFrame ==
  ASSUME NEW ts, NEW us, NEW nr, CountersBalance(ts, nr),
         \A t \in Task : Blocked(us[t]) = Blocked(ts[t])
  PROVE  CountersBalance(us, nr)
<1>1. BlockedTasks(us) = BlockedTasks(ts)
  BY DEF BlockedTasks
<1> QED BY <1>1 DEF CountersBalance

\* SumUpdate for the sums over the CPUs and over the tasks.
LEMMA CpuSum ==
  ASSUME NEW nr, NEW mr, NEW c \in Cpu, \A d \in Cpu : nr[d] \in Int,
         mr[c] \in Int, \A d \in Cpu \ {c} : mr[d] = nr[d]
  PROVE  /\ SumFunctionOnSet(nr, Cpu) \in Int
         /\ SumFunctionOnSet(mr, Cpu) = SumFunctionOnSet(nr, Cpu) - nr[c] + mr[c]
BY Finite, SumUpdate, SumType

LEMMA TaskSum ==
  ASSUME NEW f, NEW g, NEW t \in Task, \A u \in Task : f[u] \in Int,
         g[t] \in Int, \A u \in Task \ {t} : g[u] = f[u]
  PROVE  /\ SumFunctionOnSet(f, Task) \in Int
         /\ SumFunctionOnSet(g, Task) = SumFunctionOnSet(f, Task) - f[t] + g[t]
BY Finite, SumUpdate, SumType

\* One task blocks or stops to block, and one counter follows.
LEMMA BalanceMove ==
  ASSUME NEW ts, NEW us, NEW nr \in [Cpu -> Int], NEW mr, NEW t \in Task, NEW c \in Cpu,
         CountersBalance(ts, nr),
         \A u \in Task : u # t => us[u] = ts[u],
         mr[c] = nr[c] + (Blocked(us[t]) - Blocked(ts[t])),
         \A d \in Cpu \ {c} : mr[d] = nr[d]
  PROVE  CountersBalance(us, mr)
<1> DEFINE f == BlockedTasks(ts)
           g == BlockedTasks(us)
<1>1. /\ \A u \in Task : f[u] \in Int /\ g[u] \in Int
      /\ \A u \in Task \ {t} : g[u] = f[u]
      /\ f[t] = Blocked(ts[t]) /\ g[t] = Blocked(us[t])
  BY DEF BlockedTasks, Blocked
<1> HIDE DEF f, g
<1>2. SumFunctionOnSet(g, Task) = SumFunctionOnSet(f, Task) - f[t] + g[t]
  BY <1>1, TaskSum
<1>3. /\ mr[c] = nr[c] + (g[t] - f[t])
      /\ \A d \in Cpu \ {c} : mr[d] = nr[d]
      /\ \A d \in Cpu : nr[d] \in Int
      /\ mr[c] \in Int
  BY <1>1
<1>4. SumFunctionOnSet(mr, Cpu) = SumFunctionOnSet(nr, Cpu) - nr[c] + mr[c]
  BY <1>3, CpuSum
<1>5. SumFunctionOnSet(nr, Cpu) = SumFunctionOnSet(f, Task)
  BY DEF CountersBalance, f
<1>6. SumFunctionOnSet(nr, Cpu) \in Int
  BY <1>3, Finite, SumType
<1>7. SumFunctionOnSet(mr, Cpu) = SumFunctionOnSet(g, Task)
  BY <1>1, <1>2, <1>3, <1>4, <1>5, <1>6
<1> QED BY <1>7 DEF CountersBalance, g

\* sched_ttwu_pending() takes off one counter what all the tasks it activates
\* had added.
LEMMA BalancePending ==
  ASSUME NEW ts, NEW us, NEW nr \in [Cpu -> Int], NEW mr, NEW c \in Cpu, NEW W \in SUBSET Task,
         CountersBalance(ts, nr),
         NEW h, \A t \in W : Blocked(us[t]) = 0 /\ Blocked(ts[t]) = h[t],
         \A t \in Task \ W : Blocked(us[t]) = Blocked(ts[t]),
         mr[c] = nr[c] - SumFunctionOnSet(h, W),
         \A d \in Cpu \ {c} : mr[d] = nr[d]
  PROVE  CountersBalance(us, mr)
<1> DEFINE f == BlockedTasks(ts)
           g == BlockedTasks(us)
<1>1. /\ \A t \in Task : f[t] \in Int /\ g[t] \in Int
      /\ \A t \in W : g[t] = 0 /\ f[t] = h[t]
      /\ \A t \in Task \ W : g[t] = f[t]
  BY DEF BlockedTasks, Blocked
<1> HIDE DEF f, g
<1>3. IsFiniteSet(W) /\ IsFiniteSet(Task \ W) /\ W \cup (Task \ W) = Task /\ W \cap (Task \ W) = {}
  BY Finite, FS_Subset
<1>4. /\ SumFunctionOnSet(f, W \cup (Task \ W))
           = SumFunctionOnSet(f, W) + SumFunctionOnSet(f, Task \ W)
      /\ SumFunctionOnSet(g, W \cup (Task \ W))
           = SumFunctionOnSet(g, W) + SumFunctionOnSet(g, Task \ W)
  BY <1>1, <1>3, SumUnion
<1>5. SumFunctionOnSet(g, W) = 0
  BY <1>1, <1>3, SumZero
<1>6. SumFunctionOnSet(f, W) \in Int /\ SumFunctionOnSet(f, W) = SumFunctionOnSet(h, W)
  BY <1>1, <1>3, SumSame
<1>7. /\ SumFunctionOnSet(f, Task \ W) \in Int
      /\ SumFunctionOnSet(f, Task \ W) = SumFunctionOnSet(g, Task \ W)
  BY <1>1, <1>3, SumSame
<1>8. SumFunctionOnSet(g, Task) = SumFunctionOnSet(f, Task) - SumFunctionOnSet(h, W)
  <2>1. /\ SumFunctionOnSet(f, Task) = SumFunctionOnSet(f, W) + SumFunctionOnSet(f, Task \ W)
        /\ SumFunctionOnSet(g, Task) = SumFunctionOnSet(g, W) + SumFunctionOnSet(g, Task \ W)
    BY <1>3, <1>4
  <2> QED BY <1>5, <1>6, <1>7, <2>1
<1>9. /\ mr[c] = nr[c] - SumFunctionOnSet(h, W)
      /\ \A d \in Cpu \ {c} : mr[d] = nr[d]
      /\ \A d \in Cpu : nr[d] \in Int
      /\ mr[c] \in Int
  BY <1>6
<1>10. SumFunctionOnSet(mr, Cpu) = SumFunctionOnSet(nr, Cpu) - nr[c] + mr[c]
  BY <1>9, CpuSum, ZenonT(60)
<1>11. SumFunctionOnSet(nr, Cpu) = SumFunctionOnSet(f, Task) /\ SumFunctionOnSet(nr, Cpu) \in Int
  BY <1>9, Finite, SumType DEF CountersBalance, f
<1>12. SumFunctionOnSet(mr, Cpu) = SumFunctionOnSet(g, Task)
  BY <1>6, <1>8, <1>9, <1>10, <1>11
<1> QED BY <1>12 DEF CountersBalance, g

\* migrate_nr_uninterruptible() keeps the sum.
LEMMA BalanceMoved ==
  ASSUME NEW ts, NEW nr \in [Cpu -> Int], NEW c \in Cpu, NEW d \in Cpu, c # d,
         CountersBalance(ts, nr)
  PROVE  moved_count(nr, c, d) \in [Cpu -> Int] /\ CountersBalance(ts, moved_count(nr, c, d))
<1> DEFINE m == [nr EXCEPT ![d] = @ + nr[c]]
           n == moved_count(nr, c, d)
<1>1. /\ m[d] = nr[d] + nr[c] /\ m[c] = nr[c] /\ \A e \in Cpu \ {d} : m[e] = nr[e]
      /\ \A e \in Cpu : nr[e] \in Int /\ m[e] \in Int
  OBVIOUS
<1>2. n[c] = 0 /\ n \in [Cpu -> Int] /\ \A e \in Cpu \ {c} : n[e] = m[e]
  BY <1>1 DEF moved_count
<1> HIDE DEF m, n
<1>3. SumFunctionOnSet(m, Cpu) = SumFunctionOnSet(nr, Cpu) - nr[d] + m[d]
  BY <1>1, Finite, SumUpdate
<1>4. SumFunctionOnSet(n, Cpu) = SumFunctionOnSet(m, Cpu) - m[c] + n[c]
  BY <1>1, <1>2, Finite, SumUpdate
<1>5. SumFunctionOnSet(nr, Cpu) \in Int
  BY <1>1, Finite, SumType
<1>6. SumFunctionOnSet(n, Cpu) = SumFunctionOnSet(nr, Cpu)
  BY <1>1, <1>2, <1>3, <1>4, <1>5
<1>7. CountersBalance(ts, n)
  BY <1>6 DEF CountersBalance
<1> QED BY <1>2, <1>7 DEF n

-----------------------------------------------------------------------------
(* What a step that leaves a part alone keeps *)

LEMMA StopFrame ==
  ASSUME HotplugOK, WorksOK, UNCHANGED stop_vars
  PROVE  HotplugOK' /\ WorksOK'
<1>1. works' = works /\ online' = online /\ active' = active /\ hotplug' = hotplug
  BY DEF stop_vars
<1> QED BY <1>1 DEF HotplugOK, WorksOK

LEMMA DeadFrame ==
  ASSUME DeadOK, online' = online,
         \A c \in Cpu \ online : /\ curr'[c] = curr[c] /\ prev'[c] = prev[c]
                                 /\ wake_list'[c] = wake_list[c] /\ works'[c] = works[c],
         \A t \in Task : task'[t].on_rq => \/ task'[t].cpu \in online
                                           \/ task[t].on_rq /\ task'[t].cpu = task[t].cpu
  PROVE  DeadOK'
BY DEF DeadOK

\* A CPU where something happens is online.
LEMMA Alive ==
  ASSUME TypeOK, DeadOK
  PROVE  /\ \A t \in Task : task[t].on_rq => task[t].cpu \in online
         /\ \A c \in Cpu : curr[c] \in Task \/ prev[c] # NoTask => c \in online
<1>1. \A t \in Task : task[t].cpu \in Cpu
  BY DEF TypeOK, TaskStruct
<1> QED BY <1>1, Names DEF DeadOK

\* A task on no wake list may change its state as long as a task off the run
\* queue can be woken.
LEMMA WakeFrame ==
  ASSUME TypeOK, WakingOK, wake_list' = wake_list, ipi' = ipi,
         \A t \in Task :
           \/ /\ task'[t].state = task[t].state /\ task'[t].on_rq = task[t].on_rq
              /\ task'[t].cpu = task[t].cpu /\ task'[t].contributes = task[t].contributes
              /\ task'[t].on_cpu => task[t].on_cpu
              /\ wake'[t] = wake[t]
           \/ /\ task[t].state # "WAKING" /\ task'[t].state # "WAKING"
              /\ task'[t].contributes = 0
              /\ ~task'[t].on_rq => task'[t].state # "R"
              /\ wake'[t] = "wait" => ~task'[t].on_rq
  PROVE  WakingOK'
<1>1. (\A c \in Cpu : wake_list[c] # {} => ipi[c])'
  BY DEF WakingOK
<1>2. (\A c \in Cpu : \A t \in wake_list[c] :
         task[t].state = "WAKING" /\ task[t].cpu = c /\ ~task[t].on_cpu)'
  <2> SUFFICES ASSUME NEW c \in Cpu, NEW t \in wake_list[c]
               PROVE  task'[t].state = "WAKING" /\ task'[t].cpu = c /\ ~task'[t].on_cpu
    OBVIOUS
  <2>1. t \in Task /\ task[t].state = "WAKING" /\ task[t].cpu = c /\ ~task[t].on_cpu
    BY DEF TypeOK, WakingOK
  <2> QED BY <2>1
<1>3. (\A t \in Task : WakeOK(task[t], wake[t], t \in wake_list[task[t].cpu]))'
  <2> SUFFICES ASSUME NEW t \in Task
               PROVE  WakeOK(task[t], wake[t], t \in wake_list[task[t].cpu])'
    OBVIOUS
  <2>1. WakeOK(task[t], wake[t], t \in wake_list[task[t].cpu])
    BY DEF WakingOK
  <2> QED BY <2>1 DEF WakeOK
<1> QED BY <1>1, <1>2, <1>3 DEF WakingOK

LEMMA SumFrame ==
  ASSUME UninterruptibleSum, nr_uninterruptible' = nr_uninterruptible,
         \A t \in Task : Blocked(task'[t]) = Blocked(task[t])
  PROVE  UninterruptibleSum'
<1>1. CountersBalance(task, nr_uninterruptible)
  BY SumIsBalance
<1>2. CountersBalance(task', nr_uninterruptible)
  BY <1>1, BalanceFrame
<1> QED BY <1>2, SumIsBalance

-----------------------------------------------------------------------------
(* The steps *)

LEMMA StepWakeUp ==
  ASSUME IndInv, NEW t \in Task, WakeUp(t)
  PROVE  IndInv'
<1>0. /\ wake' = [wake EXCEPT ![t] = IF task[t].on_rq THEN "remote" ELSE "wait"]
      /\ task[t].state \in {"S", "D"}
      /\ task' = task /\ curr' = curr /\ prev' = prev /\ wake_list' = wake_list /\ ipi' = ipi
      /\ nr_uninterruptible' = nr_uninterruptible /\ UNCHANGED stop_vars /\ online' = online
      /\ works' = works
  BY DEF WakeUp, stop_vars
<1>1. TypeOK'
  BY <1>0 DEF IndInv, TypeOK, stop_vars
<1>2. RunningOK'
  BY <1>0, RunFrame DEF IndInv
<1>3. WakingOK'
  <2>1. \A u \in Task : WakeOK(task[u], wake[u], u \in wake_list[task[u].cpu])
    BY DEF IndInv, WakingOK
  <2>2. wake'[t] = "wait" => ~task[t].on_rq
    BY <1>0 DEF IndInv, TypeOK
  <2>3. \A u \in Task : u # t => wake'[u] = wake[u]
    BY <1>0 DEF IndInv, TypeOK
  <2> QED BY <1>0, <2>1, <2>2, <2>3, WakeFrame DEF IndInv, WakeOK
<1>4. DeadOK' /\ HotplugOK' /\ WorksOK'
  BY <1>0, DeadFrame, StopFrame DEF IndInv
<1>5. UninterruptibleSum'
  BY <1>0, SumFrame DEF IndInv
<1> QED BY <1>1, <1>2, <1>3, <1>4, <1>5 DEF IndInv

LEMMA StepTtwuRemote ==
  ASSUME IndInv, NEW t \in Task, TtwuRemote(t)
  PROVE  IndInv'
<1>0. /\ wake[t] = "remote"
      /\ curr' = curr /\ prev' = prev /\ wake_list' = wake_list /\ ipi' = ipi
      /\ nr_uninterruptible' = nr_uninterruptible /\ UNCHANGED stop_vars /\ online' = online
      /\ works' = works
  BY DEF TtwuRemote, stop_vars
<1>a. task \in [Task -> TaskStruct] /\ wake \in [Task -> {"none", "remote", "wait"}]
  BY DEF IndInv, TypeOK
<1>b. WakeOK(task[t], wake[t], t \in wake_list[task[t].cpu])
  BY DEF IndInv, WakingOK
<1>c. /\ \A u \in Task : u # t => task'[u] = task[u] /\ wake'[u] = wake[u]
      /\ task'[t] \in TaskStruct
      /\ task'[t].on_rq = task[t].on_rq /\ task'[t].on_cpu = task[t].on_cpu
      /\ task'[t].cpu = task[t].cpu /\ task'[t].contributes = task[t].contributes
      /\ task' \in [Task -> TaskStruct] /\ wake' \in [Task -> {"none", "remote", "wait"}]
      /\ \/ task[t].on_rq /\ task'[t].state = "R" /\ wake'[t] = "none"
         \/ ~task[t].on_rq /\ task'[t].state = task[t].state /\ wake'[t] = "wait"
  <2>1. task[t] \in TaskStruct
    BY <1>a
  <2>2. CASE task[t].on_rq
    <3>1. task' = [task EXCEPT ![t].state = "R"] /\ wake' = [wake EXCEPT ![t] = "none"]
      BY <2>2 DEF TtwuRemote
    <3> QED BY <1>a, <2>1, <2>2, <3>1 DEF TaskStruct
  <2>3. CASE ~task[t].on_rq
    <3>1. task' = task /\ wake' = [wake EXCEPT ![t] = "wait"]
      BY <2>3 DEF TtwuRemote
    <3> QED BY <1>a, <2>1, <2>3, <3>1
  <2> QED BY <2>2, <2>3
<1>1. TypeOK'
  BY <1>0, <1>c DEF IndInv, TypeOK, stop_vars
<1>2. RunningOK'
  BY <1>0, <1>c, RunFrame DEF IndInv
<1>3. WakingOK'
  BY <1>0, <1>b, <1>c, WakeFrame DEF IndInv, WakeOK
<1>4. DeadOK' /\ HotplugOK' /\ WorksOK'
  BY <1>0, <1>c, DeadFrame, StopFrame DEF IndInv
<1>5. UninterruptibleSum'
  <2>1. Blocked(task'[t]) = Blocked(task[t])
    BY <1>c DEF Blocked
  <2> QED BY <1>0, <1>c, <2>1, SumFrame DEF IndInv
<1> QED BY <1>1, <1>2, <1>3, <1>4, <1>5 DEF IndInv

\* The running task changes its state.
LEMMA RunningState ==
  ASSUME IndInv, NEW c \in Cpu, curr[c] \in Task, NEW s \in {"R", "S", "D"},
         task' = [task EXCEPT ![curr[c]].state = s],
         UNCHANGED <<curr, prev, nr_uninterruptible, wake_vars, stop_vars>>
  PROVE  IndInv'
<1> DEFINE t == curr[c]
<1>0. /\ curr' = curr /\ prev' = prev /\ wake_list' = wake_list /\ ipi' = ipi /\ wake' = wake
      /\ nr_uninterruptible' = nr_uninterruptible /\ UNCHANGED stop_vars /\ online' = online
      /\ works' = works
  BY DEF wake_vars, stop_vars
<1>a. /\ task \in [Task -> TaskStruct] /\ task[t] \in TaskStruct /\ task[t].on_rq
  BY DEF IndInv, TypeOK, RunningOK
<1>b. WakeOK(task[t], wake[t], t \in wake_list[task[t].cpu])
  BY DEF IndInv, WakingOK
<1>c. /\ \A u \in Task : u # t => task'[u] = task[u]
      /\ task'[t] \in TaskStruct /\ task'[t].state = s
      /\ task'[t].on_rq = task[t].on_rq /\ task'[t].on_cpu = task[t].on_cpu
      /\ task'[t].cpu = task[t].cpu /\ task'[t].contributes = task[t].contributes
      /\ task' \in [Task -> TaskStruct]
  BY <1>a DEF TaskStruct
<1> HIDE DEF t
<1>1. TypeOK'
  BY <1>0, <1>c DEF IndInv, TypeOK, stop_vars
<1>2. RunningOK'
  BY <1>0, <1>c, RunFrame DEF IndInv
<1>3. WakingOK'
  BY <1>0, <1>a, <1>b, <1>c, WakeFrame DEF IndInv, WakeOK
<1>4. DeadOK' /\ HotplugOK' /\ WorksOK'
  BY <1>0, <1>c, DeadFrame, StopFrame DEF IndInv
<1>5. UninterruptibleSum'
  <2>1. Blocked(task'[t]) = Blocked(task[t])
    BY <1>a, <1>b, <1>c DEF Blocked, WakeOK
  <2> QED BY <1>0, <1>c, <2>1, SumFrame DEF IndInv
<1> QED BY <1>1, <1>2, <1>3, <1>4, <1>5 DEF IndInv

LEMMA StepSetCurrentState ==
  ASSUME IndInv, NEW c \in Cpu, NEW s \in SleepState \cup {"R"}, SetCurrentState(c, s)
  PROVE  IndInv'
<1>1. s \in {"R", "S", "D"}
  BY MigrationAssumption
<1> QED BY <1>1, RunningState DEF SetCurrentState

\* What switch_to() leaves of tasks; ts are the tasks before it.
LEMMA SwitchTasks ==
  ASSUME TypeOK, NEW c \in Cpu, NEW ts \in [Task -> TaskStruct],
         NEW next \in Task \cup {Idle, Stop}, switch_to(ts, c, next)
  PROVE  /\ task' \in [Task -> TaskStruct]
         /\ curr' \in [Cpu -> Task \cup {Idle, Stop}]
         /\ prev' \in [Cpu -> Task \cup {Idle, Stop, NoTask}]
         /\ \A d \in Cpu \ {c} : curr'[d] = curr[d] /\ prev'[d] = prev[d]
         /\ \A t \in Task : /\ task'[t].state = ts[t].state /\ task'[t].on_rq = ts[t].on_rq
                            /\ task'[t].cpu = ts[t].cpu /\ task'[t].allowed = ts[t].allowed
                            /\ task'[t].contributes = ts[t].contributes
                            /\ t # next => task'[t].on_cpu = ts[t].on_cpu
<1>1. /\ curr' = [curr EXCEPT ![c] = next] /\ prev' = [prev EXCEPT ![c] = curr[c]]
      /\ task' = [t \in Task |-> IF t = next THEN [ts[t] EXCEPT !.on_cpu = TRUE] ELSE ts[t]]
  BY DEF switch_to
<1>2. /\ curr \in [Cpu -> Task \cup {Idle, Stop}]
      /\ prev \in [Cpu -> Task \cup {Idle, Stop, NoTask}]
  BY DEF TypeOK
<1>3. ASSUME NEW t \in Task
      PROVE  /\ task'[t] \in TaskStruct
             /\ task'[t].state = ts[t].state /\ task'[t].on_rq = ts[t].on_rq
             /\ task'[t].cpu = ts[t].cpu /\ task'[t].allowed = ts[t].allowed
             /\ task'[t].contributes = ts[t].contributes
             /\ t # next => task'[t].on_cpu = ts[t].on_cpu
  <2>1. ts[t] \in TaskStruct
    OBVIOUS
  <2>2. task'[t] = IF t = next THEN [ts[t] EXCEPT !.on_cpu = TRUE] ELSE ts[t]
    BY <1>1
  <2> QED BY <2>1, <2>2 DEF TaskStruct
<1>4. task' \in [Task -> TaskStruct]
  BY <1>1, <1>3
<1>5. curr' \in [Cpu -> Task \cup {Idle, Stop}] /\ prev' \in [Cpu -> Task \cup {Idle, Stop, NoTask}]
  BY <1>1, <1>2
<1> QED BY <1>1, <1>2, <1>3, <1>4, <1>5

\* CPU c switches to what it picks among the tasks ts, which differ from the
\* tasks only by the running one, now off the run queue.
LEMMA StepSwitch ==
  ASSUME IndInv, NEW c \in Cpu, rq_free(c), c \in online, NEW ts \in [Task -> TaskStruct],
         \A t \in Task : /\ ts[t].on_cpu = task[t].on_cpu /\ ts[t].cpu = task[t].cpu
                         /\ ts[t].state = task[t].state
                         /\ ts[t].contributes = task[t].contributes
                         /\ t # curr[c] => ts[t].on_rq = task[t].on_rq
                         /\ ts[t].on_rq => task[t].on_rq
                         /\ ts[t].on_rq \/ ts[t].state # "R"
                         /\ task[t].on_rq /\ ~ts[t].on_rq => task[t].state \in {"S", "D"},
         NEW next \in pick_next_task(ts, c), switch_to(ts, c, next),
         UNCHANGED <<wake_vars, stop_vars>>
  PROVE  /\ RunningOK' /\ WakingOK' /\ DeadOK' /\ HotplugOK' /\ WorksOK'
         /\ task' \in [Task -> TaskStruct]
         /\ curr' \in [Cpu -> Task \cup {Idle, Stop}]
         /\ prev' \in [Cpu -> Task \cup {Idle, Stop, NoTask}]
         /\ \A t \in Task : Blocked(task'[t]) = Blocked(ts[t])
<1>0. /\ wake' = wake /\ wake_list' = wake_list /\ ipi' = ipi /\ online' = online
      /\ works' = works /\ UNCHANGED stop_vars
  BY DEF wake_vars, stop_vars
<1>1. /\ next \in Task \cup {Idle, Stop}
      /\ next \in Task => ts[next].on_rq /\ ts[next].cpu = c
  BY Names DEF pick_next_task
<1>2. /\ task' \in [Task -> TaskStruct]
      /\ curr' \in [Cpu -> Task \cup {Idle, Stop}]
      /\ prev' \in [Cpu -> Task \cup {Idle, Stop, NoTask}]
      /\ \A d \in Cpu \ {c} : curr'[d] = curr[d] /\ prev'[d] = prev[d]
      /\ \A t \in Task : /\ task'[t].state = ts[t].state /\ task'[t].on_rq = ts[t].on_rq
                         /\ task'[t].cpu = ts[t].cpu
                         /\ task'[t].contributes = ts[t].contributes
                         /\ t # next => task'[t].on_cpu = ts[t].on_cpu
  BY <1>1, SwitchTasks DEF IndInv
<1>3. RunningOK'
  BY <1>1, Names, SwitchRuns DEF IndInv
<1>4. WakingOK'
  <2>1. \A t \in Task : WakeOK(task[t], wake[t], t \in wake_list[task[t].cpu])
    BY DEF IndInv, WakingOK
  <2>2. ASSUME NEW t \in Task
        PROVE  \/ /\ task'[t].state = task[t].state /\ task'[t].on_rq = task[t].on_rq
                  /\ task'[t].cpu = task[t].cpu /\ task'[t].contributes = task[t].contributes
                  /\ task'[t].on_cpu => task[t].on_cpu
                  /\ wake'[t] = wake[t]
               \/ /\ task[t].state # "WAKING" /\ task'[t].state # "WAKING"
                  /\ task'[t].contributes = 0
                  /\ ~task'[t].on_rq => task'[t].state # "R"
                  /\ wake'[t] = "wait" => ~task'[t].on_rq
    <3>1. CASE task[t].on_rq
      <4>1. /\ task[t].state # "WAKING" /\ task[t].contributes = 0
            /\ wake[t] # "wait"
        BY <2>1, <3>1 DEF WakeOK
      <4>2. /\ task'[t].state = task[t].state
            /\ task'[t].contributes = task[t].contributes
            /\ task'[t].on_rq = ts[t].on_rq /\ (ts[t].on_rq \/ ts[t].state # "R")
            /\ ts[t].state = task[t].state
        BY <1>2
      <4> QED BY <1>0, <4>1, <4>2
    <3>2. CASE ~task[t].on_rq
      <4>1. t # next /\ ~ts[t].on_rq
        BY <1>1, <3>2
      <4> QED BY <1>0, <1>2, <3>2, <4>1 DEF IndInv, TypeOK, TaskStruct
    <3> QED BY <3>1, <3>2
  <2> QED BY <1>0, <2>2, WakeFrame DEF IndInv
<1>5. DeadOK' /\ HotplugOK' /\ WorksOK'
  BY <1>0, <1>2, DeadFrame, StopFrame DEF IndInv
<1>6. \A t \in Task : Blocked(task'[t]) = Blocked(ts[t])
  BY <1>2 DEF Blocked
<1> QED BY <1>2, <1>3, <1>4, <1>5, <1>6

LEMMA StepPreempt ==
  ASSUME IndInv, NEW c \in Cpu, Preempt(c)
  PROVE  IndInv'
<1>0. /\ c \in online /\ rq_free(c)
      /\ nr_uninterruptible' = nr_uninterruptible /\ UNCHANGED <<wake_vars, stop_vars>>
  BY DEF Preempt
<1>1. PICK next \in pick_next_task(task, c) : switch_to(task, c, next)
  BY DEF Preempt
<1>2. \A t \in Task : WakeOK(task[t], wake[t], t \in wake_list[task[t].cpu])
  BY DEF IndInv, WakingOK
<1>3. task \in [Task -> TaskStruct]
  BY DEF IndInv, TypeOK
<1>4. /\ RunningOK' /\ WakingOK' /\ DeadOK' /\ HotplugOK' /\ WorksOK'
      /\ task' \in [Task -> TaskStruct]
      /\ curr' \in [Cpu -> Task \cup {Idle, Stop}]
      /\ prev' \in [Cpu -> Task \cup {Idle, Stop, NoTask}]
      /\ \A t \in Task : Blocked(task'[t]) = Blocked(task[t])
  <2>1. \A t \in Task : task[t].on_rq \/ task[t].state # "R"
    BY <1>2 DEF WakeOK
  <2> QED BY <1>0, <1>1, <1>3, <2>1, StepSwitch
<1>5. TypeOK'
  BY <1>0, <1>4 DEF IndInv, TypeOK, wake_vars, stop_vars
<1>6. UninterruptibleSum'
  BY <1>0, <1>4, SumFrame DEF IndInv
<1> QED BY <1>4, <1>5, <1>6 DEF IndInv

LEMMA StepSleep ==
  ASSUME IndInv, NEW c \in Cpu, Sleep(c)
  PROVE  IndInv'
<1> DEFINE p == curr[c]
           ts == [task EXCEPT ![p].on_rq = FALSE]
<1>0. /\ p \in Task /\ rq_free(c) /\ task[p].state \in {"S", "D"}
      /\ UNCHANGED <<wake_vars, stop_vars>>
  BY DEF Sleep
<1>1. CASE /\ task' = [task EXCEPT ![p].state = "R"]
           /\ UNCHANGED <<curr, prev, nr_uninterruptible>>
  <2> DEFINE s == "R"
  <2>1. s \in {"R", "S", "D"} /\ task' = [task EXCEPT ![p].state = s]
    BY <1>1
  <2> HIDE DEF s
  <2> QED BY <1>0, <1>1, <2>1, RunningState
<1>2. CASE /\ \E next \in pick_next_task(ts, c) : switch_to(ts, c, next)
           /\ nr_uninterruptible' = [nr_uninterruptible EXCEPT ![c] = @ + contributes(task[p])]
  <2>1. /\ task \in [Task -> TaskStruct] /\ task[p] \in TaskStruct /\ task[p].on_rq
        /\ nr_uninterruptible \in [Cpu -> Int]
    BY <1>0 DEF IndInv, TypeOK, RunningOK
  <2>2. /\ ts \in [Task -> TaskStruct]
        /\ \A t \in Task : t # p => ts[t] = task[t]
        /\ ts[p].on_cpu = task[p].on_cpu /\ ts[p].cpu = task[p].cpu /\ ~ts[p].on_rq
        /\ ts[p].state = task[p].state /\ ts[p].contributes = task[p].contributes
    BY <1>0, <2>1 DEF TaskStruct
  <2>3. c \in online
    BY <1>0, Alive DEF IndInv
  <2>4. \A t \in Task : WakeOK(task[t], wake[t], t \in wake_list[task[t].cpu])
    BY DEF IndInv, WakingOK
  <2> HIDE DEF ts
  <2>5. PICK next \in pick_next_task(ts, c) : switch_to(ts, c, next)
    BY <1>2
  <2>6. \A t \in Task : /\ ts[t].on_cpu = task[t].on_cpu /\ ts[t].cpu = task[t].cpu
                        /\ ts[t].state = task[t].state
                        /\ ts[t].contributes = task[t].contributes
                        /\ t # curr[c] => ts[t].on_rq = task[t].on_rq
                        /\ ts[t].on_rq => task[t].on_rq
                        /\ ts[t].on_rq \/ ts[t].state # "R"
                        /\ task[t].on_rq /\ ~ts[t].on_rq => task[t].state \in {"S", "D"}
    BY <1>0, <2>1, <2>2, <2>4 DEF WakeOK
  <2>7. /\ RunningOK' /\ WakingOK' /\ DeadOK' /\ HotplugOK' /\ WorksOK'
        /\ task' \in [Task -> TaskStruct]
        /\ curr' \in [Cpu -> Task \cup {Idle, Stop}]
        /\ prev' \in [Cpu -> Task \cup {Idle, Stop, NoTask}]
        /\ \A t \in Task : Blocked(task'[t]) = Blocked(ts[t])
    BY <1>0, <2>2, <2>3, <2>5, <2>6, StepSwitch
  <2>8. nr_uninterruptible' \in [Cpu -> Int]
    BY <1>2, <2>1 DEF contributes
  <2>9. TypeOK'
    BY <1>0, <2>7, <2>8 DEF IndInv, TypeOK, wake_vars, stop_vars
  <2>10. UninterruptibleSum'
    <3>1. Blocked(ts[p]) - Blocked(task[p]) = contributes(task[p])
      BY <1>0, <2>1, <2>2, <2>4 DEF Blocked, contributes, WakeOK, TaskStruct
    <3>2. CountersBalance(task, nr_uninterruptible)
      BY SumIsBalance DEF IndInv
    <3>3. /\ nr_uninterruptible'[c]
               = nr_uninterruptible[c] + (Blocked(ts[p]) - Blocked(task[p]))
          /\ \A d \in Cpu \ {c} : nr_uninterruptible'[d] = nr_uninterruptible[d]
      BY <1>2, <2>1, <3>1
    <3>4. CountersBalance(ts, nr_uninterruptible')
      BY <1>0, <2>1, <2>2, <3>2, <3>3, BalanceMove
    <3>5. CountersBalance(task', nr_uninterruptible')
      BY <2>7, <3>4, BalanceFrame
    <3> QED BY <3>5, SumIsBalance
  <2> QED BY <2>7, <2>9, <2>10 DEF IndInv
<1> QED BY <1>1, <1>2 DEF Sleep

LEMMA StepFinish ==
  ASSUME IndInv, NEW c \in Cpu, FinishTaskSwitch(c)
  PROVE  IndInv'
<1>0. /\ curr' = curr /\ prev' = [prev EXCEPT ![c] = NoTask] /\ prev[c] # NoTask
      /\ task' = [t \in Task |-> IF t = prev[c] THEN [task[t] EXCEPT !.on_cpu = FALSE]
                                 ELSE task[t]]
      /\ wake' = wake /\ wake_list' = wake_list /\ ipi' = ipi /\ works' = works
      /\ nr_uninterruptible' = nr_uninterruptible /\ UNCHANGED stop_vars /\ online' = online
  BY DEF FinishTaskSwitch, rq_free, wake_vars, stop_vars
<1>a. task \in [Task -> TaskStruct] /\ prev \in [Cpu -> Task \cup {Idle, Stop, NoTask}]
  BY DEF IndInv, TypeOK
<1>b. ASSUME NEW t \in Task
      PROVE  /\ task'[t] \in TaskStruct /\ task'[t].state = task[t].state
             /\ task'[t].on_rq = task[t].on_rq /\ task'[t].cpu = task[t].cpu
             /\ task'[t].contributes = task[t].contributes
             /\ task'[t].on_cpu => task[t].on_cpu
  <2>1. task[t] \in TaskStruct
    BY <1>a
  <2>2. CASE t = prev[c]
    BY <1>0, <2>1, <2>2 DEF TaskStruct
  <2>3. CASE t # prev[c]
    BY <1>0, <2>1, <2>3
  <2> QED BY <2>2, <2>3
<1>c. task' \in [Task -> TaskStruct] /\ prev' \in [Cpu -> Task \cup {Idle, Stop, NoTask}]
  BY <1>0, <1>a, <1>b
<1>1. TypeOK'
  BY <1>0, <1>c DEF IndInv, TypeOK, stop_vars
<1>2. RunningOK'
  BY FinishRuns, Names DEF IndInv
<1>3. WakingOK'
  BY <1>0, <1>b, WakeFrame DEF IndInv
<1>4. DeadOK' /\ HotplugOK' /\ WorksOK'
  <2>1. c \in online /\ \A d \in Cpu \ {c} : prev'[d] = prev[d]
    BY <1>0, <1>a, Alive DEF IndInv
  <2> QED BY <1>0, <1>b, <2>1, DeadFrame, StopFrame DEF IndInv
<1>5. UninterruptibleSum'
  <2>1. \A t \in Task : Blocked(task'[t]) = Blocked(task[t])
    BY <1>b DEF Blocked
  <2> QED BY <1>0, <2>1, SumFrame DEF IndInv
<1> QED BY <1>1, <1>2, <1>3, <1>4, <1>5 DEF IndInv

\* A work more at the end of a stopper's queue.
LEMMA QueuesWork ==
  ASSUME TypeOK, WorksOK, NEW c \in Cpu, NEW w \in Work, queue_work(c, w),
         GoodWork(w, online, active, hotplug),
         hotplug[1] = "dying" => w # Machine /\ w.dest # hotplug[2],
         UNCHANGED cpu_vars
  PROVE  /\ WorksOK' /\ works' \in [Cpu -> Seq(Work)]
         /\ \A d \in Cpu \ {c} : works'[d] = works[d]
         /\ works'[c] = Append(works[c], w)
<1>1. /\ works' = [works EXCEPT ![c] = Append(@, w)] /\ works \in [Cpu -> Seq(Work)]
      /\ online' = online /\ active' = active /\ hotplug' = hotplug
  BY DEF queue_work, TypeOK, cpu_vars
<1>2. WorkListOK(Append(works[c], w), online, active, hotplug)
  BY <1>1, WorkListAppend DEF WorksOK
<1>3. /\ works'[c] = Append(works[c], w) /\ \A d \in Cpu \ {c} : works'[d] = works[d]
  BY <1>1
<1>4. Append(works[c], w) \in Seq(Work)
  BY <1>1, AppendWork
<1>5. works' \in [Cpu -> Seq(Work)]
  BY <1>1, <1>4
<1>6. \A d \in Cpu : WorkListOK(works'[d], online, active, hotplug)
  BY <1>2, <1>3 DEF WorksOK
<1>7. WorksOK'
  BY <1>1, <1>6 DEF WorksOK
<1> QED BY <1>3, <1>5, <1>7

LEMMA StepSchedExec ==
  ASSUME IndInv, NEW c \in Cpu, SchedExec(c)
  PROVE  IndInv'
<1>0. /\ task' = task /\ curr' = curr /\ prev' = prev /\ wake' = wake /\ wake_list' = wake_list
      /\ ipi' = ipi /\ nr_uninterruptible' = nr_uninterruptible /\ online' = online
      /\ active' = active /\ hotplug' = hotplug /\ UNCHANGED cpu_vars
  BY DEF SchedExec, wake_vars, cpu_vars
<1>1. PICK dest \in (online \cap active) \ {c} :
        queue_work(c, [t |-> curr[c], dest |-> dest, by |-> "exec"])
  BY DEF SchedExec
<1> DEFINE w == [t |-> curr[c], dest |-> dest, by |-> "exec"]
<1>2. c \in online /\ curr[c] \in Task
  BY Alive DEF IndInv, SchedExec
<1>3. w \in Work /\ w.dest = dest /\ w.by = "exec" /\ w.t \in Task /\ w # Machine
  BY <1>2 DEF IndInv, TypeOK, Work, Machine
<1>4. queue_work(c, w)
  BY <1>1
<1> HIDE DEF w
<1>5. GoodWork(w, online, active, hotplug)
  BY <1>3 DEF GoodWork
<1>6. hotplug[1] = "dying" => w # Machine /\ w.dest # hotplug[2]
  BY <1>3 DEF IndInv, HotplugOK
<1>7. /\ WorksOK' /\ works' \in [Cpu -> Seq(Work)]
      /\ \A d \in Cpu \ {c} : works'[d] = works[d]
  BY <1>0, <1>3, <1>4, <1>5, <1>6, QueuesWork DEF IndInv
<1>8. TypeOK'
  BY <1>0, <1>7 DEF IndInv, TypeOK
<1>9. RunningOK' /\ WakingOK'
  BY <1>0, RunFrame, WakeFrame DEF IndInv
<1>10. DeadOK'
  BY <1>0, <1>2, <1>7, DeadFrame DEF IndInv
<1>11. HotplugOK' /\ UninterruptibleSum'
  BY <1>0, SumFrame DEF IndInv, HotplugOK
<1> QED BY <1>7, <1>8, <1>9, <1>10, <1>11 DEF IndInv

LEMMA StepSetCpusAllowed ==
  ASSUME IndInv, NEW t \in Task, NEW mask \in Mask, SetCpusAllowed(t, mask)
  PROVE  IndInv'
<1>0. /\ task' = [task EXCEPT ![t].allowed = mask]
      /\ hotplug = NoHotplug
      /\ curr' = curr /\ prev' = prev /\ wake' = wake /\ wake_list' = wake_list
      /\ ipi' = ipi /\ nr_uninterruptible' = nr_uninterruptible /\ online' = online
      /\ active' = active /\ hotplug' = hotplug /\ UNCHANGED cpu_vars
  BY DEF SetCpusAllowed, get_online_cpus, wake_vars, cpu_vars
<1>a. task \in [Task -> TaskStruct] /\ task[t] \in TaskStruct /\ mask \in (SUBSET Cpu) \ {{}}
  BY MigrationAssumption DEF IndInv, TypeOK
<1>b. /\ task' \in [Task -> TaskStruct]
      /\ \A u \in Task : u # t => task'[u] = task[u]
      /\ task'[t].state = task[t].state /\ task'[t].on_rq = task[t].on_rq
      /\ task'[t].cpu = task[t].cpu /\ task'[t].contributes = task[t].contributes
      /\ task'[t].on_cpu = task[t].on_cpu
  BY <1>0, <1>a DEF TaskStruct
<1>1. /\ WorksOK' /\ works' \in [Cpu -> Seq(Work)]
      /\ \A d \in Cpu \ online : works'[d] = works[d]
  <2>1. CASE task[t].cpu \notin mask /\ task[t].on_rq
    <3> DEFINE c == task[t].cpu
    <3>1. PICK dest \in active \cap mask :
            queue_work(task[t].cpu, [t |-> t, dest |-> dest, by |-> "affinity"])
      BY <2>1 DEF SetCpusAllowed
    <3> DEFINE w == [t |-> t, dest |-> dest, by |-> "affinity"]
    <3>2. c \in online /\ c \in Cpu
      BY <1>a, <2>1, Alive DEF IndInv, TaskStruct
    <3>3. w \in Work /\ w.dest = dest /\ w.t \in Task /\ w # Machine
      BY DEF IndInv, TypeOK, Work, Machine
    <3>4. queue_work(c, w)
      BY <3>1
    <3>5. dest \in online
      BY <1>0 DEF IndInv, HotplugOK, NoHotplug
    <3> HIDE DEF w, c
    <3>6. GoodWork(w, online, active, hotplug)
      BY <1>0, <3>3, <3>5 DEF GoodWork
    <3>7. hotplug[1] # "dying"
      BY <1>0 DEF NoHotplug
    <3>8. /\ WorksOK' /\ works' \in [Cpu -> Seq(Work)]
          /\ \A d \in Cpu \ {c} : works'[d] = works[d]
      BY <1>0, <3>2, <3>3, <3>4, <3>6, <3>7, QueuesWork DEF IndInv
    <3> QED BY <3>2, <3>8
  <2>2. CASE ~(task[t].cpu \notin mask /\ task[t].on_rq)
    <3>1. works' = works
      BY <2>2 DEF SetCpusAllowed
    <3> QED BY <1>0, <3>1 DEF IndInv, WorksOK, TypeOK
  <2> QED BY <2>1, <2>2
<1>2. TypeOK'
  BY <1>0, <1>1, <1>b DEF IndInv, TypeOK
<1>3. RunningOK'
  BY <1>0, <1>b, RunFrame DEF IndInv
<1>4. WakingOK'
  BY <1>0, <1>b, WakeFrame DEF IndInv
<1>5. DeadOK'
  BY <1>0, <1>1, <1>b, DeadFrame DEF IndInv
<1>6. HotplugOK'
  BY <1>0 DEF IndInv, HotplugOK
<1>7. UninterruptibleSum'
  <2>1. Blocked(task'[t]) = Blocked(task[t])
    BY <1>b DEF Blocked
  <2> QED BY <1>0, <1>b, <2>1, SumFrame DEF IndInv
<1> QED BY <1>1, <1>2, <1>3, <1>4, <1>5, <1>6, <1>7 DEF IndInv

\* What the stopper finds: a task that is not running, and a CPU that is up.
LEMMA StopperFinds ==
  ASSUME IndInv, NEW c \in Cpu, curr[c] = Stop, rq_free(c), works[c] # << >>,
         Head(works[c]) # Machine
  PROVE  /\ Head(works[c]).t \in Task /\ Head(works[c]).dest \in online
         /\ \A t \in Task : task[t].on_rq /\ task[t].cpu = c => ~task[t].on_cpu
<1>1. works[c] \in Seq(Work) /\ WorkListOK(works[c], online, active, hotplug)
  BY DEF IndInv, TypeOK, WorksOK
<1>2. 1 \in DOMAIN works[c] /\ Head(works[c]) = works[c][1]
  BY <1>1, FirstWork
<1>3. Head(works[c]).t \in Task /\ Head(works[c]).dest \in online
  BY <1>1, <1>2 DEF WorkListOK, GoodWork
<1>4. ASSUME NEW t \in Task, task[t].on_rq, task[t].cpu = c, NEW d \in Cpu, holds(d, t)
      PROVE  FALSE
  <2>1. d = c
    BY <1>4 DEF IndInv, RunningOK, holds
  <2> QED BY <1>4, <2>1, Names DEF holds, rq_free
<1>5. \A t \in Task : task[t].on_rq /\ task[t].cpu = c => ~task[t].on_cpu
  BY <1>4 DEF IndInv, RunningOK
<1> QED BY <1>3, <1>5

LEMMA StepMigrationCpuStop ==
  ASSUME IndInv, NEW c \in Cpu, MigrationCpuStop(c)
  PROVE  IndInv'
<1> DEFINE w == Head(works[c])
<1>0. /\ curr[c] = Stop /\ rq_free(c) /\ works[c] # << >> /\ w # Machine
      /\ task' = IF migrates(task[w.t], c, w.dest) THEN [task EXCEPT ![w.t].cpu = w.dest]
                 ELSE task
      /\ works' = [works EXCEPT ![c] = Tail(@)]
      /\ curr' = curr /\ prev' = prev /\ wake' = wake /\ wake_list' = wake_list
      /\ ipi' = ipi /\ nr_uninterruptible' = nr_uninterruptible /\ online' = online
      /\ active' = active /\ hotplug' = hotplug /\ UNCHANGED cpu_vars
  BY DEF MigrationCpuStop, wake_vars, cpu_vars
<1>1. /\ w.t \in Task /\ w.dest \in online
      /\ \A t \in Task : task[t].on_rq /\ task[t].cpu = c => ~task[t].on_cpu
  BY <1>0, StopperFinds
<1> HIDE DEF w
<1>a. /\ task \in [Task -> TaskStruct] /\ task[w.t] \in TaskStruct /\ online \subseteq Cpu
      /\ works \in [Cpu -> Seq(Work)]
  BY <1>1 DEF IndInv, TypeOK
<1>b. /\ task' \in [Task -> TaskStruct]
      /\ \A t \in Task : /\ task'[t].state = task[t].state /\ task'[t].on_rq = task[t].on_rq
                         /\ task'[t].contributes = task[t].contributes
                         /\ task'[t].on_cpu = task[t].on_cpu
                         /\ \/ task'[t].cpu = task[t].cpu
                            \/ /\ task[t].on_rq /\ ~task[t].on_cpu
                               /\ task'[t].cpu \in online
  <2>1. CASE migrates(task[w.t], c, w.dest)
    <3>1. task[w.t].on_rq /\ ~task[w.t].on_cpu
      BY <1>1, <2>1 DEF migrates
    <3>2. task' = [task EXCEPT ![w.t].cpu = w.dest]
      BY <1>0, <2>1
    <3>3. /\ task' \in [Task -> TaskStruct]
          /\ \A t \in Task : t # w.t => task'[t] = task[t]
          /\ task'[w.t].state = task[w.t].state /\ task'[w.t].on_rq = task[w.t].on_rq
          /\ task'[w.t].contributes = task[w.t].contributes
          /\ task'[w.t].on_cpu = task[w.t].on_cpu
          /\ task'[w.t].cpu = w.dest
      BY <1>1, <1>a, <3>2 DEF TaskStruct
    <3> QED BY <1>1, <3>1, <3>3
  <2>2. CASE ~migrates(task[w.t], c, w.dest)
    BY <1>0, <1>a, <2>2
  <2> QED BY <2>1, <2>2
<1>2. WorksOK' /\ works' \in [Cpu -> Seq(Work)] /\ \A d \in Cpu \ {c} : works'[d] = works[d]
  <2>1. /\ works'[c] = Tail(works[c]) /\ \A d \in Cpu \ {c} : works'[d] = works[d]
    BY <1>0, <1>a
  <2>2. Tail(works[c]) \in Seq(Work)
    BY <1>0, <1>a, FirstWork
  <2>3. works' \in [Cpu -> Seq(Work)]
    BY <1>0, <1>a, <2>2
  <2>4. \A d \in Cpu : WorkListOK(works[d], online, active, hotplug)
    BY DEF IndInv, WorksOK
  <2>5. WorkListOK(Tail(works[c]), online, active, hotplug)
    BY <1>0, <1>a, <2>4, WorkListTail
  <2>6. \A d \in Cpu : WorkListOK(works'[d], online, active, hotplug)
    BY <2>1, <2>4, <2>5
  <2>7. WorksOK'
    BY <1>0, <2>6 DEF WorksOK
  <2> QED BY <2>1, <2>3, <2>7
<1>3. TypeOK'
  BY <1>0, <1>2, <1>b DEF IndInv, TypeOK
<1>4. RunningOK'
  BY <1>0, <1>b, RunFrame DEF IndInv
<1>5. WakingOK'
  <2>1. \A t \in Task : WakeOK(task[t], wake[t], t \in wake_list[task[t].cpu])
    BY DEF IndInv, WakingOK
  <2> QED BY <1>0, <1>b, <2>1, WakeFrame DEF IndInv, WakeOK
<1>6. DeadOK'
  <2>1. c \in online
    BY <1>0 DEF IndInv, DeadOK
  <2> QED BY <1>0, <1>2, <1>b, <2>1, DeadFrame DEF IndInv
<1>7. HotplugOK'
  BY <1>0 DEF IndInv, HotplugOK
<1>8. UninterruptibleSum'
  <2>1. \A t \in Task : Blocked(task'[t]) = Blocked(task[t])
    BY <1>b DEF Blocked
  <2> QED BY <1>0, <2>1, SumFrame DEF IndInv
<1> QED BY <1>2, <1>3, <1>4, <1>5, <1>6, <1>7, <1>8 DEF IndInv

\* select_task_rq() chooses an online CPU the task may run on.
LEMMA Selected ==
  ASSUME TypeOK, NEW o \in TaskStruct, NEW want \in Cpu, NEW e \in select_task_rq(o, want)
  PROVE  /\ e \in TaskStruct /\ e.cpu \in online /\ e.cpu \in e.allowed
         /\ e.state = o.state /\ e.on_rq = o.on_rq /\ e.on_cpu = o.on_cpu
         /\ e.contributes = o.contributes
<1>0. online \subseteq Cpu /\ BootCpu \in Cpu
  BY Finite DEF TypeOK
<1>1. \/ want \in o.allowed /\ want \in online /\ e = [o EXCEPT !.cpu = want]
      \/ \E c \in o.allowed \cap (online \cap active) : e = [o EXCEPT !.cpu = c]
      \/ \E c \in online \cap active : e = [o EXCEPT !.cpu = c, !.allowed = Cpu]
  BY DEF select_task_rq, select_fallback_rq
<1> QED BY <1>0, <1>1, ZenonT(60) DEF TaskStruct

LEMMA StepTtwuPlace ==
  ASSUME IndInv, NEW t \in Task, TtwuPlace(t)
  PROVE  IndInv'
<1> DEFINE o == [task[t] EXCEPT !.contributes = contributes(task[t]), !.state = "WAKING"]
<1>0. /\ wake[t] = "wait" /\ ~task[t].on_cpu /\ wake' = [wake EXCEPT ![t] = "none"]
      /\ curr' = curr /\ prev' = prev /\ UNCHANGED stop_vars /\ online' = online
      /\ works' = works
  BY DEF TtwuPlace, off_cpu, stop_vars
<1>d. PICK want \in Cpu :
        \E e \in select_task_rq(o, want) :
            \/ /\ task' = [task EXCEPT ![t] = e]
               /\ ttwu_queue_remote(e, t)
               /\ UNCHANGED nr_uninterruptible
            \/ /\ rq_free(e.cpu)
               /\ task' = [task EXCEPT ![t] = ttwu_do_activate(e)]
               /\ nr_uninterruptible' = [nr_uninterruptible EXCEPT ![e.cpu] = @ - e.contributes]
               /\ UNCHANGED <<wake_list, ipi>>
  BY DEF TtwuPlace
<1>1. PICK e \in select_task_rq(o, want) :
        \/ /\ task' = [task EXCEPT ![t] = e]
           /\ ttwu_queue_remote(e, t)
           /\ UNCHANGED nr_uninterruptible
        \/ /\ rq_free(e.cpu)
           /\ task' = [task EXCEPT ![t] = ttwu_do_activate(e)]
           /\ nr_uninterruptible' = [nr_uninterruptible EXCEPT ![e.cpu] = @ - e.contributes]
           /\ UNCHANGED <<wake_list, ipi>>
  BY <1>d
<1>a. /\ task \in [Task -> TaskStruct] /\ task[t] \in TaskStruct
      /\ wake \in [Task -> {"none", "remote", "wait"}]
      /\ wake_list \in [Cpu -> SUBSET Task] /\ ipi \in [Cpu -> BOOLEAN]
      /\ nr_uninterruptible \in [Cpu -> Int]
  BY DEF IndInv, TypeOK
<1>b. WakeOK(task[t], wake[t], t \in wake_list[task[t].cpu])
  BY DEF IndInv, WakingOK
<1>c. ~task[t].on_rq /\ task[t].state \in {"S", "D"} /\ task[t].contributes = 0
  BY <1>0, <1>a, <1>b DEF WakeOK, TaskStruct
<1>2. /\ o \in TaskStruct /\ o.state = "WAKING" /\ o.contributes = contributes(task[t])
      /\ o.on_rq = task[t].on_rq /\ o.on_cpu = task[t].on_cpu
  BY <1>a DEF TaskStruct, contributes
<1> HIDE DEF o
<1>3. /\ e \in TaskStruct /\ e.cpu \in online /\ e.cpu \in Cpu
      /\ e.state = "WAKING" /\ ~e.on_rq /\ ~e.on_cpu /\ e.contributes = Blocked(task[t])
      /\ e.on_cpu = task[t].on_cpu
  <2>1. /\ e \in TaskStruct /\ e.cpu \in online /\ e.state = o.state /\ e.on_rq = o.on_rq
        /\ e.on_cpu = o.on_cpu /\ e.contributes = o.contributes
    BY <1>2, Selected DEF IndInv
  <2>2. contributes(task[t]) = Blocked(task[t])
    BY <1>c DEF contributes, Blocked
  <2> QED BY <1>0, <1>2, <1>c, <2>1, <2>2 DEF TaskStruct
<1>4. \A c \in Cpu : t \notin wake_list[c]
  BY <1>c DEF IndInv, WakingOK
<1>5. wake' \in [Task -> {"none", "remote", "wait"}] /\ wake'[t] = "none"
      /\ \A u \in Task : u # t => wake'[u] = wake[u]
  BY <1>0, <1>a
<1>6. CASE /\ task' = [task EXCEPT ![t] = e]
           /\ ttwu_queue_remote(e, t)
           /\ UNCHANGED nr_uninterruptible
  <2>1. /\ task' \in [Task -> TaskStruct] /\ task'[t] = e
        /\ \A u \in Task : u # t => task'[u] = task[u]
    BY <1>3, <1>6, <1>a
  <2>2. /\ wake_list' \in [Cpu -> SUBSET Task] /\ ipi' \in [Cpu -> BOOLEAN]
        /\ wake_list'[e.cpu] = wake_list[e.cpu] \cup {t}
        /\ ipi'[e.cpu] = (ipi[e.cpu] \/ wake_list[e.cpu] = {})
        /\ \A c \in Cpu : c # e.cpu => wake_list'[c] = wake_list[c] /\ ipi'[c] = ipi[c]
    BY <1>3, <1>6, <1>a DEF ttwu_queue_remote
  <2>3. TypeOK'
    BY <1>0, <1>5, <1>6, <2>1, <2>2 DEF IndInv, TypeOK, stop_vars
  <2>4. RunningOK'
    BY <1>0, <1>3, <2>1, RunFrame DEF IndInv
  <2>5. WakingOK'
    <3>1. (\A c \in Cpu : wake_list[c] # {} => ipi[c])'
      BY <2>2 DEF IndInv, WakingOK
    <3>2. (\A c \in Cpu : \A u \in wake_list[c] :
             task[u].state = "WAKING" /\ task[u].cpu = c /\ ~task[u].on_cpu)'
      <4> SUFFICES ASSUME NEW c \in Cpu, NEW u \in wake_list'[c]
                   PROVE  task'[u].state = "WAKING" /\ task'[u].cpu = c /\ ~task'[u].on_cpu
        OBVIOUS
      <4>1. CASE u = t
        BY <1>3, <1>4, <2>1, <2>2, <4>1
      <4>2. CASE u # t
        <5>1. u \in wake_list[c] /\ u \in Task
          BY <1>a, <2>2, <4>2
        <5> QED BY <2>1, <4>2, <5>1 DEF IndInv, WakingOK
      <4> QED BY <4>1, <4>2
    <3>3. (\A u \in Task : WakeOK(task[u], wake[u], u \in wake_list[task[u].cpu]))'
      <4> SUFFICES ASSUME NEW u \in Task
                   PROVE  WakeOK(task'[u], wake'[u], u \in wake_list'[task'[u].cpu])
        OBVIOUS
      <4>1. CASE u = t
        BY <1>3, <1>5, <2>1, <2>2, <4>1 DEF WakeOK
      <4>2. CASE u # t
        <5>1. WakeOK(task[u], wake[u], u \in wake_list[task[u].cpu])
          BY DEF IndInv, WakingOK
        <5>2. task[u].cpu \in Cpu /\ task'[u] = task[u] /\ wake'[u] = wake[u]
          BY <1>5, <1>a, <2>1, <4>2 DEF TaskStruct
        <5>3. u \in wake_list[task[u].cpu] => u \in wake_list'[task[u].cpu]
          BY <2>2, <5>2
        <5> QED BY <5>1, <5>2, <5>3 DEF WakeOK
      <4> QED BY <4>1, <4>2
    <3> QED BY <3>1, <3>2, <3>3 DEF WakingOK
  <2>6. DeadOK' /\ HotplugOK' /\ WorksOK'
    BY <1>0, <1>3, <2>1, <2>2, DeadFrame, StopFrame DEF IndInv
  <2>7. UninterruptibleSum'
    <3>1. Blocked(task'[t]) = Blocked(task[t])
      BY <1>3, <1>c, <2>1 DEF Blocked
    <3> QED BY <1>6, <2>1, <3>1, SumFrame DEF IndInv
  <2> QED BY <2>3, <2>4, <2>5, <2>6, <2>7 DEF IndInv
<1>7. CASE /\ task' = [task EXCEPT ![t] = ttwu_do_activate(e)]
           /\ nr_uninterruptible' = [nr_uninterruptible EXCEPT ![e.cpu] = @ - e.contributes]
           /\ UNCHANGED <<wake_list, ipi>>
  <2> DEFINE a == ttwu_do_activate(e)
  <2>0. /\ a \in TaskStruct /\ a.on_rq /\ a.state = "R" /\ a.contributes = 0
        /\ a.cpu = e.cpu /\ a.on_cpu = task[t].on_cpu
    BY <1>3 DEF ttwu_do_activate, TaskStruct
  <2> HIDE DEF a
  <2>1. /\ task' \in [Task -> TaskStruct] /\ task'[t] = a
        /\ \A u \in Task : u # t => task'[u] = task[u]
    BY <1>7, <1>a, <2>0 DEF a
  <2>2. /\ nr_uninterruptible' \in [Cpu -> Int]
        /\ nr_uninterruptible'[e.cpu] = nr_uninterruptible[e.cpu] - e.contributes
        /\ \A c \in Cpu \ {e.cpu} : nr_uninterruptible'[c] = nr_uninterruptible[c]
    BY <1>3, <1>7, <1>a DEF TaskStruct
  <2>3. TypeOK'
    BY <1>0, <1>5, <1>7, <2>1, <2>2 DEF IndInv, TypeOK, stop_vars
  <2>4. RunningOK'
    BY <1>0, <2>0, <2>1, RunFrame DEF IndInv
  <2>5. WakingOK'
    BY <1>5, <1>7, <1>c, <2>0, <2>1, WakeFrame DEF IndInv
  <2>6. DeadOK' /\ HotplugOK' /\ WorksOK'
    BY <1>0, <1>3, <1>7, <2>0, <2>1, DeadFrame, StopFrame DEF IndInv
  <2>7. UninterruptibleSum'
    <3>1. Blocked(task'[t]) = 0
      BY <2>0, <2>1 DEF Blocked
    <3>2. nr_uninterruptible'[e.cpu]
            = nr_uninterruptible[e.cpu] + (Blocked(task'[t]) - Blocked(task[t]))
      BY <1>3, <1>a, <2>2, <3>1 DEF Blocked
    <3>3. CountersBalance(task, nr_uninterruptible)
      BY SumIsBalance DEF IndInv
    <3>4. CountersBalance(task', nr_uninterruptible')
      BY <1>3, <1>a, <2>1, <2>2, <3>2, <3>3, BalanceMove, SMTT(60)
    <3> QED BY <3>4, SumIsBalance
  <2> QED BY <2>3, <2>4, <2>5, <2>6, <2>7 DEF IndInv
<1> QED BY <1>1, <1>6, <1>7

\* sched_ttwu_pending() makes every task of the wake list a queued one, and
\* nobody else.
LEMMA Activated ==
  ASSUME IndInv, NEW c \in Cpu
  PROVE  /\ pending_activated(task, c) \in [Task -> TaskStruct]
         /\ wake_list[c] \in SUBSET Task
         /\ \A t \in Task \ wake_list[c] : pending_activated(task, c)[t] = task[t]
         /\ \A t \in wake_list[c] :
              LET e == pending_activated(task, c)[t]
              IN  /\ e.on_rq /\ e.state = "R" /\ e.contributes = 0 /\ e.cpu = c
                  /\ ~e.on_cpu /\ ~task[t].on_cpu /\ ~task[t].on_rq
                  /\ Blocked(e) = 0 /\ Blocked(task[t]) = task[t].contributes
<1>1. task \in [Task -> TaskStruct] /\ wake_list[c] \in SUBSET Task
  BY DEF IndInv, TypeOK
<1>2. \A t \in Task : WakeOK(task[t], wake[t], t \in wake_list[task[t].cpu])
  BY DEF IndInv, WakingOK
<1>3. \A t \in wake_list[c] : task[t].state = "WAKING" /\ task[t].cpu = c /\ ~task[t].on_cpu
  BY DEF IndInv, WakingOK
<1>4. \A t \in Task : pending_activated(task, c)[t]
                        = IF t \in wake_list[c] THEN ttwu_do_activate(task[t]) ELSE task[t]
  BY DEF pending_activated
<1>5. ASSUME NEW t \in wake_list[c]
      PROVE  LET e == pending_activated(task, c)[t]
             IN  /\ e \in TaskStruct
                 /\ e.on_rq /\ e.state = "R" /\ e.contributes = 0 /\ e.cpu = c
                 /\ ~e.on_cpu /\ ~task[t].on_cpu /\ ~task[t].on_rq
                 /\ Blocked(e) = 0 /\ Blocked(task[t]) = task[t].contributes
  <2>1. t \in Task /\ task[t] \in TaskStruct
    BY <1>1
  <2>2. ~task[t].on_rq
    BY <1>2, <1>3, <2>1 DEF WakeOK
  <2>3. Blocked(task[t]) = task[t].contributes
    BY <1>3, <2>1, <2>2 DEF Blocked, TaskStruct
  <2> DEFINE e == pending_activated(task, c)[t]
  <2>4. e = [task[t] EXCEPT !.on_rq = TRUE, !.state = "R", !.contributes = 0]
    BY <1>4, <2>1 DEF ttwu_do_activate
  <2> HIDE DEF e
  <2>5. /\ e \in TaskStruct /\ e.on_rq /\ e.state = "R" /\ e.contributes = 0
        /\ e.cpu = task[t].cpu /\ e.on_cpu = task[t].on_cpu
    BY <2>1, <2>4 DEF TaskStruct
  <2>6. Blocked(e) = 0
    BY <2>5 DEF Blocked
  <2> QED BY <1>3, <2>2, <2>3, <2>5, <2>6 DEF e
<1>6. \A t \in Task : pending_activated(task, c)[t] \in TaskStruct
  BY <1>1, <1>4, <1>5
<1>7. pending_activated(task, c) \in [Task -> TaskStruct]
  BY <1>6 DEF pending_activated
<1> QED BY <1>1, <1>4, <1>5, <1>7

LEMMA StepSchedulerIpi ==
  ASSUME IndInv, NEW c \in Cpu, SchedulerIpi(c)
  PROVE  IndInv'
<1> DEFINE ts == pending_activated(task, c)
           W == wake_list[c]
<1>0. /\ c \in online
      /\ ipi' = [ipi EXCEPT ![c] = FALSE] /\ wake_list' = [wake_list EXCEPT ![c] = {}]
      /\ task' = ts
      /\ nr_uninterruptible' = [nr_uninterruptible EXCEPT ![c] = @ - pending_count(c)]
      /\ wake' = wake /\ curr' = curr /\ prev' = prev /\ UNCHANGED stop_vars
      /\ online' = online /\ works' = works
  BY DEF SchedulerIpi, stop_vars
<1>1. /\ ts \in [Task -> TaskStruct] /\ W \in SUBSET Task
      /\ \A t \in Task \ W : ts[t] = task[t]
      /\ \A t \in W : /\ ts[t].on_rq /\ ts[t].state = "R" /\ ts[t].contributes = 0
                      /\ ts[t].cpu = c
                      /\ ~ts[t].on_cpu /\ ~task[t].on_cpu /\ ~task[t].on_rq
                      /\ Blocked(ts[t]) = 0 /\ Blocked(task[t]) = task[t].contributes
  BY Activated
<1> HIDE DEF ts
<1>a. /\ task \in [Task -> TaskStruct] /\ wake_list \in [Cpu -> SUBSET Task]
      /\ ipi \in [Cpu -> BOOLEAN] /\ nr_uninterruptible \in [Cpu -> Int]
  BY DEF IndInv, TypeOK
<1>2. /\ wake_list' \in [Cpu -> SUBSET Task] /\ ipi' \in [Cpu -> BOOLEAN]
      /\ wake_list'[c] = {}
      /\ \A d \in Cpu : d # c => wake_list'[d] = wake_list[d] /\ ipi'[d] = ipi[d]
  BY <1>0, <1>a
<1>3. pending_count(c) = SumFunctionOnSet([t \in Task |-> task[t].contributes], W)
  BY DEF pending_count
<1>4. pending_count(c) \in Int
  <2>1. IsFiniteSet(W) /\ \A t \in W : [u \in Task |-> task[u].contributes][t] \in Int
    BY <1>1, <1>a, Finite, FS_Subset DEF TaskStruct
  <2> HIDE DEF W
  <2> QED BY <1>3, <2>1, SumType
<1>5. TypeOK'
  <2>1. nr_uninterruptible' \in [Cpu -> Int]
    BY <1>0, <1>4, <1>a
  <2> QED BY <1>0, <1>1, <1>2, <2>1 DEF IndInv, TypeOK, stop_vars
<1>6. RunningOK'
  <2>1. ASSUME NEW t \in Task
        PROVE  /\ task'[t].on_cpu = task[t].on_cpu
               /\ task[t].on_cpu => /\ task'[t].on_rq = task[t].on_rq
                                    /\ task'[t].cpu = task[t].cpu
    <3>1. CASE t \in W
      <4>1. ts[t] \in TaskStruct /\ task[t] \in TaskStruct
        BY <1>1, <1>a
      <4> QED BY <1>0, <1>1, <3>1, <4>1 DEF TaskStruct
    <3>2. CASE t \notin W
      BY <1>0, <1>1, <3>2
    <3> QED BY <3>1, <3>2
  <2> QED BY <1>0, <2>1, RunFrame DEF IndInv
<1>7. WakingOK'
  <2>1. (\A d \in Cpu : wake_list[d] # {} => ipi[d])'
    BY <1>2 DEF IndInv, WakingOK
  <2>2. (\A d \in Cpu : \A t \in wake_list[d] :
           task[t].state = "WAKING" /\ task[t].cpu = d /\ ~task[t].on_cpu)'
    <3> SUFFICES ASSUME NEW d \in Cpu, NEW t \in wake_list'[d]
                 PROVE  task'[t].state = "WAKING" /\ task'[t].cpu = d /\ ~task'[t].on_cpu
      OBVIOUS
    <3>1. d # c /\ t \in wake_list[d] /\ t \in Task
      BY <1>2, <1>a
    <3>2. /\ task[t].state = "WAKING" /\ task[t].cpu = d /\ ~task[t].on_cpu
          /\ (t \in W => task[t].cpu = c)
      BY <3>1 DEF IndInv, WakingOK
    <3> QED BY <1>0, <1>1, <3>1, <3>2
  <2>3. (\A t \in Task : WakeOK(task[t], wake[t], t \in wake_list[task[t].cpu]))'
    <3> SUFFICES ASSUME NEW t \in Task
                 PROVE  WakeOK(task'[t], wake'[t], t \in wake_list'[task'[t].cpu])
      OBVIOUS
    <3>1. WakeOK(task[t], wake[t], t \in wake_list[task[t].cpu])
      BY DEF IndInv, WakingOK
    <3>2. CASE t \in W
      <4>1. wake[t] # "wait"
        BY <1>a, <3>1, <3>2 DEF IndInv, WakingOK, WakeOK
      <4> QED BY <1>0, <1>1, <3>2, <4>1 DEF WakeOK
    <3>3. CASE t \notin W
      <4>1. task'[t] = task[t] /\ task[t].cpu \in Cpu
        BY <1>0, <1>1, <1>a, <3>3 DEF TaskStruct
      <4>2. t \in wake_list[task[t].cpu] => t \in wake_list'[task[t].cpu]
        BY <1>2, <3>3, <4>1
      <4> QED BY <1>0, <3>1, <4>1, <4>2 DEF WakeOK
    <3> QED BY <3>2, <3>3
  <2> QED BY <2>1, <2>2, <2>3 DEF WakingOK
<1>8. DeadOK' /\ HotplugOK' /\ WorksOK'
  <2>1. \A t \in Task : task'[t].on_rq => \/ task'[t].cpu \in online
                                          \/ task[t].on_rq /\ task'[t].cpu = task[t].cpu
    BY <1>0, <1>1
  <2> QED BY <1>0, <1>2, <2>1, DeadFrame, StopFrame DEF IndInv
<1>9. UninterruptibleSum'
  <2>1. CountersBalance(task, nr_uninterruptible)
    BY SumIsBalance DEF IndInv
  <2> DEFINE h == [t \in Task |-> task[t].contributes]
             mr == nr_uninterruptible'
  <2>2. /\ mr[c] = nr_uninterruptible[c] - SumFunctionOnSet(h, W)
        /\ \A d \in Cpu \ {c} : mr[d] = nr_uninterruptible[d]
        /\ \A t \in W : h[t] = task[t].contributes
    BY <1>0, <1>1, <1>3, <1>a
  <2>3. \A t \in Task \ W : Blocked(ts[t]) = Blocked(task[t])
    BY <1>1
  <2> HIDE DEF W, h
  <2>4. CountersBalance(ts, nr_uninterruptible')
    BY <1>1, <1>a, <2>1, <2>2, <2>3, BalancePending
  <2> QED BY <1>0, <2>4, SumIsBalance
<1> QED BY <1>5, <1>6, <1>7, <1>8, <1>9 DEF IndInv

\* cpu_hotplug_begin() waits until only sched_exec() has works under way.
LEMMA QuietWorks ==
  ASSUME IndInv, hotplug[1] \in {"none", "down", "up"},
         \/ hotplug # NoHotplug
         \/ \A d \in Cpu : \A w \in ToSet(works[d]) : put_online_cpus(w)
  PROVE  \A d \in Cpu : \A i \in DOMAIN works[d] :
           /\ works[d][i].dest \in online /\ works[d][i] # Machine /\ works[d][i].t \in Task
           /\ works[d][i].by # "affinity"
<1> SUFFICES ASSUME NEW d \in Cpu, NEW i \in DOMAIN works[d]
             PROVE  /\ works[d][i].dest \in online /\ works[d][i] # Machine
                    /\ works[d][i].t \in Task /\ works[d][i].by # "affinity"
  OBVIOUS
<1>1. GoodWork(works[d][i], online, active, hotplug)
  BY DEF IndInv, WorksOK, WorkListOK
<1>2. works[d][i] \in ToSet(works[d])
  BY DEF ToSet
<1>3. works[d][i].by # "affinity"
  BY <1>1, <1>2 DEF GoodWork, put_online_cpus
<1> QED BY <1>1, <1>3 DEF GoodWork

LEMMA NoHotplugIs == NoHotplug[1] = "none" /\ NoHotplug = <<"none", BootCpu>>
BY DEF NoHotplug

\* A step of hotplug that leaves the tasks, the CPUs and the works alone.
LEMMA HotplugFrame ==
  ASSUME IndInv, online \subseteq online',
         UNCHANGED <<task, curr, prev, nr_uninterruptible, wake_vars, works>>,
         hotplug[1] \in {"none", "down", "up"},
         \/ hotplug # NoHotplug
         \/ \A d \in Cpu : \A w \in ToSet(works[d]) : put_online_cpus(w)
  PROVE  RunningOK' /\ WakingOK' /\ DeadOK' /\ WorksOK' /\ UninterruptibleSum'
<1>0. /\ task' = task /\ curr' = curr /\ prev' = prev /\ wake' = wake /\ wake_list' = wake_list
      /\ ipi' = ipi /\ nr_uninterruptible' = nr_uninterruptible /\ works' = works
  BY DEF wake_vars
<1>1. RunningOK' /\ WakingOK' /\ UninterruptibleSum'
  BY <1>0, RunFrame, WakeFrame, SumFrame DEF IndInv
<1>2. DeadOK'
  BY <1>0 DEF IndInv, DeadOK
<1>3. \A d \in Cpu : \A i \in DOMAIN works[d] :
        /\ works[d][i].dest \in online /\ works[d][i] # Machine /\ works[d][i].t \in Task
        /\ works[d][i].by # "affinity"
  BY QuietWorks
<1>4. \A d \in Cpu : WorkListOK(works[d], online', active', hotplug')
  BY <1>3, WorkListQuiet
<1>5. WorksOK'
  BY <1>0, <1>4 DEF WorksOK
<1> QED BY <1>1, <1>2, <1>5

LEMMA StepHotplug ==
  ASSUME IndInv, NEW c \in Cpu, DownPrepare(c) \/ DownFailed(c) \/ Starting(c) \/ Online(c)
  PROVE  IndInv'
<1>1. CASE DownPrepare(c)
  <2>1. /\ cpu_hotplug_begin /\ hotplug = NoHotplug
        /\ online' = online /\ active' = active \ {c} /\ hotplug' = <<"down", c>>
        /\ c \in online /\ c # BootCpu
        /\ UNCHANGED <<task, curr, prev, nr_uninterruptible, wake_vars, works>>
    BY <1>1 DEF DownPrepare, cpu_hotplug_begin
  <2>2. RunningOK' /\ WakingOK' /\ DeadOK' /\ WorksOK' /\ UninterruptibleSum'
    BY <2>1, NoHotplugIs, HotplugFrame DEF cpu_hotplug_begin
  <2>3. HotplugOK'
    BY <2>1, NoHotplugIs DEF IndInv, HotplugOK
  <2>4. TypeOK'
    BY <2>1 DEF IndInv, TypeOK, wake_vars
  <2> QED BY <2>2, <2>3, <2>4 DEF IndInv
<1>2. CASE DownFailed(c)
  <2>1. /\ hotplug = <<"down", c>>
        /\ online' = online /\ active' = active \cup {c} /\ hotplug' = NoHotplug
        /\ UNCHANGED <<task, curr, prev, nr_uninterruptible, wake_vars, works>>
    BY <1>2 DEF DownFailed
  <2>2. RunningOK' /\ WakingOK' /\ DeadOK' /\ WorksOK' /\ UninterruptibleSum'
    BY <2>1, NoHotplugIs, HotplugFrame
  <2>3. HotplugOK'
    BY <2>1, NoHotplugIs DEF IndInv, HotplugOK
  <2>4. TypeOK'
    BY <2>1, Finite, NoHotplugIs DEF IndInv, TypeOK, wake_vars
  <2> QED BY <2>2, <2>3, <2>4 DEF IndInv
<1>3. CASE Starting(c)
  <2>1. /\ cpu_hotplug_begin /\ hotplug = NoHotplug
        /\ online' = online /\ active' = active \cup {c} /\ hotplug' = <<"up", c>>
        /\ c \notin online
        /\ UNCHANGED <<task, curr, prev, nr_uninterruptible, wake_vars, works>>
    BY <1>3 DEF Starting, cpu_hotplug_begin
  <2>2. RunningOK' /\ WakingOK' /\ DeadOK' /\ WorksOK' /\ UninterruptibleSum'
    BY <2>1, NoHotplugIs, HotplugFrame DEF cpu_hotplug_begin
  <2>3. HotplugOK'
    BY <2>1, NoHotplugIs DEF IndInv, HotplugOK
  <2>4. TypeOK'
    BY <2>1 DEF IndInv, TypeOK, wake_vars
  <2> QED BY <2>2, <2>3, <2>4 DEF IndInv
<1>4. CASE Online(c)
  <2>1. /\ hotplug = <<"up", c>>
        /\ online' = online \cup {c} /\ active' = active /\ hotplug' = NoHotplug
        /\ UNCHANGED <<task, curr, prev, nr_uninterruptible, wake_vars, works>>
    BY <1>4 DEF Online
  <2>2. RunningOK' /\ WakingOK' /\ DeadOK' /\ WorksOK' /\ UninterruptibleSum'
    BY <2>1, NoHotplugIs, HotplugFrame
  <2>3. HotplugOK'
    BY <2>1, NoHotplugIs DEF IndInv, HotplugOK
  <2>4. TypeOK'
    BY <2>1, Finite, NoHotplugIs DEF IndInv, TypeOK, wake_vars
  <2> QED BY <2>2, <2>3, <2>4 DEF IndInv
<1> QED BY <1>1, <1>2, <1>3, <1>4

LEMMA MachineWork == Machine \in Work /\ Machine.dest = BootCpu
BY Finite DEF Machine, Work

LEMMA StepStopMachine ==
  ASSUME IndInv, NEW c \in Cpu, StopMachine(c)
  PROVE  IndInv'
<1>0. /\ hotplug = <<"down", c>> /\ hotplug' = <<"dying", c>>
      /\ works' = [d \in Cpu |-> IF d \in online THEN Append(works[d], Machine) ELSE works[d]]
      /\ task' = task /\ curr' = curr /\ prev' = prev /\ wake' = wake /\ wake_list' = wake_list
      /\ ipi' = ipi /\ nr_uninterruptible' = nr_uninterruptible /\ online' = online
      /\ active' = active
  BY DEF StopMachine, wake_vars
<1>1. \A d \in Cpu : \A i \in DOMAIN works[d] :
        /\ works[d][i].dest \in online /\ works[d][i] # Machine /\ works[d][i].t \in Task
        /\ works[d][i].by # "affinity"
  BY <1>0, NoHotplugIs, QuietWorks
<1>2. works \in [Cpu -> Seq(Work)] /\ BootCpu \in online /\ c # BootCpu
  BY <1>0 DEF IndInv, TypeOK, HotplugOK
<1> DEFINE hp == <<"dying", c>>
<1>3. ASSUME NEW d \in Cpu
      PROVE  works'[d] \in Seq(Work) /\ WorkListOK(works'[d], online, active, hp)
  <2>1. WorkListOK(works[d], online, active, hp)
    BY <1>1, WorkListQuiet
  <2>2. GoodWork(Machine, online, active, hp)
    BY <1>2 DEF GoodWork, Machine
  <2>3. /\ Append(works[d], Machine) \in Seq(Work)
        /\ \A i \in DOMAIN Append(works[d], Machine) :
             \/ i \in DOMAIN works[d] /\ Append(works[d], Machine)[i] = works[d][i]
             \/ /\ i \notin DOMAIN works[d] /\ Append(works[d], Machine)[i] = Machine
                /\ \A j \in DOMAIN works[d] : j < i
    BY <1>2, MachineWork, AppendWork
  <2> DEFINE s == works[d]
             a == Append(s, Machine)
  <2>4. s \in Seq(Work)
    BY <1>2
  <2>5. DOMAIN a \subseteq Int
    BY <2>3
  <2>6. \A i \in DOMAIN a : \/ i \in DOMAIN s /\ a[i] = s[i] /\ s[i] # Machine
                            \/ a[i] = Machine /\ \A j \in DOMAIN a : j <= i
    BY <1>1, <2>3, <2>5
  <2>7. \A i, j \in DOMAIN a : i < j /\ a[i] = Machine => FALSE
    <3> HIDE DEF a, s
    <3> QED BY <2>5, <2>6
  <2>8. \A i \in DOMAIN a : GoodWork(a[i], online, active, hp)
    BY <2>1, <2>2, <2>6 DEF WorkListOK
  <2>9. WorkListOK(a, online, active, hp)
    <3> HIDE DEF a
    <3> QED BY <2>7, <2>8 DEF WorkListOK
  <2> QED BY <1>0, <1>2, <2>1, <2>3, <2>9
<1>4. works' \in [Cpu -> Seq(Work)]
  BY <1>0, <1>3
<1>5. WorksOK'
  BY <1>0, <1>3 DEF WorksOK
<1>6. TypeOK'
  BY <1>0, <1>4 DEF IndInv, TypeOK
<1>7. RunningOK' /\ WakingOK' /\ UninterruptibleSum'
  BY <1>0, RunFrame, WakeFrame, SumFrame DEF IndInv
<1>8. DeadOK'
  BY <1>0, DeadFrame DEF IndInv
<1>9. HotplugOK'
  BY <1>0 DEF IndInv, HotplugOK
<1> QED BY <1>5, <1>6, <1>7, <1>8, <1>9 DEF IndInv

\* What migrate_tasks() leaves of the tasks when CPU c dies: nobody runs, the
\* tasks of its wake list are queued, and every task queued on it is moved.
LEMMA Drained ==
  ASSUME IndInv, NEW c \in Cpu, Dying(c)
  PROVE  \A t \in Task :
           LET o == pending_activated(task, c)[t]
               e == task'[t]
           IN  /\ e \in TaskStruct
               /\ e.state = o.state /\ e.on_rq = o.on_rq /\ e.on_cpu = o.on_cpu
               /\ e.contributes = o.contributes
               /\ \/ o.on_rq /\ o.cpu = c /\ e.cpu \in online \ {c} /\ e.cpu \in e.allowed
                  \/ ~(o.on_rq /\ o.cpu = c) /\ e = o
<1> DEFINE ts == pending_activated(task, c)
           dest(t) == IF ts[t].on_rq /\ ts[t].cpu = c
                        THEN select_fallback_rq(ts[t], (online \ {c}) \cap active) ELSE {ts[t]}
<1>1. task' \in {f \in [Task -> UNION {dest(t) : t \in Task}] : \A t \in Task : f[t] \in dest(t)}
  BY DEF Dying, drained
<1>2. \A t \in Task : task'[t] \in dest(t)
  BY <1>1
<1>3. ts \in [Task -> TaskStruct] /\ online \subseteq Cpu /\ BootCpu \in Cpu
  BY Activated, Finite DEF IndInv, TypeOK
<1> SUFFICES ASSUME NEW t \in Task
             PROVE  LET o == ts[t]
                        e == task'[t]
                    IN  /\ e \in TaskStruct
                        /\ e.state = o.state /\ e.on_rq = o.on_rq /\ e.on_cpu = o.on_cpu
                        /\ e.contributes = o.contributes
                        /\ \/ /\ o.on_rq /\ o.cpu = c
                              /\ e.cpu \in online \ {c} /\ e.cpu \in e.allowed
                           \/ ~(o.on_rq /\ o.cpu = c) /\ e = o
  OBVIOUS
<1> HIDE DEF ts
<1>4. CASE ts[t].on_rq /\ ts[t].cpu = c
  <2> DEFINE o == ts[t]
             e == task'[t]
  <2>1. \/ \E d \in o.allowed \cap ((online \ {c}) \cap active) : e = [o EXCEPT !.cpu = d]
        \/ \E d \in (online \ {c}) \cap active : e = [o EXCEPT !.cpu = d, !.allowed = Cpu]
    BY <1>2, <1>4 DEF select_fallback_rq
  <2>2. o \in TaskStruct
    BY <1>3
  <2> HIDE DEF o, e
  <2>3. /\ e \in TaskStruct
        /\ e.state = o.state /\ e.on_rq = o.on_rq /\ e.on_cpu = o.on_cpu
        /\ e.contributes = o.contributes
        /\ e.cpu \in online \ {c} /\ e.cpu \in e.allowed
    <3>1. CASE \E d \in o.allowed \cap ((online \ {c}) \cap active) : e = [o EXCEPT !.cpu = d]
      BY <1>3, <2>2, <3>1 DEF TaskStruct
    <3>2. CASE \E d \in (online \ {c}) \cap active : e = [o EXCEPT !.cpu = d, !.allowed = Cpu]
      <4>1. PICK d \in (online \ {c}) \cap active : e = [o EXCEPT !.cpu = d, !.allowed = Cpu]
        BY <3>2
      <4>2. d \in Cpu /\ Cpu \in (SUBSET Cpu) \ {{}}
        BY <1>3
      <4> QED BY <2>2, <4>1, <4>2 DEF TaskStruct
    <3> QED BY <2>1, <3>1, <3>2
  <2> QED BY <1>4, <2>3 DEF o, e
<1>5. CASE ~(ts[t].on_rq /\ ts[t].cpu = c)
  <2>1. task'[t] = ts[t]
    BY <1>2, <1>5
  <2> QED BY <1>3, <1>5, <2>1
<1> QED BY <1>4, <1>5

LEMMA StepDying ==
  ASSUME IndInv, NEW c \in Cpu, Dying(c)
  PROVE  IndInv'
<1> DEFINE ts == pending_activated(task, c)
           W == wake_list[c]
           mr == [nr_uninterruptible EXCEPT ![c] = @ - pending_count(c)]
<1>0. /\ hotplug = <<"dying", c>>
      /\ \A d \in online : /\ curr[d] = Stop /\ prev[d] = NoTask
                           /\ works[d] # << >> /\ Head(works[d]) = Machine
      /\ \A t \in Task : wake[t] = "none"
      /\ online' = online \ {c}
      /\ wake_list' = [wake_list EXCEPT ![c] = {}] /\ ipi' = [ipi EXCEPT ![c] = FALSE]
      /\ \E d \in active : nr_uninterruptible' = moved_count(mr, c, d)
      /\ curr' = [curr EXCEPT ![c] = Idle]
      /\ hotplug' = NoHotplug
      /\ works' = [d \in Cpu |-> IF d \in online \ {c} THEN Tail(works[d]) ELSE << >>]
      /\ wake' = wake /\ prev' = prev /\ active' = active
  BY DEF Dying, rq_free, pi_free
<1>a. /\ task \in [Task -> TaskStruct] /\ wake_list \in [Cpu -> SUBSET Task]
      /\ ipi \in [Cpu -> BOOLEAN] /\ nr_uninterruptible \in [Cpu -> Int]
      /\ curr \in [Cpu -> Task \cup {Idle, Stop}] /\ works \in [Cpu -> Seq(Work)]
      /\ online \subseteq Cpu /\ active \subseteq Cpu
  BY DEF IndInv, TypeOK
<1>b. c \in online /\ c \notin active /\ c # BootCpu /\ BootCpu \in online
  BY <1>0 DEF IndInv, HotplugOK
<1>1. /\ ts \in [Task -> TaskStruct] /\ W \in SUBSET Task
      /\ \A t \in Task \ W : ts[t] = task[t]
      /\ \A t \in W : /\ ts[t].on_rq /\ ts[t].state = "R" /\ ts[t].contributes = 0
                      /\ ts[t].cpu = c
                      /\ ~ts[t].on_cpu /\ ~task[t].on_cpu /\ ~task[t].on_rq
                      /\ Blocked(ts[t]) = 0 /\ Blocked(task[t]) = task[t].contributes
  BY Activated
<1>2. \A t \in Task :
        /\ task'[t] \in TaskStruct
        /\ task'[t].state = ts[t].state /\ task'[t].on_rq = ts[t].on_rq
        /\ task'[t].on_cpu = ts[t].on_cpu /\ task'[t].contributes = ts[t].contributes
        /\ \/ ts[t].on_rq /\ ts[t].cpu = c /\ task'[t].cpu \in online \ {c}
           \/ ~(ts[t].on_rq /\ ts[t].cpu = c) /\ task'[t] = ts[t]
  BY Drained
<1> HIDE DEF ts
<1>3. /\ \A d \in Cpu : curr[d] \notin Task /\ prev[d] = NoTask
      /\ \A d \in Cpu : curr'[d] \notin Task /\ prev'[d] = NoTask
      /\ curr'[c] = Idle
      /\ curr' \in [Cpu -> Task \cup {Idle, Stop}]
  <2>1. \A d \in Cpu : curr[d] \notin Task /\ prev[d] = NoTask
    BY <1>0, Names DEF IndInv, DeadOK
  <2> QED BY <1>0, <1>a, <2>1, Names
<1>4. \A t \in Task : ~task[t].on_cpu /\ ~ts[t].on_cpu /\ ~task'[t].on_cpu
  <2>1. \A t \in Task : ~task[t].on_cpu
    BY <1>3, Names DEF IndInv, RunningOK, holds
  <2>2. \A t \in Task : ~ts[t].on_cpu
    BY <1>1, <2>1
  <2>3. \A t \in Task : ~task'[t].on_cpu
    BY <1>2, <2>2
  <2> QED BY <2>1, <2>2, <2>3
<1>5. /\ wake_list' \in [Cpu -> SUBSET Task] /\ ipi' \in [Cpu -> BOOLEAN]
      /\ wake_list'[c] = {}
      /\ \A d \in Cpu : d # c => wake_list'[d] = wake_list[d] /\ ipi'[d] = ipi[d]
  BY <1>0, <1>a
<1>6. /\ WorksOK' /\ works' \in [Cpu -> Seq(Work)]
      /\ \A d \in Cpu \ (online \ {c}) : works'[d] = << >>
  <2>1. ASSUME NEW d \in Cpu
        PROVE  /\ works'[d] \in Seq(Work)
               /\ \A i \in DOMAIN works'[d] :
                    /\ works'[d][i].dest \in online \ {c} /\ works'[d][i] # Machine
                    /\ works'[d][i].t \in Task /\ works'[d][i].by # "affinity"
    <3>1. CASE d \in online \ {c}
      <4> DEFINE s == works[d]
      <4>1. works'[d] = Tail(s) /\ s \in Seq(Work) /\ s # << >> /\ Head(s) = Machine
        BY <1>0, <1>a, <3>1
      <4>2. WorkListOK(s, online, active, hotplug)
        BY DEF IndInv, WorksOK
      <4> HIDE DEF s
      <4>3. /\ Tail(s) \in Seq(Work) /\ 1 \in DOMAIN s /\ s[1] = Machine
            /\ \A i \in DOMAIN Tail(s) : /\ i \in Nat /\ i + 1 \in DOMAIN s
                                         /\ Tail(s)[i] = s[i + 1] /\ 1 < i + 1
        BY <4>1, FirstWork
      <4>4. ASSUME NEW i \in DOMAIN Tail(s)
            PROVE  /\ Tail(s)[i].dest \in online \ {c} /\ Tail(s)[i] # Machine
                   /\ Tail(s)[i].t \in Task /\ Tail(s)[i].by # "affinity"
        <5>1. s[i + 1] # Machine /\ s[i + 1].dest # c
          BY <1>0, <4>2, <4>3 DEF WorkListOK
        <5>2. GoodWork(s[i + 1], online, active, hotplug)
          BY <4>2, <4>3 DEF WorkListOK
        <5>3. hotplug # NoHotplug
          BY <1>0, NoHotplugIs
        <5> QED BY <4>3, <5>1, <5>2, <5>3 DEF GoodWork
      <4> QED BY <4>1, <4>3, <4>4
    <3>2. CASE d \notin online \ {c}
      BY <1>0, <3>2
    <3> QED BY <3>1, <3>2
  <2>2. \A d \in Cpu : WorkListOK(works'[d], online', active', hotplug')
    <3>1. \A d \in Cpu : \A i \in DOMAIN works'[d] :
            /\ works'[d][i].dest \in online' /\ works'[d][i] # Machine
            /\ works'[d][i].t \in Task /\ works'[d][i].by # "affinity"
      BY <1>0, <2>1
    <3> QED BY <3>1, WorkListQuiet
  <2>3. WorksOK'
    BY <2>2 DEF WorksOK
  <2>4. works' \in [Cpu -> Seq(Work)]
    BY <1>0, <2>1
  <2> QED BY <1>0, <2>3, <2>4
<1>7. PICK d \in active : nr_uninterruptible' = moved_count(mr, c, d)
  BY <1>0
<1>8. nr_uninterruptible' \in [Cpu -> Int] /\ UninterruptibleSum'
  <2>1. CountersBalance(task, nr_uninterruptible)
    BY SumIsBalance DEF IndInv
  <2> DEFINE h == [t \in Task |-> task[t].contributes]
  <2>2. pending_count(c) = SumFunctionOnSet(h, W)
    BY DEF pending_count
  <2>3. pending_count(c) \in Int
    <3>1. IsFiniteSet(W) /\ \A t \in W : h[t] \in Int
      BY <1>1, <1>a, Finite, FS_Subset DEF TaskStruct
    <3> HIDE DEF W, h
    <3> QED BY <2>2, <3>1, SumType
  <2>4. /\ mr \in [Cpu -> Int] /\ mr[c] = nr_uninterruptible[c] - SumFunctionOnSet(h, W)
        /\ \A e \in Cpu \ {c} : mr[e] = nr_uninterruptible[e]
        /\ \A t \in W : Blocked(ts[t]) = 0 /\ Blocked(task[t]) = h[t]
    BY <1>1, <1>a, <2>2, <2>3
  <2>5. /\ \A t \in Task \ W : Blocked(ts[t]) = Blocked(task[t])
        /\ W \in SUBSET Task /\ nr_uninterruptible \in [Cpu -> Int]
    BY <1>1, <1>a
  <2> HIDE DEF W, h, mr
  <2>6. CountersBalance(ts, mr)
    BY <2>1, <2>4, <2>5, BalancePending
  <2>7. d \in Cpu /\ d # c
    BY <1>a, <1>b
  <2>8. moved_count(mr, c, d) \in [Cpu -> Int] /\ CountersBalance(ts, moved_count(mr, c, d))
    BY <2>4, <2>6, <2>7, BalanceMoved
  <2>9. \A t \in Task : Blocked(task'[t]) = Blocked(ts[t])
    BY <1>2 DEF Blocked
  <2>10. CountersBalance(task', moved_count(mr, c, d))
    BY <2>8, <2>9, BalanceFrame
  <2> QED BY <1>7, <2>8, <2>10, SumIsBalance
<1>9. TypeOK'
  <2>1. DOMAIN task' = Task
    BY DEF Dying
  <2>2. task' \in [Task -> TaskStruct]
    <3>1. task' = [t \in Task |-> task'[t]]
      BY DEF Dying
    <3> QED BY <1>2, <3>1
  <2>3. hotplug' \in {"none", "down", "dying", "up"} \X Cpu
    BY <1>0, Finite DEF NoHotplug
  <2> QED BY <1>0, <1>3, <1>5, <1>6, <1>8, <2>2, <2>3 DEF IndInv, TypeOK
<1>10. RunningOK'
  BY <1>3, <1>4, Names DEF RunningOK, holds
<1>11. WakingOK'
  <2>1. (\A e \in Cpu : wake_list[e] # {} => ipi[e])'
    BY <1>5 DEF IndInv, WakingOK
  <2>2. (\A e \in Cpu : \A t \in wake_list[e] :
           task[t].state = "WAKING" /\ task[t].cpu = e /\ ~task[t].on_cpu)'
    <3> SUFFICES ASSUME NEW e \in Cpu, NEW t \in wake_list'[e]
                 PROVE  task'[t].state = "WAKING" /\ task'[t].cpu = e /\ ~task'[t].on_cpu
      OBVIOUS
    <3>1. e # c /\ t \in wake_list[e] /\ t \in Task
      BY <1>5, <1>a
    <3>2. task[t].state = "WAKING" /\ task[t].cpu = e /\ (t \in W => task[t].cpu = c)
      BY <3>1 DEF IndInv, WakingOK
    <3> QED BY <1>1, <1>2, <1>4, <3>1, <3>2
  <2>3. (\A t \in Task : WakeOK(task[t], wake[t], t \in wake_list[task[t].cpu]))'
    <3> SUFFICES ASSUME NEW t \in Task
                 PROVE  WakeOK(task'[t], wake'[t], t \in wake_list'[task'[t].cpu])
      OBVIOUS
    <3>1. WakeOK(task[t], wake[t], t \in wake_list[task[t].cpu]) /\ wake'[t] = "none"
      BY <1>0 DEF IndInv, WakingOK
    <3>2. CASE t \in W
      BY <1>1, <1>2, <3>1, <3>2 DEF WakeOK
    <3>3. CASE t \notin W
      <4>1. ts[t] = task[t] /\ task[t].cpu \in Cpu
        BY <1>1, <1>a, <3>3 DEF TaskStruct
      <4>2. CASE task[t].on_rq
        BY <1>2, <3>1, <4>1, <4>2 DEF WakeOK
      <4>3. CASE ~task[t].on_rq
        <5>1. task'[t] = task[t]
          BY <1>2, <4>1, <4>3
        <5>2. t \in wake_list[task[t].cpu] => t \in wake_list'[task[t].cpu]
          BY <1>5, <3>3, <4>1
        <5> QED BY <3>1, <5>1, <5>2 DEF WakeOK
      <4> QED BY <4>2, <4>3
    <3> QED BY <3>2, <3>3
  <2> QED BY <2>1, <2>2, <2>3 DEF WakingOK
<1>12. DeadOK'
  <2> SUFFICES ASSUME NEW e \in Cpu, e \notin online'
               PROVE  /\ curr'[e] = Idle /\ prev'[e] = NoTask /\ wake_list'[e] = {}
                      /\ works'[e] = << >>
                      /\ \A t \in Task : task'[t].on_rq => task'[t].cpu # e
    BY DEF DeadOK
  <2>1. prev'[e] = NoTask /\ works'[e] = << >>
    BY <1>0, <1>3, <1>6
  <2>2. curr'[e] = Idle /\ wake_list'[e] = {}
    BY <1>0, <1>3, <1>5, <1>a DEF IndInv, DeadOK
  <2>3. ASSUME NEW t \in Task, task'[t].on_rq PROVE task'[t].cpu # e
    <3>1. CASE ts[t].on_rq /\ ts[t].cpu = c
      BY <1>0, <1>2, <3>1
    <3>2. CASE ~(ts[t].on_rq /\ ts[t].cpu = c)
      <4>1. task'[t] = ts[t] /\ t \notin W
        BY <1>1, <1>2, <3>2
      <4>2. task'[t] = task[t] /\ task[t].cpu # c
        BY <1>1, <2>3, <3>2, <4>1
      <4> QED BY <1>0, <2>3, <4>2 DEF IndInv, DeadOK
    <3> QED BY <3>1, <3>2
  <2> QED BY <2>1, <2>2, <2>3
<1>13. HotplugOK'
  BY <1>0, <1>b, NoHotplugIs DEF IndInv, HotplugOK
<1> QED BY <1>6, <1>8, <1>9, <1>10, <1>11, <1>12, <1>13 DEF IndInv

\* The first state: everything ready on the boot CPU, nothing running.
LEMMA InitInv ==
  ASSUME Init
  PROVE  IndInv
<1>1. TypeOK
  BY Finite, NoHotplugIs DEF Init, TypeOK, TaskStruct
<1>2. RunningOK
  BY Names DEF Init, RunningOK, holds
<1>3. WakingOK
  BY DEF Init, WakingOK, WakeOK
<1>4. DeadOK /\ HotplugOK
  BY Finite, NoHotplugIs DEF Init, DeadOK, HotplugOK
<1>5. WorksOK
  BY DEF Init, WorksOK, WorkListOK
<1>6. UninterruptibleSum
  <2> DEFINE f == BlockedTasks(task)
  <2>1. \A t \in Task : f[t] = 0
    BY DEF Init, BlockedTasks, Blocked
  <2> HIDE DEF f
  <2>2. SumFunctionOnSet(f, Task) = 0
    BY <2>1, Finite, SumZero
  <2>3. \A c \in Cpu : nr_uninterruptible[c] = 0
    BY DEF Init
  <2>4. SumFunctionOnSet(nr_uninterruptible, Cpu) = 0
    BY <2>3, Finite, SumZero
  <2>5. CountersBalance(task, nr_uninterruptible)
    BY <2>2, <2>4 DEF CountersBalance, f
  <2> QED BY <2>5, SumIsBalance
<1> QED BY <1>1, <1>2, <1>3, <1>4, <1>5, <1>6 DEF IndInv

LEMMA NextInv ==
  ASSUME IndInv, [Next]_vars
  PROVE  IndInv'
<1>1. ASSUME NEW t \in Task, WakeUp(t) \/ TtwuRemote(t) \/ TtwuPlace(t)
      PROVE  IndInv'
  BY <1>1, StepWakeUp, StepTtwuRemote, StepTtwuPlace
<1>2. ASSUME NEW t \in Task, NEW mask \in Mask, SetCpusAllowed(t, mask)
      PROVE  IndInv'
  BY <1>2, StepSetCpusAllowed
<1>3. ASSUME NEW c \in Cpu, SchedulerIpi(c) \/ Sleep(c) \/ Preempt(c) \/ FinishTaskSwitch(c)
      PROVE  IndInv'
  BY <1>3, StepSchedulerIpi, StepSleep, StepPreempt, StepFinish
<1>4. ASSUME NEW c \in Cpu, NEW s \in SleepState \cup {"R"}, SetCurrentState(c, s)
      PROVE  IndInv'
  BY <1>4, StepSetCurrentState
<1>5. ASSUME NEW c \in Cpu, SchedExec(c) \/ MigrationCpuStop(c)
      PROVE  IndInv'
  BY <1>5, StepSchedExec, StepMigrationCpuStop
<1>6. ASSUME NEW c \in Cpu, DownPrepare(c) \/ DownFailed(c) \/ Starting(c) \/ Online(c)
      PROVE  IndInv'
  BY <1>6, StepHotplug
<1>7. ASSUME NEW c \in Cpu, StopMachine(c) \/ Dying(c)
      PROVE  IndInv'
  BY <1>7, StepStopMachine, StepDying
<1>8. CASE UNCHANGED vars
  <2>1. /\ task' = task /\ wake' = wake /\ curr' = curr /\ prev' = prev
        /\ wake_list' = wake_list /\ ipi' = ipi /\ nr_uninterruptible' = nr_uninterruptible
        /\ works' = works /\ online' = online /\ active' = active /\ hotplug' = hotplug
    BY <1>8 DEF vars
  <2>2. TypeOK'
    BY <2>1 DEF IndInv, TypeOK
  <2>3. RunningOK' /\ WakingOK' /\ DeadOK' /\ UninterruptibleSum'
    BY <2>1, RunFrame, WakeFrame, DeadFrame, SumFrame DEF IndInv
  <2>4. HotplugOK' /\ WorksOK'
    BY <2>1, StopFrame DEF IndInv, stop_vars
  <2> QED BY <2>2, <2>3, <2>4 DEF IndInv
<1> QED BY <1>1, <1>2, <1>3, <1>4, <1>5, <1>6, <1>7, <1>8 DEF Next

-----------------------------------------------------------------------------
(* What the invariant means *)

LEMMA RunsOnce ==
  ASSUME IndInv
  PROVE  EachOnOneCpu
<1>1. ASSUME NEW t \in Task PROVE Cardinality({c \in Cpu : t \in {curr[c], prev[c]}}) <= 1
  <2> DEFINE S == {c \in Cpu : t \in {curr[c], prev[c]}}
  <2>1. \A c, d \in S : c = d
    BY DEF IndInv, RunningOK, holds
  <2> HIDE DEF S
  <2>2. Cardinality(S) <= 1
    <3>1. CASE S = {}
      BY <3>1, FS_EmptySet
    <3>2. CASE S # {}
      <4>1. PICK c \in S : S = {c}
        BY <2>1, <3>2
      <4>2. Cardinality({c}) = 1
        BY FS_Singleton
      <4> QED BY <4>1, <4>2
    <3> QED BY <3>1, <3>2
  <2> QED BY <2>2 DEF S
<1>2. /\ \A t \in Task : task[t].on_cpu <=> \E c \in Cpu : t \in {curr[c], prev[c]}
      /\ \A c \in Cpu : curr[c] \in Task => task[curr[c]].cpu = c /\ task[curr[c]].on_rq
  BY DEF IndInv, RunningOK, holds
<1>3. OnOneCpu
  BY <1>1, <1>2 DEF OnOneCpu
<1> QED BY <1>3 DEF IndInv, EachOnOneCpu

LEMMA WakesUp ==
  ASSUME IndInv
  PROVE  NoLostWakeUp
<1>1. ASSUME NEW t \in Task
      PROVE  CASE task[t].on_rq -> task[t].state # "WAKING"
               [] task[t].state = "WAKING" -> t \in wake_list[task[t].cpu]
               [] OTHER -> task[t].state \in {"S", "D"}
  <2>1. task[t] \in TaskStruct
    BY DEF IndInv, TypeOK
  <2>2. WakeOK(task[t], wake[t], t \in wake_list[task[t].cpu])
    BY DEF IndInv, WakingOK
  <2>3. CASE task[t].on_rq
    BY <2>2, <2>3 DEF WakeOK
  <2>4. CASE ~task[t].on_rq /\ task[t].state = "WAKING"
    BY <2>2, <2>4 DEF WakeOK
  <2>5. CASE ~task[t].on_rq /\ task[t].state # "WAKING"
    <3>1. task[t].state \in {"S", "D"}
      BY <2>1, <2>2, <2>5 DEF WakeOK, TaskStruct
    <3> QED BY <2>5, <3>1
  <2> QED BY <2>3, <2>4, <2>5
<1>2. \A c \in Cpu : /\ wake_list[c] # {} => c \in online /\ ipi[c]
                     /\ \A t \in wake_list[c] : task[t].state = "WAKING" /\ task[t].cpu = c
  BY DEF IndInv, WakingOK, DeadOK
<1> QED BY <1>1, <1>2 DEF NoLostWakeUp

LEMMA DeadIsEmpty ==
  ASSUME IndInv
  PROVE  NothingOnDeadCpu
BY DEF IndInv, DeadOK, NothingOnDeadCpu, queued_on

-----------------------------------------------------------------------------
(* Who goes astray *)

\* Whether t is astray depends on the task and on the works of its CPU.
LEMMA AstrayFrame ==
  ASSUME NEW t \in Task, Astray(t)',
         task'[t].on_rq = task[t].on_rq, task'[t].cpu = task[t].cpu,
         task'[t].allowed = task[t].allowed,
         \A w \in ToSet(works[task[t].cpu]) :
           w.by = "affinity" /\ w.t = t /\ w.dest \in task[t].allowed
             => w \in ToSet(works'[task[t].cpu])
  PROVE  Astray(t)
BY DEF Astray

LEMMA AstrayKept ==
  ASSUME NEW t \in Task, Astray(t)',
         task'[t].on_rq = task[t].on_rq, task'[t].cpu = task[t].cpu,
         task'[t].allowed = task[t].allowed, works' = works
  PROVE  Astray(t)
BY AstrayFrame

\* A task that is queued where it may run is not astray.
LEMMA AtHome ==
  ASSUME NEW t \in Task, Astray(t)'
  PROVE  task'[t].on_rq /\ task'[t].cpu \notin task'[t].allowed
BY DEF Astray

\* No wake-up leads a task astray.
LEMMA WakeUpKeeps ==
  ASSUME IndInv, NEW t \in Task, WakeUp(t) \/ TtwuRemote(t) \/ TtwuPlace(t),
         NEW u \in Task, Astray(u)'
  PROVE  Astray(u)
<1>a. task \in [Task -> TaskStruct] /\ task[t] \in TaskStruct
  BY DEF IndInv, TypeOK
<1>0. works' = works
  BY DEF WakeUp, TtwuRemote, TtwuPlace, stop_vars
<1>1. CASE WakeUp(t)
  BY <1>0, <1>1, AstrayKept DEF WakeUp
<1>2. CASE TtwuRemote(t)
  <2>1. task' = task \/ task' = [task EXCEPT ![t].state = "R"]
    BY <1>2 DEF TtwuRemote
  <2>2. /\ task'[u].on_rq = task[u].on_rq /\ task'[u].cpu = task[u].cpu
        /\ task'[u].allowed = task[u].allowed
    BY <1>a, <2>1 DEF TaskStruct
  <2> QED BY <1>0, <2>2, AstrayKept
<1>3. CASE TtwuPlace(t)
  <2> DEFINE o == [task[t] EXCEPT !.contributes = contributes(task[t]), !.state = "WAKING"]
  <2>1. PICK want \in Cpu :
          \E e \in select_task_rq(o, want) :
            task' = [task EXCEPT ![t] = e] \/ task' = [task EXCEPT ![t] = ttwu_do_activate(e)]
    BY <1>3 DEF TtwuPlace
  <2>2. PICK e \in select_task_rq(o, want) :
          task' = [task EXCEPT ![t] = e] \/ task' = [task EXCEPT ![t] = ttwu_do_activate(e)]
    BY <2>1
  <2>3. o \in TaskStruct
    BY <1>a DEF TaskStruct, contributes
  <2> HIDE DEF o
  <2>4. e \in TaskStruct /\ e.cpu \in e.allowed
    BY <2>3, Selected DEF IndInv
  <2>5. task'[t].cpu \in task'[t].allowed /\ \A v \in Task : v # t => task'[v] = task[v]
    <3>1. /\ ttwu_do_activate(e).cpu = e.cpu /\ ttwu_do_activate(e).allowed = e.allowed
      BY <2>4 DEF ttwu_do_activate, TaskStruct
    <3>2. /\ task'[t] \in {e, ttwu_do_activate(e)}
          /\ \A v \in Task : v # t => task'[v] = task[v]
      BY <1>a, <2>2
    <3> QED BY <2>4, <3>1, <3>2
  <2>6. u # t
    BY <2>5, AtHome
  <2> QED BY <1>0, <2>5, <2>6, AstrayKept
<1> QED BY <1>1, <1>2, <1>3

\* Switching, sleeping and setting a state leave the tasks where they are.
LEMMA RunKeeps ==
  ASSUME IndInv, NEW c \in Cpu, NEW u \in Task, Astray(u)',
         \/ Sleep(c) \/ Preempt(c) \/ FinishTaskSwitch(c)
         \/ \E s \in SleepState \cup {"R"} : SetCurrentState(c, s)
  PROVE  Astray(u)
<1>a. task \in [Task -> TaskStruct] /\ task[u] \in TaskStruct
  BY DEF IndInv, TypeOK
<1>0. works' = works
  BY DEF Sleep, Preempt, FinishTaskSwitch, SetCurrentState, stop_vars
<1>1. ASSUME NEW p \in Task, NEW s, task' = [task EXCEPT ![p].state = s]
      PROVE  Astray(u)
  <2>1. /\ task'[u].on_rq = task[u].on_rq /\ task'[u].cpu = task[u].cpu
        /\ task'[u].allowed = task[u].allowed
    BY <1>1, <1>a DEF TaskStruct
  <2> QED BY <1>0, <2>1, AstrayKept
<1>2. ASSUME NEW ts \in [Task -> TaskStruct],
             \A t \in Task : /\ ts[t].cpu = task[t].cpu /\ ts[t].allowed = task[t].allowed
                             /\ ts[t].on_rq => task[t].on_rq
                             /\ ts[t].on_rq \in BOOLEAN /\ task[t].on_rq \in BOOLEAN,
             NEW next \in pick_next_task(ts, c), switch_to(ts, c, next)
      PROVE  Astray(u)
  <2>1. next \in Task \cup {Idle, Stop}
    BY DEF pick_next_task
  <2>2. /\ task'[u].on_rq = ts[u].on_rq /\ task'[u].cpu = ts[u].cpu
        /\ task'[u].allowed = ts[u].allowed
    BY <1>2, <2>1, SwitchTasks DEF IndInv
  <2>3. task'[u].on_rq
    BY AtHome
  <2>4. task'[u].on_rq = task[u].on_rq
    BY <1>2, <2>2, <2>3
  <2> QED BY <1>0, <1>2, <2>2, <2>4, AstrayKept
<1>3. CASE Sleep(c)
  <2> DEFINE p == curr[c]
             ts == [task EXCEPT ![p].on_rq = FALSE]
  <2>1. p \in Task
    BY <1>3 DEF Sleep
  <2>2. CASE task' = [task EXCEPT ![p].state = "R"]
    BY <1>1, <2>1, <2>2
  <2>3. CASE \E next \in pick_next_task(ts, c) : switch_to(ts, c, next)
    <3>1. PICK next \in pick_next_task(ts, c) : switch_to(ts, c, next)
      BY <2>3
    <3>2. \A t \in Task :
            /\ ts[t] \in TaskStruct
            /\ ts[t].cpu = task[t].cpu /\ ts[t].allowed = task[t].allowed
            /\ ts[t].on_rq => task[t].on_rq
            /\ ts[t].on_rq \in BOOLEAN /\ task[t].on_rq \in BOOLEAN
      BY <1>a, <2>1 DEF TaskStruct
    <3>3. ts \in [Task -> TaskStruct]
      BY <1>a, <3>2
    <3> HIDE DEF ts
    <3> QED BY <1>2, <3>1, <3>2, <3>3
  <2> QED BY <1>3, <2>2, <2>3 DEF Sleep
<1>4. CASE Preempt(c)
  <2>1. PICK next \in pick_next_task(task, c) : switch_to(task, c, next)
    BY <1>4 DEF Preempt
  <2>2. \A t \in Task : task[t].on_rq \in BOOLEAN
    BY <1>a DEF TaskStruct
  <2> QED BY <1>2, <1>a, <2>1, <2>2
<1>5. CASE FinishTaskSwitch(c)
  <2>1. task'[u] = IF u = prev[c] THEN [task[u] EXCEPT !.on_cpu = FALSE] ELSE task[u]
    BY <1>5 DEF FinishTaskSwitch
  <2>2. /\ task'[u].on_rq = task[u].on_rq /\ task'[u].cpu = task[u].cpu
        /\ task'[u].allowed = task[u].allowed
    BY <1>a, <2>1 DEF TaskStruct
  <2> QED BY <1>0, <2>2, AstrayKept
<1>6. CASE \E s \in SleepState \cup {"R"} : SetCurrentState(c, s)
  <2>1. PICK s \in SleepState \cup {"R"} :
          curr[c] \in Task /\ task' = [task EXCEPT ![curr[c]].state = s]
    BY <1>6 DEF SetCurrentState
  <2> QED BY <1>1, <2>1
<1> QED BY <1>3, <1>4, <1>5, <1>6

\* scheduler_ipi() and migrate_tasks() can lead astray only a task that was
\* on a wake list.
LEMMA PendingKeeps ==
  ASSUME IndInv, NEW c \in Cpu, SchedulerIpi(c) \/ Dying(c),
         NEW u \in Task, Astray(u)'
  PROVE  Astray(u) \/ task[u].state = "WAKING"
<1>1. CASE u \in wake_list[c]
  BY <1>1 DEF IndInv, WakingOK
<1>2. CASE u \notin wake_list[c] /\ SchedulerIpi(c)
  <2>1. task'[u] = task[u] /\ works' = works
    BY <1>2, Activated DEF SchedulerIpi, stop_vars
  <2> QED BY <2>1, AstrayKept
<1>3. CASE u \notin wake_list[c] /\ Dying(c)
  <2>1. pending_activated(task, c)[u] = task[u]
    BY <1>3, Activated
  <2>2. \/ task'[u].cpu \in task'[u].allowed
        \/ task'[u] = task[u]
    BY <1>3, <2>1, Drained
  <2>3. task'[u] = task[u]
    BY <2>2, AtHome
  <2>4. task[u].cpu \in Cpu
    BY DEF IndInv, TypeOK, TaskStruct
  <2>5. hotplug # NoHotplug
    BY <1>3, NoHotplugIs DEF Dying
  <2>6. \A w \in ToSet(works[task[u].cpu]) : w.by # "affinity"
    BY <2>4, <2>5 DEF IndInv, WorksOK, WorkListOK, GoodWork, ToSet
  <2> QED BY <2>3, <2>6, AstrayFrame
<1> QED BY <1>1, <1>2, <1>3

\* A work queued at the end of a list leaves the others there.
LEMMA ListGrows ==
  ASSUME NEW s \in Seq(Work), NEW w \in Work
  PROVE  ToSet(s) \subseteq ToSet(Append(s, w)) /\ w \in ToSet(Append(s, w))
<1> DEFINE a == Append(s, w)
<1>1. /\ \A i \in DOMAIN a : \/ i \in DOMAIN s /\ a[i] = s[i]
                             \/ i \notin DOMAIN s /\ a[i] = w
      /\ \A i \in DOMAIN s : i \in DOMAIN a
      /\ Len(s) + 1 \in DOMAIN a /\ a[Len(s) + 1] = w
  BY AppendWork
<1> HIDE DEF a
<1>2. \A i \in DOMAIN s : a[i] = s[i]
  BY <1>1
<1>3. ToSet(s) \subseteq ToSet(a) /\ w \in ToSet(a)
  BY <1>1, <1>2 DEF ToSet
<1> QED BY <1>3 DEF a

\* sched_setaffinity() asks the stopper to move the task it leads astray, and
\* sched_exec() leads nobody astray.
LEMMA AskKeeps ==
  ASSUME IndInv, NEW u \in Task, Astray(u)',
         \/ \E t \in Task, mask \in Mask : SetCpusAllowed(t, mask)
         \/ \E c \in Cpu : SchedExec(c)
         \/ \E c \in Cpu : StopMachine(c)
  PROVE  Astray(u)
<1>a. /\ task \in [Task -> TaskStruct] /\ task[u] \in TaskStruct
      /\ works \in [Cpu -> Seq(Work)] /\ active \subseteq Cpu
      /\ curr \in [Cpu -> Task \cup {Idle, Stop}]
  BY DEF IndInv, TypeOK
<1>b. task[u].cpu \in Cpu
  BY <1>a DEF TaskStruct
<1>1. ASSUME NEW c \in Cpu, NEW w \in Work, queue_work(c, w)
      PROVE  /\ ToSet(works[task[u].cpu]) \subseteq ToSet(works'[task[u].cpu])
             /\ w \in ToSet(works'[c])
  <2>1. works' = [works EXCEPT ![c] = Append(@, w)]
    BY <1>1 DEF queue_work
  <2>2. works'[c] = Append(works[c], w) /\ \A d \in Cpu : d # c => works'[d] = works[d]
    BY <1>a, <2>1
  <2>3. ToSet(works[c]) \subseteq ToSet(works'[c]) /\ w \in ToSet(works'[c])
    BY <1>a, <2>2, ListGrows
  <2> QED BY <1>b, <2>2, <2>3
<1>2. ASSUME NEW c \in Cpu, SchedExec(c) PROVE Astray(u)
  <2>1. PICK dest \in (online \cap active) \ {c} :
          queue_work(c, [t |-> curr[c], dest |-> dest, by |-> "exec"])
    BY <1>2 DEF SchedExec
  <2> DEFINE w == [t |-> curr[c], dest |-> dest, by |-> "exec"]
  <2>2. w \in Work /\ queue_work(c, w)
    BY <1>2, <1>a, <2>1 DEF Work, SchedExec
  <2> HIDE DEF w
  <2>3. ToSet(works[task[u].cpu]) \subseteq ToSet(works'[task[u].cpu])
    BY <1>1, <2>2
  <2>4. task' = task
    BY <1>2 DEF SchedExec
  <2> QED BY <2>3, <2>4, AstrayFrame
<1>3. ASSUME NEW t \in Task, NEW mask \in Mask, SetCpusAllowed(t, mask) PROVE Astray(u)
  <2>0. task' = [task EXCEPT ![t].allowed = mask] /\ task[t] \in TaskStruct
    BY <1>3, <1>a DEF SetCpusAllowed
  <2>1. /\ task'[t].allowed = mask /\ task'[t].on_rq = task[t].on_rq
        /\ task'[t].cpu = task[t].cpu
        /\ \A v \in Task : v # t => task'[v] = task[v]
    BY <1>a, <2>0 DEF TaskStruct
  <2>2. CASE task[t].cpu \notin mask /\ task[t].on_rq
    <3>1. PICK dest \in active \cap mask :
            queue_work(task[t].cpu, [t |-> t, dest |-> dest, by |-> "affinity"])
      BY <1>3, <2>2 DEF SetCpusAllowed
    <3> DEFINE w == [t |-> t, dest |-> dest, by |-> "affinity"]
               c == task[t].cpu
    <3>2. w \in Work /\ c \in Cpu
      BY <1>a, <2>0 DEF Work, TaskStruct
    <3>3. queue_work(c, w)
      BY <3>1
    <3>4. w.by = "affinity" /\ w.t = t /\ w.dest \in mask
      OBVIOUS
    <3> HIDE DEF w, c
    <3>5. /\ ToSet(works[task[u].cpu]) \subseteq ToSet(works'[task[u].cpu])
          /\ w \in ToSet(works'[c])
      BY <1>1, <3>2, <3>3
    <3>6. u # t
      BY <2>1, <3>4, <3>5 DEF Astray, c
    <3> QED BY <2>1, <3>5, <3>6, AstrayFrame
  <2>3. CASE ~(task[t].cpu \notin mask /\ task[t].on_rq)
    <3>1. works' = works
      BY <1>3, <2>3 DEF SetCpusAllowed
    <3>2. u # t
      BY <2>1, <2>3, AtHome
    <3> QED BY <2>1, <3>1, <3>2, AstrayKept
  <2> QED BY <2>2, <2>3
<1>4. ASSUME NEW c \in Cpu, StopMachine(c) PROVE Astray(u)
  <2>1. task' = task
    BY <1>4 DEF StopMachine
  <2>2. works'[task[u].cpu] \in {works[task[u].cpu], Append(works[task[u].cpu], Machine)}
    BY <1>4, <1>b DEF StopMachine
  <2>3. ToSet(works[task[u].cpu]) \subseteq ToSet(works'[task[u].cpu])
    BY <1>a, <1>b, <2>2, MachineWork, ListGrows
  <2> QED BY <2>1, <2>3, AstrayFrame
<1> QED BY <1>2, <1>3, <1>4

\* The stopper moves the task, or finds it moved, or finds its affinity changed
\* again: the CPU it was to go to cannot have gone.
LEMMA StopperKeeps ==
  ASSUME IndInv, NEW c \in Cpu, MigrationCpuStop(c), NEW u \in Task, Astray(u)'
  PROVE  Astray(u)
<1> DEFINE w == Head(works[c])
<1>0. /\ curr[c] = Stop /\ rq_free(c) /\ works[c] # << >> /\ w # Machine
      /\ task' = IF migrates(task[w.t], c, w.dest) THEN [task EXCEPT ![w.t].cpu = w.dest]
                 ELSE task
      /\ works' = [works EXCEPT ![c] = Tail(@)]
  BY DEF MigrationCpuStop
<1>1. w.t \in Task /\ w.dest \in online
  BY <1>0, StopperFinds
<1>a. /\ task \in [Task -> TaskStruct] /\ task[w.t] \in TaskStruct /\ task[u] \in TaskStruct
      /\ works \in [Cpu -> Seq(Work)]
  BY <1>1 DEF IndInv, TypeOK
<1>2. w.by = "affinity" => w.dest \in active
  <2>1. 1 \in DOMAIN works[c] /\ w = works[c][1]
    BY <1>0, <1>a, FirstWork
  <2>2. GoodWork(w, online, active, hotplug)
    BY <2>1 DEF IndInv, WorksOK, WorkListOK
  <2> QED BY <2>2 DEF GoodWork
<1>3. \A x \in ToSet(works[c]) : x = w \/ x \in ToSet(works'[c])
  <2> DEFINE s == works[c]
  <2>1. s \in Seq(Work) /\ s # << >> /\ w = Head(s) /\ works'[c] = Tail(s)
    BY <1>0, <1>a
  <2> HIDE DEF s, w
  <2>2. \A i \in DOMAIN s : s[i] = w \/ \E j \in DOMAIN Tail(s) : s[i] = Tail(s)[j]
    <3> SUFFICES ASSUME NEW i \in DOMAIN s, i # 1
                 PROVE  \E j \in DOMAIN Tail(s) : s[i] = Tail(s)[j]
      BY <2>1, FirstWork
    <3>1. i - 1 \in DOMAIN Tail(s) /\ s[i] = Tail(s)[i - 1]
      BY <2>1
    <3> QED BY <3>1
  <2>3. \A x \in ToSet(s) : x = w \/ x \in ToSet(Tail(s))
    BY <2>2 DEF ToSet
  <2> QED BY <2>1, <2>3 DEF s
<1>4. \A d \in Cpu : d # c => works'[d] = works[d]
  BY <1>0, <1>a
<1> HIDE DEF w
<1>5. task[u].cpu \in Cpu
  BY <1>a DEF TaskStruct
<1>6. CASE migrates(task[w.t], c, w.dest)
  <2>1. /\ task'[w.t].cpu = w.dest /\ task'[w.t].allowed = task[w.t].allowed
        /\ \A v \in Task : v # w.t => task'[v] = task[v]
    BY <1>0, <1>1, <1>6, <1>a DEF TaskStruct
  <2>2. u # w.t
    BY <1>6, <2>1, AtHome DEF migrates
  <2>3. \A x \in ToSet(works[task[u].cpu]) : x.t = u => x \in ToSet(works'[task[u].cpu])
    BY <1>3, <1>4, <1>5, <2>2
  <2> QED BY <2>1, <2>2, <2>3, AstrayFrame
<1>7. CASE ~migrates(task[w.t], c, w.dest)
  <2>1. task' = task
    BY <1>0, <1>7
  <2>2. task[u].on_rq
    BY <2>1, AtHome
  <2>3. ASSUME NEW x \in ToSet(works[task[u].cpu]), x.by = "affinity", x.t = u,
               x.dest \in task[u].allowed
        PROVE  x \in ToSet(works'[task[u].cpu])
    <3>1. CASE task[u].cpu # c
      BY <1>4, <1>5, <3>1
    <3>2. CASE task[u].cpu = c
      <4>1. x # w
        BY <1>2, <1>7, <2>2, <2>3, <3>2 DEF migrates
      <4> QED BY <1>3, <3>2, <4>1
    <3> QED BY <3>1, <3>2
  <2> QED BY <2>1, <2>3, AstrayFrame
<1> QED BY <1>6, <1>7

\* No step leads a task astray that is not on a wake list.
LEMMA NextKeepsHome ==
  ASSUME IndInv, [Next]_vars, NEW u \in Task, Astray(u)'
  PROVE  Astray(u) \/ task[u].state = "WAKING"
<1>1. ASSUME NEW t \in Task, WakeUp(t) \/ TtwuRemote(t) \/ TtwuPlace(t)
      PROVE  Astray(u)
  BY <1>1, WakeUpKeeps
<1>2. ASSUME NEW c \in Cpu, \/ Sleep(c) \/ Preempt(c) \/ FinishTaskSwitch(c)
                            \/ \E s \in SleepState \cup {"R"} : SetCurrentState(c, s)
      PROVE  Astray(u)
  BY <1>2, RunKeeps
<1>3. ASSUME NEW c \in Cpu, SchedulerIpi(c) \/ Dying(c)
      PROVE  Astray(u) \/ task[u].state = "WAKING"
  BY <1>3, PendingKeeps
<1>4. ASSUME NEW c \in Cpu, SchedExec(c) \/ StopMachine(c) PROVE Astray(u)
  BY <1>4, AskKeeps
<1>5. ASSUME NEW t \in Task, NEW mask \in Mask, SetCpusAllowed(t, mask) PROVE Astray(u)
  BY <1>5, AskKeeps
<1>6. ASSUME NEW c \in Cpu, MigrationCpuStop(c) PROVE Astray(u)
  BY <1>6, StopperKeeps
<1>7. ASSUME NEW c \in Cpu, DownPrepare(c) \/ DownFailed(c) \/ Starting(c) \/ Online(c)
      PROVE  Astray(u)
  <2>1. task' = task /\ works' = works
    BY <1>7 DEF DownPrepare, DownFailed, Starting, Online
  <2> QED BY <2>1, AstrayKept
<1>8. CASE UNCHANGED vars
  <2>1. task' = task /\ works' = works
    BY <1>8 DEF vars
  <2> QED BY <2>1, AstrayKept
<1> QED BY <1>1, <1>2, <1>3, <1>4, <1>5, <1>6, <1>7, <1>8 DEF Next

-----------------------------------------------------------------------------
(* The theorems *)

\* The inductive invariant holds in every reachable state, for every number of
\* tasks, CPUs, masks and works.
THEOREM Invariance == Spec => []IndInv
<1>1. Init => IndInv
  BY InitInv
<1>2. IndInv /\ [Next]_vars => IndInv'
  BY NextInv
<1> QED BY <1>1, <1>2, PTL DEF Spec

\* No task is on two CPUs, none is left without a CPU it may run on, and the
\* counters of uninterruptible sleepers add up, also after a CPU has gone.
THEOREM OneCpuEach == Spec => []EachOnOneCpu
<1>1. IndInv => EachOnOneCpu
  BY RunsOnce
<1> QED BY <1>1, Invariance, PTL

\* A task a wake-up has begun with is queued, or on the wake list of an online
\* CPU that will be interrupted.
THEOREM WakeUpsArrive == Spec => []NoLostWakeUp
<1>1. IndInv => NoLostWakeUp
  BY WakesUp
<1> QED BY <1>1, Invariance, PTL

\* The BUG_ON(nr_running != 1) of migration_call() never fires.
THEOREM DeadCpusEmpty == Spec => []NothingOnDeadCpu
<1>1. IndInv => NothingOnDeadCpu
  BY DeadIsEmpty
<1> QED BY <1>1, Invariance, PTL

\* Whatever affinity calls, exec, wake-ups and hotplug do to each other, a task
\* is queued where it may not run, with nobody about to move it, only when its
\* affinity changed while it was on a wake list.
THEOREM AstrayOnlyWaking == Spec => AstrayOnlyWhileWaking
<1>1. IndInv /\ [Next]_vars
        => [\A t \in Task : ~Astray(t) /\ Astray(t)' => task[t].state = "WAKING"]_vars
  BY NextKeepsHome
<1> QED BY <1>1, Invariance, PTL DEF Spec, AstrayOnlyWhileWaking

=============================================================================
