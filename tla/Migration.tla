----------------------------- MODULE Migration ------------------------------
(***************************************************************************)
(* Several CPUs (CONFIG_SMP): remote wake-ups, CPU affinity, migration by  *)
(* the stopper threads, and CPU hotplug, in kernel/sched/core.c.           *)
(*                                                                         *)
(* A critical section under rq->lock is one step, except __schedule(),     *)
(* which has two: from the lock to the switch, and finish_task_switch(),   *)
(* which clears prev->on_cpu and releases the lock.  A wake-up holds       *)
(* p->pi_lock over several steps.  Which CPU a class selects and which     *)
(* task it picks is left open.                                             *)
(***************************************************************************)
EXTENDS Integers, Sequences, SequencesExt, FiniteSets, FiniteSetsExt

CONSTANTS
  Task, Cpu,
  BootCpu,      \* the CPU that is never unplugged
  Idle, Stop,   \* rq->idle and rq->stop of every CPU
  NoTask,
  SleepState,   \* states tasks sleep in: "S" interruptible, "D" not
  Mask,         \* masks passed to sched_setaffinity()
  MaxWorks,     \* bound on stopper works under way at a time
  MaxDrift      \* bound on nr_uninterruptible of one CPU

ASSUME MigrationAssumption ==
  /\ IsFiniteSet(Task) /\ IsFiniteSet(Cpu)
  /\ BootCpu \in Cpu
  /\ {Idle, Stop, NoTask} \cap Task = {} /\ Cardinality({Idle, Stop, NoTask}) = 3
  /\ SleepState \subseteq {"S", "D"}
  /\ Mask \subseteq (SUBSET Cpu) \ {{}}
  /\ MaxWorks \in Nat /\ MaxDrift \in Nat

VARIABLES
  task,       \* state, on_rq, on_cpu, cpu, cpus_allowed, contributes_to_load
  wake,       \* the try_to_wake_up() that holds a task's pi_lock: "none",
              \* "remote" (the task was on a run queue) or "wait" (it was not)
  curr,       \* rq->curr
  prev,       \* the task a CPU is switching from, holding rq->lock
  wake_list,  \* rq->wake_list
  ipi,        \* a reschedule interrupt is on its way
  works,      \* works queued for the stopper of a CPU, in order
  nr_uninterruptible,
  online, active,
  hotplug     \* what is being done to which CPU

vars == <<task, wake, curr, prev, wake_list, ipi, works, nr_uninterruptible,
          online, active, hotplug>>

cpu_vars == <<online, active, hotplug>>
stop_vars == <<works, online, active, hotplug>>
wake_vars == <<wake, wake_list, ipi>>

-----------------------------------------------------------------------------
NoHotplug == <<"none", BootCpu>>

\* The work of stop_machine().
Machine == [t |-> NoTask, dest |-> BootCpu, by |-> "machine"]

\* rq->lock and p->pi_lock can be had.
rq_free(c) == prev[c] = NoTask
pi_free(t) == wake[t] = "none"

contributes(e) == IF e.state = "D" THEN 1 ELSE 0

queued_on(c) == {t \in Task : task[t].on_rq /\ task[t].cpu = c}

\* select_fallback_rq(): an allowed CPU that is up, or else any CPU that is
\* up, and the task may run anywhere from then on.  (The cpuset the code
\* tries in between is one of those masks.)
select_fallback_rq(e, up) ==
  IF e.allowed \cap up # {} THEN {[e EXCEPT !.cpu = c] : c \in e.allowed \cap up}
  ELSE {[e EXCEPT !.cpu = c, !.allowed = Cpu] : c \in up}

\* Fault: the CPU the class wants may be offline.
select_ignoring_online(e, want) ==
  IF want \in e.allowed THEN {[e EXCEPT !.cpu = want]}
  ELSE select_fallback_rq(e, online \cap active)

\* select_task_rq() when the class wants the CPU want.
select_task_rq(e, want) ==
  IF want \in e.allowed /\ want \in online THEN {[e EXCEPT !.cpu = want]}
  ELSE select_fallback_rq(e, online \cap active)

\* ttwu_do_activate()
ttwu_do_activate(e) ==
  [e EXCEPT !.on_rq = TRUE, !.state = "R", !.contributes = 0]

-----------------------------------------------------------------------------
(* try_to_wake_up() *)

WakeUp(t) ==
  /\ pi_free(t)
  /\ task[t].state \in {"S", "D"}
  /\ wake' = [wake EXCEPT ![t] = IF task[t].on_rq THEN "remote" ELSE "wait"]
  /\ UNCHANGED <<task, curr, prev, wake_list, ipi, nr_uninterruptible, stop_vars>>

\* ttwu_remote(): the task never left the run queue, or it just did.
TtwuRemote(t) ==
  /\ wake[t] = "remote"
  /\ rq_free(task[t].cpu)
  /\ IF task[t].on_rq
       THEN /\ task' = [task EXCEPT ![t].state = "R"]
            /\ wake' = [wake EXCEPT ![t] = "none"]
       ELSE /\ wake' = [wake EXCEPT ![t] = "wait"]
            /\ UNCHANGED task
  /\ UNCHANGED <<curr, prev, wake_list, ipi, nr_uninterruptible, stop_vars>>

\* Fault: nobody waits for the CPU that still switches away from the task.
no_wait(e) == TRUE

\* while (p->on_cpu) cpu_relax()
off_cpu(e) == ~e.on_cpu

\* Fault: the interrupt is sent when the list was not empty.
ttwu_queue_remote_late(e, t) ==
  /\ wake_list' = [wake_list EXCEPT ![e.cpu] = @ \cup {t}]
  /\ ipi' = [ipi EXCEPT ![e.cpu] = @ \/ wake_list[e.cpu] # {}]

\* llist_add() says whether the list was empty, and then an interrupt is sent.
ttwu_queue_remote(e, t) ==
  /\ wake_list' = [wake_list EXCEPT ![e.cpu] = @ \cup {t}]
  /\ ipi' = [ipi EXCEPT ![e.cpu] = @ \/ wake_list[e.cpu] = {}]

\* The rest: TASK_WAKING, the choice of a CPU, and ttwu_queue(), through the
\* wake list of a CPU that shares no cache or else directly.
TtwuPlace(t) ==
  /\ wake[t] = "wait"
  /\ off_cpu(task[t])
  /\ wake' = [wake EXCEPT ![t] = "none"]
  /\ \E want \in Cpu :
       \E e \in select_task_rq([task[t] EXCEPT !.contributes = contributes(task[t]),
                                               !.state = "WAKING"], want) :
         \/ /\ task' = [task EXCEPT ![t] = e]
            /\ ttwu_queue_remote(e, t)
            /\ UNCHANGED nr_uninterruptible
         \/ /\ rq_free(e.cpu)
            /\ task' = [task EXCEPT ![t] = ttwu_do_activate(e)]
            /\ nr_uninterruptible' = [nr_uninterruptible EXCEPT ![e.cpu] = @ - e.contributes]
            /\ UNCHANGED <<wake_list, ipi>>
  /\ UNCHANGED <<curr, prev, stop_vars>>

\* sched_ttwu_pending() on CPU c: what it leaves of tasks and counters.
pending_activated(ts, c) ==
  [t \in Task |-> IF t \in wake_list[c] THEN ttwu_do_activate(ts[t]) ELSE ts[t]]
pending_count(c) == SumFunctionOnSet([t \in Task |-> task[t].contributes], wake_list[c])

\* scheduler_ipi()
SchedulerIpi(c) ==
  /\ c \in online
  /\ ipi[c]
  /\ rq_free(c)
  /\ ipi' = [ipi EXCEPT ![c] = FALSE]
  /\ wake_list' = [wake_list EXCEPT ![c] = {}]
  /\ task' = pending_activated(task, c)
  /\ nr_uninterruptible' = [nr_uninterruptible EXCEPT ![c] = @ - pending_count(c)]
  /\ UNCHANGED <<wake, curr, prev, stop_vars>>

-----------------------------------------------------------------------------
(* __schedule() on CPU c *)

\* The stopper has something to do.
stop_wanted(c) == works[c] # << >>

\* pick_next_task(): the stopper, a queued task, or the idle task.
pick_next_task(ts, c) ==
  IF stop_wanted(c) THEN {Stop}
  ELSE LET q == {t \in Task : ts[t].on_rq /\ ts[t].cpu = c}
       IN  IF q # {} THEN q ELSE {Idle}

\* prepare_task_switch() to context_switch(); the lock stays held.
switch_to(ts, c, next) ==
  /\ next # curr[c]
  /\ curr' = [curr EXCEPT ![c] = next]
  /\ prev' = [prev EXCEPT ![c] = curr[c]]
  /\ task' = [t \in Task |-> IF t = next THEN [ts[t] EXCEPT !.on_cpu = TRUE] ELSE ts[t]]

\* The running task goes to sleep, unless a signal is pending.
Sleep(c) ==
  /\ rq_free(c)
  /\ curr[c] \in Task
  /\ LET p == curr[c]
         e == task[p]
     IN  /\ e.state \in {"S", "D"}
         /\ \/ /\ e.state = "S"
               /\ task' = [task EXCEPT ![p].state = "R"]
               /\ UNCHANGED <<curr, prev, nr_uninterruptible>>
            \/ /\ nr_uninterruptible[c] + contributes(e) <= MaxDrift
               /\ LET ts == [task EXCEPT ![p].on_rq = FALSE]
                  IN  \E next \in pick_next_task(ts, c) : switch_to(ts, c, next)
               /\ nr_uninterruptible' = [nr_uninterruptible EXCEPT ![c] = @ + contributes(e)]
  /\ UNCHANGED <<wake_vars, stop_vars>>

\* Preemption of any task, and the idle loop.  The stopper runs until it has
\* nothing left to do.
Preempt(c) ==
  /\ c \in online
  /\ rq_free(c)
  /\ curr[c] = Stop => ~stop_wanted(c)
  /\ \E next \in pick_next_task(task, c) : switch_to(task, c, next)
  /\ UNCHANGED <<nr_uninterruptible, wake_vars, stop_vars>>

\* finish_task_switch(): finish_lock_switch() lets go of prev and the lock.
FinishTaskSwitch(c) ==
  /\ ~rq_free(c)
  /\ task' = [t \in Task |-> IF t = prev[c] THEN [task[t] EXCEPT !.on_cpu = FALSE]
                             ELSE task[t]]
  /\ prev' = [prev EXCEPT ![c] = NoTask]
  /\ UNCHANGED <<curr, nr_uninterruptible, wake_vars, stop_vars>>

\* set_current_state() of the running task.
SetCurrentState(c, s) ==
  /\ rq_free(c)
  /\ curr[c] \in Task
  /\ task[curr[c]].state # s
  /\ task' = [task EXCEPT ![curr[c]].state = s]
  /\ UNCHANGED <<curr, prev, nr_uninterruptible, wake_vars, stop_vars>>

-----------------------------------------------------------------------------
(* Affinity and migration *)

queue_work(c, w) ==
  /\ SumFunctionOnSet([d \in Cpu |-> Len(works[d])], Cpu) < MaxWorks
  /\ works' = [works EXCEPT ![c] = Append(@, w)]

\* Fault: put_online_cpus() before the stopper has done its work.
put_early(w) == TRUE

\* get_online_cpus(): sched_setaffinity() keeps hotplug away until the
\* stopper has done its work; sched_exec() does not.
put_online_cpus(w) == w.by = "exec"
get_online_cpus == hotplug = NoHotplug

\* set_cpus_allowed_ptr() as sched_setaffinity() calls it.
SetCpusAllowed(t, mask) ==
  /\ get_online_cpus
  /\ pi_free(t) /\ rq_free(task[t].cpu)
  /\ task[t].allowed # mask
  /\ mask \cap active # {}
  /\ task' = [task EXCEPT ![t].allowed = mask]
  /\ IF task[t].cpu \notin mask /\ task[t].on_rq
       THEN \E dest \in active \cap mask :
              queue_work(task[t].cpu, [t |-> t, dest |-> dest, by |-> "affinity"])
       ELSE UNCHANGED works
  /\ UNCHANGED <<curr, prev, nr_uninterruptible, wake_vars, cpu_vars>>

\* sched_exec(): the class of the running task proposes an online CPU.
SchedExec(c) ==
  /\ rq_free(c)
  /\ curr[c] \in Task /\ pi_free(curr[c]) /\ task[curr[c]].state = "R"
  /\ \E dest \in (online \cap active) \ {c} :
       queue_work(c, [t |-> curr[c], dest |-> dest, by |-> "exec"])
  /\ UNCHANGED <<task, curr, prev, nr_uninterruptible, wake_vars, cpu_vars>>

\* __migrate_task(): does the task move from CPU c to dest?
migrates(e, c, dest) == dest \in active /\ e.cpu = c /\ dest \in e.allowed /\ e.on_rq

\* The stopper runs migration_cpu_stop() for its first work.
MigrationCpuStop(c) ==
  /\ curr[c] = Stop /\ rq_free(c)
  /\ works[c] # << >>
  /\ LET w == Head(works[c])
     IN  /\ w # Machine /\ pi_free(w.t) /\ rq_free(w.dest)
         /\ task' = IF migrates(task[w.t], c, w.dest) THEN [task EXCEPT ![w.t].cpu = w.dest]
                    ELSE task
  /\ works' = [works EXCEPT ![c] = Tail(@)]
  /\ UNCHANGED <<curr, prev, nr_uninterruptible, wake_vars, cpu_vars>>

-----------------------------------------------------------------------------
(* CPU hotplug: the notifiers sched_cpu_inactive(), migration_call() and   *)
(* sched_cpu_active(), called in the order the hotplug code (external)     *)
(* calls them.                                                             *)

\* cpu_hotplug_begin() (external) waits for the readers.
cpu_hotplug_begin ==
  /\ hotplug = NoHotplug
  /\ \A d \in Cpu : \A w \in ToSet(works[d]) : put_online_cpus(w)

\* CPU_DOWN_PREPARE
DownPrepare(c) ==
  /\ cpu_hotplug_begin
  /\ c \in online \cap active /\ c # BootCpu
  /\ active' = active \ {c}
  /\ hotplug' = <<"down", c>>
  /\ UNCHANGED <<task, curr, prev, nr_uninterruptible, wake_vars, works, online>>

\* CPU_DOWN_FAILED
DownFailed(c) ==
  /\ hotplug = <<"down", c>>
  /\ active' = active \cup {c}
  /\ hotplug' = NoHotplug
  /\ UNCHANGED <<task, curr, prev, nr_uninterruptible, wake_vars, works, online>>

\* stop_machine() (external) gives every stopper a work, behind those it has.
StopMachine(c) ==
  /\ hotplug = <<"down", c>>
  /\ hotplug' = <<"dying", c>>
  /\ works' = [d \in Cpu |-> IF d \in online THEN Append(works[d], Machine) ELSE works[d]]
  /\ UNCHANGED <<task, curr, prev, nr_uninterruptible, wake_vars, online, active>>

\* The tasks migrate_tasks() has to move, after sched_ttwu_pending().
drained(ts, c) == pending_activated(ts, c)

\* migrate_nr_uninterruptible()
moved_count(nr, c, d) == [nr EXCEPT ![d] = @ + nr[c], ![c] = 0]

\* CPU_DYING, in stop_machine() with interrupts off everywhere: the wake list
\* is drained, every queued task is moved, with force if needed, and so is
\* nr_uninterruptible.  Works the stopper of c has not done are dropped when
\* the CPU is dead (external).
Dying(c) ==
  /\ hotplug = <<"dying", c>>
  /\ \A d \in online : /\ curr[d] = Stop /\ rq_free(d)
                       /\ works[d] # << >> /\ Head(works[d]) = Machine
  /\ \A t \in Task : pi_free(t)
  /\ online' = online \ {c}
  /\ LET ts == drained(task, c)
         dest(t) == IF ts[t].on_rq /\ ts[t].cpu = c
                      THEN select_fallback_rq(ts[t], (online \ {c}) \cap active) ELSE {ts[t]}
     IN  task' \in {f \in [Task -> UNION {dest(t) : t \in Task}] : \A t \in Task : f[t] \in dest(t)}
  /\ wake_list' = [wake_list EXCEPT ![c] = {}]
  /\ ipi' = [ipi EXCEPT ![c] = FALSE]
  /\ \E d \in active :
       nr_uninterruptible' =
         moved_count([nr_uninterruptible EXCEPT ![c] = @ - pending_count(c)], c, d)
  /\ curr' = [curr EXCEPT ![c] = Idle]
  /\ hotplug' = NoHotplug
  /\ works' = [d \in Cpu |-> IF d \in online \ {c} THEN Tail(works[d]) ELSE << >>]
  /\ UNCHANGED <<wake, prev, active>>

\* CPU_STARTING, on the new CPU, before the architecture marks it online.
Starting(c) ==
  /\ cpu_hotplug_begin
  /\ c \notin online
  /\ active' = active \cup {c}
  /\ hotplug' = <<"up", c>>
  /\ UNCHANGED <<task, curr, prev, nr_uninterruptible, wake_vars, works, online>>

Online(c) ==
  /\ hotplug = <<"up", c>>
  /\ online' = online \cup {c}
  /\ hotplug' = NoHotplug
  /\ UNCHANGED <<task, curr, prev, nr_uninterruptible, wake_vars, works, active>>

-----------------------------------------------------------------------------
\* All CPUs idle, all tasks ready on the boot CPU.
Init ==
  /\ task = [t \in Task |-> [state |-> "R", on_rq |-> TRUE, on_cpu |-> FALSE, cpu |-> BootCpu,
                             allowed |-> Cpu, contributes |-> 0]]
  /\ wake = [t \in Task |-> "none"]
  /\ curr = [c \in Cpu |-> Idle]
  /\ prev = [c \in Cpu |-> NoTask]
  /\ wake_list = [c \in Cpu |-> {}]
  /\ ipi = [c \in Cpu |-> FALSE]
  /\ works = [c \in Cpu |-> << >>]
  /\ nr_uninterruptible = [c \in Cpu |-> 0]
  /\ online = Cpu /\ active = Cpu
  /\ hotplug = NoHotplug

Next ==
  \/ \E t \in Task :
       \/ WakeUp(t) \/ TtwuRemote(t) \/ TtwuPlace(t)
       \/ \E mask \in Mask : SetCpusAllowed(t, mask)
  \/ \E c \in Cpu :
       \/ SchedulerIpi(c) \/ Sleep(c) \/ Preempt(c) \/ FinishTaskSwitch(c)
       \/ \E s \in SleepState \cup {"R"} : SetCurrentState(c, s)
       \/ SchedExec(c) \/ MigrationCpuStop(c)
       \/ DownPrepare(c) \/ DownFailed(c) \/ StopMachine(c) \/ Dying(c)
       \/ Starting(c) \/ Online(c)

Spec == Init /\ [][Next]_vars

-----------------------------------------------------------------------------
TaskStruct ==
  [state : {"R", "S", "D", "WAKING"}, on_rq : BOOLEAN, on_cpu : BOOLEAN,
   cpu : Cpu, allowed : (SUBSET Cpu) \ {{}}, contributes : {0, 1}]

Work == [t : Task \cup {NoTask}, dest : Cpu, by : {"affinity", "exec", "machine"}]

\* Types; no task is left without a CPU it may run on.
TypeOK ==
  /\ task \in [Task -> TaskStruct]
  /\ wake \in [Task -> {"none", "remote", "wait"}]
  /\ curr \in [Cpu -> Task \cup {Idle, Stop}]
  /\ prev \in [Cpu -> Task \cup {Idle, Stop, NoTask}]
  /\ wake_list \in [Cpu -> SUBSET Task]
  /\ ipi \in [Cpu -> BOOLEAN]
  /\ works \in [Cpu -> Seq(Work)]
  /\ nr_uninterruptible \in [Cpu -> Int]
  /\ online \subseteq Cpu /\ active \subseteq Cpu
  /\ hotplug \in {"none", "down", "dying", "up"} \X Cpu

\* No task is on two CPUs: not even while one CPU still switches away from it
\* and another has already been told to wake it.
OnOneCpu ==
  /\ \A t \in Task : Cardinality({c \in Cpu : t \in {curr[c], prev[c]}}) <= 1
  /\ \A t \in Task : task[t].on_cpu <=> \E c \in Cpu : t \in {curr[c], prev[c]}
  /\ \A c \in Cpu : curr[c] \in Task => task[curr[c]].cpu = c /\ task[curr[c]].on_rq

\* No wake-up is lost: a task is queued, asleep in a state a wake-up looks
\* for, or on the wake list of an online CPU that an interrupt is on its way
\* to.
NoLostWakeUp ==
  /\ \A t \in Task : CASE task[t].on_rq -> task[t].state # "WAKING"
                       [] task[t].state = "WAKING" -> t \in wake_list[task[t].cpu]
                       [] OTHER -> task[t].state \in {"S", "D"}
  /\ \A c \in Cpu : /\ wake_list[c] # {} => c \in online /\ ipi[c]
                    /\ \A t \in wake_list[c] : task[t].state = "WAKING" /\ task[t].cpu = c

\* The counters of all CPUs, which alone mean nothing because tasks sleep on
\* one CPU and wake up on another, add up to the tasks asleep in state D and
\* those just being woken from it, also after a CPU has gone.
UninterruptibleSum ==
  SumFunctionOnSet(nr_uninterruptible, Cpu) =
    Cardinality({t \in Task : ~task[t].on_rq /\ (task[t].state = "D" \/ task[t].contributes = 1)})

\* No task is on two CPUs, none is left without a CPU it may run on, and the
\* counters of uninterruptible sleepers add up, also after a CPU has gone.
EachOnOneCpu == TypeOK /\ OnOneCpu /\ UninterruptibleSum

\* An offline CPU runs and holds no task: the BUG_ON(nr_running != 1) of
\* migration_call() cannot fire, and no later wake-up chooses the CPU.
NothingOnDeadCpu ==
  \A c \in Cpu \ online : queued_on(c) = {} /\ curr[c] = Idle /\ wake_list[c] = {}

\* t is queued where it may not run, and no sched_setaffinity() waits for a
\* stopper to move it.
Astray(t) ==
  /\ task[t].on_rq /\ task[t].cpu \notin task[t].allowed
  /\ \A w \in ToSet(works[task[t].cpu]) :
       ~ (w.by = "affinity" /\ w.t = t /\ w.dest \in task[t].allowed)

\* Whatever affinity calls, exec, wake-ups and hotplug do to each other, the
\* only task that goes astray is one whose affinity changed while it was on a
\* wake list.
AstrayOnlyWhileWaking ==
  [][\A t \in Task : ~Astray(t) /\ Astray(t)' => task[t].state = "WAKING"]_vars
=============================================================================
