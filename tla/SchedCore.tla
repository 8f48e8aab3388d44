----------------------------- MODULE SchedCore ------------------------------
(***************************************************************************)
(* The scheduler core of kernel/sched/core.c on one CPU (the goldfish      *)
(* kernel is built without CONFIG_SMP and with CONFIG_PREEMPT), driving    *)
(* the RT, WRR and fair classes.                                           *)
(*                                                                         *)
(* Every operation below holds rq->lock with interrupts off, so it is one  *)
(* atomic step.  What interleaves is everything around them: the timer     *)
(* tick, wake-ups from interrupts, preemption whenever TIF_NEED_RESCHED is *)
(* set, and the system calls of whichever task runs.  The steps of a sleep *)
(* (set the state, then call schedule()) and of a fork (sched_fork(), then *)
(* wake_up_new_task()) are separate actions for that reason.               *)
(*                                                                         *)
(* The fair class, the idle class and the rt_mutex code are not part of    *)
(* this repository; they appear as the callers in core.c see them.         *)
(***************************************************************************)
EXTENDS WrrClass, RtQueue, FiniteSets, FiniteSetsExt

CONSTANTS
  Task,          \* the task_structs there can be at one time
  Idle,          \* the idle task, rq->idle
  BootTask,      \* init, the task that is running when the model starts
  Worker,        \* tasks that are workqueue workers (PF_WQ_WORKER)
  Policy,        \* scheduling policies in use
  SchedPriority, \* sched_param.sched_priority values passed by callers
  StaticPrio,    \* static priorities (nice levels) in use
  DEFAULT_PRIO,  \* the static priority of nice level 0
  BoostPrio,     \* priorities of the waiters for rt_mutexes a task holds
  RtGroup,       \* task groups with real-time bandwidth (rt_runtime # 0)
  SleepState,    \* states tasks sleep in: "S" interruptible, "D" not
  ResetOnFork,   \* values of SCHED_RESET_ON_FORK passed by callers
  MAX_PRIO       \* lower than the priority of every task

ASSUME CoreAssumption ==
  /\ IsFiniteSet(Task)
  /\ BootTask \in Task
  /\ Idle \notin Task
  /\ Policy \subseteq {"NORMAL", "FIFO", "RR", "WRR"}
  /\ SchedPriority \subseteq 0..(MAX_RT_PRIO - 1)
  /\ MAX_PRIO \in Nat
  /\ StaticPrio \subseteq MAX_RT_PRIO..(MAX_PRIO - 1)
  /\ DEFAULT_PRIO \in StaticPrio
  /\ Worker \subseteq Task
  /\ BoostPrio \subseteq 0..(MAX_PRIO - 1)
  /\ RtGroup \subseteq Group
  /\ SleepState \subseteq {"S", "D"}
  /\ ResetOnFork \subseteq BOOLEAN
  /\ Group # {}

VARIABLES
  task,          \* the task_struct of every task
  rq,            \* the run queue
  curr,          \* rq->curr
  need_resched   \* TIF_NEED_RESCHED of rq->curr

vars == <<task, rq, curr, need_resched>>

-----------------------------------------------------------------------------
(* Tasks and their priorities *)

rt_policy(policy) == policy \in {"FIFO", "RR"}

\* Priority without inheritance.
normal_prio(e) ==
  IF rt_policy(e.policy) THEN MAX_RT_PRIO - 1 - e.rt_priority ELSE e.static_prio

\* rt_mutex_getprio(): the better of the task's own priority and that of the
\* highest-priority waiter it blocks (MAX_PRIO: there is none).
rt_mutex_getprio(e) ==
  IF e.pi_prio < e.normal_prio THEN e.pi_prio ELSE e.normal_prio

effective_prio(e) == IF rt_prio(e.prio) THEN e.prio ELSE normal_prio(e)

class_of(prio, policy) ==
  IF rt_prio(prio) THEN "rt" ELSE IF policy = "WRR" THEN "wrr" ELSE "fair"

\* for_each_class(): RT before WRR before fair before idle.
class_rank(class) ==
  CASE class = "rt" -> 1 [] class = "wrr" -> 2 [] class = "fair" -> 3 [] OTHER -> 4

\* A task_struct that is not in use, and that of the boot task.
NoTask ==
  [phase |-> "none", parent |-> Idle, state |-> "R", on_rq |-> FALSE, policy |-> "NORMAL",
   class |-> "fair", rt_priority |-> 0, static_prio |-> DEFAULT_PRIO,
   normal_prio |-> DEFAULT_PRIO, prio |-> DEFAULT_PRIO, pi_prio |-> MAX_PRIO,
   reset_on_fork |-> FALSE, group |-> CHOOSE g \in Group : TRUE,
   weight |-> 0, custom_weight |-> FALSE, time_slice |-> RR_TIMESLICE,
   rt_time_slice |-> RR_TIMESLICE]

init_task == [NoTask EXCEPT !.phase = "live", !.on_rq = TRUE]

idle_task == [NoTask EXCEPT !.class = "idle", !.prio = MAX_PRIO]

\* rq->curr as a record, when the tasks are ts.
curr_of(ts) == IF curr = Idle THEN idle_task ELSE ts[curr]

-----------------------------------------------------------------------------
(* enqueue_task() and dequeue_task(): dispatch through p->sched_class *)

\* The task's side of enqueue_task().
queued(e) == IF e.class = "wrr" THEN enqueue_wrr_entity(e) ELSE e

enqueue_task(r, t, e, head) ==
  CASE e.class = "wrr" -> enqueue_task_wrr(r, t, e, head)
    [] e.class = "rt"  -> enqueue_task_rt(r, t, e, head)
    [] OTHER           -> [r EXCEPT !.cfs_nr_running = @ + 1, !.nr_running = @ + 1]

dequeue_task(r, t, e) ==
  CASE e.class = "wrr" -> dequeue_task_wrr(r, t, e)
    [] e.class = "rt"  -> dequeue_task_rt(r, t, e)
    [] OTHER           -> [r EXCEPT !.cfs_nr_running = @ - 1, !.nr_running = @ - 1]

contributes_to_load(e) == IF e.state = "D" THEN 1 ELSE 0

\* Fault: a woken task stays counted as uninterruptible.
activate_uncounted(r, t, e) == enqueue_task(r, t, e, FALSE)

activate_task(r, t, e) ==
  enqueue_task([r EXCEPT !.nr_uninterruptible = @ - contributes_to_load(e)],
               t, e, FALSE)

deactivate_task(r, t, e) ==
  dequeue_task([r EXCEPT !.nr_uninterruptible = @ + contributes_to_load(e)], t, e)

\* The pattern of every operation that changes a task in place: dequeue it as
\* it was, change it to e, enqueue it as it then is.
changed(t, e) == IF task[t].on_rq THEN queued(e) ELSE e

\* Fault: the task is changed before it is dequeued.
change_then_dequeue(t, e, head) ==
  /\ task' = [task EXCEPT ![t] = changed(t, e)]
  /\ rq' = IF task[t].on_rq
             THEN enqueue_task(dequeue_task(rq, t, e), t, changed(t, e), head)
             ELSE rq

change_task(t, e, head) ==
  /\ task' = [task EXCEPT ![t] = changed(t, e)]
  /\ rq' = IF task[t].on_rq
             THEN enqueue_task(dequeue_task(rq, t, task[t]), t, changed(t, e), head)
             ELSE rq

-----------------------------------------------------------------------------
(* Preemption.  fair is the fair class's own decision where it has one.    *)

\* Fault: only tasks of the running task's own class preempt it.
check_preempt_same_class(e, c, fair) ==
  e.class = c.class /\ IF e.class = "rt" THEN check_preempt_curr_rt(e, c.prio) ELSE fair

\* check_preempt_curr(rq, p): must the running task c make way for e?
check_preempt_curr(e, c, fair) ==
  IF e.class = c.class
    THEN CASE e.class = "rt"   -> check_preempt_curr_rt(e, c.prio)
           [] e.class = "fair" -> fair
           [] OTHER            -> FALSE
    ELSE class_rank(e.class) < class_rank(c.class)

\* check_class_changed(): switched_to_wrr() and prio_changed_wrr() do nothing.
check_class_changed(old, e, running, c, fair) ==
  IF old.class # e.class
    THEN CASE e.class = "rt"   -> switched_to_rt(e, running, c.prio)
           [] e.class = "fair" -> /\ e.on_rq
                                  /\ running \/ check_preempt_curr(e, c, fair)
           [] OTHER            -> FALSE
    ELSE /\ old.prio # e.prio
         /\ CASE e.class = "rt"   -> prio_changed_rt(old, e, running, c.prio)
              [] e.class = "fair" -> /\ e.on_rq
                                     /\ IF running THEN old.prio < e.prio
                                        ELSE check_preempt_curr(e, c, fair)
              [] OTHER            -> FALSE

\* resched_task(rq->curr) when cond holds.
resched_if(cond) == need_resched' = (need_resched \/ cond)

-----------------------------------------------------------------------------
(* __schedule() *)

\* The queued tasks, and those of one class.
on_rq(ts) == {t \in Task : ts[t].on_rq}
in_class(ts, on, class) == {t \in on : ts[t].class = class}

\* Which of its tasks the fair class picks is its own choice.
fair_tasks(ts) == in_class(ts, on_rq(ts), "fair")

\* The tasks pick_next_task() may return.
pick_next_task(ts, r, throttled) ==
  IF r.nr_running = r.cfs_nr_running /\ r.cfs_nr_running # 0 THEN fair_tasks(ts)
  ELSE IF pick_next_task_rt(r) # {} THEN pick_next_task_rt(r)
  ELSE IF pick_next_task_wrr(r, throttled) # {} THEN pick_next_task_wrr(r, throttled)
  ELSE IF r.cfs_nr_running # 0 THEN fair_tasks(ts)
  ELSE {Idle}

\* put_prev_task(), pick_next_task(), the switch, and finish_task_switch(),
\* which drops a task that has exited.
switch_to_next(ts, r) ==
  \E throttled \in wrr_throttled :
    \E next \in pick_next_task(ts, r, throttled) :
      /\ curr' = next
      /\ task' = [t \in Task |-> IF t = curr /\ ts[t].state = "X" THEN NoTask
                                 ELSE ts[t]]
      /\ rq' = r
      /\ need_resched' = FALSE

\* Fault: on_rq is not set.
activated_unmarked(e) == IF e.on_rq THEN e ELSE queued(e)

\* A woken task, and the run queue it is woken on: a task still queued only
\* gets its state back (ttwu_remote()), any other is activated.
activated(e) == IF e.on_rq THEN e ELSE [queued(e) EXCEPT !.on_rq = TRUE]

ttwu_do_wakeup(e) == [activated(e) EXCEPT !.state = "R"]

ttwu_activate(r, t, e) == IF e.on_rq THEN r ELSE activate_task(r, t, activated(e))

sleeping(e) == e.phase = "live" /\ e.state \in {"S", "D"}

\* schedule(), called by the running task.  A pending signal keeps an
\* interruptible sleeper running.  A worker that goes to sleep may have
\* wq_worker_sleeping() name another one for try_to_wake_up_local().
Schedule ==
  /\ curr # Idle
  /\ LET e == task[curr]
     IN  \/ /\ e.state = "R"
            /\ switch_to_next(task, rq)
         \/ /\ e.state = "S"            \* signal_pending_state()
            /\ switch_to_next([task EXCEPT ![curr].state = "R"], rq)
         \/ /\ e.state # "R"
            /\ LET ts == [task EXCEPT ![curr].on_rq = FALSE]
                   r == deactivate_task(rq, curr, e)
               IN  \/ switch_to_next(ts, r)
                   \/ /\ curr \in Worker
                      /\ \E w \in Worker \ {curr} :
                           /\ sleeping(ts[w])
                           /\ switch_to_next([ts EXCEPT ![w] = ttwu_do_wakeup(ts[w])],
                                             ttwu_activate(r, w, ts[w]))

\* preempt_schedule_irq() and the idle loop: PREEMPT_ACTIVE keeps prev queued
\* whatever its state.  An exiting task has preemption disabled.
Preempt ==
  /\ need_resched
  /\ curr # Idle => task[curr].state # "X"
  /\ switch_to_next(task, rq)

\* A task runs its own code or a system call: whoever calls the operations
\* below that are not interrupts.
running_task == curr # Idle /\ task[curr].state = "R"

\* sys_sched_yield(): interrupts stay off up to schedule().
Yield ==
  /\ running_task
  /\ switch_to_next(task,
       CASE task[curr].class = "wrr" -> yield_task_wrr(rq, curr)
         [] task[curr].class = "rt"  -> requeue_task_rt(rq, curr, task[curr])
         [] OTHER                    -> rq)

\* set_current_state() before a sleep, and back when the awaited condition
\* turned out to hold.
SetCurrentState(s) ==
  /\ curr # Idle
  /\ task[curr].state \notin {s, "X"}
  /\ task' = [task EXCEPT ![curr].state = s]
  /\ UNCHANGED <<rq, curr, need_resched>>

\* do_exit(): the task holds no mutex any more and is not inside fork().
\* init never exits.
Exit ==
  /\ running_task
  /\ curr # BootTask
  /\ task[curr].pi_prio = MAX_PRIO
  /\ \A t \in Task : task[t].parent # curr
  /\ task' = [task EXCEPT ![curr].state = "X"]
  /\ UNCHANGED <<rq, curr, need_resched>>

\* scheduler_tick(): task_tick() of the running task's class.
TickWrr ==
  /\ curr_of(task).class = "wrr"
  /\ \E throttled \in wrr_throttled :
       LET e == task[curr]
       IN  /\ task' = [task EXCEPT ![curr].time_slice = tick_slice_wrr(e)]
           /\ rq' = IF tick_retires_wrr(rq, e, throttled)
                      THEN yield_task_wrr(rq, curr) ELSE rq
           /\ resched_if(tick_retires_wrr(rq, e, throttled))
  /\ UNCHANGED curr

TickRt ==
  /\ curr_of(task).class = "rt"
  /\ LET e == task[curr]
     IN  /\ task' = [task EXCEPT ![curr].rt_time_slice = tick_slice_rt(e)]
         /\ rq' = IF tick_retires_rt(rq, e) THEN requeue_task_rt(rq, curr, e) ELSE rq
         /\ resched_if(tick_retires_rt(rq, e))
  /\ UNCHANGED curr

\* The fair class may end the running task's turn when it has another task.
TickFair ==
  /\ curr_of(task).class = "fair"
  /\ \E fair \in BOOLEAN : resched_if(fair /\ rq.cfs_nr_running > 1)
  /\ UNCHANGED <<task, rq, curr>>

-----------------------------------------------------------------------------
(* Wake-ups and forks *)

\* try_to_wake_up(), from any context, interrupts included.
TryToWakeUp(t) ==
  /\ sleeping(task[t])
  /\ rq' = ttwu_activate(rq, t, task[t])
  /\ \E fair \in BOOLEAN :
       resched_if(check_preempt_curr(activated(task[t]), curr_of(task), fair))
  /\ task' = [task EXCEPT ![t] = ttwu_do_wakeup(task[t])]
  /\ UNCHANGED curr

\* SCHED_RESET_ON_FORK in sched_fork().
reset_on_fork(e) ==
  LET p == IF rt_policy(e.policy)
             THEN [e EXCEPT !.policy = "NORMAL", !.rt_priority = 0,
                            !.static_prio = DEFAULT_PRIO]
             ELSE IF e.static_prio < DEFAULT_PRIO
             THEN [e EXCEPT !.static_prio = DEFAULT_PRIO] ELSE e
  IN  [p EXCEPT !.prio = p.static_prio, !.normal_prio = p.static_prio,
                !.reset_on_fork = FALSE]

\* Fault: the child keeps the class its parent runs in.
child_keeps_class(e) ==
  LET c == [e EXCEPT !.phase = "forked", !.parent = curr, !.on_rq = FALSE,
                     !.state = "R", !.pi_prio = MAX_PRIO, !.prio = e.normal_prio]
  IN  IF c.reset_on_fork THEN reset_on_fork(c) ELSE c

\* sched_fork(): t starts as a copy of the running task, without its
\* inherited priority.
child_of(e) ==
  LET c == [e EXCEPT !.phase = "forked", !.parent = curr, !.on_rq = FALSE,
                     !.state = "R", !.pi_prio = MAX_PRIO, !.prio = e.normal_prio]
      p == IF c.reset_on_fork THEN reset_on_fork(c) ELSE c
  IN  IF rt_prio(p.prio) THEN p ELSE [p EXCEPT !.class = class_of(p.prio, p.policy)]

SchedFork(t) ==
  /\ running_task
  /\ \A u \in Task : task[u].parent # curr
  /\ task[t].phase = "none"
  /\ task' = [task EXCEPT ![t] = child_of(task[curr])]
  /\ UNCHANGED <<rq, curr, need_resched>>

\* wrr_set_weight()
wrr_set_weight(e) ==
  LET u == update_weight(e)
  IN  IF u.policy = "WRR" THEN [u EXCEPT !.time_slice = get_rr_interval_wrr(u)] ELSE u

\* wake_up_new_task(), called by the parent.
WakeUpNewTask(t) ==
  /\ running_task
  /\ task[t].phase = "forked"
  /\ task[t].parent = curr
  /\ LET e == [queued(wrr_set_weight(task[t])) EXCEPT !.on_rq = TRUE,
                                            !.phase = "live", !.parent = Idle]
     IN  /\ task' = [task EXCEPT ![t] = e]
         /\ rq' = activate_task(rq, t, e)
         /\ \E fair \in BOOLEAN : resched_if(check_preempt_curr(e, curr_of(task), fair))
  /\ UNCHANGED curr

-----------------------------------------------------------------------------
(* Changing the policy, the priority or the group of a task *)

\* Fault: the class is left alone.
setscheduler_keeps_class(e, policy, prio) ==
  LET p == [e EXCEPT !.policy = policy, !.rt_priority = IF policy = "WRR" THEN 0 ELSE prio]
      n == [p EXCEPT !.normal_prio = normal_prio(p)]
  IN  [n EXCEPT !.prio = rt_mutex_getprio(n)]

\* __setscheduler(): for SCHED_WRR the priority parameter is the weight.
setscheduler(e, policy, prio) ==
  LET p == IF policy # "WRR"
             THEN [e EXCEPT !.policy = policy, !.rt_priority = prio]
             ELSE [e EXCEPT !.policy = policy, !.rt_priority = 0,
                            !.weight = IF prio # 0 THEN prio ELSE 1,
                            !.custom_weight = (prio # 0)]
      n == [p EXCEPT !.normal_prio = normal_prio(p)]
      b == [n EXCEPT !.prio = rt_mutex_getprio(n)]
  IN  [b EXCEPT !.class = class_of(b.prio, b.policy)]

\* The parameter check: a priority goes with an RT policy and only with one,
\* except that SCHED_WRR also takes a weight.
valid_param(policy, prio) ==
  rt_policy(policy) = (prio # 0) \/ (policy = "WRR" /\ prio > 0)

\* __sched_setscheduler() past its early returns.
SchedSetscheduler(t, policy, prio, reset) ==
  /\ running_task
  /\ task[t].phase # "none"
  /\ valid_param(policy, prio)
  /\ ~ (/\ policy = task[t].policy
        /\ ~rt_policy(policy) \/ prio = task[t].rt_priority)
  /\ rt_policy(policy) => task[t].group \in RtGroup
  /\ LET e == setscheduler([task[t] EXCEPT !.reset_on_fork = reset], policy, prio)
     IN  /\ change_task(t, e, FALSE)
         /\ \E fair \in BOOLEAN :
              resched_if(check_class_changed(task[t], e, t = curr,
                                             curr_of([task EXCEPT ![t] = e]), fair))
  /\ UNCHANGED curr

\* rt_mutex_setprio(), as the rt_mutex code calls it when the top waiter of
\* the mutexes t holds changes (MAX_PRIO: none is left).  A priority that
\* drops puts the task at the head of its queue.
RtMutexSetprio(t, waiter) ==
  /\ running_task
  /\ task[t].phase = "live"
  /\ task[t].pi_prio # waiter
  /\ LET b == [task[t] EXCEPT !.pi_prio = waiter]
         n == [b EXCEPT !.prio = rt_mutex_getprio(b)]
         e == [n EXCEPT !.class = class_of(n.prio, n.policy)]
     IN  IF rt_mutex_getprio(b) = task[t].prio
           THEN task' = [task EXCEPT ![t] = b] /\ UNCHANGED <<rq, need_resched>>
           ELSE /\ change_task(t, e, task[t].prio < e.prio)
                /\ \E fair \in BOOLEAN :
                     resched_if(check_class_changed(task[t], e, t = curr,
                                  curr_of([task EXCEPT ![t] = e]), fair))
  /\ UNCHANGED curr

\* set_user_nice()
SetUserNice(t, nice) ==
  /\ running_task
  /\ task[t].phase # "none"
  /\ task[t].static_prio # nice
  /\ LET s == [task[t] EXCEPT !.static_prio = nice]
         e == [s EXCEPT !.normal_prio = normal_prio(s), !.prio = effective_prio(s)]
     IN  IF rt_policy(task[t].policy)
           THEN task' = [task EXCEPT ![t] = s] /\ UNCHANGED <<rq, need_resched>>
           ELSE /\ change_task(t, e, FALSE)
                /\ resched_if(/\ task[t].on_rq
                              /\ \/ e.prio < task[t].prio
                                 \/ e.prio > task[t].prio /\ t = curr)
  /\ UNCHANGED curr

\* cpu_cgroup_can_attach() and sched_move_task()
SchedMoveTask(t, g) ==
  /\ running_task
  /\ task[t].phase # "none"
  /\ task[t].group # g
  /\ rt_prio(task[t].prio) => g \in RtGroup
  /\ change_task(t, [task[t] EXCEPT !.group = g], FALSE)
  /\ UNCHANGED <<curr, need_resched>>

-----------------------------------------------------------------------------
(* sched_init() *)
Init ==
  /\ task = [t \in Task |-> IF t = BootTask THEN init_task ELSE NoTask]
  /\ rq = [active |-> << >>, wrr_nr_running |-> 0, total_weight |-> 0,
           rt_queue |-> [b \in RtPrio |-> << >>], rt_bitmap |-> {},
           rt_nr_running |-> 0, cfs_nr_running |-> 1, nr_running |-> 1,
           nr_uninterruptible |-> 0]
  /\ curr = BootTask
  /\ need_resched = FALSE

Tick == TickWrr \/ TickRt \/ TickFair

Next ==
  \/ Schedule \/ Preempt \/ Yield \/ Tick
  \/ \E s \in SleepState \cup {"R"} : SetCurrentState(s)
  \/ Exit
  \/ \E t \in Task :
       \/ TryToWakeUp(t) \/ SchedFork(t) \/ WakeUpNewTask(t)
       \/ \E policy \in Policy, prio \in SchedPriority, reset \in ResetOnFork :
            SchedSetscheduler(t, policy, prio, reset)
       \/ \E waiter \in BoostPrio \cup {MAX_PRIO} : RtMutexSetprio(t, waiter)
       \/ \E nice \in StaticPrio : SetUserNice(t, nice)
       \/ \E g \in Group : SchedMoveTask(t, g)

Spec == Init /\ [][Next]_vars

-----------------------------------------------------------------------------
(* Types *)

TaskStruct ==
  [phase : {"none", "forked", "live"}, parent : Task \cup {Idle},
   state : {"R", "S", "D", "X"}, on_rq : BOOLEAN,
   policy : {"NORMAL", "FIFO", "RR", "WRR"}, class : {"rt", "wrr", "fair"},
   rt_priority : 0..(MAX_RT_PRIO - 1), static_prio : StaticPrio,
   normal_prio : 0..(MAX_PRIO - 1), prio : 0..(MAX_PRIO - 1),
   pi_prio : 0..MAX_PRIO, reset_on_fork : BOOLEAN, group : Group,
   weight : Nat, custom_weight : BOOLEAN, time_slice : Nat,
   rt_time_slice : 1..RR_TIMESLICE]

RunQueue ==
  [active : Seq(Task), wrr_nr_running : Int, total_weight : Int,
   rt_queue : [RtPrio -> Seq(Task)], rt_bitmap : SUBSET RtPrio,
   rt_nr_running : Int, cfs_nr_running : Int, nr_running : Int,
   nr_uninterruptible : Int]

\* Type correctness.  A slice or weight below zero, a priority outside the
\* array or a bit outside the bitmap would show here; that the counters of
\* the run queue are right is CountersConsistent and WrrQueueConsistent.
TypeOK ==
  /\ task \in [Task -> TaskStruct]
  /\ rq \in RunQueue
  /\ curr \in Task \cup {Idle}
  /\ need_resched \in BOOLEAN

-----------------------------------------------------------------------------
(* Safety *)

\* The queues r hold the tasks on, whose task_structs are ts.
WrrQueueOK(r, ts, on) ==
  /\ Linked(r.active)
  /\ Entries(r.active) = in_class(ts, on, "wrr")
  /\ r.wrr_nr_running = Len(r.active)

RtQueueOK(r, ts, on) ==
  /\ \A b \in RtPrio :
       /\ Linked(r.rt_queue[b])
       /\ Entries(r.rt_queue[b]) = {t \in in_class(ts, on, "rt") : ts[t].prio = b}
  /\ r.rt_bitmap = {b \in RtPrio : r.rt_queue[b] # << >>}
  /\ r.rt_nr_running = Cardinality(in_class(ts, on, "rt"))

CountersOK(r, ts, on) ==
  /\ r.cfs_nr_running = Cardinality(in_class(ts, on, "fair"))
  /\ r.nr_running = r.rt_nr_running + r.wrr_nr_running + r.cfs_nr_running

\* The WRR run list holds exactly the queued tasks of the class, each once,
\* and wrr_nr_running counts them: pick_next_wrr_entity() takes the first
\* entry without looking, so a count out of step with the list would make it
\* run the list head as if it were a task.
WrrQueueConsistent == WrrQueueOK(rq, task, on_rq(task))

\* The RT priority array holds exactly the queued tasks of the class, each on
\* the list of its priority, and the bitmap marks the non-empty lists: however
\* often priorities are inherited and dropped, pick_next_rt_entity() finds the
\* highest one.
RtQueueConsistent == RtQueueOK(rq, task, on_rq(task))

\* nr_running counts the tasks of all three classes: pick_next_task() skips
\* every class but the fair one when it equals cfs_nr_running.
CountersConsistent == CountersOK(rq, task, on_rq(task))

\* nr_uninterruptible is the number of tasks asleep in state D, whatever was
\* preempted, woken or signalled between setting the state and sleeping.
LoadConsistent ==
  rq.nr_uninterruptible =
    Cardinality({t \in Task : task[t].state = "D" /\ ~task[t].on_rq})

\* total_weight is the sum of the weights of the queued tasks, although
\* weights change on group moves and on sched_setscheduler().
TotalWeightConsistent ==
  rq.total_weight =
    SumFunctionOnSet([t \in Task |-> task[t].weight], in_class(task, on_rq(task), "wrr"))

SliceOK(e) ==
  e.class = "wrr" => e.time_slice \in 1..(e.weight * WRR_WEIGHT_UNIT)

\* A queued WRR task has between one tick and a full turn left: the
\* BUG_ON(time_slice <= 0) of task_tick_wrr() cannot fire, and nobody holds
\* more than the turn of its present weight.
SliceWithinTurn == \A t \in Task : task[t].on_rq => SliceOK(task[t])

WeightOK(e) ==
  e.class = "wrr" /\ ~e.custom_weight => e.weight = group_weight(e.group)

\* A queued WRR task without a weight of its own has that of the group it is
\* in now, wherever it has been moved while queued, running or asleep.
WeightFollowsGroup == \A t \in Task : task[t].on_rq => WeightOK(task[t])

ClassOK(e) ==
  /\ e.class = class_of(e.prio, e.policy)
  /\ e.normal_prio = normal_prio(e)
  /\ rt_prio(e.prio) \/ rt_prio(rt_mutex_getprio(e)) => e.prio = rt_mutex_getprio(e)
  /\ e.phase = "forked" /\ e.policy = "WRR" => e.class = "wrr"

\* The five places that choose p->sched_class agree: it is the class of the
\* task's priority and policy, and the cached normal_prio and prio are those
\* of its parameters and of the RT waiters it blocks.  The warning "sched
\* class do not match" of wake_up_new_task() never shows.
ClassMatches == \A t \in Task : ClassOK(task[t])

Accounted(e) ==
  /\ e.phase = "live" => (e.on_rq \/ sleeping(e))
  /\ e.on_rq => e.phase = "live"

\* No task is lost: a runnable task is queued, a task that is not queued
\* sleeps in a state a wake-up looks for, and the running task is queued.
NoTaskLost ==
  /\ \A t \in Task : Accounted(task[t])
  /\ curr # Idle => task[curr].on_rq

\* However tasks move between groups and get weights of their own, a queued task
\* has the weight it should have, and total_weight is the sum of the weights
\* the tasks were queued with.
WeightsConsistent == TotalWeightConsistent /\ WeightFollowsGroup /\ SliceWithinTurn

\* Whatever preempts, signals or wakes a task between setting its state and
\* sleeping, workers included, it is not lost and is counted in the load.
SleepersKept == NoTaskLost /\ LoadConsistent

PrivateOK(e) ==
  /\ e.custom_weight => e.weight > 0
  /\ e.phase # "live" => e.pi_prio = MAX_PRIO

\* The inductive invariant.  Each part needs the others: a queue stays right
\* because a task is dequeued from the class and priority it was queued with,
\* and the class stays right because the running task is a queued one.
\* Besides the properties above, a weight of its own is never zero, and a task
\* still being forked blocks nobody.
IndInv ==
  /\ TypeOK
  /\ WrrQueueConsistent
  /\ RtQueueConsistent
  /\ CountersConsistent
  /\ SliceWithinTurn
  /\ WeightFollowsGroup
  /\ ClassMatches
  /\ NoTaskLost
  /\ \A t \in Task : PrivateOK(task[t])

-----------------------------------------------------------------------------
(* What a step may never do *)

before(q, a, b) == \E i, j \in 1..Len(q) : i < j /\ q[i] = a /\ q[j] = b

\* Round robin: of two WRR tasks that stay queued, the later one overtakes the
\* earlier one only when the earlier one is sent to the back of the queue, or
\* when the later one drops an inherited priority, which requeues it first.
NoOvertaking ==
  \A a, b \in Task :
    before(rq.active, a, b) /\ before(rq'.active, b, a)
      => \/ rq'.active[Len(rq'.active)] = a
         \/ rq'.active[1] = b /\ task[b].prio < task'[b].prio

\* A task that stays queued gets a fresh slice only as the last of the queue,
\* or when it drops an inherited priority: nobody is served twice in a row
\* while others wait.
FreshSliceAtTheBack ==
  \A t \in Entries(rq.active) \cap Entries(rq'.active) :
    task[t].time_slice < task'[t].time_slice
      => \/ rq'.active[Len(rq'.active)] = t
         \/ task[t].prio < task'[t].prio

\* Round robin, step by step: nobody overtakes a queued task, and a task with a
\* fresh slice queues at the back.
TurnsGoRound == [][NoOvertaking /\ FreshSliceAtTheBack]_vars

\* The running task is of a lower class than a queued RT task, and nobody has
\* asked it to reschedule.
RtKeptWaiting == ~need_resched /\ rq.rt_nr_running # 0 /\ curr_of(task).class # "rt"

\* The classes are served in the order RT - WRR - CFS: no task of another class
\* runs on while an RT task is queued.
RtRunsFirst == ~RtKeptWaiting

\* A queued RT task is kept waiting only after the running task itself was
\* moved to another class: wake-ups, forks, priority changes of others and
\* the switch itself always reschedule for it.
RtWaitsOnlyForDemotion ==
  [][~RtKeptWaiting /\ RtKeptWaiting'
       => curr' = curr /\ curr # Idle /\ task[curr].class # task'[curr].class]_vars

=============================================================================
