---------------------------- MODULE RtBandwidth -----------------------------
(***************************************************************************)
(* The hierarchy of RT run queues of kernel/sched/rt.c with its bandwidth  *)
(* control, on one CPU and with CONFIG_RT_GROUP_SCHED.  Every task group   *)
(* has an rt_rq; every group but the root is also an entity queued on the  *)
(* rt_rq of its parent while it has something to run and is not throttled. *)
(* A group that has used up its rt_runtime is throttled until its period   *)
(* timer has paid the time off.                                            *)
(*                                                                         *)
(* Time is counted in accounting units; all groups have the same period,   *)
(* so their timers, which hrtimer_forward() keeps in phase, expire at the  *)
(* same moments.  The order of entities within one priority is left out    *)
(* (module RtQueue has it): any of them may be picked.                     *)
(***************************************************************************)
EXTENDS Integers, FiniteSets, SequencesExt, GroupTree

CONSTANTS
  Task,           \* the tasks
  Other,          \* stands for every task that is not in Task; never RT
  MAX_RT_PRIO,    \* RT priorities are 0..MAX_RT_PRIO-1; this one: not RT
  Period,         \* rt_period of every group
  GlobalRuntime,  \* sysctl_sched_rt_runtime, also the root group's at boot
  Runtime,        \* values written to rt_runtime
  RUNTIME_INF,    \* no limit
  BoostPrio,      \* priorities tasks can inherit
  MaxOverrun,     \* bound: periods a timer interrupt may be late
  MaxRtTime       \* bound: rt_time up to which RT tasks are followed

ASSUME BandwidthAssumption ==
  /\ IsFiniteSet(Task)
  /\ Task \cap Group = {}
  /\ Other \notin Task
  /\ MAX_RT_PRIO \in Nat \ {0}
  /\ Period \in Nat \ {0}
  /\ GlobalRuntime \in 0..Period
  /\ RUNTIME_INF \in Nat /\ RUNTIME_INF > Period
  /\ Runtime \subseteq (0..Period) \cup {RUNTIME_INF}
  /\ BoostPrio \subseteq 0..(MAX_RT_PRIO - 1)
  /\ MaxOverrun \in Nat \ {0}
  /\ MaxRtTime \in Nat

VARIABLES
  task,          \* group, priorities and on_rq of every task
  linked,        \* the priority list an entity is linked into, or Unlinked
  rt_rq,         \* the rt_rq of every group, with its rt_bandwidth
  curr,          \* rq->curr
  need_resched,  \* TIF_NEED_RESCHED of rq->curr
  delta,         \* time curr has run that update_curr_rt() has not seen
  now            \* position in the period

vars == <<task, linked, rt_rq, curr, need_resched, delta, now>>

\* The scheduler's state while the steps of one operation change it.
State == [task |-> task, linked |-> linked, rq |-> rt_rq,
          resched |-> need_resched, delta |-> delta]

Commit(S) ==
  /\ task' = S.task
  /\ linked' = S.linked
  /\ rt_rq' = S.rq
  /\ need_resched' = S.resched
  /\ delta' = S.delta

-----------------------------------------------------------------------------
(* Entities *)

Entity == Task \cup (Group \ {Root})

Unlinked == MAX_RT_PRIO  \* no list has this priority

\* p->prio: the task's own priority or the one it inherits.
prio_of(e) == IF e.pi_prio < e.normal_prio THEN e.pi_prio ELSE e.normal_prio

is_rt(e) == prio_of(e) < MAX_RT_PRIO

\* The group entities from g up to, not including, the root: rt_se->parent.
ancestors[g \in Group] == IF g = Root THEN << >> ELSE <<g>> \o ancestors[Parent[g]]

\* g and every group it is in.
groups_of(g) == Range(ancestors[g]) \cup {Root}

rt_rq_of_se(S, e) == IF e \in Task THEN S.task[e].group ELSE Parent[e]

\* for_each_sched_rt_entity()
for_each_rt_entity(S, e) == <<e>> \o ancestors[rt_rq_of_se(S, e)]

rt_se_prio(S, e) == IF e \in Task THEN prio_of(S.task[e]) ELSE S.rq[e].highest_prio

rt_se_boosted(S, e) ==
  IF e \in Task THEN prio_of(S.task[e]) # S.task[e].normal_prio
                ELSE S.rq[e].rt_nr_boosted # 0

on_rt_rq(S, e) == S.linked[e] # Unlinked

rt_rq_throttled(r) == r.rt_throttled /\ r.rt_nr_boosted = 0

first_bit(bits) == CHOOSE b \in bits : \A c \in bits : b <= c

-----------------------------------------------------------------------------
(* Queueing *)

start_rt_bandwidth(r) ==
  IF r.rt_runtime = RUNTIME_INF \/ r.active THEN r
  ELSE [r EXCEPT !.active = TRUE, !.overrun = 0]

\* __enqueue_rt_entity() with inc_rt_tasks(): a group that is throttled or
\* empty is not queued.
enqueue_one(S, e) ==
  LET g    == rt_rq_of_se(S, e)
      prio == rt_se_prio(S, e)
      r    == [S.rq[g] EXCEPT
                 !.bitmap = @ \cup {prio},
                 !.rt_nr_running = @ + 1,
                 !.highest_prio = IF prio < @ THEN prio ELSE @,
                 !.rt_nr_boosted = IF rt_se_boosted(S, e) THEN @ + 1 ELSE @]
  IN  IF e \in Group /\ (rt_rq_throttled(S.rq[e]) \/ S.rq[e].rt_nr_running = 0)
        THEN S
        ELSE [S EXCEPT !.linked[e] = prio, !.rq[g] = start_rt_bandwidth(r)]

\* __dequeue_rt_entity() with dec_rt_tasks().
dequeue_one(S, e) ==
  LET g    == rt_rq_of_se(S, e)
      prio == rt_se_prio(S, e)
      bits == IF \E x \in Entity \ {e} : S.linked[x] = prio /\ rt_rq_of_se(S, x) = g
                THEN S.rq[g].bitmap ELSE S.rq[g].bitmap \ {prio}
      n    == S.rq[g].rt_nr_running - 1
      r    == [S.rq[g] EXCEPT
                 !.bitmap = bits,
                 !.rt_nr_running = n,
                 !.highest_prio = IF n = 0 THEN MAX_RT_PRIO
                                  ELSE IF prio = @ THEN first_bit(bits) ELSE @,
                 !.rt_nr_boosted = IF rt_se_boosted(S, e) THEN @ - 1 ELSE @]
  IN  [S EXCEPT !.linked[e] = Unlinked, !.rq[g] = r]

\* "Because the prio of an upper entry depends on the lower entries, we must
\* remove entries top - down."
dequeue_rt_stack(S, e) ==
  FoldRight(LAMBDA x, T : IF on_rt_rq(T, x) THEN dequeue_one(T, x) ELSE T,
            for_each_rt_entity(S, e), S)

enqueue_rt_entity(S, e) ==
  FoldLeft(enqueue_one, dequeue_rt_stack(S, e), for_each_rt_entity(S, e))

\* Fault: groups above that still have something to run are not queued again.
dequeue_and_forget(S, e) == dequeue_rt_stack(S, e)

dequeue_rt_entity(S, e) ==
  FoldLeft(LAMBDA T, x : IF x \in Group /\ T.rq[x].rt_nr_running # 0
                           THEN enqueue_one(T, x) ELSE T,
           dequeue_rt_stack(S, e), for_each_rt_entity(S, e))

-----------------------------------------------------------------------------
(* Throttling *)

sched_rt_rq_dequeue(S, g) ==
  IF g # Root /\ on_rt_rq(S, g) THEN dequeue_rt_entity(S, g) ELSE S

\* sched_rt_runtime_exceeded(): a group above its runtime is throttled, unless
\* it has no runtime at all.  It returns rt_rq_throttled() of what it leaves.
sched_rt_runtime_exceeded(S, g) ==
  LET r == S.rq[g]
      T == [S EXCEPT !.rq[g].rt_throttled = TRUE]
  IN  IF r.rt_throttled \/ r.rt_runtime >= Period \/ r.rt_time <= r.rt_runtime THEN S
      ELSE IF r.rt_runtime = 0 THEN [S EXCEPT !.rq[g].rt_time = 0]
      ELSE IF rt_rq_throttled(T.rq[g]) THEN sched_rt_rq_dequeue(T, g)
      ELSE T

\* Fault: the running task of a throttled group is not rescheduled.
charge_no_resched(S, g) ==
  IF S.rq[g].rt_runtime = RUNTIME_INF THEN S
  ELSE sched_rt_runtime_exceeded([S EXCEPT !.rq[g].rt_time = @ + S.delta], g)

\* One round of update_curr_rt(): charge the rt_rq of group g.
charge(S, g) ==
  IF S.rq[g].rt_runtime = RUNTIME_INF THEN S
  ELSE LET T == sched_rt_runtime_exceeded([S EXCEPT !.rq[g].rt_time = @ + S.delta], g)
       IN  [T EXCEPT !.resched = @ \/ rt_rq_throttled(T.rq[g])]

update_curr_rt(S) ==
  IF curr = Other THEN S
  ELSE IF ~is_rt(S.task[curr]) THEN S
  ELSE [FoldLeft(charge, S, ancestors[S.task[curr].group] \o <<Root>>)
          EXCEPT !.delta = 0]

curr_prio(S) == IF curr = Other THEN MAX_RT_PRIO ELSE prio_of(S.task[curr])

\* Fault: the running task is not rescheduled.
enqueue_no_resched(S, g) ==
  IF g # Root /\ ~on_rt_rq(S, g) /\ S.rq[g].rt_nr_running # 0
    THEN enqueue_rt_entity(S, g) ELSE S

sched_rt_rq_enqueue(S, g) ==
  LET T == IF g # Root /\ ~on_rt_rq(S, g) THEN enqueue_rt_entity(S, g) ELSE S
  IN  IF S.rq[g].rt_nr_running = 0 THEN S
      ELSE [T EXCEPT !.resched = @ \/ T.rq[g].highest_prio < curr_prio(T)]

Lesser(a, b) == IF a < b THEN a ELSE b

\* Fault: the timer stops once the time is paid off, though the group has
\* something to run.
timer_stops_early(S, g) ==
  LET r == [S.rq[g] EXCEPT !.rt_time = @ - Lesser(@, S.rq[g].overrun * S.rq[g].rt_runtime)]
      unthrottle == r.rt_throttled /\ r.rt_time < r.rt_runtime
      u == [r EXCEPT !.rt_throttled = @ /\ ~unthrottle, !.overrun = 0]
      T == [S EXCEPT !.rq[g] = [u EXCEPT !.active = u.rt_time # 0]]
  IN  IF unthrottle \/ (S.rq[g].rt_time = 0 /\ ~rt_rq_throttled(u))
        THEN sched_rt_rq_enqueue(T, g) ELSE T

\* do_sched_rt_period_timer(): pay off what the elapsed periods allow,
\* unthrottle, and restart the timer unless there is nothing left to do.
do_sched_rt_period_timer(S, g) ==
  LET r == [S.rq[g] EXCEPT !.rt_time = @ - Lesser(@, S.rq[g].overrun * S.rq[g].rt_runtime)]
      unthrottle == S.rq[g].rt_time # 0 /\ r.rt_throttled /\ r.rt_time < r.rt_runtime
      u == [r EXCEPT !.rt_throttled = @ /\ ~unthrottle, !.overrun = 0]
      idle == \/ u.rt_time = 0 /\ u.rt_nr_running = 0
              \/ ~u.rt_throttled /\ u.rt_runtime = RUNTIME_INF
      T == [S EXCEPT !.rq[g] = [u EXCEPT !.active = ~idle]]
  IN  IF unthrottle \/ (S.rq[g].rt_time = 0 /\ ~rt_rq_throttled(u))
        THEN sched_rt_rq_enqueue(T, g) ELSE T

-----------------------------------------------------------------------------
(* Tasks *)

enqueue_task_rt(S, t) == IF is_rt(S.task[t]) THEN enqueue_rt_entity(S, t) ELSE S

dequeue_task_rt(S, t) ==
  IF is_rt(S.task[t]) THEN dequeue_rt_entity(update_curr_rt(S), t) ELSE S

\* pick_next_rt_entity(): e is in the list of the first bit set.
is_first(S, e) ==
  LET bits == S.rq[rt_rq_of_se(S, e)].bitmap
  IN  S.linked[e] \in bits /\ \A b \in bits : S.linked[e] <= b

\* pick_next_task_rt(): the tasks it may return, which are those that a first
\* entity on every level, from the root down, leads to.
pick_next_task_rt(S) ==
  IF S.rq[Root].rt_nr_running = 0 \/ rt_rq_throttled(S.rq[Root]) THEN {}
  ELSE {t \in Task : \A e \in Range(for_each_rt_entity(S, t)) : is_first(S, e)}

\* What the lower classes have to offer.
other_tasks(S) == {Other} \cup {t \in Task : S.task[t].on_rq /\ ~is_rt(S.task[t])}

\* The rest of __schedule(): put_prev_task(), pick_next_task(), the switch.
switch_to_next(S) ==
  LET T == update_curr_rt(S)
  IN  /\ curr' \in IF pick_next_task_rt(T) # {} THEN pick_next_task_rt(T)
                   ELSE other_tasks(T)
      /\ Commit([T EXCEPT !.resched = FALSE, !.delta = 0])
      /\ UNCHANGED now

\* Preemption, or a running task that yields.
Schedule == switch_to_next(State)

\* The running task goes to sleep.
Sleep ==
  /\ curr # Other
  /\ switch_to_next([dequeue_task_rt(State, curr) EXCEPT !.task[curr].on_rq = FALSE])

WakeUp(t) ==
  /\ ~task[t].on_rq
  /\ LET S == enqueue_task_rt([State EXCEPT !.task[t].on_rq = TRUE], t)
     IN  Commit([S EXCEPT !.resched = @ \/ prio_of(task[t]) < curr_prio(S)])
  /\ UNCHANGED <<curr, now>>

\* Fault: the task is changed before it is dequeued.
change_then_dequeue(t, e) ==
  LET S == [State EXCEPT !.task[t] = e]
  IN  IF ~e.on_rq THEN S ELSE enqueue_task_rt(dequeue_task_rt(S, t), t)

\* Dequeue the task, put it aside if it runs, make it e, enqueue it again.
change_task(t, e) ==
  LET S == IF task[t].on_rq THEN dequeue_task_rt(State, t) ELSE State
      P == IF t = curr THEN [update_curr_rt(S) EXCEPT !.delta = 0] ELSE S
      T == [P EXCEPT !.task[t] = e]
  IN  IF task[t].on_rq THEN enqueue_task_rt(T, t) ELSE T

\* check_class_changed(): prio_changed_rt(), switched_to_rt(), and the class a
\* running task is demoted to (CFS reschedules, WRR does not).
check_class_changed(S, old, t, demoted) ==
  LET e == S.task[t]
  IN  /\ e.on_rq
      /\ \/ t # curr /\ prio_of(e) < curr_prio(S) /\ prio_of(old) # prio_of(e)
         \/ t = curr /\ is_rt(old) /\ prio_of(old) < prio_of(e) /\ (is_rt(e) \/ demoted)

\* Bound: the running task is not made an RT task of a group at the bound.
within_bound(t, e) ==
  t = curr /\ is_rt(e) => \A g \in groups_of(e.group) : rt_rq[g].rt_time < MaxRtTime

change_prio(t, e) ==
  LET S == change_task(t, e)
  IN  /\ within_bound(t, e)
      /\ \E demoted \in BOOLEAN :
           Commit([S EXCEPT !.resched = @ \/ check_class_changed(S, task[t], t, demoted)])
      /\ UNCHANGED <<curr, now>>

\* __sched_setscheduler(): no RT policy in a group without runtime.
SetScheduler(t, prio) ==
  /\ task[t].normal_prio # prio
  /\ prio < MAX_RT_PRIO => rt_rq[task[t].group].rt_runtime # 0
  /\ change_prio(t, [task[t] EXCEPT !.normal_prio = prio])

\* rt_mutex_setprio(), which the rt_mutex code calls when the task's highest
\* waiter has changed and its priority does.
RtMutexSetprio(t, prio) ==
  LET e == [task[t] EXCEPT !.pi_prio = prio]
  IN  /\ task[t].pi_prio # prio
      /\ IF prio_of(e) # prio_of(task[t]) THEN change_prio(t, e)
         ELSE /\ task' = [task EXCEPT ![t] = e]
              /\ UNCHANGED <<linked, rt_rq, curr, need_resched, delta, now>>

\* sched_rt_can_attach() and sched_move_task()
SchedMoveTask(t, g) ==
  /\ task[t].group # g
  /\ is_rt(task[t]) => rt_rq[g].rt_runtime # 0
  /\ within_bound(t, [task[t] EXCEPT !.group = g])
  /\ Commit(change_task(t, [task[t] EXCEPT !.group = g]))
  /\ UNCHANGED <<curr, now>>

-----------------------------------------------------------------------------
(* Admission of new limits *)

\* to_ratio(), in units of 1 / Period.
to_ratio(runtime) == IF runtime = RUNTIME_INF THEN Period ELSE runtime

\* The tasks of rq->rt.tg, which is the root group's whatever group the task
\* is in: for every other group the answer is no.
tg_has_rt_tasks(g) == g = Root /\ \E t \in Task : is_rt(task[t])

children(g) == {c \in Group \ {Root} : Parent[c] = g}

\* tg_rt_schedulable() for one group, when the limits are those in limit.
tg_rt_schedulable(g, limit) ==
  /\ ~(limit[g] = 0 /\ tg_has_rt_tasks(g))
  /\ to_ratio(limit[g]) <= GlobalRuntime
  /\ FoldSet(LAMBDA c, sum : sum + to_ratio(limit[c]), 0, children(g)) <= to_ratio(limit[g])

\* tg_set_rt_bandwidth() after __rt_schedulable() has walked every group.
SetRtRuntime(g, runtime) ==
  /\ rt_rq[g].rt_runtime # runtime
  /\ \A h \in Group :
       tg_rt_schedulable(h, [x \in Group |-> IF x = g THEN runtime ELSE rt_rq[x].rt_runtime])
  /\ rt_rq' = [rt_rq EXCEPT ![g].rt_runtime = runtime]
  /\ UNCHANGED <<task, linked, curr, need_resched, delta, now>>

-----------------------------------------------------------------------------
(* Time *)

\* A unit of time passes.  The tick sees to it that the running task's time is
\* accounted for before the next one.
Elapse ==
  LET expires == now = Period - 1
      running_rt == curr_prio(State) < MAX_RT_PRIO
  IN  /\ delta = 0
      /\ running_rt => \A g \in groups_of(task[curr].group) : rt_rq[g].rt_time < MaxRtTime
      /\ expires => \A g \in Group : rt_rq[g].overrun < MaxOverrun
      /\ now' = (now + 1) % Period
      /\ delta' = IF running_rt THEN 1 ELSE 0
      /\ rt_rq' = [g \in Group |->
           IF expires /\ rt_rq[g].active THEN [rt_rq[g] EXCEPT !.overrun = @ + 1]
                                         ELSE rt_rq[g]]
      /\ UNCHANGED <<task, linked, curr, need_resched>>

\* task_tick_rt()
TaskTick ==
  /\ delta # 0
  /\ Commit(update_curr_rt(State))
  /\ UNCHANGED <<curr, now>>

\* sched_rt_period_timer()
PeriodTimer(g) ==
  /\ rt_rq[g].overrun # 0
  /\ Commit(do_sched_rt_period_timer(State, g))
  /\ UNCHANGED <<curr, now>>

\* All tasks are in the root group and no RT task ran yet; limit has the runtimes
\* the groups were given.
InitWith(limit) ==
  /\ task = [t \in Task |-> [group |-> Root, normal_prio |-> MAX_RT_PRIO,
                             pi_prio |-> MAX_RT_PRIO, on_rq |-> FALSE]]
  /\ linked = [e \in Entity |-> Unlinked]
  /\ rt_rq = [g \in Group |->
       [rt_nr_running |-> 0, rt_nr_boosted |-> 0, highest_prio |-> MAX_RT_PRIO,
        bitmap |-> {}, rt_time |-> 0, rt_throttled |-> FALSE,
        rt_runtime |-> limit[g], active |-> FALSE, overrun |-> 0]]
  /\ curr = Other
  /\ need_resched = FALSE
  /\ delta = 0
  /\ now = 0

\* Boot: the root group has the global limit, other groups no runtime.
Init == InitWith([g \in Group |-> IF g = Root THEN GlobalRuntime ELSE 0])

Next ==
  \/ Schedule \/ Sleep \/ Elapse \/ TaskTick
  \/ \E t \in Task :
       \/ WakeUp(t)
       \/ \E prio \in 0..MAX_RT_PRIO : SetScheduler(t, prio)
       \/ \E prio \in BoostPrio \cup {MAX_RT_PRIO} : RtMutexSetprio(t, prio)
       \/ \E g \in Group : SchedMoveTask(t, g)
  \/ \E g \in Group : PeriodTimer(g) \/ \E runtime \in Runtime : SetRtRuntime(g, runtime)

Spec == Init /\ [][Next]_vars

\* What system calls, the cgroup file system and inheritance set.
settings == <<[t \in Task |-> <<task[t].group, task[t].normal_prio, task[t].pi_prio>>],
              [g \in Group |-> rt_rq[g].rt_runtime]>>

\* Ticks, timer interrupts and the reschedule that was asked for happen.  This
\* is weak fairness: TaskTick, PeriodTimer and Schedule are enabled while delta,
\* overrun and need_resched are set, and reset them.
InterruptsTaken ==
  /\ []<>(delta = 0)
  /\ []<>(~need_resched)
  /\ \A g \in Group : []<>(rt_rq[g].overrun = 0)

\* The settings are changed any number of times, but not for ever.
SettingsSettle == <>[][UNCHANGED settings]_vars

\* Time passes as well.
FairSpec == Spec /\ WF_vars(Elapse) /\ InterruptsTaken /\ SettingsSettle

-----------------------------------------------------------------------------
(* Properties *)

RtRq ==
  [rt_nr_running : Nat, rt_nr_boosted : Nat, highest_prio : 0..MAX_RT_PRIO,
   bitmap : SUBSET (0..(MAX_RT_PRIO - 1)), rt_time : Nat, rt_throttled : BOOLEAN,
   rt_runtime : Nat, active : BOOLEAN, overrun : 0..MaxOverrun]

\* Type correctness: counts and times never go below zero.
TypeOK ==
  /\ task \in [Task -> [group : Group, normal_prio : 0..MAX_RT_PRIO,
                        pi_prio : 0..MAX_RT_PRIO, on_rq : BOOLEAN]]
  /\ linked \in [Entity -> 0..MAX_RT_PRIO]
  /\ rt_rq \in [Group -> RtRq]
  /\ curr \in Task \cup {Other}
  /\ need_resched \in BOOLEAN
  /\ delta \in 0..1
  /\ now \in 0..(Period - 1)

members(g) == {e \in Entity : linked[e] # Unlinked /\ rt_rq_of_se(State, e) = g}

\* A task is linked while it is runnable, a group while it has members and is
\* not throttled, each in the list of the priority it has now, however
\* throttling, boosting and moves change what is below it; counters, bitmap and
\* highest priority of every rt_rq are those of its members.
HierarchyConsistent ==
  /\ \A e \in Entity :
       LET queued == IF e \in Task THEN task[e].on_rq /\ is_rt(task[e])
                     ELSE members(e) # {} /\ ~rt_rq_throttled(rt_rq[e])
       IN  linked[e] = IF queued THEN rt_se_prio(State, e) ELSE Unlinked
  /\ \A g \in Group :
       LET r == rt_rq[g]
           prios == {linked[e] : e \in members(g)}
       IN  /\ r.rt_nr_running = Cardinality(members(g))
           /\ r.rt_nr_boosted = Cardinality({e \in members(g) : rt_se_boosted(State, e)})
           /\ r.bitmap = prios
           /\ r.highest_prio = IF prios = {} THEN MAX_RT_PRIO ELSE first_bit(prios)

\* The tasks that may run: RT tasks no group of which is throttled.
eligible ==
  {t \in Task :
     /\ task[t].on_rq /\ is_rt(task[t])
     /\ \A g \in groups_of(task[t].group) : ~rt_rq_throttled(rt_rq[g])}

\* pick_next_task_rt() finds the tasks of the highest priority among those that
\* may run, wherever they are in the hierarchy, and finds one if there is one.
PicksHighest ==
  LET picked == pick_next_task_rt(State)
  IN  /\ picked \subseteq eligible
      /\ eligible # {} => picked # {}
      /\ \A p \in picked, t \in eligible : prio_of(task[p]) <= prio_of(task[t])

\* A group with a limit and something to run has its period timer running:
\* nobody else would end its throttling.
RunnableHasTimer ==
  \A g \in Group :
    rt_rq[g].rt_nr_running # 0 /\ rt_rq[g].rt_runtime # RUNTIME_INF => rt_rq[g].active

\* In every state the hierarchy is consistent, groups with something to run have
\* their timers, and the pick is a highest task that may run.
GroupsConsistent == TypeOK /\ HierarchyConsistent /\ RunnableHasTimer /\ PicksHighest

\* The running task is not one the hierarchy would pick, and no reschedule has
\* been asked for.
passed_over ==
  ~need_resched /\ \E t \in eligible : prio_of(task[t]) < curr_prio(State)

\* A step after which a task is passed over demotes the running task, moves a
\* task to another group, or boosts a task so that a throttled group runs again.
passed_over_excused ==
  \/ curr # Other /\ prio_of(task[curr]) < prio_of(task'[curr])
  \/ \E t \in Task : task[t].group # task'[t].group
  \/ \E g \in Group : rt_rq[g].rt_throttled /\ rt_rq[g].rt_nr_boosted = 0
                                            /\ rt_rq'[g].rt_nr_boosted # 0

\* An RT task that may run is passed over only after the running task was
\* demoted, a task was moved to another group, or a boosted task made a
\* throttled group run again: unthrottling, wake-ups and other priority changes
\* reschedule for it.
PassedOverOnlyAfter == [][~passed_over /\ passed_over' => passed_over_excused]_vars

\* A runnable RT task that a throttled group keeps from running.
throttled_out(t) == task[t].on_rq /\ is_rt(task[t]) /\ t \notin eligible

\* Throttling ends: "Ensure we don't starve existing RT tasks."
ThrottleEnds == \A t \in Task : throttled_out(t) ~> ~throttled_out(t)

\* Whatever RT tasks do, the other classes get the CPU again and again.
OthersRun == []<>(curr_prio(State) = MAX_RT_PRIO)

=============================================================================
