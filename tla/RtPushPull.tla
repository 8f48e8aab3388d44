----------------------------- MODULE RtPushPull -----------------------------
(***************************************************************************)
(* How the real-time class keeps the highest-priority tasks running on     *)
(* several CPUs (kernel/sched/rt.c, CONFIG_SMP): a CPU with RT tasks it    *)
(* does not run pushes them to CPUs that run something lower, a CPU whose  *)
(* priority drops pulls from overloaded ones.                              *)
(*                                                                         *)
(* Both need the locks of two run queues.  double_lock_balance() may drop  *)
(* the first to take the second, so a push and every turn of a pull are    *)
(* two steps: choose, and act on what is still true.  Run queues are flat  *)
(* (no RT groups) and among tasks of one priority any may be chosen: the   *)
(* order of the queue of one priority is RtQueue's subject.                *)
(***************************************************************************)
EXTENDS Cpus, FiniteSets, FiniteSetsExt

CONSTANTS
  Task,
  RtPrio,       \* priorities of the tasks; a smaller number is higher
  MAX_RT_PRIO,
  Mask,         \* affinity masks
  Changed,      \* the tasks whose priority or affinity is changed
  Rebuilt,      \* CPUs whose root domain is rebuilt
  Idle, Stop    \* the idle task (with every task that is not RT) and the stopper

RT_MAX_TRIES == 3
CPUPRI_INVALID == -1

ASSUME RtPushPullAssumption ==
  /\ MAX_RT_PRIO \in Nat \ {0}
  /\ IsFiniteSet(Task)
  /\ RtPrio \subseteq 1..(MAX_RT_PRIO - 1)
  /\ Mask \subseteq (SUBSET Cpu) \ {{}} /\ Cpu \in Mask
  /\ Changed \subseteq Task
  /\ Rebuilt \subseteq Cpu
  /\ Idle \notin Task /\ Stop \notin Task /\ Idle # Stop

VARIABLES
  task,   \* prio, cpu, on_rq and cpus_allowed of a task
  rq,     \* curr, need_resched, online and the rt_rq's pushable_tasks,
          \* highest_prio.next, rt_nr_migratory, rt_nr_total, overloaded
  rd,     \* rto_mask, rto_count and cpupri of the root domain
  pc,     \* what a CPU is doing to a run queue whose lock it may have dropped
  excused \* something changed, after which nobody pushes (history)

pp_vars == <<task, rq, rd, pc, excused>>

At(op, c) == [op |-> op, rq |-> c, task |-> Idle, to |-> 0, tries |-> 0]
Free(w) == At("none", w)

Init ==
  /\ \E p \in [Task -> RtPrio] :
       task = [t \in Task |-> [prio |-> p[t], cpu |-> 1, on_rq |-> FALSE, allowed |-> Cpu]]
  /\ rq = [c \in Cpu |-> [curr |-> Idle, need_resched |-> FALSE, online |-> TRUE,
                          pushable |-> {}, next |-> MAX_RT_PRIO, nr_migratory |-> 0,
                          nr_total |-> 0, overloaded |-> FALSE]]
  /\ rd = [rto_mask |-> {}, rto_count |-> 0, cpupri |-> [c \in Cpu |-> MAX_RT_PRIO]]
  /\ pc = [w \in Cpu |-> Free(w)]
  /\ excused = FALSE

---------------------------------------------------------------------------
\* The bookkeeping of one run queue, on the three pieces of state at once.

g0 == [task |-> task, rq |-> rq, rd |-> rd]
becomes(g) == task' = g.task /\ rq' = g.rq /\ rd' = g.rd

prio(g, t) == CASE t = Idle -> MAX_RT_PRIO [] t = Stop -> 0 [] OTHER -> g.task[t].prio
migratory(g, t) == Cardinality(g.task[t].allowed) > 1
queued(g, c) == {t \in Task : g.task[t].on_rq /\ g.task[t].cpu = c}
highest(g, S) == Min({prio(g, t) : t \in S} \cup {MAX_RT_PRIO})

\* rt_set_overload() and rt_clear_overload(), by whether the CPU is overloaded.
set_overload(g, c) ==
  IF ~g.rq[c].online THEN g
  ELSE [g EXCEPT !.rd.rto_mask = @ \cup {c}, !.rd.rto_count = @ + 1]

clear_overload(g, c) ==
  IF ~g.rq[c].online THEN g
  ELSE [g EXCEPT !.rd.rto_mask = @ \ {c}, !.rd.rto_count = @ - 1]

update_rt_migration(g, c) ==
  LET over == g.rq[c].nr_migratory > 0 /\ g.rq[c].nr_total > 1
  IN IF over = g.rq[c].overloaded THEN g
     ELSE [(IF over THEN set_overload(g, c) ELSE clear_overload(g, c))
             EXCEPT !.rq[c].overloaded = over]

\* cpupri_set() of a run queue that is online and whose highest priority changed.
update_cpupri(g, c) ==
  IF g.rq[c].online THEN [g EXCEPT !.rd.cpupri[c] = highest(g, queued(g, c))] ELSE g

enqueue_pushable_task(g, c, t) ==
  [g EXCEPT !.rq[c].pushable = @ \cup {t},
            !.rq[c].next = IF prio(g, t) < @ THEN prio(g, t) ELSE @]

dequeue_pushable_task(g, c, t) ==
  LET left == g.rq[c].pushable \ {t}
  IN [g EXCEPT !.rq[c].pushable = left, !.rq[c].next = highest(g, left)]

\* activate_task() and enqueue_task_rt().
enqueue_task_rt(g, c, t) ==
  LET one == IF migratory(g, t) THEN 1 ELSE 0
      counted == [g EXCEPT !.task[t].on_rq = TRUE, !.task[t].cpu = c,
                           !.rq[c].nr_total = @ + 1, !.rq[c].nr_migratory = @ + one]
      queue == update_rt_migration(update_cpupri(counted, c), c)
  IN IF g.rq[c].curr # t /\ migratory(g, t) THEN enqueue_pushable_task(queue, c, t) ELSE queue

\* deactivate_task() and dequeue_task_rt().
dequeue_task_rt(g, t) ==
  LET c == g.task[t].cpu
      one == IF migratory(g, t) THEN 1 ELSE 0
      counted == [g EXCEPT !.task[t].on_rq = FALSE,
                           !.rq[c].nr_total = @ - 1, !.rq[c].nr_migratory = @ - one]
  IN dequeue_pushable_task(update_rt_migration(update_cpupri(counted, c), c), c, t)

resched_task(g, c) == [g EXCEPT !.rq[c].need_resched = TRUE]

\* A push or a pull moves a task that waits on another run queue.
move_task(g, t, c) == enqueue_task_rt(dequeue_task_rt(g, t), c, t)

\* cpupri_find(): the CPUs t may use that run the lowest priority, when it is
\* lower than t's.
lowest_mask(g, t) ==
  LET usable == {c \in g.task[t].allowed : g.rd.cpupri[c] > prio(g, t)}
  IN {c \in usable : \A d \in usable : g.rd.cpupri[d] <= g.rd.cpupri[c]}

\* find_lowest_rq(): the task's own CPU if it is among them; {} stands for -1.
find_lowest_rq(g, t) ==
  LET mask == lowest_mask(g, t)
  IN IF ~migratory(g, t) THEN {}
     ELSE IF g.task[t].cpu \in mask THEN {g.task[t].cpu} ELSE mask

\* pick_next_pushable_task(): any of the first priority.
pushable_first(g, c) == {t \in g.rq[c].pushable : \A u \in g.rq[c].pushable : prio(g, t) <= prio(g, u)}

---------------------------------------------------------------------------
\* Pushing: push_rt_tasks(c), by the CPU w.

goto(w, place) == pc' = [pc EXCEPT ![w] = place]
done(w) == goto(w, Free(w))

\* push_rt_task() up to the choice of a run queue for the first pushable task;
\* tries is how often find_lock_lowest_rq() has looked for it, and "task" is
\* set after a goto retry, which skips the first test.
Push(w) ==
  LET c == pc[w].rq IN
  /\ pc[w].op = "push"
  /\ IF (pc[w].task = Idle /\ ~rq[c].overloaded) \/ rq[c].pushable = {}
     THEN done(w) /\ UNCHANGED <<task, rq, rd>>
     ELSE \E t \in IF pc[w].tries = 0 THEN pushable_first(g0, c) ELSE {pc[w].task} :
            IF pc[w].tries = 0 /\ prio(g0, t) < prio(g0, rq[c].curr)
            THEN done(w) /\ becomes(resched_task(g0, c))
            ELSE /\ LET found == IF pc[w].tries < RT_MAX_TRIES THEN find_lowest_rq(g0, t) ELSE {}
                    IN \/ found \ {c} = {} /\ done(w)
                       \/ \E d \in found \ {c} :
                            goto(w, [pc[w] EXCEPT !.op = "push_locked", !.task = t, !.to = d])
                 /\ UNCHANGED <<task, rq, rd>>

\* Fault: what happened while the lock was dropped is not looked at.
still_pushable_assumed(c, t, d) == task[t].on_rq /\ task[t].cpu = c

\* find_lock_lowest_rq() after double_lock_balance(): t may have been moved,
\* may run, sleep, or have lost the CPU that was found for it.
still_pushable(c, t, d) ==
  task[t].cpu = c /\ d \in task[t].allowed /\ rq[c].curr # t /\ task[t].on_rq

PushLocked(w) ==
  LET c == pc[w].rq
      t == pc[w].task
      d == pc[w].to
  IN /\ pc[w].op = "push_locked"
     /\ \/ \* the run queue is still suitable: move the task, look for another
           /\ still_pushable(c, t, d) /\ highest(g0, queued(g0, d)) > prio(g0, t)
           /\ becomes(resched_task(move_task(g0, t, d), d))
           /\ goto(w, At("push", c))
        \/ \* it is not: look again
           /\ still_pushable(c, t, d) /\ highest(g0, queued(g0, d)) <= prio(g0, t)
           /\ goto(w, [pc[w] EXCEPT !.op = "push", !.tries = @ + 1])
           /\ UNCHANGED <<task, rq, rd>>
        \/ \* something has shifted: give up on t if it is still first, else retry
           /\ ~still_pushable(c, t, d)
           /\ IF task[t].cpu = c /\ t \in pushable_first(g0, c) THEN done(w)
              ELSE goto(w, [At("push", c) EXCEPT !.task = t])
           /\ UNCHANGED <<task, rq, rd>>

---------------------------------------------------------------------------
\* Pulling: pull_rt_task(c), by the CPU w; "to" is the last CPU looked at and
\* "task" the one whose priority changed, if that is why.

\* What pull_rt_task() returns to: schedule(), or the end of prio_changed_rt().
pulled(w) ==
  LET c == pc[w].rq
      p == pc[w].task
  IN IF p = Idle THEN goto(w, At("switch", c)) /\ UNCHANGED <<task, rq, rd>>
     ELSE /\ done(w)
          /\ IF rq[c].curr = p /\ prio(g0, p) > highest(g0, queued(g0, c))
             THEN becomes(resched_task(g0, c))
             ELSE UNCHANGED <<task, rq, rd>>

Pull(w) ==
  LET c == pc[w].rq
      left == {i \in rd.rto_mask : /\ i > pc[w].to /\ i # c
                                   /\ rq[i].next < highest(g0, queued(g0, c))}
  IN /\ pc[w].op = "pull"
     /\ IF left = {} THEN pulled(w)
        ELSE /\ goto(w, [pc[w] EXCEPT !.op = "pull_locked", !.to = Min(left)])
             /\ UNCHANGED <<task, rq, rd>>

\* pick_next_highest_task_rt(): the first task of i that waits and may run on c.
pick_next_highest_task_rt(i, c) ==
  LET S == {t \in queued(g0, i) : rq[i].curr # t /\ c \in task[t].allowed /\ migratory(g0, t)}
  IN {t \in S : \A u \in S : prio(g0, t) <= prio(g0, u)}

PullLocked(w) ==
  LET c == pc[w].rq
      i == pc[w].to
      S == {t \in pick_next_highest_task_rt(i, c) :
              /\ Cardinality(queued(g0, i)) > 1
              /\ prio(g0, t) < highest(g0, queued(g0, c))
              /\ prio(g0, t) >= prio(g0, rq[i].curr)}
  IN /\ pc[w].op = "pull_locked"
     /\ goto(w, [pc[w] EXCEPT !.op = "pull"])
     /\ IF S = {} THEN UNCHANGED <<task, rq, rd>>
        ELSE \E t \in S : becomes(move_task(g0, t, c))

---------------------------------------------------------------------------
\* schedule() on the CPU c.

idle(w) == pc[w] = Free(w)

\* The task that runs is preempted, or sleeps; pre_schedule_rt() pulls when
\* that lowers the priority of the run queue.
Schedule(c, sleeps) ==
  LET prev == rq[c].curr
      g == IF sleeps THEN dequeue_task_rt(g0, prev) ELSE g0
  IN /\ idle(c)
     /\ IF sleeps THEN prev \in Task ELSE rq[c].need_resched \/ prev = Stop
     /\ becomes(g)
     /\ goto(c, At(IF prev \in Task /\ highest(g, queued(g, c)) > prio(g, prev)
                   THEN "pull" ELSE "switch", c))

\* Fault: the task that is put is not offered to other CPUs.
put_prev_task_unlisted(g, c) == g

put_prev_task(g, c) ==
  LET prev == g.rq[c].curr
  IN IF prev \in Task /\ g.task[prev].on_rq /\ migratory(g, prev)
     THEN enqueue_pushable_task(g, c, prev) ELSE g

\* put_prev_task(), pick_next_task(), the switch and post_schedule_rt().
Switch(c) ==
  /\ pc[c].op = "switch"
  /\ \E next \in IF queued(g0, c) = {} THEN {Idle}
                 ELSE {t \in queued(g0, c) : prio(g0, t) = highest(g0, queued(g0, c))} :
       LET put == put_prev_task(g0, c)
           picked == IF next = Idle THEN put ELSE dequeue_pushable_task(put, c, next)
       IN /\ becomes([picked EXCEPT !.rq[c].curr = next, !.rq[c].need_resched = FALSE])
          /\ IF next # Idle /\ picked.rq[c].pushable # {} THEN goto(c, At("push", c)) ELSE done(c)

---------------------------------------------------------------------------
\* What other code does to RT tasks, on the CPU w.

runs(t) == \E c \in Cpu : rq[c].curr = t

\* select_task_rq_rt(), without the lock of any run queue; a CPU that is not
\* allowed is replaced in select_task_rq().
select_task_rq_rt(t) ==
  LET c == task[t].cpu
      curr == rq[c].curr
      busy == curr # Idle /\ migratory(g0, t)
              /\ (curr = Stop \/ ~migratory(g0, curr) \/ prio(g0, curr) <= prio(g0, t))
      S == IF busy /\ find_lowest_rq(g0, t) # {} THEN find_lowest_rq(g0, t) ELSE {c}
  IN IF S \cap task[t].allowed # {} THEN S \cap task[t].allowed ELSE task[t].allowed

WakeSelect(w, t) ==
  /\ idle(w) /\ ~task[t].on_rq /\ ~runs(t)
  /\ \A v \in Cpu : pc[v].op = "wake" => pc[v].task # t
  /\ \E d \in select_task_rq_rt(t) : goto(w, [At("wake", d) EXCEPT !.task = t])
  /\ UNCHANGED <<task, rq, rd>>

\* ttwu_activate() on the run queue chosen: check_preempt_curr_rt() and
\* task_woken_rt().  Equal priorities: the CPU is rescheduled when its task can
\* go elsewhere and the woken one cannot.
Wake(w) ==
  LET c == pc[w].rq
      t == pc[w].task
      curr == rq[c].curr
      g == enqueue_task_rt(g0, c, t)
      equal == /\ curr \in Task /\ prio(g, t) = prio(g, curr) /\ ~rq[c].need_resched
               /\ migratory(g, curr)
               /\ ~(migratory(g, t) /\ lowest_mask(g, t) # {})
               /\ lowest_mask(g, curr) # {}
      woken == IF prio(g, t) < prio(g, curr) \/ equal THEN resched_task(g, c) ELSE g
      push == /\ ~woken.rq[c].need_resched /\ woken.rq[c].pushable # {} /\ migratory(g, t)
              /\ curr # Idle
              /\ curr = Stop \/ ~migratory(g, curr) \/ prio(g, curr) <= prio(g, t)
  IN /\ pc[w].op = "wake"
     /\ becomes(woken)
     /\ IF push THEN goto(w, At("push", c)) ELSE done(w)

\* Fault: a task whose mask shrinks to one CPU stays on the list.
set_cpus_allowed_unlisted(g, t, mask) == [g EXCEPT !.task[t].allowed = mask]

\* set_cpus_allowed_rt() and the new mask.
set_cpus_allowed_rt(g, t, mask) ==
  LET c == g.task[t].cpu
      was == migratory(g, t)
      is == Cardinality(mask) > 1
      d1 == IF was /\ g.rq[c].curr # t THEN dequeue_pushable_task(g, c, t) ELSE g
      d2 == IF is /\ g.rq[c].curr # t THEN enqueue_pushable_task(d1, c, t) ELSE d1
      d3 == [d2 EXCEPT !.rq[c].nr_migratory =
                         CASE is /\ ~was -> @ + 1 [] was /\ ~is -> @ - 1 [] OTHER -> @]
      hooked == IF g.task[t].on_rq /\ Cardinality(mask) # Cardinality(g.task[t].allowed)
                THEN update_rt_migration(d3, c) ELSE g
  IN [hooked EXCEPT !.task[t].allowed = mask]

SetCpusAllowed(w, t, mask) ==
  /\ idle(w) /\ mask # task[t].allowed
  /\ \A v \in Cpu : pc[v].op = "wake" => pc[v].task # t
  /\ becomes(set_cpus_allowed_rt(g0, t, mask))
  /\ UNCHANGED pc

astray(c) == {t \in queued(g0, c) : c \notin task[t].allowed}

\* The stopper of c preempts, to move a task away.
StopperRuns(c) ==
  /\ idle(c) /\ rq[c].curr # Stop /\ astray(c) # {}
  /\ becomes([put_prev_task(g0, c) EXCEPT !.rq[c].curr = Stop])
  /\ UNCHANGED pc

\* __migrate_task().
MigrateTask(c) ==
  /\ idle(c) /\ rq[c].curr = Stop
  /\ \E t \in astray(c) : \E d \in task[t].allowed :
       LET g == move_task(g0, t, d)
       IN becomes(IF prio(g, t) < prio(g, rq[d].curr) THEN resched_task(g, d) ELSE g)
  /\ UNCHANGED pc

\* __sched_setscheduler() or rt_mutex_setprio() change the priority of an RT
\* task that is queued, and prio_changed_rt() follows.
PrioChanged(w, t, new) ==
  LET c == task[t].cpu
      old == prio(g0, t)
      change(g) == [g EXCEPT !.task[t].prio = new]
      g1 == enqueue_task_rt(change(dequeue_task_rt(g0, t)), c, t)
      waits == rq[c].curr # t
  IN /\ idle(w) /\ new # old /\ task[t].on_rq
     /\ CASE waits ->
               /\ becomes(IF new < prio(g1, rq[c].curr) THEN resched_task(g1, c) ELSE g1)
               /\ UNCHANGED pc
          [] ~waits /\ old < new ->
               becomes(g1) /\ goto(w, [At("pull", c) EXCEPT !.task = t])
          [] ~waits /\ old > new ->
               becomes(g1) /\ UNCHANGED pc

\* rq_offline_rt() and rq_online_rt(), when the root domain of a run queue changes.
RqOffline(c) ==
  /\ rq[c].online
  /\ LET g == IF rq[c].overloaded THEN clear_overload(g0, c) ELSE g0
     IN becomes([g EXCEPT !.rd.cpupri[c] = CPUPRI_INVALID, !.rq[c].online = FALSE])
  /\ UNCHANGED pc

RqOnline(c) ==
  /\ ~rq[c].online
  /\ LET on == [g0 EXCEPT !.rq[c].online = TRUE]
         g == IF rq[c].overloaded THEN set_overload(on, c) ELSE on
     IN becomes([g EXCEPT !.rd.cpupri[c] = highest(g0, queued(g0, c))])
  /\ UNCHANGED pc

Running ==
  \E w \in Cpu :
    \/ Push(w) \/ PushLocked(w) \/ Pull(w) \/ PullLocked(w)
    \/ \E sleeps \in BOOLEAN : Schedule(w, sleeps)
    \/ Switch(w) \/ Wake(w) \/ StopperRuns(w) \/ MigrateTask(w)
    \/ \E t \in Task : WakeSelect(w, t)

Changing ==
  \/ \E c \in Rebuilt : RqOffline(c) \/ RqOnline(c)
  \/ \E w \in Cpu, t \in Changed :
       \/ \E mask \in Mask : SetCpusAllowed(w, t, mask)
       \/ \E new \in RtPrio : PrioChanged(w, t, new)

Next == \/ Running /\ UNCHANGED excused
        \/ Changing /\ excused' = TRUE

Spec == Init /\ [][Next]_pp_vars

---------------------------------------------------------------------------
TaskStruct == [prio : 1..(MAX_RT_PRIO - 1), cpu : Cpu, on_rq : BOOLEAN, allowed : Mask]

RunQueue ==
  [curr : Task \cup {Idle, Stop}, need_resched : BOOLEAN, online : BOOLEAN,
   pushable : SUBSET Task, next : 1..MAX_RT_PRIO, nr_migratory : Nat, nr_total : Nat,
   overloaded : BOOLEAN]

RootDomain ==
  [rto_mask : SUBSET Cpu, rto_count : 0..NrCpus,
   cpupri : [Cpu -> 1..MAX_RT_PRIO \cup {CPUPRI_INVALID}]]

Place ==
  [op : {"none", "push", "push_locked", "pull", "pull_locked", "switch", "wake"},
   rq : Cpu, task : Task \cup {Idle}, to : 0..NrCpus, tries : 0..RT_MAX_TRIES]

TypeOK ==
  /\ task \in [Task -> TaskStruct]
  /\ rq \in [Cpu -> RunQueue] /\ \A c \in Cpu : rq[c].nr_migratory <= rq[c].nr_total
  /\ rd \in RootDomain
  /\ pc \in [Cpu -> Place]
  /\ excused \in BOOLEAN

\* The list a push takes from holds exactly the tasks that wait on the run
\* queue and may run elsewhere, whatever preemption, migration and changes of
\* affinity did (the BUG_ONs of pick_next_pushable_task()), and its first
\* priority is the one that pullers read without the lock.
PushableExact ==
  \A c \in Cpu :
    /\ rq[c].pushable = {t \in queued(g0, c) : rq[c].curr # t /\ migratory(g0, t)}
    /\ rq[c].next = highest(g0, rq[c].pushable)

\* A run queue that pullers should look at is in the mask they read, counted
\* once, and no other is; and cpupri knows the priority of every run queue.
OverloadSeen ==
  /\ rd.rto_mask = {c \in Cpu : /\ rq[c].online
                                /\ Cardinality(queued(g0, c)) > 1
                                /\ \E t \in queued(g0, c) : migratory(g0, t)}
  /\ rd.rto_count = Cardinality(rd.rto_mask)
  /\ \A c \in Cpu : rd.cpupri[c] = IF rq[c].online THEN highest(g0, queued(g0, c)) ELSE CPUPRI_INVALID

\* What CPUs tell each other without locks is exact: the tasks a CPU can push,
\* which CPUs are overloaded, and the priority each runs.
PeersInformed == TypeOK /\ PushableExact /\ OverloadSeen

\* A task is only moved while no CPU runs it, and to a CPU it may use, even
\* when the lock was dropped between the choice and the move.
MovedWhileWaiting ==
  [][\A t \in Task : task'[t].cpu # task[t].cpu =>
       /\ ~runs(t)
       /\ task'[t].cpu \in task[t].allowed]_pp_vars

Quiet == \A c \in Cpu : idle(c) /\ ~rq[c].need_resched

\* Global priority scheduling on two CPUs: when all pushes, pulls and
\* reschedules are done no task waits while a CPU it may use runs a lower
\* priority, in whatever order wake-ups, switches, pushes and pulls went.
\* A push that gives up after RT_MAX_TRIES is no exception: what took the other
\* CPU is to be rescheduled there, and that CPU pulls when it is done.  Excused
\* is a change of a priority, of an affinity mask or of a root domain: nobody
\* pushes after those.  On three CPUs it does not hold: push_rt_task() takes a
\* task that is gone when the lock is taken again for one that migrated by
\* itself, and leaves the next pushable one where it is.
Balanced ==
  NrCpus = 2 /\ Quiet /\ ~excused =>
    \A t \in Task : task[t].on_rq /\ ~runs(t) =>
      \A c \in task[t].allowed : prio(g0, rq[c].curr) <= prio(g0, t)
=============================================================================
