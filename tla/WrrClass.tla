------------------------------ MODULE WrrClass ------------------------------
(***************************************************************************)
(* The weighted round-robin scheduling class, kernel/sched/wrr.c, as       *)
(* functions of the run queue r (struct rq with its wrr_rq) and of a task  *)
(* record e (struct task_struct with its sched_wrr_entity).  SchedCore     *)
(* calls them the way core.c calls the class through struct sched_class.   *)
(*                                                                         *)
(* Of the run queue this class uses                                        *)
(*   active          the run list of queued entities, first to run first   *)
(*   wrr_nr_running  number of entities it counts as queued                *)
(*   total_weight    sum of weights it believes to be queued               *)
(*   nr_running      number of runnable tasks of every class               *)
(* and of a task                                                           *)
(*   weight, custom_weight, time_slice   of its sched_wrr_entity           *)
(*   group                               its sched_task_group              *)
(***************************************************************************)
EXTENDS Integers, KernelList

CONSTANTS
  WRR_WEIGHT_UNIT,  \* ticks of one unit of weight (10 * HZ / 1000)
  WRR_FG_WEIGHT,    \* weight of a foreground task (10 in the code)
  WRR_BG_WEIGHT,    \* weight of a background task (1 in the code)
  Group,            \* task groups of the cpu cgroup
  Background        \* those whose cgroup path starts with "/b"

ASSUME WrrAssumption ==
  /\ WRR_WEIGHT_UNIT \in Nat \ {0}
  /\ WRR_FG_WEIGHT \in Nat \ {0}
  /\ WRR_BG_WEIGHT \in Nat \ {0}
  /\ Background \subseteq Group

\* task_group_path(tg)[1] == 'b' selects the background weight.
wrr_if_fg(g) == g \notin Background

group_weight(g) == IF wrr_if_fg(g) THEN WRR_FG_WEIGHT ELSE WRR_BG_WEIGHT

\* A weight set through sched_setscheduler() is left alone.
update_weight(e) ==
  IF e.custom_weight THEN e ELSE [e EXCEPT !.weight = group_weight(e.group)]

get_rr_interval_wrr(e) == e.weight * WRR_WEIGHT_UNIT

\* Faults: the weight is not refreshed; the slice is not refilled.
enqueue_stale_weight(e) == [e EXCEPT !.time_slice = get_rr_interval_wrr(e)]
enqueue_stale_slice(e)  == update_weight(e)

\* The entity's side of enqueue_wrr_entity(): a fresh weight and a full slice.
enqueue_wrr_entity(e) ==
  LET u == update_weight(e)
  IN  [u EXCEPT !.time_slice = get_rr_interval_wrr(u)]

\* Faults: the entity is linked without being unlinked first; it always goes
\* to the head.
requeue_twice(q, t, head) == IF head THEN list_add(q, t) ELSE list_add_tail(q, t)
requeue_first(q, t, head) == list_move(q, t)

requeue_wrr_entity(q, t, head) ==
  IF head THEN list_move(q, t) ELSE list_move_tail(q, t)

\* e is the entity of t after enqueue_wrr_entity().
enqueue_task_wrr(r, t, e, head) ==
  [r EXCEPT !.active = requeue_wrr_entity(@, t, head),
            !.total_weight = @ + e.weight,
            !.wrr_nr_running = @ + 1,
            !.nr_running = @ + 1]

\* Faults: the weight taken off is the one the group has now; nr_running is
\* not decremented.
dequeue_group_weight(r, t, e) ==
  [r EXCEPT !.active = list_del(@, t),
            !.total_weight = @ - group_weight(e.group),
            !.wrr_nr_running = @ - 1,
            !.nr_running = @ - 1]
dequeue_uncounted(r, t, e) ==
  [r EXCEPT !.active = list_del(@, t),
            !.total_weight = @ - e.weight,
            !.wrr_nr_running = @ - 1]

dequeue_task_wrr(r, t, e) ==
  [r EXCEPT !.active = list_del(@, t),
            !.total_weight = @ - e.weight,
            !.wrr_nr_running = @ - 1,
            !.nr_running = @ - 1]

yield_task_wrr(r, t) == [r EXCEPT !.active = requeue_wrr_entity(@, t, FALSE)]

\* wrr_throttled() compares the nanoseconds of the wall clock, modulo 100,
\* with 71: to the scheduler either answer may come at any call.
wrr_throttled == BOOLEAN

\* The task the class offers, none when it has no task or is throttled.
pick_next_task_wrr(r, throttled) ==
  IF r.wrr_nr_running = 0 \/ throttled THEN {} ELSE {r.active[1]}

\* task_tick_wrr(): the slice after one tick of the running task.
tick_slice_wrr(e) ==
  LET left == (IF e.time_slice <= 0 THEN 1 ELSE e.time_slice) - 1
  IN  IF left # 0 THEN left ELSE get_rr_interval_wrr(e)

tick_expires_wrr(e) == e.time_slice <= 1

\* Fault: the running task stays first when its slice has expired.
tick_retires_never(r, e, throttled) == FALSE

\* The expired task goes to the back when another task is queued (its prev and
\* next links differ), or when the class is throttled at this moment.
tick_retires_wrr(r, e, throttled) ==
  tick_expires_wrr(e) /\ (Len(r.active) > 1 \/ throttled)

=============================================================================
