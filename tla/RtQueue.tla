------------------------------ MODULE RtQueue -------------------------------
(***************************************************************************)
(* The real-time scheduling class, kernel/sched/rt.c, as far as one CPU's  *)
(* priority array goes: one list per priority, the bitmap that indexes the *)
(* non-empty ones, SCHED_RR slices and the preemption rules.  Bandwidth    *)
(* throttling and group run queues are not part of this module.            *)
(*                                                                         *)
(* Of the run queue this class uses                                        *)
(*   rt_queue       one list of queued tasks per priority                  *)
(*   rt_bitmap      the priorities whose list is taken to be non-empty     *)
(*   rt_nr_running  number of tasks it counts as queued                    *)
(*   nr_running     number of runnable tasks of every class                *)
(* and of a task: prio, policy, rt_time_slice.  Smaller prio runs first.   *)
(***************************************************************************)
EXTENDS Integers, KernelList

CONSTANTS
  MAX_RT_PRIO,   \* priorities 0 .. MAX_RT_PRIO - 1 are real time
  RR_TIMESLICE   \* ticks of a SCHED_RR slice

ASSUME RtAssumption ==
  /\ MAX_RT_PRIO \in Nat \ {0}
  /\ RR_TIMESLICE \in Nat \ {0}

RtPrio == 0..(MAX_RT_PRIO - 1)

rt_prio(prio) == prio < MAX_RT_PRIO

\* sched_find_first_bit(array->bitmap)
first_bit(bits) == CHOOSE b \in bits : \A c \in bits : b <= c

\* __dequeue_rt_entity() unlinks the task from wherever it is linked, but
\* clears the bit of the priority the task has now.
dequeue_task_rt(r, t, e) ==
  LET queue == [b \in RtPrio |-> list_del(r.rt_queue[b], t)]
  IN  [r EXCEPT !.rt_queue = queue,
                !.rt_bitmap = IF queue[e.prio] = << >> THEN @ \ {e.prio} ELSE @,
                !.rt_nr_running = @ - 1,
                !.nr_running = @ - 1]

enqueue_task_rt(r, t, e, head) ==
  [r EXCEPT !.rt_queue[e.prio] = IF head THEN list_add(@, t)
                                         ELSE list_add_tail(@, t),
            !.rt_bitmap = @ \cup {e.prio},
            !.rt_nr_running = @ + 1,
            !.nr_running = @ + 1]

\* requeue_task_rt(rq, p, 0), also the whole of yield_task_rt().
requeue_task_rt(r, t, e) ==
  IF t \in Entries(r.rt_queue[e.prio])
    THEN [r EXCEPT !.rt_queue[e.prio] = list_move_tail(@, t)]
    ELSE r

pick_next_task_rt(r) ==
  IF r.rt_nr_running = 0 THEN {} ELSE {r.rt_queue[first_bit(r.rt_bitmap)][1]}

\* check_preempt_curr_rt() without CONFIG_SMP.
check_preempt_curr_rt(e, currprio) == e.prio < currprio

\* task_tick_rt(): FIFO tasks have no slice.
tick_slice_rt(e) ==
  IF e.policy # "RR" THEN e.rt_time_slice
  ELSE IF e.rt_time_slice # 1 THEN e.rt_time_slice - 1 ELSE RR_TIMESLICE

tick_retires_rt(r, e) ==
  /\ e.policy = "RR"
  /\ e.rt_time_slice = 1
  /\ Len(r.rt_queue[e.prio]) > 1

\* switched_to_rt() and prio_changed_rt() without CONFIG_SMP: is the running
\* task to be rescheduled?  old and e are the task before and after the change.
switched_to_rt(e, running, currprio) ==
  e.on_rq /\ ~running /\ e.prio < currprio

prio_changed_rt(old, e, running, currprio) ==
  e.on_rq /\ IF running THEN old.prio < e.prio ELSE e.prio < currprio

=============================================================================
