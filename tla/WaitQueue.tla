----------------------------- MODULE WaitQueue ------------------------------
(***************************************************************************)
(* Wait queues of kernel/sched/core.c.  A queue is the sequence of the     *)
(* tasks whose entries are linked into it; a task has one entry at most.   *)
(* Entries whose WQ_FLAG_EXCLUSIVE is set are in exclusive, and asleep is  *)
(* the set of tasks for which try_to_wake_up() with the caller's mode      *)
(* would succeed.  Adding and removing entries is <linux/wait.h>, which is *)
(* not part of this repository.                                            *)
(***************************************************************************)
EXTENDS KernelList, FiniteSets

add_wait_queue(q, t)                == list_add(q, t)
add_wait_queue_tail_exclusive(q, t) == list_add_tail(q, t)
remove_wait_queue(q, t)             == list_del(q, t)

\* Exclusive tasks that a wake-up going through q has woken before entry i.
woken_before(q, i, asleep, exclusive) ==
  {j \in 1..(i - 1) : q[j] \in asleep \cap exclusive}

\* Fault: exclusive entries whose task is awake already count.
wake_up_counts_awake(q, asleep, exclusive, nr_exclusive) ==
  {q[i] : i \in {k \in 1..Len(q) :
     /\ q[k] \in asleep
     /\ \/ nr_exclusive = 0
        \/ Cardinality(woken_before(q, k, Entries(q), exclusive)) < nr_exclusive}}

\* __wake_up_common(): the tasks it wakes.  The scan ends once nr_exclusive
\* exclusive tasks were woken, entries whose task is awake already do not
\* count, and nr_exclusive = 0 never ends it.
wake_up_common(q, asleep, exclusive, nr_exclusive) ==
  {q[i] : i \in {k \in 1..Len(q) :
     /\ q[k] \in asleep
     /\ \/ nr_exclusive = 0
        \/ Cardinality(woken_before(q, k, asleep, exclusive)) < nr_exclusive}}

=============================================================================
