------------------------------ MODULE SleepOn -------------------------------
(***************************************************************************)
(* A wait queue head shared by the sleep_on() family, whose entries are    *)
(* not exclusive, and by exclusive waiters, with the __wake_up() family of *)
(* kernel/sched/core.c.  A task sets its state before it takes q->lock, so *)
(* signals and wake-ups come between the two.  Exclusive waiters are code  *)
(* outside this repository (wait_event_interruptible_exclusive() and the   *)
(* like); core.c sees their entries.                                       *)
(***************************************************************************)
EXTENDS Integers, WaitQueue

CONSTANTS
  Sleeper,      \* tasks that may wait on the queue
  Exclusive,    \* those that wait exclusively
  NrExclusive   \* values of nr_exclusive passed to __wake_up()

ASSUME SleepOnAssumption == NrExclusive \subseteq Nat

VARIABLES
  q,      \* q->task_list
  pc,     \* "out", "set" (state set, entry not linked), "in" schedule_timeout()
  state   \* "R", "S" or "D"

sleep_vars == <<q, pc, state>>

set_current_state(t, s) ==
  /\ pc[t] = "out"
  /\ state' = [state EXCEPT ![t] = s]
  /\ pc' = [pc EXCEPT ![t] = "set"]
  /\ UNCHANGED q

\* Fault: every entry goes last.
add_last(t) ==
  /\ pc[t] = "set"
  /\ q' = add_wait_queue_tail_exclusive(q, t)
  /\ pc' = [pc EXCEPT ![t] = "in"]
  /\ UNCHANGED state

\* sleep_on_common() links its entry first; exclusive waiters link theirs last.
add_to_queue(t) ==
  /\ pc[t] = "set"
  /\ q' = IF t \in Exclusive THEN add_wait_queue_tail_exclusive(q, t)
                             ELSE add_wait_queue(q, t)
  /\ pc' = [pc EXCEPT ![t] = "in"]
  /\ UNCHANGED state

\* schedule_timeout() returns to a task that is running again.
leave(t) ==
  /\ pc[t] = "in"
  /\ state[t] = "R"
  /\ q' = remove_wait_queue(q, t)
  /\ pc' = [pc EXCEPT ![t] = "out"]
  /\ UNCHANGED state

\* mode is TASK_INTERRUPTIBLE ({"S"}) or TASK_NORMAL ({"S", "D"}).
asleep_in(mode) == {t \in Sleeper : state[t] \in mode}

wake_up(mode, nr_exclusive) ==
  /\ state' = [t \in Sleeper |->
       IF t \in wake_up_common(q, asleep_in(mode), Exclusive, nr_exclusive)
         THEN "R" ELSE state[t]]
  /\ UNCHANGED <<q, pc>>

\* A timer, a signal or an unrelated wake_up_process().
wake_up_sleeper(t) ==
  /\ state[t] # "R"
  /\ state' = [state EXCEPT ![t] = "R"]
  /\ UNCHANGED <<q, pc>>

SleepInit ==
  /\ q = << >>
  /\ pc = [t \in Sleeper |-> "out"]
  /\ state = [t \in Sleeper |-> "R"]

WakeModes == {{"S"}, {"S", "D"}}

SleepNext ==
  \/ \E t \in Sleeper :
       \/ \E s \in {"S", "D"} : set_current_state(t, s)
       \/ add_to_queue(t) \/ leave(t) \/ wake_up_sleeper(t)
  \/ \E mode \in WakeModes, nr \in NrExclusive : wake_up(mode, nr)

SleepSpec == SleepInit /\ [][SleepNext]_sleep_vars

-----------------------------------------------------------------------------

\* The tasks on the queue a wake-up with this mode is meant for.
Sleepers(mode) == Entries(q) \cap asleep_in(mode)

\* "we wake all the non-exclusive tasks and one exclusive task": whatever the
\* order in which tasks joined the queue and left it, and whoever was woken by
\* something else in between, every non-exclusive sleeper is woken, and as many
\* exclusive ones as asked for, if there are as many.
WakesRight ==
  \A mode \in WakeModes, nr \in NrExclusive :
    wake_up(mode, nr) =>
      LET woken == {t \in Sleepers(mode) : state'[t] = "R"}
          excl  == Sleepers(mode) \cap Exclusive
      IN  /\ Sleepers(mode) \ Exclusive \subseteq woken
          /\ IF nr = 0 \/ nr > Cardinality(excl) THEN excl \subseteq woken
             ELSE Cardinality(woken \cap Exclusive) = nr

\* A task that is out of the queue's code is not linked and runs; one whose
\* entry is linked is linked once.
LinkedWhileWaiting ==
  /\ Linked(q)
  /\ Entries(q) = {t \in Sleeper : pc[t] = "in"}
  /\ \A t \in Sleeper : pc[t] = "out" => state[t] = "R"

\* A task outside the queue's code is not linked and runs, one inside is linked
\* once; a wake-up wakes every sleeper that is not exclusive, and as many exclusive
\* ones as it was asked to.
WakesTheRightTasks == []LinkedWhileWaiting /\ [][WakesRight]_sleep_vars

=============================================================================
