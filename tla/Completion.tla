----------------------------- MODULE Completion -----------------------------
(***************************************************************************)
(* A struct completion of kernel/sched/core.c and the tasks that wait for  *)
(* it: complete(), complete_all(), the wait_for_completion() family and    *)
(* try_wait_for_completion().                                              *)
(*                                                                         *)
(* x->wait.lock makes everything between taking and releasing it one step. *)
(* A waiter gives it up while it sleeps in schedule_timeout(), so another  *)
(* waiter, a completion, the timer, a signal or an unrelated wake-up may   *)
(* come between any two rounds of its loop, and between being woken and    *)
(* taking the lock again.                                                  *)
(***************************************************************************)
EXTENDS Integers, WaitQueue

CONSTANTS
  Waiter,    \* the tasks that may wait
  Mode,      \* states they wait in: "S" interruptible, "D" not, "K" killable
  Timeout,   \* timeouts in jiffies of the calls that have one
  Forever,   \* MAX_SCHEDULE_TIMEOUT
  UINT_MAX   \* largest value of x->done

ASSUME CompletionAssumption ==
  /\ IsFiniteSet(Waiter)
  /\ Mode \subseteq {"S", "D", "K"}
  /\ Timeout \subseteq Nat
  /\ Forever \notin Nat
  /\ UINT_MAX \in Nat \ {0}

VARIABLES
  done,      \* x->done
  wait,      \* x->wait.task_list
  task       \* what matters here of every waiter's task_struct and stack

vars == <<done, wait, task>>

\* in_wait: inside the loop of do_wait_for_common(); state: "R" or the state
\* it sleeps in; left: jiffies until its timer; signal: the pending signal.
NotWaiting(signal) ==
  [in_wait |-> FALSE, state |-> "R", mode |-> "D", left |-> Forever, signal |-> signal]

-----------------------------------------------------------------------------

signal_pending_state(mode, signal) ==
  \/ mode = "S" /\ signal # "none"
  \/ mode = "K" /\ signal = "kill"

\* TASK_NORMAL matches every state a waiter sleeps in.
asleep == {w \in Waiter : task[w].state # "R"}

try_to_wake_up(tasks) ==
  [w \in Waiter |-> IF w \in tasks THEN [task[w] EXCEPT !.state = "R"] ELSE task[w]]

\* n events arrive, and nr_exclusive waiters are woken for them.
post(n, nr_exclusive) ==
  /\ done' = (done + n) % (UINT_MAX + 1)
  /\ task' = try_to_wake_up(wake_up_common(wait, asleep, Waiter, nr_exclusive))
  /\ UNCHANGED wait

complete == post(1, 1)

complete_all == post(UINT_MAX \div 2, 0)

\* Once more round the loop, with the lock held: a signal ends the wait, else
\* the waiter sleeps.
sleep_again(w, e, q) ==
  IF signal_pending_state(e.mode, e.signal)
    THEN /\ task' = [task EXCEPT ![w] = NotWaiting(e.signal)]
         /\ wait' = remove_wait_queue(q, w)
    ELSE /\ task' = [task EXCEPT ![w] = [e EXCEPT !.state = e.mode]]
         /\ wait' = q

\* The call of wait_for_common(), up to the first sleep or its return.
wait_for_common(w, mode, timeout) ==
  /\ ~task[w].in_wait
  /\ \/ /\ done # 0
        /\ done' = done - 1
        /\ UNCHANGED <<wait, task>>
     \/ /\ done = 0
        /\ sleep_again(w, [in_wait |-> TRUE, state |-> "R", mode |-> mode,
                           left |-> timeout, signal |-> task[w].signal],
                       add_wait_queue_tail_exclusive(wait, w))
        /\ UNCHANGED done

\* Faults: an expired timer ends the wait whatever done is; it does not end it.
resume_expired(w) ==
  /\ task[w].in_wait
  /\ task[w].state = "R"
  /\ \/ /\ done = 0 /\ task[w].left # 0
        /\ sleep_again(w, task[w], wait)
        /\ UNCHANGED done
     \/ /\ done # 0 \/ task[w].left = 0
        /\ wait' = remove_wait_queue(wait, w)
        /\ task' = [task EXCEPT ![w] = NotWaiting(task[w].signal)]
        /\ done' = IF task[w].left = 0 THEN done ELSE done - 1
resume_untimed(w) ==
  /\ task[w].in_wait
  /\ task[w].state = "R"
  /\ \/ /\ done = 0
        /\ sleep_again(w, task[w], wait)
        /\ UNCHANGED done
     \/ /\ done # 0
        /\ wait' = remove_wait_queue(wait, w)
        /\ task' = [task EXCEPT ![w] = NotWaiting(task[w].signal)]
        /\ done' = done - 1

\* schedule_timeout() returns and the lock is taken again.
resume(w) ==
  /\ task[w].in_wait
  /\ task[w].state = "R"
  /\ \/ /\ done = 0 /\ task[w].left # 0
        /\ sleep_again(w, task[w], wait)
        /\ UNCHANGED done
     \/ /\ done # 0 \/ task[w].left = 0
        /\ wait' = remove_wait_queue(wait, w)
        /\ task' = [task EXCEPT ![w] = NotWaiting(task[w].signal)]
        /\ done' = IF done = 0 THEN 0 ELSE done - 1

try_wait_for_completion ==
  /\ done # 0
  /\ done' = done - 1
  /\ UNCHANGED <<wait, task>>

-----------------------------------------------------------------------------
(* The rest of the kernel *)

\* A jiffy passes for the timers of schedule_timeout().
jiffy ==
  /\ \E w \in Waiter : task[w].left \in Nat \ {0}
  /\ task' = [w \in Waiter |->
       IF task[w].left \in Nat \ {0} THEN [task[w] EXCEPT !.left = @ - 1] ELSE task[w]]
  /\ UNCHANGED <<done, wait>>

\* process_timeout(), and any other wake_up_process() of the task.
wake_up_process(w) ==
  /\ w \in asleep
  /\ task' = try_to_wake_up({w})
  /\ UNCHANGED <<done, wait>>

\* A signal arrives, and wakes a task that waits in a state it interrupts.
signal_wake_up(w, signal) ==
  /\ task[w].signal = "none"
  /\ task' = [task EXCEPT
       ![w].signal = signal,
       ![w].state = IF signal_pending_state(task[w].mode, signal) THEN "R" ELSE @]
  /\ UNCHANGED <<done, wait>>

\* Signals are handled when the task returns to user mode.
handle_signal(w) ==
  /\ ~task[w].in_wait
  /\ task[w].signal # "none"
  /\ task' = [task EXCEPT ![w] = NotWaiting("none")]
  /\ UNCHANGED <<done, wait>>

Init ==
  /\ done = 0
  /\ wait = << >>
  /\ task = [w \in Waiter |-> NotWaiting("none")]

Next ==
  \/ complete \/ complete_all \/ try_wait_for_completion \/ jiffy
  \/ \E w \in Waiter :
       \/ \E mode \in Mode, timeout \in Timeout \cup {Forever} :
            wait_for_common(w, mode, timeout)
       \/ resume(w) \/ wake_up_process(w) \/ handle_signal(w)
       \/ \E signal \in {"signal", "kill"} : signal_wake_up(w, signal)

Spec == Init /\ [][Next]_vars

\* Jiffies pass, expired timers fire, and a waiter that was woken runs again.
Fairness ==
  /\ WF_vars(jiffy)
  /\ \A w \in Waiter :
       WF_vars(resume(w)) /\ WF_vars(task[w].left = 0 /\ wake_up_process(w))

-----------------------------------------------------------------------------
(* Properties *)

TaskState ==
  [in_wait : BOOLEAN, state : {"R", "S", "D", "K"}, mode : {"S", "D", "K"},
   left : Nat \cup {Forever}, signal : {"none", "signal", "kill"}]

\* Type correctness; the counter stays an unsigned int.
TypeOK ==
  /\ done \in 0..UINT_MAX
  /\ wait \in Seq(Waiter)
  /\ task \in [Waiter -> TaskState]

\* The wait queue holds exactly the tasks inside the loop, once each, whoever
\* left it by a completion, a signal or a timeout; nobody sleeps elsewhere.
WaitersQueued ==
  /\ Linked(wait)
  /\ Entries(wait) = {w \in Waiter : task[w].in_wait}
  /\ asleep \subseteq Entries(wait)

awake_waiters == Entries(wait) \ asleep

\* No completion is lost: while somebody sleeps, at least as many waiters are
\* on their way to take an event as there are events, although any of them may
\* have been woken by its timer or a signal, and a newcomer may take an event
\* meant for one of them.
NoLostCompletion ==
  asleep # {} => done <= Cardinality(awake_waiters)

\* "Threads will be awakened in the same order in which they were queued":
\* complete() wakes a task only if nobody queued before it goes on sleeping.
WokenInOrder ==
  [][done' # done =>
       \A i, j \in 1..Len(wait) :
         /\ i < j
         /\ task[wait[j]].state # "R"
         /\ task'[wait[j]].state = "R"
         => task'[wait[i]].state = "R"]_vars

\* The completion is a counting semaphore: each wait that succeeds takes one
\* event, and a waiter that times out or is interrupted leaves while there is
\* none.
Semaphore ==
  INSTANCE CountingSemaphore
    WITH events <- done, waiting <- {w \in Waiter : task[w].in_wait}

ImplementsSemaphore == Semaphore!Spec

\* An event does not lie there while a task goes on waiting.
WaitersServed ==
  \A w \in Waiter : done # 0 /\ task[w].in_wait ~> done = 0 \/ ~task[w].in_wait

\* A wait with a timeout ends, however often it is woken for nothing.
TimedWaitEnds ==
  \A w \in Waiter : task[w].in_wait /\ task[w].left # Forever ~> ~task[w].in_wait

=============================================================================
