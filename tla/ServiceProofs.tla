--------------------------- MODULE ServiceProofs ----------------------------
(***************************************************************************)
(* Theorems about the parts of kernel/sched/core.c that keep state of      *)
(* their own: Completion, for any number of waiters, any timeouts and any  *)
(* width of the counter; SleepOn, for any number of tasks that join and    *)
(* leave a wait queue; LoadAvg, for every length of windows and periods,   *)
(* any weights and any number of active tasks; the run queue's clock of    *)
(* CpuClock, for words of any size; and Affinity, for any number of calls. *)
(***************************************************************************)
EXTENDS Completion, SleepOn, LoadAvg, CpuClock, Affinity, DataProofs

-----------------------------------------------------------------------------
(* Completion *)

\* The tasks inside the loop of do_wait_for_common().
Waiting == {w \in Waiter : task[w].in_wait}

-----------------------------------------------------------------------------
(* Waking *)

\* Only sleeping tasks are woken.
LEMMA WakesSleepers ==
  ASSUME NEW n
  PROVE  wake_up_common(wait, asleep, Waiter, n) \subseteq asleep
BY DEF wake_up_common

\* nr_exclusive = 0 wakes every sleeping task on the queue.
LEMMA WakesAll ==
  ASSUME WaitersQueued
  PROVE  wake_up_common(wait, asleep, Waiter, 0) = asleep
BY DEF wake_up_common, WaitersQueued, Entries

\* nr_exclusive = 1 wakes somebody if somebody sleeps.
LEMMA WakesOne ==
  ASSUME TypeOK, WaitersQueued, asleep # {}
  PROVE  \E w \in asleep : w \in wake_up_common(wait, asleep, Waiter, 1)
<1> DEFINE S == {i \in 1..Len(wait) : wait[i] \in asleep}
<1>1. S \subseteq Nat /\ S # {}
  BY DEF WaitersQueued, Entries, TypeOK
<1>2. PICK i \in S : \A j \in S : i <= j
  BY <1>1, Least
<1>3. woken_before(wait, i, asleep, Waiter) = {}
  BY <1>1, <1>2 DEF woken_before, TypeOK
<1>4. Cardinality(woken_before(wait, i, asleep, Waiter)) = 0
  BY <1>3, FS_EmptySet
<1>5. wait[i] \in wake_up_common(wait, asleep, Waiter, 1)
  BY <1>2, <1>4 DEF wake_up_common
<1> QED BY <1>2, <1>5

\* Unsigned arithmetic stays within the width and does not exceed the sum.
LEMMA Unsigned ==
  ASSUME NEW d \in Nat, NEW n \in Nat
  PROVE  (d + n) % (UINT_MAX + 1) \in 0..UINT_MAX /\ (d + n) % (UINT_MAX + 1) <= d + n
<1>1. ASSUME NEW a \in Nat, NEW m \in Nat \ {0}
      PROVE  a % m \in 0..(m - 1) /\ a % m <= a
  OBVIOUS
<1>2. d + n \in Nat /\ UINT_MAX + 1 \in Nat \ {0} /\ (UINT_MAX + 1) - 1 = UINT_MAX
  BY CompletionAssumption
<1> DEFINE a == d + n
           m == UINT_MAX + 1
<1>3. a \in Nat /\ m \in Nat \ {0} /\ m - 1 = UINT_MAX
  BY <1>2
<1> HIDE DEF a, m
<1>4. a % m \in 0..UINT_MAX /\ a % m <= a
  BY <1>1, <1>3
<1> QED BY <1>4 DEF a, m

-----------------------------------------------------------------------------
(* The invariant *)

\* The invariant: the three together are inductive.
Inv == TypeOK /\ WaitersQueued /\ NoLostCompletion

\* Sleeping tasks are waiters, and the sets a step moves tasks between are
\* finite.
LEMMA Finite ==
  ASSUME Inv
  PROVE  /\ IsFiniteSet(awake_waiters)
         /\ Cardinality(awake_waiters) \in Nat
         /\ asleep \subseteq Waiting
         /\ Entries(wait) = Waiting
         /\ awake_waiters = {w \in Waiting : task[w].state = "R"}
<1>1. Entries(wait) = Waiting /\ asleep \subseteq Waiting
  BY DEF Inv, WaitersQueued, Waiting
<1>2. awake_waiters \in SUBSET Waiter
  BY <1>1 DEF awake_waiters, Waiting
<1>3. IsFiniteSet(awake_waiters)
  BY <1>2, CompletionAssumption, FS_Subset
<1>4. awake_waiters = {w \in Waiting : task[w].state = "R"}
  BY <1>1 DEF awake_waiters, asleep, Waiting
<1> QED BY <1>1, <1>3, <1>4, FS_CardinalityType

\* Waking tasks of a set that is asleep keeps everybody waiting who waited.
LEMMA Waking ==
  ASSUME Inv, NEW W, W \subseteq asleep,
         task' = try_to_wake_up(W), wait' = wait
  PROVE  /\ task' \in [Waiter -> TaskState]
         /\ WaitersQueued'
         /\ Waiting' = Waiting
         /\ asleep' = asleep \ W
         /\ awake_waiters' = awake_waiters \cup W
<1>1. task' \in [Waiter -> TaskState]
  BY DEF Inv, TypeOK, try_to_wake_up, TaskState
<1>2. \A w \in Waiter : /\ task'[w].in_wait = task[w].in_wait
                        /\ task'[w].state = IF w \in W THEN "R" ELSE task[w].state
  BY DEF Inv, TypeOK, try_to_wake_up, TaskState
<1>3. Waiting' = Waiting /\ asleep' = asleep \ W
  BY <1>2 DEF Waiting, asleep
<1>4. Entries(wait)' = Entries(wait) /\ Linked(wait)'
  BY DEF Inv, WaitersQueued, Entries, Linked
<1>5. WaitersQueued'
  BY <1>3, <1>4, Finite DEF WaitersQueued, Waiting, Inv
<1>6. awake_waiters' = awake_waiters \cup W
  BY <1>3, <1>4, Finite DEF awake_waiters
<1> QED BY <1>1, <1>3, <1>5, <1>6

\* complete() posts one event, wakes a sleeper for it and lets nobody leave.
LEMMA StepComplete ==
  ASSUME Inv, complete
  PROVE  Inv' /\ done' = (done + 1) % (UINT_MAX + 1) /\ Waiting' = Waiting
<1> DEFINE W == wake_up_common(wait, asleep, Waiter, 1)
<1>1. /\ done' = (done + 1) % (UINT_MAX + 1)
      /\ task' = try_to_wake_up(W)
      /\ wait' = wait
  BY DEF complete, post
<1>2. done \in Nat /\ UINT_MAX + 1 \in Nat \ {0} /\ UINT_MAX \in Nat
  BY CompletionAssumption DEF Inv, TypeOK
<1>3. done' \in 0..UINT_MAX /\ done' <= done + 1
  BY <1>1, <1>2, Unsigned
<1>4. W \subseteq asleep
  BY WakesSleepers
<1> HIDE DEF W
<1>5. TypeOK' /\ WaitersQueued'
  BY <1>1, <1>3, <1>4, Waking DEF TypeOK, Inv
<1>6. ASSUME asleep' # {}
      PROVE  done' <= Cardinality(awake_waiters')
  <2>1. asleep # {}
    BY <1>1, <1>4, <1>6, Waking
  <2>2. PICK w \in asleep : w \in W
    BY <2>1, WakesOne DEF W, Inv
  <2>3. awake_waiters \cup {w} \in SUBSET awake_waiters'
    BY <1>1, <1>4, <2>2, Waking
  <2>4. w \notin awake_waiters
    BY <2>2 DEF awake_waiters
  <2>5. Cardinality(awake_waiters \cup {w}) = Cardinality(awake_waiters) + 1
    BY <2>4, Finite, FS_AddElement
  <2>6. IsFiniteSet(awake_waiters')
    <3>1. awake_waiters' \in SUBSET Waiter
      BY <1>1, <1>4, Waking, Finite DEF awake_waiters, asleep, Waiting
    <3> QED BY <3>1, CompletionAssumption, FS_Subset
  <2>7. Cardinality(awake_waiters \cup {w}) <= Cardinality(awake_waiters')
    BY <2>3, <2>6, FS_Subset
  <2>8. Cardinality(awake_waiters') \in Nat
    BY <2>6, FS_CardinalityType
  <2>9. done <= Cardinality(awake_waiters)
    BY <2>1 DEF Inv, NoLostCompletion
  <2> QED BY <1>2, <1>3, <2>5, <2>7, <2>8, <2>9, Finite
<1>7. Waiting' = Waiting
  BY <1>1, <1>4, Waking
<1> QED BY <1>1, <1>5, <1>6, <1>7 DEF Inv, NoLostCompletion

\* complete_all() posts UINT_MAX/2 events and leaves nobody asleep.
LEMMA StepCompleteAll ==
  ASSUME Inv, complete_all
  PROVE  /\ Inv'
         /\ done' = (done + UINT_MAX \div 2) % (UINT_MAX + 1)
         /\ Waiting' = Waiting
<1>1. /\ done' = (done + UINT_MAX \div 2) % (UINT_MAX + 1)
      /\ task' = try_to_wake_up(asleep)
      /\ wait' = wait
  BY WakesAll DEF complete_all, post, Inv
<1>2. done \in Nat /\ UINT_MAX + 1 \in Nat \ {0} /\ UINT_MAX \in Nat /\ UINT_MAX \div 2 \in Nat
  BY CompletionAssumption DEF Inv, TypeOK
<1>3. done' \in 0..UINT_MAX
  BY <1>1, <1>2, Unsigned
<1>4. TypeOK' /\ WaitersQueued' /\ asleep' = {} /\ Waiting' = Waiting
  BY <1>1, <1>3, Waking DEF TypeOK, Inv
<1> QED BY <1>1, <1>4 DEF Inv, NoLostCompletion

\* A waiter's record changes, but not whether it waits.
LEMMA Stays ==
  ASSUME Inv, NEW w \in Waiter, NEW e \in TaskState,
         e.in_wait = task[w].in_wait, e.state # "R" => e.in_wait,
         task' = [task EXCEPT ![w] = e], wait' = wait
  PROVE  /\ task' \in [Waiter -> TaskState]
         /\ WaitersQueued'
         /\ Waiting' = Waiting
<1>1. task' \in [Waiter -> TaskState]
  BY DEF Inv, TypeOK
<1>2. \A v \in Waiter : task'[v] = IF v = w THEN e ELSE task[v]
  BY DEF Inv, TypeOK
<1>3. Waiting' = Waiting
  BY <1>2 DEF Waiting
<1>4. \A v \in Waiter : task[v].state # "R" => task[v].in_wait
  BY Finite DEF asleep, Waiting
<1>5. asleep' \subseteq Waiting
  BY <1>2, <1>4 DEF asleep, Waiting
<1>6. Entries(wait)' = Entries(wait) /\ Linked(wait)'
  BY DEF Inv, WaitersQueued, Entries, Linked
<1>7. WaitersQueued'
  BY <1>3, <1>5, <1>6, Finite DEF WaitersQueued, Waiting
<1> QED BY <1>1, <1>3, <1>7

\* A task joins the queue.
LEMMA Joins ==
  ASSUME Inv, NEW w \in Waiter \ Waiting, NEW e \in TaskState, e.in_wait,
         task' = [task EXCEPT ![w] = e],
         wait' = add_wait_queue_tail_exclusive(wait, w)
  PROVE  /\ task' \in [Waiter -> TaskState]
         /\ wait' \in Seq(Waiter)
         /\ WaitersQueued'
         /\ Waiting' = Waiting \cup {w}
<1>1. task' \in [Waiter -> TaskState]
  BY DEF Inv, TypeOK
<1>2. \A v \in Waiter : task'[v] = IF v = w THEN e ELSE task[v]
  BY DEF Inv, TypeOK
<1>3. Waiting' = Waiting \cup {w}
  BY <1>2 DEF Waiting
<1>4. \A v \in Waiter : task[v].state # "R" => task[v].in_wait
  BY Finite DEF asleep, Waiting
<1>5. asleep' \subseteq Waiting'
  BY <1>2, <1>4 DEF asleep, Waiting
<1>6. /\ wait' \in Seq(Waiter)
      /\ Entries(wait') = Entries(wait) \cup {w}
      /\ Linked(wait')
  BY AddLast, Finite DEF Inv, TypeOK, WaitersQueued, add_wait_queue_tail_exclusive
<1>7. WaitersQueued'
  BY <1>3, <1>5, <1>6, Finite DEF WaitersQueued, Waiting, Entries, Linked
<1> QED BY <1>1, <1>3, <1>6, <1>7

\* A waiter leaves the loop and the queue.
LEMMA Leaves ==
  ASSUME Inv, NEW w \in Waiting, NEW e \in TaskState, ~e.in_wait, e.state = "R",
         task' = [task EXCEPT ![w] = e],
         wait' = remove_wait_queue(wait, w)
  PROVE  /\ task' \in [Waiter -> TaskState]
         /\ wait' \in Seq(Waiter)
         /\ WaitersQueued'
         /\ Waiting' = Waiting \ {w}
         /\ asleep' = asleep \ {w}
         /\ awake_waiters' = awake_waiters \ {w}
<1>1. task' \in [Waiter -> TaskState]
  BY DEF Inv, TypeOK
<1>2. \A v \in Waiter : task'[v] = IF v = w THEN e ELSE task[v]
  BY DEF Inv, TypeOK
<1>3. Waiting' = Waiting \ {w} /\ asleep' = asleep \ {w}
  BY <1>2 DEF Waiting, asleep
<1>4. /\ wait' \in Seq(Waiter)
      /\ Entries(wait') = Entries(wait) \ {w}
      /\ Linked(wait')
  BY DelLinkedEntry, Finite DEF Inv, TypeOK, WaitersQueued, remove_wait_queue
<1>5. WaitersQueued'
  BY <1>3, <1>4, Finite DEF WaitersQueued, Waiting, Entries, Linked
<1>6. awake_waiters' = awake_waiters \ {w}
  BY <1>3, <1>4, Finite DEF awake_waiters, Entries
<1> QED BY <1>1, <1>3, <1>4, <1>5, <1>6

-----------------------------------------------------------------------------

\* A task outside the loop, whatever signal is pending.
LEMMA NotWaitingType ==
  ASSUME NEW signal \in {"none", "signal", "kill"}
  PROVE  /\ NotWaiting(signal) \in TaskState
         /\ ~NotWaiting(signal).in_wait
         /\ NotWaiting(signal).state = "R"
BY DEF NotWaiting, TaskState

\* What wait_for_common() does to the queue when there is no event.
LEMMA StepWait ==
  ASSUME Inv, NEW w \in Waiter, NEW mode \in Mode, NEW timeout \in Timeout \cup {Forever},
         wait_for_common(w, mode, timeout)
  PROVE  /\ Inv'
         /\ \/ done # 0 /\ done' = done - 1 /\ Waiting' = Waiting
            \/ done = 0 /\ done' = 0 /\ Waiting' = Waiting
            \/ done = 0 /\ done' = 0 /\ w \notin Waiting /\ Waiting' = Waiting \cup {w}
<1> DEFINE e == [in_wait |-> TRUE, state |-> "R", mode |-> mode,
                 left |-> timeout, signal |-> task[w].signal]
           list == add_wait_queue_tail_exclusive(wait, w)
<1>1. w \in Waiter \ Waiting /\ done \in 0..UINT_MAX /\ UINT_MAX \in Nat
  BY CompletionAssumption DEF wait_for_common, Waiting, Inv, TypeOK
<1>2. task[w] \in TaskState /\ mode \in {"S", "D", "K"} /\ timeout \in Nat \cup {Forever}
  BY CompletionAssumption DEF Inv, TypeOK
<1>3. e \in TaskState /\ e.in_wait /\ e.signal = task[w].signal /\ e.mode = mode
      /\ [e EXCEPT !.state = mode] \in TaskState /\ [e EXCEPT !.state = mode].in_wait
      /\ task[w].signal \in {"none", "signal", "kill"}
  BY <1>2 DEF TaskState
<1>4. CASE done # 0 /\ done' = done - 1 /\ UNCHANGED <<wait, task>>
  <2>1. TypeOK' /\ WaitersQueued' /\ Waiting' = Waiting /\ asleep' = asleep
        /\ awake_waiters' = awake_waiters
    BY <1>1, <1>4 DEF Inv, TypeOK, WaitersQueued, Waiting, asleep, awake_waiters, Entries, Linked
  <2>2. NoLostCompletion'
    BY <1>1, <1>4, <2>1, Finite DEF Inv, NoLostCompletion
  <2> QED BY <1>4, <2>1, <2>2 DEF Inv
<1>5. CASE done = 0 /\ sleep_again(w, e, list) /\ UNCHANGED done
  <2>1. CASE signal_pending_state(mode, task[w].signal)
    <3>1. task' = [task EXCEPT ![w] = NotWaiting(task[w].signal)] /\ wait' = remove_wait_queue(list, w)
      BY <1>3, <1>5, <2>1 DEF sleep_again
    <3>2. list \in Seq(Waiter) /\ Entries(list) = Waiting \cup {w} /\ Linked(list)
      BY <1>1, AddLast, Finite DEF Inv, TypeOK, WaitersQueued, add_wait_queue_tail_exclusive
    <3> HIDE DEF list
    <3>3. wait' \in Seq(Waiter) /\ Entries(wait') = Waiting /\ Linked(wait')
      <4>1. w \in Entries(list) /\ wait' = list_del(list, w)
        BY <3>1, <3>2 DEF remove_wait_queue
      <4>2. wait' \in Seq(Waiter) /\ Entries(wait') = Entries(list) \ {w} /\ Linked(wait')
        BY <3>2, <4>1, DelLinkedEntry
      <4>3. (Waiting \cup {w}) \ {w} = Waiting
        BY <1>1
      <4> QED BY <3>2, <4>2, <4>3
    <3>4. /\ task' \in [Waiter -> TaskState]
          /\ \A v \in Waiter : task'[v] = IF v = w THEN NotWaiting(task[w].signal) ELSE task[v]
      BY <1>3, <3>1, NotWaitingType DEF Inv, TypeOK
    <3>5. Waiting' = Waiting /\ asleep' \subseteq asleep
      BY <1>1, <1>3, <3>4, NotWaitingType DEF Waiting, asleep
    <3>6. WaitersQueued'
      BY <3>3, <3>5, Finite DEF WaitersQueued, Waiting, Entries, Linked
    <3>7. Cardinality(awake_waiters') \in Nat
      <4>1. awake_waiters' \in SUBSET Waiter
        BY <3>6 DEF WaitersQueued, awake_waiters
      <4> QED BY <4>1, CompletionAssumption, FS_Subset, FS_CardinalityType
    <3>8. NoLostCompletion'
      BY <1>5, <3>7 DEF NoLostCompletion
    <3> QED BY <1>1, <1>5, <3>3, <3>4, <3>5, <3>6, <3>8 DEF Inv, TypeOK
  <2>2. CASE ~signal_pending_state(mode, task[w].signal)
    <3>1. task' = [task EXCEPT ![w] = [e EXCEPT !.state = mode]] /\ wait' = list
      BY <1>3, <1>5, <2>2 DEF sleep_again
    <3>2. /\ task' \in [Waiter -> TaskState]
          /\ wait' \in Seq(Waiter)
          /\ WaitersQueued'
          /\ Waiting' = Waiting \cup {w}
      BY <1>1, <1>3, <3>1, Joins
    <3>7. Cardinality(awake_waiters') \in Nat
      <4>1. awake_waiters' \in SUBSET Waiter
        BY <3>2 DEF WaitersQueued, awake_waiters
      <4> QED BY <4>1, CompletionAssumption, FS_Subset, FS_CardinalityType
    <3>8. NoLostCompletion'
      BY <1>5, <3>7 DEF NoLostCompletion
    <3> QED BY <1>1, <1>5, <3>2, <3>8 DEF Inv, TypeOK
  <2> QED BY <2>1, <2>2
<1> QED BY <1>4, <1>5 DEF wait_for_common

\* What resume() does to the counter and the waiters.
LEMMA StepResume ==
  ASSUME Inv, NEW w \in Waiter, resume(w)
  PROVE  /\ Inv'
         /\ w \in Waiting
         /\ \/ done # 0 /\ done' = done - 1 /\ Waiting' = Waiting \ {w}
            \/ done = 0 /\ done' = 0 /\ Waiting' = Waiting \ {w}
            \/ done = 0 /\ done' = 0 /\ Waiting' = Waiting
<1> DEFINE e == NotWaiting(task[w].signal)
           a == [task[w] EXCEPT !.state = task[w].mode]
<1>1. /\ w \in Waiting /\ done \in 0..UINT_MAX /\ UINT_MAX \in Nat
      /\ task[w] \in TaskState /\ task[w].signal \in {"none", "signal", "kill"}
      /\ task[w].state = "R"
  BY CompletionAssumption DEF resume, Waiting, Inv, TypeOK, TaskState
<1>2. e \in TaskState /\ ~e.in_wait /\ e.state = "R"
  BY <1>1, NotWaitingType
<1>3. a \in TaskState /\ a.in_wait /\ a.in_wait = task[w].in_wait
  BY <1>1 DEF TaskState, Waiting
<1> HIDE DEF e, a
<1>4. ASSUME task' = [task EXCEPT ![w] = e], wait' = remove_wait_queue(wait, w),
             done' = IF done = 0 THEN 0 ELSE done - 1
      PROVE  Inv' /\ Waiting' = Waiting \ {w}
  <2>1. /\ task' \in [Waiter -> TaskState]
        /\ wait' \in Seq(Waiter)
        /\ WaitersQueued'
        /\ Waiting' = Waiting \ {w}
        /\ asleep' = asleep \ {w}
        /\ awake_waiters' = awake_waiters \ {w}
    BY <1>1, <1>2, <1>4, Leaves
  <2>2. w \in awake_waiters
    BY <1>1, Finite
  <2>3. Cardinality(awake_waiters') = Cardinality(awake_waiters) - 1
    BY <2>1, <2>2, Finite, FS_RemoveElement
  <2>4. Cardinality(awake_waiters) \in Nat \ {0}
    BY <2>2, Finite, FS_EmptySet
  <2>5. NoLostCompletion'
    BY <1>1, <1>4, <2>1, <2>3, <2>4 DEF Inv, NoLostCompletion
  <2> QED BY <1>1, <1>4, <2>1, <2>5 DEF Inv, TypeOK
<1>5. ASSUME task' = [task EXCEPT ![w] = a], wait' = wait, done = 0, done' = done
      PROVE  Inv' /\ Waiting' = Waiting
  <2>1. /\ task' \in [Waiter -> TaskState]
        /\ WaitersQueued'
        /\ Waiting' = Waiting
    BY <1>1, <1>3, <1>5, Stays
  <2>2. Cardinality(awake_waiters') \in Nat
    <3>1. awake_waiters' \in SUBSET Waiter
      BY <2>1 DEF WaitersQueued, awake_waiters
    <3> QED BY <3>1, CompletionAssumption, FS_Subset, FS_CardinalityType
  <2>3. NoLostCompletion'
    BY <1>5, <2>2 DEF NoLostCompletion
  <2> QED BY <1>1, <1>5, <2>1, <2>3 DEF Inv, TypeOK
<1>6. CASE done = 0 /\ task[w].left # 0 /\ sleep_again(w, task[w], wait) /\ UNCHANGED done
  <2>1. CASE signal_pending_state(task[w].mode, task[w].signal)
    BY <1>1, <1>4, <1>6, <2>1 DEF sleep_again, e
  <2>2. CASE ~signal_pending_state(task[w].mode, task[w].signal)
    BY <1>1, <1>5, <1>6, <2>2 DEF sleep_again, a
  <2> QED BY <2>1, <2>2
<1>7. CASE /\ done # 0 \/ task[w].left = 0
           /\ wait' = remove_wait_queue(wait, w)
           /\ task' = [task EXCEPT ![w] = e]
           /\ done' = IF done = 0 THEN 0 ELSE done - 1
  BY <1>1, <1>4, <1>7
<1> QED BY <1>6, <1>7 DEF resume, e

\* A step of the rest of the kernel changes neither counter nor queue.
LEMMA StepOutside ==
  ASSUME Inv,
         \/ jiffy
         \/ \E w \in Waiter :
              \/ wake_up_process(w) \/ handle_signal(w)
              \/ \E signal \in {"signal", "kill"} : signal_wake_up(w, signal)
  PROVE  Inv' /\ done' = done /\ Waiting' = Waiting
<1>1. done' = done /\ wait' = wait
  BY DEF jiffy, wake_up_process, handle_signal, signal_wake_up
<1>2. \A w \in Waiter : task[w] \in TaskState
  BY DEF Inv, TypeOK
<1>3. task' \in [Waiter -> TaskState]
  <2>1. CASE jiffy
    <3>1. \A w \in Waiter : task[w].left \in Nat \ {0} =>
            [task[w] EXCEPT !.left = @ - 1] \in TaskState
      BY <1>2 DEF TaskState
    <3> QED BY <1>2, <2>1, <3>1 DEF jiffy
  <2>2. ASSUME NEW w \in Waiter, wake_up_process(w) PROVE task' \in [Waiter -> TaskState]
    <3>1. [task[w] EXCEPT !.state = "R"] \in TaskState
      BY <1>2 DEF TaskState
    <3> QED BY <1>2, <2>2, <3>1 DEF wake_up_process, try_to_wake_up
  <2>3. ASSUME NEW w \in Waiter, handle_signal(w) PROVE task' \in [Waiter -> TaskState]
    BY <2>3, NotWaitingType DEF handle_signal, Inv, TypeOK
  <2>4. ASSUME NEW w \in Waiter, NEW signal \in {"signal", "kill"}, signal_wake_up(w, signal)
        PROVE  task' \in [Waiter -> TaskState]
    BY <1>2, <2>4 DEF signal_wake_up, Inv, TypeOK, TaskState
  <2> QED BY <2>1, <2>2, <2>3, <2>4
<1>4. \A v \in Waiter : /\ task'[v].in_wait = task[v].in_wait
                        /\ task'[v].state = "R" \/ task'[v].state = task[v].state
  <2>1. CASE jiffy
    BY <1>2, <2>1 DEF jiffy, TaskState
  <2>2. ASSUME NEW w \in Waiter, wake_up_process(w), NEW v \in Waiter
        PROVE  /\ task'[v].in_wait = task[v].in_wait
               /\ task'[v].state = "R" \/ task'[v].state = task[v].state
    BY <1>2, <2>2 DEF wake_up_process, try_to_wake_up, TaskState
  <2>3. ASSUME NEW w \in Waiter, handle_signal(w), NEW v \in Waiter
        PROVE  /\ task'[v].in_wait = task[v].in_wait
               /\ task'[v].state = "R" \/ task'[v].state = task[v].state
    BY <1>2, <2>3, NotWaitingType DEF handle_signal, Inv, TypeOK, TaskState
  <2>4. ASSUME NEW w \in Waiter, NEW signal \in {"signal", "kill"}, signal_wake_up(w, signal),
               NEW v \in Waiter
        PROVE  /\ task'[v].in_wait = task[v].in_wait
               /\ task'[v].state = "R" \/ task'[v].state = task[v].state
    BY <1>2, <2>4 DEF signal_wake_up, Inv, TypeOK, TaskState
  <2> QED BY <2>1, <2>2, <2>3, <2>4
<1>5. Waiting' = Waiting /\ asleep' \subseteq asleep
  BY <1>4 DEF Waiting, asleep
<1>6. Entries(wait)' = Entries(wait) /\ Linked(wait)'
  BY <1>1 DEF Inv, WaitersQueued, Entries, Linked
<1>7. WaitersQueued'
  BY <1>5, <1>6, Finite DEF WaitersQueued, Waiting
<1>8. awake_waiters \in SUBSET awake_waiters' /\ awake_waiters' \in SUBSET Waiter
  BY <1>5, <1>6, Finite DEF awake_waiters, Waiting
<1>9. /\ Cardinality(awake_waiters) <= Cardinality(awake_waiters')
      /\ Cardinality(awake_waiters') \in Nat
  BY <1>8, CompletionAssumption, FS_Subset, FS_CardinalityType
<1>10. done \in Nat
  BY DEF Inv, TypeOK
<1>11. NoLostCompletion'
  BY <1>1, <1>5, <1>9, <1>10, Finite DEF Inv, NoLostCompletion
<1> QED BY <1>1, <1>3, <1>5, <1>7, <1>11 DEF Inv, TypeOK

\* try_wait_for_completion() takes an event that is there.
LEMMA StepTry ==
  ASSUME Inv, try_wait_for_completion
  PROVE  Inv' /\ done # 0 /\ done' = done - 1 /\ Waiting' = Waiting
<1>1. done # 0 /\ done' = done - 1 /\ UNCHANGED <<wait, task>>
  BY DEF try_wait_for_completion
<1>2. done \in 0..UINT_MAX /\ UINT_MAX \in Nat
  BY CompletionAssumption DEF Inv, TypeOK
<1>3. TypeOK' /\ WaitersQueued' /\ Waiting' = Waiting /\ asleep' = asleep
      /\ awake_waiters' = awake_waiters
  BY <1>1, <1>2 DEF Inv, TypeOK, WaitersQueued, Waiting, asleep, awake_waiters, Entries, Linked
<1>4. NoLostCompletion'
  BY <1>1, <1>2, <1>3, Finite DEF Inv, NoLostCompletion
<1> QED BY <1>1, <1>3, <1>4 DEF Inv

-----------------------------------------------------------------------------
(* Invariance and refinement *)

\* The steps of the semaphore, in terms of the completion's counter and of
\* the tasks that wait.
Posted ==
  \/ done' = (done + 1) % (UINT_MAX + 1)
  \/ done' = (done + UINT_MAX \div 2) % (UINT_MAX + 1)
SemaphoreStep ==
  \/ Posted /\ Waiting' = Waiting
  \/ done # 0 /\ done' = done - 1 /\ Waiting' = Waiting
  \/ \E w \in Waiter :
       \/ done = 0 /\ done' = 0 /\ w \notin Waiting /\ Waiting' = Waiting \cup {w}
       \/ done # 0 /\ done' = done - 1 /\ Waiting' = Waiting \ {w}
       \/ done = 0 /\ done' = 0 /\ w \in Waiting /\ Waiting' = Waiting \ {w}
  \/ done' = done /\ Waiting' = Waiting

\* A completion is initialised with no event and nobody waiting.
LEMMA InitInv ==
  ASSUME Init
  PROVE  Inv /\ done = 0 /\ Waiting = {}
<1>1. TypeOK /\ asleep = {} /\ Waiting = {}
  <2>1. NotWaiting("none") \in TaskState /\ NotWaiting("none").state = "R"
        /\ ~NotWaiting("none").in_wait
    BY NotWaitingType
  <2>2. task \in [Waiter -> TaskState]
        /\ \A w \in Waiter : task[w].state = "R" /\ ~task[w].in_wait
    BY <2>1 DEF Init
  <2> QED BY <2>2, CompletionAssumption DEF Init, TypeOK, asleep, Waiting
<1>2. Linked(wait) /\ Entries(wait) = {}
  BY DEF Init, Linked, Entries
<1>3. WaitersQueued
  BY <1>1, <1>2 DEF WaitersQueued, Waiting
<1> QED BY <1>1, <1>3 DEF Init, Inv, NoLostCompletion

\* Every step keeps the invariant and is a step of the semaphore.
LEMMA StepInv ==
  ASSUME Inv, [Next]_vars
  PROVE  Inv' /\ SemaphoreStep
<1>1. CASE complete
  BY <1>1, StepComplete DEF SemaphoreStep, Posted
<1>2. CASE complete_all
  BY <1>2, StepCompleteAll DEF SemaphoreStep, Posted
<1>3. CASE try_wait_for_completion
  BY <1>3, StepTry DEF SemaphoreStep
<1>4. ASSUME NEW w \in Waiter, NEW mode \in Mode, NEW timeout \in Timeout \cup {Forever},
             wait_for_common(w, mode, timeout)
      PROVE  Inv' /\ SemaphoreStep
  <2>1. /\ Inv'
        /\ \/ done # 0 /\ done' = done - 1 /\ Waiting' = Waiting
           \/ done = 0 /\ done' = 0 /\ Waiting' = Waiting
           \/ done = 0 /\ done' = 0 /\ w \notin Waiting /\ Waiting' = Waiting \cup {w}
    BY <1>4, StepWait
  <2> QED BY <2>1 DEF SemaphoreStep
<1>5. ASSUME NEW w \in Waiter, resume(w)
      PROVE  Inv' /\ SemaphoreStep
  <2>1. /\ Inv'
        /\ w \in Waiting
        /\ \/ done # 0 /\ done' = done - 1 /\ Waiting' = Waiting \ {w}
           \/ done = 0 /\ done' = 0 /\ Waiting' = Waiting \ {w}
           \/ done = 0 /\ done' = 0 /\ Waiting' = Waiting
    BY <1>5, StepResume
  <2> QED BY <2>1 DEF SemaphoreStep
<1>6. CASE \/ jiffy
           \/ \E w \in Waiter :
                \/ wake_up_process(w) \/ handle_signal(w)
                \/ \E signal \in {"signal", "kill"} : signal_wake_up(w, signal)
  BY <1>6, StepOutside DEF SemaphoreStep
<1>7. CASE UNCHANGED vars
  BY <1>7 DEF vars, Inv, TypeOK, WaitersQueued, NoLostCompletion, asleep, awake_waiters,
              Entries, Linked, Waiting, SemaphoreStep
<1> QED BY <1>1, <1>2, <1>3, <1>4, <1>5, <1>6, <1>7 DEF Next

\* The invariant holds of every behaviour.
LEMMA Invariance == Spec => []Inv
<1>1. Init => Inv
  BY InitInv
<1>2. Inv /\ [Next]_vars => Inv'
  BY StepInv
<1> QED BY <1>1, <1>2, PTL DEF Spec

\* The counter never leaves its width and the records never their types.
THEOREM TypeCorrect == Spec => []TypeOK
<1>1. Inv => TypeOK
  BY DEF Inv
<1> QED BY <1>1, Invariance, PTL

\* Whoever leaves the loop of do_wait_for_common() has unlinked its entry,
\* which lives on its stack, and nobody sleeps without being linked.
THEOREM QueueCorrect == Spec => []WaitersQueued
<1>1. Inv => WaitersQueued
  BY DEF Inv
<1> QED BY <1>1, Invariance, PTL

\* complete() never wakes too few: no event lies there for a sleeper without
\* an awake waiter on its way to it, for any number of waiters, timeouts,
\* signals and stray wake-ups.
THEOREM CompletionsNotLost == Spec => []NoLostCompletion
<1>1. Inv => NoLostCompletion
  BY DEF Inv
<1> QED BY <1>1, Invariance, PTL

\* A completion is a counting semaphore.
THEOREM SemaphoreRefinement == Spec => ImplementsSemaphore
<1>1. Init => Semaphore!Init
  BY InitInv DEF Semaphore!Init, Waiting
<1>2. Inv /\ [Next]_vars => [Semaphore!Next]_(Semaphore!vars)
  <2>1. SUFFICES ASSUME SemaphoreStep
                 PROVE  [Semaphore!Next]_(Semaphore!vars)
    BY StepInv
  <2> QED BY <2>1 DEF SemaphoreStep, Posted, Waiting, Semaphore!Next, Semaphore!vars,
               Semaphore!Post, Semaphore!Begin, Semaphore!Take, Semaphore!GiveUp
<1> QED BY <1>1, <1>2, Invariance, PTL DEF Spec, ImplementsSemaphore, Semaphore!Spec

\* A wake-up that wakes one of two sleepers, and not both, wakes the first.
LEMMA FirstIsWoken ==
  ASSUME Inv, NEW n \in Nat, NEW i \in 1..Len(wait), NEW j \in 1..Len(wait), i < j,
         wait[i] \in asleep, wait[j] \in wake_up_common(wait, asleep, Waiter, n)
  PROVE  wait[i] \in wake_up_common(wait, asleep, Waiter, n)
<1> DEFINE before(k) == woken_before(wait, k, asleep, Waiter)
<1>1. Linked(wait) /\ Len(wait) \in Nat
  BY DEF Inv, WaitersQueued, TypeOK
<1>2. n = 0 \/ Cardinality(before(j)) < n
  <2>1. PICK k \in 1..Len(wait) : wait[k] = wait[j] /\ (n = 0 \/ Cardinality(before(k)) < n)
    BY DEF wake_up_common
  <2>2. k = j
    BY <1>1, <2>1 DEF Linked
  <2> QED BY <2>1, <2>2
<1>3. before(i) \in SUBSET before(j) /\ IsFiniteSet(before(j))
  <2>1. before(j) \subseteq 1..(j - 1) /\ before(i) \subseteq before(j)
    BY <1>1 DEF woken_before
  <2>2. IsFiniteSet(1..(j - 1))
    BY <1>1, FS_Interval
  <2> QED BY <2>1, <2>2, FS_Subset
<1>4. Cardinality(before(i)) <= Cardinality(before(j)) /\ Cardinality(before(i)) \in Nat
      /\ Cardinality(before(j)) \in Nat
  BY <1>3, FS_Subset, FS_CardinalityType
<1>5. n = 0 \/ Cardinality(before(i)) < n
  <2> HIDE DEF before
  <2> QED BY <1>2, <1>4
<1> QED BY <1>5 DEF wake_up_common

\* "Threads will be awakened in the same order in which they were queued": however
\* waiters were queued and woken before, complete() wakes no task behind one that
\* goes on sleeping.
THEOREM WokenAsQueued == Spec => WokenInOrder
<1> DEFINE Ordered(i, j) == /\ i < j
                            /\ task[wait[j]].state # "R"
                            /\ task'[wait[j]].state = "R"
                            => task'[wait[i]].state = "R"
<1>1. ASSUME Inv, [Next]_vars, done' # done, NEW i \in 1..Len(wait), NEW j \in 1..Len(wait)
      PROVE  Ordered(i, j)
  <2> SUFFICES ASSUME i < j, task[wait[j]].state # "R", task'[wait[j]].state = "R"
               PROVE  task'[wait[i]].state = "R"
    OBVIOUS
  <2>0. wait[i] \in Waiter /\ wait[j] \in Waiter /\ task \in [Waiter -> TaskState]
    BY <1>1 DEF Inv, TypeOK
  <2>1. ASSUME NEW n \in Nat, task' = try_to_wake_up(wake_up_common(wait, asleep, Waiter, n))
        PROVE  task'[wait[i]].state = "R"
    <3> DEFINE W == wake_up_common(wait, asleep, Waiter, n)
    <3>1. \A w \in Waiter : task'[w].state = IF w \in W THEN "R" ELSE task[w].state
      <4>1. task' = try_to_wake_up(W)
        BY <2>1
      <4> HIDE DEF W
      <4> QED BY <2>0, <4>1 DEF try_to_wake_up, TaskState
    <3>2. wait[j] \in W
      <4> HIDE DEF W
      <4> QED BY <2>0, <3>1
    <3>3. wait[i] \in asleep => wait[i] \in W
      BY <1>1, <3>2, FirstIsWoken
    <3> HIDE DEF W
    <3> QED BY <2>0, <3>1, <3>3 DEF asleep
  <2>2. CASE complete \/ complete_all
    BY <2>1, <2>2 DEF complete, complete_all, post
  <2>3. ASSUME NEW w \in Waiter, resume(w) PROVE FALSE
    <3>1. task[w].state = "R" /\ task' = [task EXCEPT ![w] = NotWaiting(task[w].signal)]
      BY <1>1, <2>3 DEF resume
    <3>2. wait[j] # w
      BY <3>1
    <3> QED BY <2>0, <3>1, <3>2
  <2>4. CASE try_wait_for_completion
    BY <2>4 DEF try_wait_for_completion
  <2>5. ASSUME NEW w \in Waiter, NEW mode, NEW timeout, wait_for_common(w, mode, timeout)
        PROVE  FALSE
    BY <1>1, <2>5 DEF wait_for_common
  <2>6. CASE \/ jiffy \/ UNCHANGED vars
             \/ \E w \in Waiter :
                  \/ wake_up_process(w) \/ handle_signal(w)
                  \/ \E signal \in {"signal", "kill"} : signal_wake_up(w, signal)
    BY <1>1, <2>6 DEF jiffy, vars, wake_up_process, handle_signal, signal_wake_up
  <2> QED BY <1>1, <2>2, <2>3, <2>4, <2>5, <2>6 DEF Next
<1>2. Inv /\ [Next]_vars
        => [done' # done => \A i, j \in 1..Len(wait) : Ordered(i, j)]_vars
  BY <1>1
<1> QED BY <1>2, Invariance, PTL DEF Spec, WokenInOrder

-----------------------------------------------------------------------------
(* SleepOn *)

\* The first n elements of a set of numbers.
FirstOf(K, n) == {i \in K : Cardinality({j \in K : j < i}) < n}

LEMMA FirstCount ==
  ASSUME NEW m \in Nat, NEW K \in SUBSET (1..m), NEW n \in Nat
  PROVE  IF n > Cardinality(K) THEN FirstOf(K, n) = K ELSE Cardinality(FirstOf(K, n)) = n
<1> DEFINE Holds(T) == /\ IsFiniteSet(T) /\ Cardinality(T) \in Nat
                       /\ n >= Cardinality(T) => FirstOf(T, n) = T
                       /\ n <= Cardinality(T) => Cardinality(FirstOf(T, n)) = n
           P == {l \in Nat : \A T \in SUBSET (1..l) : Holds(T)}
<1>0. \A l \in Nat : \A T \in SUBSET (1..l) : IsFiniteSet(T) /\ Cardinality(T) \in Nat
  <2>1. ASSUME NEW l \in Nat, NEW T \in SUBSET (1..l)
        PROVE  IsFiniteSet(T) /\ Cardinality(T) \in Nat
    <3>1. IsFiniteSet(1..l)
      BY FS_Interval
    <3> QED BY <3>1, FS_Subset, FS_CardinalityType
  <2> QED BY <2>1
<1>1. 0 \in P
  <2>1. IsFiniteSet({}) /\ Cardinality({}) = 0
    BY FS_EmptySet
  <2>2. FirstOf({}, n) = {}
    BY DEF FirstOf
  <2>3. \A T \in SUBSET (1..0) : T = {}
    OBVIOUS
  <2>4. Holds({})
    BY <2>1, <2>2
  <2> HIDE DEF Holds
  <2> QED BY <2>3, <2>4
<1>2. ASSUME NEW l \in Nat, l \in P PROVE l + 1 \in P
  <2> SUFFICES ASSUME NEW T \in SUBSET (1..(l + 1)) PROVE Holds(T)
    OBVIOUS
  <2> DEFINE U == T \ {l + 1}
  <2>1. U \in SUBSET (1..l) /\ Holds(U)
    <3>1. U \in SUBSET (1..l)
      OBVIOUS
    <3> HIDE DEF U, Holds
    <3> QED BY <1>2, <3>1
  <2>2. CASE l + 1 \notin T
    <3>1. U = T
      BY <2>2
    <3> HIDE DEF U, Holds
    <3> QED BY <2>1, <3>1
  <2>3. CASE l + 1 \in T
    <3>1. IsFiniteSet(T) /\ Cardinality(T) \in Nat /\ Cardinality(U) = Cardinality(T) - 1
      <4>1. IsFiniteSet(T) /\ Cardinality(T) \in Nat
        <5>1. l + 1 \in Nat
          OBVIOUS
        <5> QED BY <1>0, <5>1
      <4> QED BY <2>3, <4>1, FS_RemoveElement
    <3>2. \A i \in U : {j \in T : j < i} = {j \in U : j < i}
      BY <2>1
    <3>3. {j \in T : j < l + 1} = U
      <4>1. \A j \in T : j \in 1..(l + 1)
        OBVIOUS
      <4>2. \A j \in T : j < l + 1 <=> j # l + 1
        BY <4>1
      <4> QED BY <4>2
    <3>4. FirstOf(T, n) = IF Cardinality(U) < n THEN FirstOf(U, n) \cup {l + 1} ELSE FirstOf(U, n)
      <4>1. T = U \cup {l + 1} /\ l + 1 \notin U
        BY <2>3
      <4> HIDE DEF U
      <4>2. FirstOf(T, n) = {i \in U : Cardinality({j \in T : j < i}) < n}
                            \cup {i \in {l + 1} : Cardinality({j \in T : j < i}) < n}
        BY <4>1 DEF FirstOf
      <4>3. {i \in U : Cardinality({j \in T : j < i}) < n} = FirstOf(U, n)
        BY <3>2 DEF FirstOf
      <4> QED BY <3>3, <4>2, <4>3
    <3>5. n >= Cardinality(T) => FirstOf(T, n) = T
      <4> SUFFICES ASSUME n >= Cardinality(T) PROVE FirstOf(T, n) = T
        OBVIOUS
      <4>1. Cardinality(U) < n /\ n >= Cardinality(U) /\ n \in Nat
        <5> HIDE DEF U
        <5> QED BY <3>1
      <4>2. FirstOf(U, n) = U
        <5> HIDE DEF U
        <5> QED BY <2>1, <4>1
      <4> QED BY <2>3, <3>4, <4>1, <4>2
    <3>6. n < Cardinality(T) => Cardinality(FirstOf(T, n)) = n
      <4> SUFFICES ASSUME n < Cardinality(T) PROVE Cardinality(FirstOf(T, n)) = n
        OBVIOUS
      <4>1. n <= Cardinality(U) /\ Cardinality(U) \in Nat
        BY <2>1, <3>1
      <4>2. ~(Cardinality(U) < n)
        BY <4>1
      <4> QED BY <2>1, <3>4, <4>1, <4>2
    <3> QED BY <3>1, <3>5, <3>6
  <2> QED BY <2>2, <2>3
<1>3. m \in P
  <2> HIDE DEF P
  <2> QED BY <1>1, <1>2, SetInduction
<1>4. Holds(K)
  BY <1>3
<1> QED BY <1>4

\* Entries of a list are as many as their places.
LEMMA EntryCount ==
  ASSUME NEW l, Len(l) \in Nat, Linked(l), NEW K \in SUBSET (1..Len(l))
  PROVE  Cardinality({l[i] : i \in K}) = Cardinality(K)
<1> DEFINE f == [i \in K |-> l[i]]
           T == {l[i] : i \in K}
<1>1. IsFiniteSet(K)
  <2>1. IsFiniteSet(1..Len(l))
    BY FS_Interval
  <2> QED BY <2>1, FS_Subset
<1>2. f \in Bijection(K, T)
  BY DEF Linked, Bijection, Injection, Surjection, IsInjective
<1>3. ExistsBijection(K, T)
  BY <1>2 DEF ExistsBijection
<1> QED BY <1>1, <1>3, FS_Bijection

\* The queue holds the tasks that wait, those that wait exclusively last.
SleepInv ==
  /\ q \in Seq(Sleeper)
  /\ pc \in [Sleeper -> {"out", "set", "in"}]
  /\ state \in [Sleeper -> {"R", "S", "D"}]
  /\ LinkedWhileWaiting
  /\ \A i, j \in 1..Len(q) : i < j /\ q[i] \in Exclusive => q[j] \in Exclusive

\* What __wake_up_common() wakes on such a queue.
LEMMA WakeUpRight ==
  ASSUME SleepInv, NEW mode \in WakeModes, NEW nr \in NrExclusive, wake_up(mode, nr)
  PROVE  LET woken == {t \in Sleepers(mode) : state'[t] = "R"}
             excl  == Sleepers(mode) \cap Exclusive
         IN  /\ Sleepers(mode) \ Exclusive \subseteq woken
             /\ IF nr = 0 \/ nr > Cardinality(excl) THEN excl \subseteq woken
                ELSE Cardinality(woken \cap Exclusive) = nr
<1> DEFINE woken == {t \in Sleepers(mode) : state'[t] = "R"}
           excl == Sleepers(mode) \cap Exclusive
           W == wake_up_common(q, asleep_in(mode), Exclusive, nr)
           K == {i \in 1..Len(q) : q[i] \in asleep_in(mode) \cap Exclusive}
<1>1. nr \in Nat /\ Len(q) \in Nat /\ Linked(q) /\ asleep_in(mode) \subseteq Sleeper
  BY SleepOnAssumption DEF SleepInv, LinkedWhileWaiting, asleep_in
<1>2. woken = W
  <2>1. W \subseteq Sleepers(mode)
    BY DEF wake_up_common, Sleepers, Entries
  <2>2. \A t \in Sleepers(mode) : t \in Sleeper /\ state[t] # "R"
    BY DEF Sleepers, asleep_in, WakeModes
  <2>3. \A t \in Sleepers(mode) : state'[t] = IF t \in W THEN "R" ELSE state[t]
    BY <2>2 DEF wake_up
  <2> HIDE DEF W
  <2> QED BY <2>1, <2>2, <2>3
<1>3. excl = {q[i] : i \in K} /\ K \in SUBSET (1..Len(q))
  BY DEF Sleepers, Entries
<1>4. CASE nr = 0
  <2>1. W = Sleepers(mode)
    BY <1>4 DEF wake_up_common, Sleepers, Entries
  <2> QED BY <1>2, <1>4, <2>1
<1>5. CASE nr # 0
  <2>1. \A i \in 1..Len(q) :
          woken_before(q, i, asleep_in(mode), Exclusive) = {j \in K : j < i}
    BY <1>1 DEF woken_before
  <2>2. \A i \in 1..Len(q) : q[i] \in asleep_in(mode) =>
          (q[i] \in W <=> Cardinality({j \in K : j < i}) < nr)
    <3>1. W = {q[i] : i \in {k \in 1..Len(q) :
                 q[k] \in asleep_in(mode) /\ Cardinality({j \in K : j < k}) < nr}}
      <4> HIDE DEF K
      <4> QED BY <1>5, <2>1 DEF wake_up_common
    <3> HIDE DEF W, K
    <3> QED BY <3>1, <1>1 DEF Linked
  <2>3. Sleepers(mode) \ Exclusive \subseteq W
    <3> SUFFICES ASSUME NEW i \in 1..Len(q), q[i] \in asleep_in(mode), q[i] \notin Exclusive
                 PROVE  q[i] \in W
      BY DEF Sleepers, Entries
    <3>1. {j \in K : j < i} = {}
      BY DEF SleepInv
    <3>2. Cardinality({j \in K : j < i}) < nr
      <4>1. Cardinality({}) = 0
        BY FS_EmptySet
      <4>2. 0 < nr
        BY <1>1, <1>5
      <4> HIDE DEF K
      <4> QED BY <3>1, <4>1, <4>2
    <3> HIDE DEF W, K
    <3> QED BY <2>2, <3>2
  <2>4. W \cap Exclusive = {q[i] : i \in FirstOf(K, nr)}
    <3>1. W \subseteq Sleepers(mode)
      BY DEF wake_up_common, Sleepers, Entries
    <3>2. W \cap Exclusive = {q[i] : i \in {k \in K : q[k] \in W}}
      <4>1. W \cap Exclusive \subseteq excl
        BY <3>1
      <4> HIDE DEF W, K, excl
      <4>2. \A t \in W \cap Exclusive : \E k \in K : t = q[k]
        BY <1>3, <4>1
      <4>3. \A k \in K : q[k] \in excl
        BY <1>3
      <4>4. excl \subseteq Exclusive
        BY DEF excl
      <4> QED BY <4>2, <4>3, <4>4
    <3>3. {k \in K : q[k] \in W} = FirstOf(K, nr)
      <4>1. \A k \in K : k \in 1..Len(q) /\ q[k] \in asleep_in(mode)
        OBVIOUS
      <4> HIDE DEF W, K
      <4> QED BY <2>2, <4>1 DEF FirstOf
    <3> QED BY <3>2, <3>3
  <2> HIDE DEF W, K, excl
  <2>5. Cardinality(excl) = Cardinality(K)
    BY <1>1, <1>3, EntryCount
  <2>6. CASE nr > Cardinality(excl)
    <3>1. FirstOf(K, nr) = K
      BY <1>1, <1>3, <2>5, <2>6, FirstCount
    <3> QED BY <1>2, <1>3, <2>3, <2>4, <2>6, <3>1 DEF excl
  <2>7. CASE ~(nr > Cardinality(excl))
    <3>1. Cardinality(FirstOf(K, nr)) = nr
      BY <1>1, <1>3, <2>5, <2>7, FirstCount
    <3>2. FirstOf(K, nr) \in SUBSET (1..Len(q))
      BY <1>3 DEF FirstOf
    <3>3. Cardinality(W \cap Exclusive) = nr
      BY <1>1, <2>4, <3>1, <3>2, EntryCount
    <3> QED BY <1>2, <1>5, <2>3, <2>7, <3>3 DEF excl
  <2> QED BY <2>6, <2>7
<1> QED BY <1>4, <1>5

LEMMA SleepStep ==
  ASSUME SleepInv, [SleepNext]_sleep_vars
  PROVE  SleepInv'
<1> DEFINE Ordered(l) == \A i, j \in 1..Len(l) : i < j /\ l[i] \in Exclusive => l[j] \in Exclusive
<1>0. /\ q \in Seq(Sleeper) /\ Linked(q) /\ Ordered(q)
      /\ Entries(q) = {t \in Sleeper : pc[t] = "in"}
  BY DEF SleepInv, LinkedWhileWaiting
<1>1. ASSUME NEW t \in Sleeper, NEW s \in {"S", "D"}, set_current_state(t, s) PROVE SleepInv'
  BY <1>1 DEF set_current_state, SleepInv, LinkedWhileWaiting
<1>2. ASSUME NEW t \in Sleeper, add_to_queue(t) PROVE SleepInv'
  <2>1. t \notin Entries(q) /\ pc' = [pc EXCEPT ![t] = "in"] /\ state' = state
    BY <1>0, <1>2 DEF add_to_queue
  <2>2. q' \in Seq(Sleeper) /\ Linked(q') /\ Entries(q') = Entries(q) \cup {t}
    BY <1>0, <1>2, <2>1, AddFirst, AddLast
    DEF add_to_queue, add_wait_queue, add_wait_queue_tail_exclusive
  <2>3. Ordered(q')
    <3>0. Len(q) \in Nat
      BY <1>0
    <3>1. CASE t \in Exclusive
      <4>1. q' = Append(q, t)
        BY <1>2, <3>1 DEF add_to_queue, add_wait_queue_tail_exclusive, list_add_tail
      <4> QED BY <1>0, <3>0, <3>1, <4>1
    <3>2. CASE t \notin Exclusive
      <4>1. q' = <<t>> \o q
        BY <1>2, <3>2 DEF add_to_queue, add_wait_queue, list_add
      <4>2. Len(q') = Len(q) + 1 /\ q'[1] = t /\ \A i \in 2..Len(q') : (i - 1) \in 1..Len(q) /\ q'[i] = q[i - 1]
        BY <1>0, <3>0, <4>1
      <4>3. ASSUME NEW i \in 1..Len(q'), NEW j \in 1..Len(q'), i < j, q'[i] \in Exclusive
            PROVE  q'[j] \in Exclusive
        <5>1. i \in 2..Len(q') /\ j \in 2..Len(q')
          BY <3>0, <3>2, <4>2, <4>3
        <5>2. /\ i - 1 \in 1..Len(q) /\ j - 1 \in 1..Len(q) /\ i - 1 < j - 1
              /\ q'[i] = q[i - 1] /\ q'[j] = q[j - 1]
          BY <4>2, <4>3, <5>1
        <5> QED BY <1>0, <4>3, <5>2
      <4> QED BY <4>3
    <3> QED BY <3>1, <3>2
  <2> HIDE DEF Ordered
  <2>4. LinkedWhileWaiting'
    BY <1>0, <2>1, <2>2 DEF LinkedWhileWaiting, SleepInv
  <2> QED BY <2>1, <2>2, <2>3, <2>4 DEF SleepInv, Ordered
<1>3. ASSUME NEW t \in Sleeper, leave(t) PROVE SleepInv'
  <2>1. t \in Entries(q) /\ pc' = [pc EXCEPT ![t] = "out"] /\ state' = state /\ state[t] = "R"
        /\ q' = list_del(q, t)
    BY <1>0, <1>3 DEF leave, remove_wait_queue
  <2>2. q' \in Seq(Sleeper) /\ Linked(q') /\ Entries(q') = Entries(q) \ {t}
        /\ Len(q') = Len(q) - 1
    BY <1>0, <2>1, DelLinkedEntry
  <2>3. Ordered(q')
    <3> DEFINE k == CHOOSE i \in 1..Len(q) : q[i] = t
    <3>1. k \in 1..Len(q) /\ Len(q) \in Nat
      BY <1>0, <2>1 DEF Entries
    <3>2. q' = [i \in 1..(Len(q) - 1) |-> IF i < k THEN q[i] ELSE q[i + 1]]
      BY <2>1 DEF list_del
    <3> HIDE DEF k
    <3>3. \A i \in 1..Len(q') : q'[i] = IF i < k THEN q[i] ELSE q[i + 1]
      BY <2>2, <3>1, <3>2
    <3>4. ASSUME NEW i \in 1..Len(q'), NEW j \in 1..Len(q'), i < j, q'[i] \in Exclusive
          PROVE  q'[j] \in Exclusive
      <4> DEFINE a == IF i < k THEN i ELSE i + 1
                 b == IF j < k THEN j ELSE j + 1
      <4>1. Len(q') = Len(q) - 1 /\ Len(q) \in Nat /\ k \in Nat
        BY <2>2, <3>1
      <4>2. a \in 1..Len(q) /\ b \in 1..Len(q) /\ a < b
        BY <3>4, <4>1
      <4>3. q'[i] = q[a] /\ q'[j] = q[b]
        BY <3>3
      <4> HIDE DEF a, b
      <4> QED BY <1>0, <3>4, <4>2, <4>3
    <3> QED BY <3>4
  <2> HIDE DEF Ordered
  <2>4. LinkedWhileWaiting'
    BY <1>0, <2>1, <2>2 DEF LinkedWhileWaiting, SleepInv
  <2> QED BY <2>1, <2>2, <2>3, <2>4 DEF SleepInv, Ordered
<1>4. ASSUME NEW t \in Sleeper, wake_up_sleeper(t) PROVE SleepInv'
  BY <1>4 DEF wake_up_sleeper, SleepInv, LinkedWhileWaiting
<1>5. ASSUME NEW mode \in WakeModes, NEW nr \in NrExclusive, wake_up(mode, nr) PROVE SleepInv'
  BY <1>5 DEF wake_up, SleepInv, LinkedWhileWaiting
<1>6. CASE UNCHANGED sleep_vars
  BY <1>6 DEF sleep_vars, SleepInv, LinkedWhileWaiting
<1> QED BY <1>1, <1>2, <1>3, <1>4, <1>5, <1>6 DEF SleepNext

\* sleep_on() and exclusive waiters: whatever the order in which tasks join and
\* leave a queue, a task is linked exactly while it waits, and a wake-up wakes
\* every plain sleeper and as many exclusive ones as it was asked to.
THEOREM RightTasksWoken == SleepSpec => WakesTheRightTasks
<1>1. SleepInit => SleepInv
  BY DEF SleepInit, SleepInv, LinkedWhileWaiting, Linked, Entries
<1>2. SleepInv /\ [SleepNext]_sleep_vars => SleepInv'
  BY SleepStep
<1>3. SleepInv => LinkedWhileWaiting
  BY DEF SleepInv
<1>4. SleepInv /\ [SleepNext]_sleep_vars => [WakesRight]_sleep_vars
  BY WakeUpRight DEF WakesRight
<1> QED BY <1>1, <1>2, <1>3, <1>4, PTL DEF SleepSpec, WakesTheRightTasks

-----------------------------------------------------------------------------
(* LoadAvg *)

\* What the sums need to know of the types.
Integral ==
  /\ nr_active \in Int
  /\ calc_load_active \in Int
  /\ calc_load_tasks \in Int
  /\ calc_load_idle \in [0..1 -> Int]
  /\ calc_load_idx \in 0..1

LoadInv == Integral /\ DeltasConserved

\* calc_global_load() moves the delta of one slot into the count and goes on
\* to the other slot.
LEMMA GlobalLoad ==
  ASSUME LoadInv, NEW n
  PROVE  LET G == timer_of(n)
         IN  /\ G.tasks \in Int
             /\ G.idle \in [0..1 -> Int]
             /\ G.idx \in 0..1
             /\ G.tasks + G.idle[0] + G.idle[1] = calc_load_active
<1> DEFINE Good(G) == /\ G.tasks \in Int
                      /\ G.idle \in [0..1 -> Int]
                      /\ G.idx \in 0..1
                      /\ G.tasks + G.idle[0] + G.idle[1] = calc_load_active
           j == jiffies + n
           active == IF sampled > 0 THEN sampled * FIXED_1 ELSE 0
           H == [Global EXCEPT !.tasks = sampled,
                               !.idle[calc_load_idx] = 0,
                               !.avenrun = [e \in Exp |-> calc_load(@[e], e, active)],
                               !.update = @ + LOAD_FREQ]
           N == calc_global_nohz(H, j)
<1>1. Good(Global)
  BY DEF LoadInv, Integral, DeltasConserved, Global
<1>2. Good(H)
  <2>1. H.tasks = sampled /\ H.idle = [calc_load_idle EXCEPT ![calc_load_idx] = 0]
        /\ H.idx = calc_load_idx
    BY DEF Global
  <2> HIDE DEF H
  <2>2. /\ calc_load_idx \in {0, 1}
        /\ calc_load_idle[0] \in Int /\ calc_load_idle[1] \in Int /\ calc_load_tasks \in Int
        /\ calc_load_tasks + calc_load_idle[0] + calc_load_idle[1] = calc_load_active
    BY DEF LoadInv, Integral, DeltasConserved
  <2>3. H.idle \in [0..1 -> Int] /\ H.idx \in 0..1
    BY <2>1 DEF LoadInv, Integral
  <2>4. /\ H.idle[0] = IF calc_load_idx = 0 THEN 0 ELSE calc_load_idle[0]
        /\ H.idle[1] = IF calc_load_idx = 1 THEN 0 ELSE calc_load_idle[1]
    BY <2>1, <2>2 DEF LoadInv, Integral
  <2>5. H.tasks = calc_load_tasks + calc_load_idle[calc_load_idx]
    BY <2>1 DEF sampled
  <2>6. H.tasks \in Int /\ H.tasks + H.idle[0] + H.idle[1] = calc_load_active
    BY <2>2, <2>4, <2>5
  <2> QED BY <2>3, <2>6
<1>3. N.tasks = H.tasks /\ N.idle = H.idle /\ N.idx = 1 - H.idx
  BY DEF calc_global_nohz, Global
<1> HIDE DEF H, N
<1>4. Good(N)
  BY <1>2, <1>3
<1>5. timer_of(n) = Global \/ timer_of(n) = N
  BY DEF timer_of, calc_global_load, N, H
<1> QED BY <1>1, <1>4, <1>5

\* Every step keeps the sum.
LEMMA LoadStep ==
  ASSUME LoadInv, [LoadNext]_load_vars
  PROVE  LoadInv'
<1>1. ASSUME NEW n \in 0..1, Tick(n)
      PROVE  LoadInv'
  <2> DEFINE G == timer_of(n)
  <2>1. /\ G.tasks \in Int
        /\ G.idle \in [0..1 -> Int]
        /\ G.idx \in 0..1
        /\ G.tasks + G.idle[0] + G.idle[1] = calc_load_active
    BY GlobalLoad
  <2>2. /\ calc_load_idle' = G.idle /\ calc_load_idx' = G.idx /\ nr_active' = nr_active
        /\ \/ calc_load_tasks' = G.tasks /\ calc_load_active' = calc_load_active
           \/ /\ calc_load_tasks' = G.tasks + (nr_active - calc_load_active)
              /\ calc_load_active' = nr_active
    BY <1>1 DEF Tick, do_timer, calc_load_account_active, calc_load_fold_active
  <2> HIDE DEF G
  <2> QED BY <2>1, <2>2 DEF LoadInv, Integral, DeltasConserved
<1>2. CASE EnterIdle
  <2>1. calc_load_write_idx \in 0..1
    BY DEF calc_load_write_idx, LoadInv, Integral
  <2>2. CASE calc_load_write_idx = 0
    BY <1>2, <2>2 DEF EnterIdle, calc_load_fold_active, LoadInv, Integral, DeltasConserved
  <2>3. CASE calc_load_write_idx = 1
    BY <1>2, <2>3 DEF EnterIdle, calc_load_fold_active, LoadInv, Integral, DeltasConserved
  <2> QED BY <2>1, <2>2, <2>3
<1>3. ASSUME NEW n, IdleInterrupt(n) \/ ExitIdle(n)
      PROVE  LoadInv'
  <2> DEFINE G == timer_of(n)
  <2>1. /\ G.tasks \in Int
        /\ G.idle \in [0..1 -> Int]
        /\ G.idx \in 0..1
        /\ G.tasks + G.idle[0] + G.idle[1] = calc_load_active
    BY GlobalLoad
  <2>2. /\ calc_load_idle' = G.idle /\ calc_load_idx' = G.idx /\ nr_active' = nr_active
        /\ calc_load_tasks' = G.tasks /\ calc_load_active' = calc_load_active
    BY <1>3 DEF IdleInterrupt, ExitIdle, do_timer
  <2> HIDE DEF G
  <2> QED BY <2>1, <2>2 DEF LoadInv, Integral, DeltasConserved
<1>4. ASSUME NEW n \in 0..MaxActive, Activity(n)
      PROVE  LoadInv'
  BY <1>4 DEF Activity, LoadInv, Integral, DeltasConserved
<1>5. CASE UNCHANGED load_vars
  BY <1>5 DEF load_vars, LoadInv, Integral, DeltasConserved
<1> QED BY <1>1, <1>2, <1>3, <1>4, <1>5 DEF LoadNext

\* The deltas folded by ticks and by idling add up to what the CPU has folded,
\* however windows, idle periods and catching up interleave.
THEOREM DeltasNotLost == LoadSpec => []DeltasConserved
<1>1. LoadInit => LoadInv
  BY DEF LoadInit, LoadInv, Integral, DeltasConserved
<1>2. LoadInv /\ [LoadNext]_load_vars => LoadInv'
  BY LoadStep
<1>3. LoadInv => DeltasConserved
  BY DEF LoadInv
<1> QED BY <1>1, <1>2, <1>3, PTL DEF LoadSpec

-----------------------------------------------------------------------------
(* Samples *)

LEMMA Multiple ==
  ASSUME NEW L \in Nat \ {0}, NEW k \in Nat
  PROVE  (k * L) % L = 0
<1> DEFINE x == k * L
           d == x \div L
           r == x % L
<1>1. x \in Nat /\ k * L = x
  OBVIOUS
<1> HIDE DEF x
<1>2. d \in Int /\ r \in 0..(L - 1) /\ x = d * L + r
  BY <1>1
<1> HIDE DEF d, r
<1> DEFINE c == k - d
<1>3. c \in Int /\ c * L = r
  BY <1>1, <1>2
<1> HIDE DEF c
<1>4. c >= 1 => c * L >= L
  BY <1>3
<1>5. c <= -1 => c * L <= -L
  BY <1>3
<1>6. c = 0
  BY <1>2, <1>3, <1>4, <1>5
<1>7. r = 0
  BY <1>3, <1>6
<1> QED BY <1>7 DEF r, x

\* The types of all but the averages.
LoadTypes ==
  /\ jiffies \in Nat
  /\ nr_active \in 0..MaxActive
  /\ tick_stopped \in BOOLEAN
  /\ calc_load_active \in 0..MaxActive
  /\ rq_load_update \in Nat
  /\ calc_load_update \in Nat
  /\ history \in [opened : 0..MaxActive, since : SUBSET (0..MaxActive),
                  before : SUBSET (0..MaxActive)]

\* Deltas of the window that is open go to the slot that is not read.
next_slot == calc_load_idle[1 - calc_load_idx]

\* What the count is worth at every moment of a period.  A CPU that stopped its
\* tick has folded all it has; one that ticks folds when the window opens, or has
\* folded since the one before opened and skips this one.
Folded ==
  /\ calc_load_update - LOAD_FREQ <= jiffies /\ jiffies < calc_load_update + Window
  /\ \E k \in Nat : rq_load_update + k * LOAD_FREQ = calc_load_update + LOAD_FREQ
  /\ nr_active \in history.since
  /\ tick_stopped => calc_load_active = nr_active
  /\ ~tick_stopped =>
       /\ jiffies < rq_load_update
       /\ rq_load_update \in {calc_load_update, calc_load_update + LOAD_FREQ}
       /\ jiffies < calc_load_update /\ rq_load_update # calc_load_update
            => calc_load_active \in history.since
  /\ jiffies < calc_load_update => next_slot = 0
  /\ jiffies >= calc_load_update => sampled \in history.before \cup {history.opened}

SampleInv == LoadInv /\ LoadTypes /\ Folded

\* The sample is what the CPU has folded, less what it folded in the window.
LEMMA SampledIs ==
  ASSUME LoadInv
  PROVE  sampled = calc_load_active - next_slot /\ next_slot \in Int /\ sampled \in Int
<1>1. /\ calc_load_idx \in {0, 1} /\ calc_load_active \in Int
      /\ calc_load_idle[0] \in Int /\ calc_load_idle[1] \in Int /\ calc_load_tasks \in Int
      /\ calc_load_tasks + calc_load_idle[0] + calc_load_idle[1] = calc_load_active
  BY DEF LoadInv, Integral, DeltasConserved
<1>2. CASE calc_load_idx = 0
  BY <1>1, <1>2 DEF sampled, next_slot
<1>3. CASE calc_load_idx = 1
  BY <1>1, <1>3 DEF sampled, next_slot
<1> QED BY <1>1, <1>2, <1>3

LEMMA SampledRight ==
  ASSUME SampleInv
  PROVE  jiffies >= calc_load_update \/ calc_load_active = nr_active
           \/ calc_load_active \in history.since
           => sampled \in up_to_opening \cup {at_opening}
BY SampledIs DEF SampleInv, LoadTypes, Folded, up_to_opening, at_opening

\* No window closes: at most one opens.
Quiet(n, G) ==
  /\ G = Global
  /\ jiffies + n < calc_load_update + Window
  /\ \/ openings(jiffies + n) = {} /\ (jiffies < calc_load_update <=> jiffies + n < calc_load_update)
     \/ /\ openings(jiffies + n) = {calc_load_update}
        /\ jiffies < calc_load_update /\ calc_load_update <= jiffies + n

\* One does, and perhaps more.
Closes(n, G) ==
  /\ calc_load_update + Window <= jiffies + n
  /\ G.tasks = sampled /\ G.idx = 1 - calc_load_idx
  /\ G.idle = [calc_load_idle EXCEPT ![calc_load_idx] = 0]
  /\ \E k \in Nat : G.update = calc_load_update + LOAD_FREQ + k * LOAD_FREQ
  /\ G.update - LOAD_FREQ + Window <= jiffies + n /\ jiffies + n < G.update + Window
  /\ n = 1 => G.update = calc_load_update + LOAD_FREQ
  /\ G.update <= jiffies + n => G.update \in openings(jiffies + n)

LEMMA TimerOf ==
  ASSUME SampleInv, NEW n \in Nat
  PROVE  Quiet(n, timer_of(n)) \/ Closes(n, timer_of(n))
<1> DEFINE j == jiffies + n
           L == LOAD_FREQ
           U == calc_load_update
<1>0. /\ jiffies \in Nat /\ j \in Nat /\ U \in Nat /\ L \in Nat \ {0} /\ Window \in 1..(L - 1)
      /\ U - L <= jiffies /\ jiffies < U + Window
  BY LoadAssumption DEF SampleInv, LoadTypes, Folded
<1>1. CASE j < U + Window
  <2>1. timer_of(n) = Global
    BY <1>1 DEF timer_of, calc_global_load
  <2>2. \A w \in (jiffies + 1)..j : w >= U => w - U \in 0..(L - 1)
    BY <1>0, <1>1
  <2>3. \A x \in 0..(L - 1) : x % L = 0 <=> x = 0
    BY <1>0
  <2>4. openings(j) = {w \in (jiffies + 1)..j : w = U}
    <3>1. \A w \in (jiffies + 1)..j : (w >= U /\ (w - U) % L = 0) <=> w = U
      <4> TAKE w \in (jiffies + 1)..j
      <4>1. CASE w >= U
        <5>1. (w - U) % L = 0 <=> w - U = 0
          BY <2>2, <2>3, <4>1
        <5> QED BY <1>0, <4>1, <5>1
      <4>2. CASE ~(w >= U)
        BY <1>0, <4>2
      <4> QED BY <4>1, <4>2
    <3> QED BY <3>1 DEF openings
  <2>5. CASE jiffies < U /\ U <= j
    <3>1. openings(j) = {U}
      BY <1>0, <2>4, <2>5
    <3> QED BY <1>1, <2>1, <2>5, <3>1 DEF Quiet
  <2>6. CASE ~(jiffies < U /\ U <= j)
    <3>1. openings(j) = {}
      BY <1>0, <2>4, <2>6
    <3>2. jiffies < U <=> j < U
      BY <1>0, <2>6
    <3> QED BY <1>1, <2>1, <3>1, <3>2 DEF Quiet
  <2> QED BY <2>5, <2>6
<1>2. CASE U + Window <= j
  <2> DEFINE active == IF sampled > 0 THEN sampled * FIXED_1 ELSE 0
             H == [Global EXCEPT !.tasks = sampled,
                                 !.idle[calc_load_idx] = 0,
                                 !.avenrun = [e \in Exp |-> calc_load(@[e], e, active)],
                                 !.update = @ + LOAD_FREQ]
             G == calc_global_nohz(H, j)
             V == U + L
             m == IF j < V + Window THEN 0 ELSE 1 + (j - V - Window) \div L
  <2>1. n # 0 /\ timer_of(n) = G
    <3>1. n # 0 /\ ~(j < U + Window)
      BY <1>0, <1>2
    <3> QED BY <3>1 DEF timer_of, calc_global_load
  <2>2. /\ H.tasks = sampled /\ H.idx = calc_load_idx /\ H.update = V
        /\ H.idle = [calc_load_idle EXCEPT ![calc_load_idx] = 0]
    BY DEF Global
  <2>3. G.tasks = H.tasks /\ G.idle = H.idle /\ G.idx = 1 - H.idx /\ G.update = V + m * L
    <3>1. H \in [tasks : {H.tasks}, idle : {H.idle}, idx : {H.idx}, update : {H.update}, avenrun : {H.avenrun}]
      BY DEF Global
    <3> HIDE DEF H
    <3> QED BY <2>2, <3>1 DEF calc_global_nohz
  <2> HIDE DEF G, H
  <2>4. m \in Nat /\ V + m * L - L + Window <= j /\ j < V + m * L + Window
    <3>1. CASE j < V + Window
      BY <1>0, <1>2, <3>1
    <3>2. CASE ~(j < V + Window)
      <4> DEFINE d == j - V - Window
                 b == d \div L
                 r == d % L
      <4>1. d \in Nat
        BY <1>0, <3>2
      <4> HIDE DEF d
      <4>2. b \in Nat /\ r \in 0..(L - 1) /\ d = b * L + r
        BY <1>0, <4>1
      <4>3. m = 1 + b
        BY <3>2 DEF d
      <4> HIDE DEF b, r, m
      <4>4. m * L = L + b * L
        BY <1>0, <4>2, <4>3
      <4>5. j = V + Window + d
        BY <1>0 DEF d
      <4> DEFINE p == b * L
      <4>6. p \in Int /\ d = p + r /\ m * L = L + p /\ r \in Int /\ 0 <= r /\ r < L
        BY <1>0, <4>2, <4>4
      <4> HIDE DEF p
      <4>7. m \in Nat
        BY <4>2, <4>3
      <4> QED BY <1>0, <4>5, <4>6, <4>7
    <3> QED BY <3>1, <3>2
  <2>5. n = 1 => m = 0
    BY <1>0
  <2> HIDE DEF m
  <2>6. G.update <= j => G.update \in openings(j)
    <3> SUFFICES ASSUME G.update <= j PROVE G.update \in openings(j)
      OBVIOUS
    <3> DEFINE c == m + 1
    <3>1. c \in Nat /\ c * L = L + m * L /\ m * L \in Nat
      BY <1>0, <2>4
    <3>2. (c * L) % L = 0
      BY <1>0, <3>1, Multiple
    <3> HIDE DEF c
    <3>3. G.update = U + c * L
      BY <1>0, <2>3, <3>1
    <3>4. c * L \in Nat /\ c * L >= L
      BY <1>0, <3>1
    <3> DEFINE x == c * L
    <3>5. x \in Nat /\ x >= L /\ x % L = 0 /\ G.update = U + x
      BY <3>2, <3>3, <3>4
    <3> HIDE DEF x
    <3>6. G.update \in (jiffies + 1)..j /\ G.update >= U /\ G.update - U = x
      BY <1>0, <3>5
    <3> QED BY <3>5, <3>6 DEF openings
  <2>7. G.update = U + L + m * L
    BY <2>3
  <2>8. n = 1 => G.update = U + L
    BY <1>0, <2>5, <2>7
  <2>9. G.update - L + Window <= j /\ j < G.update + Window
    <3> DEFINE p == m * L
    <3>1. V + p - L + Window <= j /\ j < V + p + Window /\ G.update = V + p
      BY <2>3, <2>4
    <3>2. p \in Nat /\ V \in Nat /\ j \in Nat /\ L \in Nat /\ Window \in Nat
      BY <1>0, <2>4
    <3> HIDE DEF p, V, j
    <3> QED BY <3>1, <3>2
  <2> QED BY <1>2, <2>1, <2>2, <2>3, <2>4, <2>6, <2>7, <2>8, <2>9 DEF Closes
<1> QED BY <1>0, <1>1, <1>2

\* What the passing of jiffies does to samples and history.
LEMMA TimeGoesBy ==
  ASSUME SampleInv, NEW n \in Nat, do_timer(jiffies + n, timer_of(n))
  PROVE  /\ jiffies' = jiffies + n /\ jiffies' \in Nat /\ calc_load_update' \in Nat
         /\ history' \in [opened : 0..MaxActive, since : SUBSET (0..MaxActive),
                          before : SUBSET (0..MaxActive)]
         /\ nr_active \in history'.since
         /\ calc_load_update' - LOAD_FREQ <= jiffies' /\ jiffies' < calc_load_update' + Window
         /\ \E k \in Nat : rq_load_update + k * LOAD_FREQ = calc_load_update' + LOAD_FREQ
         /\ jiffies' < calc_load_update' => next_slot' = 0
         /\ \/ /\ calc_load_update' = calc_load_update
               /\ jiffies < calc_load_update <=> jiffies' < calc_load_update
               /\ next_slot' = next_slot /\ history' = history
            \/ /\ calc_load_update' = calc_load_update
               /\ jiffies < calc_load_update /\ calc_load_update <= jiffies'
               /\ next_slot' = 0
               /\ history'.opened = nr_active /\ history'.before = history.since
            \/ /\ calc_load_update + Window <= jiffies'
               /\ n = 1 => calc_load_update' = calc_load_update + LOAD_FREQ
               /\ next_slot' = 0
               /\ calc_load_update' <= jiffies' => history'.opened = nr_active
<1> DEFINE G == timer_of(n)
           L == LOAD_FREQ
           U == calc_load_update
           R == rq_load_update
           Types == [opened : 0..MaxActive, since : SUBSET (0..MaxActive),
                     before : SUBSET (0..MaxActive)]
<1>0. /\ jiffies \in Nat /\ U \in Nat /\ R \in Nat /\ L \in Nat \ {0} /\ Window \in 1..(L - 1)
      /\ U - L <= jiffies /\ jiffies < U + Window
      /\ nr_active \in 0..MaxActive /\ nr_active \in history.since /\ history \in Types
      /\ calc_load_idx \in 0..1 /\ calc_load_idle \in [0..1 -> Int]
      /\ jiffies < U => next_slot = 0
  BY LoadAssumption DEF SampleInv, LoadTypes, Folded, LoadInv, Integral
<1>1. /\ jiffies' = jiffies + n
      /\ history' = IF openings(jiffies + n) = {} THEN history
                    ELSE [opened |-> nr_active, since |-> {nr_active},
                          before |-> IF \E v, w \in openings(jiffies + n) : v # w
                                     THEN {nr_active} ELSE history.since]
      /\ calc_load_idle' = G.idle /\ calc_load_idx' = G.idx /\ calc_load_update' = G.update
  BY DEF do_timer
<1>2. PICK k \in Nat : R + k * L = U + L
  BY DEF SampleInv, Folded
<1>3. history' \in Types /\ nr_active \in history'.since
      /\ (openings(jiffies + n) # {} => history'.opened = nr_active)
  BY <1>0, <1>1
<1> HIDE DEF G
<1>4. CASE Quiet(n, G)
  <2>1. calc_load_update' = U /\ calc_load_idle' = calc_load_idle /\ calc_load_idx' = calc_load_idx
    BY <1>1, <1>4 DEF Quiet, Global
  <2>2. next_slot' = next_slot
    BY <2>1 DEF next_slot
  <2>3. jiffies + n < U + Window /\ U - L <= jiffies + n
    BY <1>0, <1>4 DEF Quiet
  <2>6. /\ \E i \in Nat : R + i * L = calc_load_update' + L
        /\ calc_load_update' \in Nat /\ jiffies' = jiffies + n /\ jiffies' \in Nat
        /\ calc_load_update' - L <= jiffies' /\ jiffies' < calc_load_update' + Window
    <3>1. \E i \in Nat : R + i * L = calc_load_update' + L
      BY <1>2, <2>1
    <3>2. jiffies' = jiffies + n /\ calc_load_update' \in Nat
      BY <1>0, <1>1, <2>1
    <3>3. /\ jiffies' \in Nat
          /\ calc_load_update' - L <= jiffies' /\ jiffies' < calc_load_update' + Window
      BY <1>0, <2>1, <2>3, <3>2
    <3> QED BY <3>1, <3>2, <3>3
  <2>4. CASE openings(jiffies + n) = {} /\ (jiffies < U <=> jiffies + n < U)
    <3>1. history' = history
      BY <1>1, <2>4
    <3>2. (jiffies < U <=> jiffies' < U) /\ (jiffies' < calc_load_update' => next_slot' = 0)
      BY <1>0, <1>1, <2>1, <2>2, <2>4
    <3> HIDE DEF Types
    <3> QED BY <1>3, <2>1, <2>2, <2>6, <3>1, <3>2 DEF Types
  <2>5. CASE openings(jiffies + n) = {U} /\ jiffies < U /\ U <= jiffies + n
    <3>1. history'.opened = nr_active /\ history'.before = history.since
      BY <1>1, <2>5
    <3>2. next_slot' = 0
      BY <1>0, <2>2, <2>5
    <3>3. jiffies < U /\ U <= jiffies'
      BY <1>1, <2>5
    <3> QED BY <1>3, <2>1, <2>6, <3>1, <3>2, <3>3
  <2> QED BY <1>4, <2>4, <2>5 DEF Quiet
<1>5. CASE Closes(n, G)
  <2> DEFINE V == calc_load_update'
  <2>1. /\ V - L + Window <= jiffies + n /\ jiffies + n < V + Window
        /\ n = 1 => V = U + L
        /\ V <= jiffies + n => V \in openings(jiffies + n)
        /\ U + Window <= jiffies + n
    BY <1>1, <1>5 DEF Closes
  <2>2. PICK m \in Nat : V = U + L + m * L
    BY <1>1, <1>5 DEF Closes
  <2>3. next_slot' = 0
    <3>1. calc_load_idx' = 1 - calc_load_idx
          /\ calc_load_idle' = [calc_load_idle EXCEPT ![calc_load_idx] = 0]
      BY <1>1, <1>5 DEF Closes
    <3>2. 1 - calc_load_idx' = calc_load_idx
      BY <1>0, <3>1
    <3> QED BY <1>0, <3>1, <3>2 DEF next_slot
  <2>4. V \in Nat /\ \E i \in Nat : R + i * L = V + L
    <3>1. m * L \in Nat /\ k * L \in Nat /\ (k + 1 + m) * L = k * L + L + m * L /\ k + 1 + m \in Nat
      BY <1>0
    <3>2. R + (k + 1 + m) * L = V + L
      <4> DEFINE a == m * L
                 b == k * L
                 c == (k + 1 + m) * L
      <4>1. a \in Nat /\ b \in Nat /\ c = b + L + a /\ V = U + L + a /\ R + b = U + L
        BY <1>2, <2>2, <3>1
      <4> HIDE DEF a, b, c, V
      <4> QED BY <1>0, <4>1 DEF c
    <3>3. V \in Nat
      BY <1>0, <2>2, <3>1
    <3> HIDE DEF V
    <3> QED BY <3>1, <3>2, <3>3
  <2> HIDE DEF V
  <2>5. V - L <= jiffies + n /\ jiffies + n \in Nat
    BY <1>0, <2>1, <2>4
  <2>6. V <= jiffies + n => history'.opened = nr_active
    BY <1>3, <2>1
  <2> QED BY <1>0, <1>1, <1>3, <2>1, <2>3, <2>4, <2>5, <2>6 DEF V
<1> QED BY <1>4, <1>5, TimerOf DEF G

\* Every step keeps it.
LEMMA SampleStep ==
  ASSUME SampleInv, [LoadNext]_load_vars
  PROVE  SampleInv'
<1> DEFINE L == LOAD_FREQ
           U == calc_load_update
           R == rq_load_update
           Types == [opened : 0..MaxActive, since : SUBSET (0..MaxActive),
                     before : SUBSET (0..MaxActive)]
<1>0. /\ jiffies \in Nat /\ U \in Nat /\ R \in Nat /\ L \in Nat \ {0} /\ Window \in 1..(L - 1)
      /\ U - L <= jiffies /\ jiffies < U + Window
      /\ nr_active \in 0..MaxActive /\ calc_load_active \in 0..MaxActive
      /\ history \in Types /\ tick_stopped \in BOOLEAN
  BY LoadAssumption DEF SampleInv, LoadTypes, Folded
<1>1. LoadInv /\ LoadInv'
  BY LoadStep DEF SampleInv
<1>2. /\ sampled = calc_load_active - next_slot /\ next_slot \in Int /\ sampled \in Int
      /\ sampled' = calc_load_active' - next_slot' /\ next_slot' \in Int
  <2>1. LoadInv => sampled = calc_load_active - next_slot /\ next_slot \in Int /\ sampled \in Int
    BY SampledIs
  <2>2. (LoadInv => sampled = calc_load_active - next_slot /\ next_slot \in Int /\ sampled \in Int)'
    BY SampledIs, PTL
  <2> QED BY <1>1, <2>1, <2>2
<1>i. /\ \E k \in Nat : R + k * L = U + L
      /\ nr_active \in history.since
      /\ tick_stopped => calc_load_active = nr_active
      /\ ~tick_stopped =>
           /\ jiffies < R /\ R \in {U, U + L}
           /\ jiffies < U /\ R # U => calc_load_active \in history.since
      /\ jiffies < U => next_slot = 0
      /\ jiffies >= U => sampled \in history.before \cup {history.opened}
  BY DEF SampleInv, Folded
<1>3. ASSUME NEW n \in 0..1, Tick(n) PROVE SampleInv'
  <2>1. /\ ~tick_stopped /\ do_timer(jiffies + n, timer_of(n))
        /\ nr_active' = nr_active /\ tick_stopped' = tick_stopped
        /\ \/ jiffies' < R /\ calc_load_active' = calc_load_active /\ rq_load_update' = R
           \/ jiffies' >= R /\ calc_load_active' = nr_active /\ rq_load_update' = R + L
    <3>1. jiffies' = jiffies + n
      BY <1>3 DEF Tick, do_timer
    <3> QED BY <1>0, <1>3, <3>1 DEF Tick, calc_load_account_active
  <2>2. n \in Nat /\ jiffies < R /\ R \in {U, U + L}
    BY <1>i, <2>1
  <2>3. /\ jiffies' = jiffies + n /\ jiffies' \in Nat /\ calc_load_update' \in Nat
        /\ history' \in Types /\ nr_active \in history'.since
        /\ calc_load_update' - L <= jiffies' /\ jiffies' < calc_load_update' + Window
        /\ \E k \in Nat : R + k * L = calc_load_update' + L
        /\ jiffies' < calc_load_update' => next_slot' = 0
    BY <2>1, <2>2, TimeGoesBy
  <2>4. SUFFICES
          /\ rq_load_update' \in Nat /\ calc_load_active' \in 0..MaxActive
          /\ \E k \in Nat : rq_load_update' + k * L = calc_load_update' + L
          /\ jiffies' < rq_load_update'
          /\ rq_load_update' \in {calc_load_update', calc_load_update' + L}
          /\ jiffies' < calc_load_update' /\ rq_load_update' # calc_load_update'
               => calc_load_active' \in history'.since
          /\ jiffies' >= calc_load_update' => sampled' \in history'.before \cup {history'.opened}
    BY <1>0, <1>1, <2>1, <2>3 DEF SampleInv, LoadTypes, Folded
  <2>5. CASE /\ calc_load_update' = U
             /\ jiffies < U <=> jiffies' < U
             /\ next_slot' = next_slot /\ history' = history
    <3>1. jiffies' < R /\ calc_load_active' = calc_load_active /\ rq_load_update' = R
      BY <1>0, <2>1, <2>2, <2>3, <2>5
    <3> QED BY <1>0, <1>2, <1>i, <2>1, <2>2, <2>3, <2>5, <3>1
  <2>6. CASE /\ calc_load_update' = U
             /\ jiffies < U /\ U <= jiffies'
             /\ next_slot' = 0
             /\ history'.opened = nr_active /\ history'.before = history.since
    <3>1. jiffies' = U
      BY <1>0, <2>3, <2>6
    <3>2. CASE R = U
      <4>1. calc_load_active' = nr_active /\ rq_load_update' = U + L
        BY <1>0, <2>1, <3>1, <3>2
      <4>2. sampled' = nr_active
        BY <1>0, <1>2, <2>6, <4>1
      <4>3. U + L + 0 * L = U + L
        BY <1>0
      <4> QED BY <1>0, <2>6, <3>1, <4>1, <4>2, <4>3
    <3>3. CASE R = U + L
      <4>1. calc_load_active' = calc_load_active /\ rq_load_update' = U + L
        BY <1>0, <2>1, <3>1, <3>3
      <4>2. sampled' = calc_load_active /\ calc_load_active \in history.since
        BY <1>0, <1>2, <1>i, <2>1, <2>6, <3>3, <4>1
      <4>3. U + L + 0 * L = U + L
        BY <1>0
      <4> QED BY <1>0, <2>6, <3>1, <4>1, <4>2, <4>3
    <3> QED BY <2>2, <3>2, <3>3
  <2>7. CASE /\ U + Window <= jiffies'
             /\ n = 1 => calc_load_update' = U + L
             /\ next_slot' = 0
    <3>1. n = 1 /\ jiffies' = U + Window /\ jiffies >= U /\ R = U + L
      BY <1>0, <2>2, <2>3, <2>7
    <3>2. calc_load_active' = calc_load_active /\ rq_load_update' = U + L
      BY <1>0, <2>1, <3>1
    <3> QED BY <1>0, <2>3, <2>7, <3>1, <3>2
  <2> QED BY <2>1, <2>2, <2>5, <2>6, <2>7, TimeGoesBy
<1>4. CASE EnterIdle
  <2>1. /\ ~tick_stopped /\ tick_stopped' = TRUE /\ calc_load_active' = nr_active
        /\ UNCHANGED <<jiffies, nr_active, rq_load_update, calc_load_update, calc_load_idx, history>>
        /\ calc_load_idle' = [calc_load_idle EXCEPT ![calc_load_write_idx] =
                                @ + (nr_active - calc_load_active)]
    BY <1>4 DEF EnterIdle, calc_load_fold_active
  <2>2. calc_load_idx \in 0..1 /\ calc_load_idle \in [0..1 -> Int]
    BY <1>1 DEF LoadInv, Integral
  <2>3. CASE jiffies < U
    <3>1. calc_load_write_idx # 1 - calc_load_idx /\ 1 - calc_load_idx \in 0..1
      BY <2>2, <2>3 DEF calc_load_write_idx
    <3>2. next_slot' = next_slot
      BY <2>1, <2>2, <3>1 DEF next_slot
    <3>3. ~(jiffies >= U)
      BY <1>0, <2>3
    <3> QED BY <1>0, <1>1, <1>i, <2>1, <2>3, <3>2, <3>3 DEF SampleInv, LoadTypes, Folded
  <2>4. CASE jiffies >= U
    <3>1. calc_load_write_idx = 1 - calc_load_idx /\ 1 - calc_load_idx \in 0..1
      BY <1>0, <2>2, <2>4 DEF calc_load_write_idx
    <3>2. next_slot' = next_slot + (nr_active - calc_load_active)
      BY <2>1, <2>2, <3>1 DEF next_slot
    <3>3. sampled' = sampled
      BY <1>0, <1>2, <2>1, <3>2
    <3>4. ~(jiffies < U)
      BY <1>0, <2>4
    <3> QED BY <1>0, <1>1, <1>i, <2>1, <3>3, <3>4 DEF SampleInv, LoadTypes, Folded
  <2> QED BY <1>0, <2>3, <2>4
<1>5. ASSUME NEW n \in Nat, tick_stopped, do_timer(jiffies + n, timer_of(n)),
             nr_active' = nr_active, calc_load_active' = calc_load_active,
             \/ tick_stopped' = TRUE /\ rq_load_update' = R
             \/ tick_stopped' = FALSE /\ calc_load_exit_idle(jiffies + n, calc_load_update')
      PROVE  SampleInv'
  <2>1. /\ jiffies' = jiffies + n /\ jiffies' \in Nat /\ calc_load_update' \in Nat
        /\ history' \in Types /\ nr_active \in history'.since
        /\ calc_load_update' - L <= jiffies' /\ jiffies' < calc_load_update' + Window
        /\ \E k \in Nat : R + k * L = calc_load_update' + L
        /\ jiffies' < calc_load_update' => next_slot' = 0
    BY <1>5, TimeGoesBy
  <2>2. calc_load_active = nr_active
    BY <1>5, <1>i
  <2>3. jiffies' >= calc_load_update' => sampled' \in history'.before \cup {history'.opened}
    <3>1. CASE /\ calc_load_update' = U
               /\ jiffies < U <=> jiffies' < U
               /\ next_slot' = next_slot /\ history' = history
      BY <1>0, <1>2, <1>5, <1>i, <2>1, <3>1
    <3>2. CASE next_slot' = 0 /\ (calc_load_update' <= jiffies' => history'.opened = nr_active)
      BY <1>0, <1>2, <1>5, <2>1, <2>2, <3>2
    <3> QED BY <1>5, <3>1, <3>2, TimeGoesBy
  <2>4. CASE tick_stopped' = TRUE /\ rq_load_update' = R
    BY <1>0, <1>1, <1>5, <2>1, <2>2, <2>3, <2>4 DEF SampleInv, LoadTypes, Folded
  <2>5. CASE tick_stopped' = FALSE /\ calc_load_exit_idle(jiffies + n, calc_load_update')
    <3>1. rq_load_update' = IF jiffies' < R THEN R ELSE calc_load_update' + L
      BY <2>1, <2>5 DEF calc_load_exit_idle
    <3>2. PICK k \in Nat : R + k * L = calc_load_update' + L
      BY <2>1
    <3>3. /\ rq_load_update' \in {calc_load_update', calc_load_update' + L}
          /\ jiffies' < rq_load_update' /\ rq_load_update' \in Nat
      <4> DEFINE V == calc_load_update'
                 J == jiffies'
                 p == k * L
      <4>1. /\ V \in Nat /\ J \in Nat /\ R \in Nat /\ L \in Nat /\ Window \in Nat /\ Window < L
            /\ V - L <= J /\ J < V + Window
        <5>1. V \in Nat /\ J \in Nat /\ V - L <= J /\ J < V + Window
          BY <2>1
        <5>2. R \in Nat /\ L \in Nat /\ Window \in Nat /\ Window < L
          BY <1>0
        <5> QED BY <5>1, <5>2
      <4>2. p \in Nat /\ R + p = V + L
        BY <1>0, <3>2
      <4>3. k = 0 \/ k = 1 \/ k >= 2
        OBVIOUS
      <4>4. (k = 0 => p = 0) /\ (k = 1 => p = L) /\ (k >= 2 => p >= L + L)
        BY <1>0
      <4>5. rq_load_update' = IF J < R THEN R ELSE V + L
        BY <3>1
      <4> HIDE DEF V, J, p
      <4>6. J < R => p < L + L
        BY <4>1, <4>2
      <4>7. J < R => p = 0 \/ p = L
        BY <4>1, <4>2, <4>3, <4>4, <4>6
      <4>8. J < R => R = V \/ R = V + L
        BY <4>1, <4>2, <4>7
      <4>9. J < V + L /\ V + L \in Nat
        BY <4>1
      <4>10. CASE J < R
        BY <4>1, <4>5, <4>8, <4>10 DEF V, J
      <4>11. CASE ~(J < R)
        BY <4>5, <4>9, <4>11 DEF V, J
      <4> QED BY <4>10, <4>11
    <3>4. \E i \in Nat : rq_load_update' + i * L = calc_load_update' + L
      <4>1. calc_load_update' + 1 * L = calc_load_update' + L
            /\ calc_load_update' + L + 0 * L = calc_load_update' + L
        BY <1>0, <2>1
      <4> QED BY <3>3, <4>1
    <3> QED BY <1>0, <1>1, <1>5, <2>1, <2>2, <2>3, <2>5, <3>3, <3>4 DEF SampleInv, LoadTypes, Folded
  <2> QED BY <1>5, <2>4, <2>5
<1>6. ASSUME NEW n \in 1..MaxIdle, IdleInterrupt(n) PROVE SampleInv'
  <2>1. n \in Nat
    BY LoadAssumption
  <2> QED BY <1>5, <1>6, <2>1 DEF IdleInterrupt
<1>7. ASSUME NEW n \in 0..MaxIdle, ExitIdle(n) PROVE SampleInv'
  <2>1. n \in Nat
    BY LoadAssumption
  <2>2. calc_load_update' = timer_of(n).update
    BY <1>7 DEF ExitIdle, do_timer
  <2> QED BY <1>5, <1>7, <2>1, <2>2 DEF ExitIdle
<1>8. ASSUME NEW n \in 0..MaxActive, Activity(n) PROVE SampleInv'
  <2>1. /\ ~tick_stopped /\ nr_active' = n /\ history' = [history EXCEPT !.since = @ \cup {n}]
        /\ UNCHANGED <<jiffies, tick_stopped, calc_load_active, rq_load_update, calc_load_update,
                       calc_load_tasks, calc_load_idle, calc_load_idx>>
    BY <1>8 DEF Activity
  <2>2. history' \in Types /\ history'.since = history.since \cup {n}
        /\ history'.before = history.before /\ history'.opened = history.opened
    BY <1>0, <2>1
  <2>3. next_slot' = next_slot /\ sampled' = sampled
    BY <2>1 DEF next_slot, sampled
  <2> QED BY <1>0, <1>1, <1>i, <2>1, <2>2, <2>3 DEF SampleInv, LoadTypes, Folded
<1>9. CASE UNCHANGED load_vars
  BY <1>1, <1>9 DEF load_vars, SampleInv, LoadTypes, Folded, next_slot, sampled
<1> QED BY <1>3, <1>4, <1>6, <1>7, <1>8, <1>9 DEF LoadNext

-----------------------------------------------------------------------------
(* Averages *)

LEMMA Rounded ==
  ASSUME NEW N \in Nat, NEW x \in 0..(N * FIXED_1)
  PROVE  shifted(x) \in 0..N
<1> DEFINE F == FIXED_1
           h == F \div 2
           p == N * F
           y == x + h
           d == y \div F
           r == y % F
<1>1. F \in Nat \ {0}
  BY LoadAssumption
<1> HIDE DEF F
<1>2. h \in Nat /\ h < F
  BY <1>1
<1>3. p \in Nat /\ x \in Nat /\ x <= p /\ N \in Nat
  BY <1>1 DEF F
<1> HIDE DEF h
<1>4. y \in Nat /\ y < p + F
  <2> HIDE DEF p
  <2> QED BY <1>1, <1>2, <1>3
<1> HIDE DEF y
<1>5. d \in Nat /\ r \in 0..(F - 1) /\ y = d * F + r
  BY <1>1, <1>4
<1> HIDE DEF d, r
<1>6. ~(d >= N + 1)
  <2> SUFFICES ASSUME d >= N + 1 PROVE FALSE
    OBVIOUS
  <2>1. d * F >= (N + 1) * F /\ (N + 1) * F = p + F
    BY <1>1, <1>5
  <2> DEFINE hi == d * F
  <2>2. hi \in Nat
    BY <1>1, <1>5
  <2> HIDE DEF hi, p
  <2> QED BY <1>1, <1>3, <1>4, <1>5, <2>1, <2>2 DEF hi
<1>7. shifted(x) = d
  BY DEF shifted, d, y, h, F
<1> QED BY <1>5, <1>6, <1>7

LEMMA ShiftedNat ==
  ASSUME NEW x \in Nat
  PROVE  shifted(x) \in Nat
<1>1. FIXED_1 \in Nat \ {0}
  BY LoadAssumption
<1>2. x \in 0..(x * FIXED_1)
  BY <1>1
<1> QED BY <1>2, Rounded

\* The product of two fractions is one.
LEMMA ProductFraction ==
  ASSUME NEW x \in 0..FIXED_1, NEW y \in 0..FIXED_1
  PROVE  shifted(x * y) \in 0..FIXED_1
<1> DEFINE F == FIXED_1
<1>1. F \in Nat /\ x \in 0..F /\ y \in 0..F
  BY LoadAssumption
<1> HIDE DEF F
<1>2. x * y \in Nat /\ x * y <= F * y /\ F * y <= F * F
  BY <1>1
<1>3. x * y \in 0..(F * F)
  BY <1>1, <1>2
<1> QED BY <1>1, <1>3, Rounded DEF F

\* A weighted average is not above what it is the average of.
LEMMA LoadBounded ==
  ASSUME NEW N \in Nat, NEW load \in 0..(N * FIXED_1), NEW active \in 0..(N * FIXED_1),
         NEW exp \in 0..FIXED_1
  PROVE  calc_load(load, exp, active) \in 0..(N * FIXED_1)
<1> DEFINE F == FIXED_1
           P == N * F
           e == F - exp
<1>1. F \in Nat /\ exp \in 0..F /\ N \in Nat
  BY LoadAssumption
<1>2. P \in Nat /\ load \in 0..P /\ active \in 0..P
  BY <1>1
<1> HIDE DEF F, P
<1>3. e \in Nat /\ exp \in Nat /\ exp + e = F
  BY <1>1
<1> HIDE DEF e
<1>4. load * exp \in Nat /\ load * exp <= P * exp /\ active * e \in Nat /\ active * e <= P * e
  BY <1>2, <1>3
<1>5. P * exp + P * e = P * F /\ P * exp \in Nat /\ P * e \in Nat
  BY <1>2, <1>3
<1>6. load * exp + active * e \in 0..(P * F)
  <2> DEFINE a == load * exp
             b == active * e
             c == P * exp
             d == P * e
             f == P * F
  <2>1. a \in Nat /\ b \in Nat /\ c \in Nat /\ d \in Nat /\ a <= c /\ b <= d /\ c + d = f
    BY <1>4, <1>5
  <2> HIDE DEF a, b, c, d, f
  <2>2. a + b \in 0..f
    BY <2>1
  <2> QED BY <2>2 DEF a, b, f
<1>7. shifted(load * exp + active * e) \in 0..P
  BY <1>2, <1>6, Rounded DEF F
<1> QED BY <1>7 DEF calc_load, P, F, e

\* One step of the recursion behind fixed_power_int().
PowerStep(f, n) ==
  [x \in Nat |-> [result \in Nat |->
    IF n = 0 THEN result
    ELSE f[n \div 2][shifted(x * x)][IF n % 2 = 1 THEN shifted(result * x) ELSE result]]]

PowersUpTo(f, N) == \A n \in 0..N : f[n] = PowerStep(f, n)

LEMMA Halved ==
  ASSUME NEW n \in Nat, n # 0
  PROVE  n \div 2 \in 0..(n - 1)
OBVIOUS

LEMMA StepOfHalf ==
  ASSUME NEW n \in Nat, NEW f, NEW g, n = 0 \/ f[n \div 2] = g[n \div 2]
  PROVE  PowerStep(f, n) = PowerStep(g, n)
BY DEF PowerStep

LEMMA PowersExist ==
  ASSUME NEW N \in Nat
  PROVE  \E f : PowersUpTo(f, N)
<1> DEFINE P == {n \in Nat : \E f : PowersUpTo(f, n)}
<1>1. 0 \in P
  <2> DEFINE z == [n \in Nat |-> n]
             f == [n \in Nat |-> PowerStep(z, 0)]
  <2>1. f[0] = PowerStep(z, 0)
    OBVIOUS
  <2> HIDE DEF f, z
  <2>2. PowerStep(z, 0) = PowerStep(f, 0)
    BY StepOfHalf
  <2>3. \A n \in 0..0 : n = 0
    OBVIOUS
  <2>4. PowersUpTo(f, 0)
    BY <2>1, <2>2, <2>3 DEF PowersUpTo
  <2> QED BY <2>4
<1>2. ASSUME NEW n \in Nat, n \in P PROVE n + 1 \in P
  <2>1. PICK f : PowersUpTo(f, n)
    BY <1>2
  <2> DEFINE g == [i \in Nat |-> IF i \in 0..n THEN f[i] ELSE PowerStep(f, i)]
  <2>2. \A i \in 0..(n + 1) : g[i] = PowerStep(f, i)
    BY <2>1 DEF PowersUpTo
  <2>3. \A i \in 0..n : g[i] = f[i]
    OBVIOUS
  <2> HIDE DEF g
  <2>4. ASSUME NEW i \in 0..(n + 1) PROVE g[i] = PowerStep(g, i)
    <3>1. i \in Nat /\ (i # 0 => i \div 2 \in 0..n)
      BY Halved
    <3>2. PowerStep(f, i) = PowerStep(g, i)
      BY <2>3, <3>1, StepOfHalf
    <3> QED BY <2>2, <3>2
  <2>5. PowersUpTo(g, n + 1)
    BY <2>4 DEF PowersUpTo
  <2> QED BY <2>5
<1> HIDE DEF P
<1>3. Nat \subseteq P
  BY <1>1, <1>2, SetInduction
<1> QED BY <1>3 DEF P

LEMMA PowersAgree ==
  ASSUME NEW N \in Nat, NEW M \in Nat, NEW f, NEW g, PowersUpTo(f, N), PowersUpTo(g, M),
         NEW i \in Nat, i <= N, i <= M
  PROVE  f[i] = g[i]
<1> DEFINE Bad == {n \in Nat : n <= N /\ n <= M /\ f[n] # g[n]}
<1> SUFFICES ASSUME Bad # {} PROVE FALSE
  OBVIOUS
<1>1. PICK n \in Bad : \A m \in Bad : n <= m
  BY Least
<1>2. n \in 0..N /\ n \in 0..M
  OBVIOUS
<1>3. n = 0 \/ f[n \div 2] = g[n \div 2]
  <2> SUFFICES ASSUME n # 0 PROVE f[n \div 2] = g[n \div 2]
    OBVIOUS
  <2>1. n \div 2 \in 0..(n - 1)
    BY <1>2, Halved
  <2>2. n \div 2 \in Nat /\ n \div 2 <= N /\ n \div 2 <= M /\ ~(n <= n \div 2)
    BY <1>2, <2>1
  <2> QED BY <1>1, <2>2
<1>4. f[n] = g[n]
  BY <1>2, <1>3, StepOfHalf DEF PowersUpTo
<1> QED BY <1>4

LEMMA PowerIs ==
  ASSUME NEW n \in Nat
  PROVE  power[n] = PowerStep(power, n)
<1> DEFINE Solution(f) == f = [i \in Nat |->
             [x \in Nat |-> [result \in Nat |->
               IF i = 0 THEN result
               ELSE f[i \div 2][shifted(x * x)][IF i % 2 = 1 THEN shifted(result * x) ELSE result]]]]
           best(i) == CHOOSE f : PowersUpTo(f, i)
           a == [i \in Nat |-> best(i)[i]]
<1>1. \A i \in Nat : PowersUpTo(best(i), i)
  BY PowersExist
<1>2. \A i \in Nat : a[i] = best(i)[i]
  OBVIOUS
<1> HIDE DEF best
<1>3. a = [i \in Nat |-> a[i]]
  OBVIOUS
<1> HIDE DEF a
<1>4. ASSUME NEW i \in Nat PROVE a[i] = PowerStep(a, i)
  <2>1. best(i)[i] = PowerStep(best(i), i)
    BY <1>1 DEF PowersUpTo
  <2>2. i # 0 => a[i \div 2] = best(i)[i \div 2]
    <3> SUFFICES ASSUME i # 0 PROVE a[i \div 2] = best(i)[i \div 2]
      OBVIOUS
    <3> DEFINE j == i \div 2
    <3>1. j \in Nat /\ j <= i /\ j <= j
      BY Halved
    <3> HIDE DEF j
    <3>2. best(j)[j] = best(i)[j]
      BY <1>1, <3>1, PowersAgree
    <3> QED BY <1>2, <3>1, <3>2 DEF j
  <2>3. PowerStep(best(i), i) = PowerStep(a, i)
    BY <2>2, StepOfHalf
  <2> QED BY <1>2, <2>1, <2>3
<1>5. Solution(a)
  <2>1. a = [i \in Nat |-> PowerStep(a, i)]
    BY <1>3, <1>4
  <2> QED BY <2>1 DEF PowerStep
<1>6. power = CHOOSE f : Solution(f)
  BY Zenon DEF power
<1>7. Solution(power)
  <2> HIDE DEF Solution
  <2> QED BY <1>5, <1>6
<1> QED BY <1>7 DEF PowerStep

\* A power of a fraction, however often it is multiplied and rounded, is one.
LEMMA PowerFraction ==
  ASSUME NEW n \in Nat, NEW x \in 0..FIXED_1, NEW result \in 0..FIXED_1
  PROVE  power[n][x][result] \in 0..FIXED_1
<1> DEFINE F == FIXED_1
           Bad == {i \in Nat : \E y, r \in 0..F : power[i][y][r] \notin 0..F}
<1> SUFFICES ASSUME Bad # {} PROVE FALSE
  OBVIOUS
<1>0. F \in Nat
  BY LoadAssumption
<1>1. PICK i \in Bad : \A j \in Bad : i <= j
  BY Least
<1>2. PICK y \in 0..F, r \in 0..F : power[i][y][r] \notin 0..F
  OBVIOUS
<1> DEFINE s == IF i % 2 = 1 THEN shifted(r * y) ELSE r
           t == shifted(y * y)
<1>3. s \in 0..F /\ t \in 0..F
  BY ProductFraction
<1>4. power[i][y][r] = IF i = 0 THEN r ELSE power[i \div 2][t][s]
  <2>1. i \in Nat /\ y \in Nat /\ r \in Nat
    BY <1>0
  <2>2. power[i] = PowerStep(power, i)
    BY <2>1, PowerIs
  <2> QED BY <2>1, <2>2 DEF PowerStep
<1> HIDE DEF s, t
<1>5. i = 0 => power[i][y][r] \in 0..F
  BY <1>4
<1>6. i # 0 => power[i][y][r] \in 0..F
  <2> SUFFICES ASSUME i # 0 PROVE power[i][y][r] \in 0..F
    OBVIOUS
  <2>1. i \in Nat /\ i \div 2 \in 0..(i - 1)
    BY Halved
  <2>2. i \div 2 \in Nat /\ ~(i <= i \div 2)
    BY <2>1
  <2>3. i \div 2 \notin Bad
    BY <1>1, <2>2
  <2>4. power[i \div 2][t][s] \in 0..F
    BY <1>3, <2>2, <2>3
  <2> QED BY <1>4, <2>4
<1> QED BY <1>2, <1>5, <1>6

\* What the averages are averages of is at most MaxActive tasks.
LEMMA AveragesStep ==
  ASSUME SampleInv, NEW n \in Nat, avenrun \in [Exp -> 0..(MaxActive * FIXED_1)],
         Closes(n, timer_of(n)) => sampled \in 0..MaxActive
  PROVE  timer_of(n).avenrun \in [Exp -> 0..(MaxActive * FIXED_1)]
<1> DEFINE Averages == [Exp -> 0..(MaxActive * FIXED_1)]
           j == jiffies + n
           L == LOAD_FREQ
           U == calc_load_update
           active == IF sampled > 0 THEN sampled * FIXED_1 ELSE 0
           H == [Global EXCEPT !.tasks = sampled,
                               !.idle[calc_load_idx] = 0,
                               !.avenrun = [e \in Exp |-> calc_load(@[e], e, active)],
                               !.update = @ + LOAD_FREQ]
           k == IF j < U + L + Window THEN 0 ELSE 1 + (j - (U + L) - Window) \div L
<1>0. /\ jiffies \in Nat /\ j \in Nat /\ U \in Nat /\ L \in Nat \ {0} /\ Window \in Nat
      /\ MaxActive \in Nat /\ FIXED_1 \in Nat /\ Exp \subseteq 0..FIXED_1
  BY LoadAssumption DEF SampleInv, LoadTypes
<1>1. CASE Quiet(n, timer_of(n))
  BY <1>1 DEF Quiet, Global
<1>2. CASE Closes(n, timer_of(n))
  <2>1. sampled \in 0..MaxActive
    BY <1>2
  <2>2. active \in 0..(MaxActive * FIXED_1)
    <3>1. sampled * FIXED_1 \in Nat /\ sampled * FIXED_1 <= MaxActive * FIXED_1
          /\ MaxActive * FIXED_1 \in Nat
      BY <1>0, <2>1
    <3> QED BY <3>1
  <2>3. timer_of(n) = calc_global_nohz(H, j)
    <3>1. n # 0 /\ ~(j < U + Window)
      BY <1>0, <1>2 DEF Closes, SampleInv, Folded
    <3> QED BY <3>1 DEF timer_of, calc_global_load
  <2>4. /\ H.tasks = sampled /\ H.update = U + L
        /\ H \in [tasks : {H.tasks}, idle : {H.idle}, idx : {H.idx}, update : {H.update},
                  avenrun : {H.avenrun}]
    BY DEF Global
  <2>9. H.avenrun = [e \in Exp |-> calc_load(avenrun[e], e, active)]
    <3> HIDE DEF active
    <3> QED BY DEF Global
  <2> HIDE DEF H
  <2>5. timer_of(n).avenrun = IF k = 0 THEN H.avenrun
                              ELSE [e \in Exp |-> calc_load_n(H.avenrun[e], e, active, k)]
    BY <2>3, <2>4 DEF calc_global_nohz
  <2>6. k \in Nat
    <3>1. CASE j < U + L + Window
      BY <3>1
    <3>2. CASE ~(j < U + L + Window)
      <4>1. j - (U + L) - Window \in Nat
        BY <1>0, <3>2
      <4> HIDE DEF j, U
      <4>2. (j - (U + L) - Window) \div L \in Nat
        BY <1>0, <4>1
      <4> QED BY <4>2
    <3> QED BY <3>1, <3>2
  <2> HIDE DEF active, k
  <2>7. H.avenrun \in Averages
    <3>1. \A e \in Exp : calc_load(avenrun[e], e, active) \in 0..(MaxActive * FIXED_1)
      BY <1>0, <2>2, LoadBounded
    <3> QED BY <2>9, <3>1
  <2>8. \A e \in Exp : calc_load_n(H.avenrun[e], e, active, k) \in 0..(MaxActive * FIXED_1)
    <3> TAKE e \in Exp
    <3>1. fixed_power_int(e, k) \in 0..FIXED_1
      <4>1. FIXED_1 \in 0..FIXED_1
        BY <1>0
      <4> QED BY <1>0, <2>6, <4>1, PowerFraction DEF fixed_power_int
    <3>2. H.avenrun[e] \in 0..(MaxActive * FIXED_1)
      BY <2>7
    <3>3. calc_load(H.avenrun[e], fixed_power_int(e, k), active) \in 0..(MaxActive * FIXED_1)
      BY <1>0, <2>2, <3>1, <3>2, LoadBounded
    <3> QED BY <3>3 DEF calc_load_n
  <2> QED BY <2>5, <2>7, <2>8
<1> QED BY <1>1, <1>2, TimerOf

\* When a window closes, the sample is from the last period.
LEMMA ClosingSample ==
  ASSUME SampleInv, NEW n \in Nat, Closes(n, timer_of(n)), tick_stopped \/ n <= 1
  PROVE  sampled \in up_to_opening \cup {at_opening}
<1>1. tick_stopped => calc_load_active = nr_active
  BY DEF SampleInv, Folded
<1>2. ~tick_stopped => jiffies >= calc_load_update
  <2>1. /\ jiffies \in Nat /\ calc_load_update \in Nat /\ Window \in Nat /\ Window >= 1
        /\ calc_load_update + Window <= jiffies + n
    BY LoadAssumption DEF SampleInv, LoadTypes, Closes
  <2> QED BY <2>1
<1> QED BY <1>1, <1>2, SampledRight

LEMMA SampleTyped ==
  ASSUME SampleInv, sampled \in up_to_opening \cup {at_opening}
  PROVE  sampled \in 0..MaxActive
BY DEF SampleInv, LoadTypes, up_to_opening, at_opening

LoadedInv == SampleInv /\ avenrun \in [Exp -> 0..(MaxActive * FIXED_1)]

LEMMA LoadedStep ==
  ASSUME LoadedInv, [LoadNext]_load_vars
  PROVE  /\ LoadedInv'
         /\ calc_load_update' # calc_load_update => sampled \in up_to_opening \cup {at_opening}
<1>1. SampleInv'
  BY SampleStep DEF LoadedInv
<1>2. ASSUME NEW n \in Nat, tick_stopped \/ n <= 1, do_timer(jiffies + n, timer_of(n))
      PROVE  /\ avenrun' \in [Exp -> 0..(MaxActive * FIXED_1)]
             /\ calc_load_update' # calc_load_update
                  => sampled \in up_to_opening \cup {at_opening}
  <2>1. avenrun' = timer_of(n).avenrun /\ calc_load_update' = timer_of(n).update
    BY <1>2 DEF do_timer
  <2>2. Closes(n, timer_of(n)) => sampled \in up_to_opening \cup {at_opening}
    BY <1>2, ClosingSample DEF LoadedInv
  <2>3. Closes(n, timer_of(n)) => sampled \in 0..MaxActive
    BY <2>2, SampleTyped DEF LoadedInv
  <2>4. Quiet(n, timer_of(n)) => timer_of(n).update = calc_load_update
    BY DEF Quiet, Global
  <2>5. timer_of(n).avenrun \in [Exp -> 0..(MaxActive * FIXED_1)]
    BY <1>2, <2>3, AveragesStep DEF LoadedInv
  <2>6. Quiet(n, timer_of(n)) \/ Closes(n, timer_of(n))
    BY <1>2, TimerOf DEF LoadedInv
  <2> QED BY <2>1, <2>2, <2>4, <2>5, <2>6
<1>3. ASSUME NEW n \in 0..1, Tick(n) PROVE n \in Nat /\ n <= 1 /\ do_timer(jiffies + n, timer_of(n))
  BY <1>3 DEF Tick
<1>4. ASSUME NEW n \in 0..MaxIdle, IdleInterrupt(n) \/ ExitIdle(n)
      PROVE  n \in Nat /\ tick_stopped /\ do_timer(jiffies + n, timer_of(n))
  BY <1>4, LoadAssumption DEF IdleInterrupt, ExitIdle
<1>5. CASE EnterIdle \/ (\E n \in 0..MaxActive : Activity(n)) \/ UNCHANGED load_vars
  <2>1. UNCHANGED <<avenrun, calc_load_update>>
    BY <1>5 DEF EnterIdle, Activity, load_vars
  <2> QED BY <1>1, <2>1 DEF LoadedInv
<1>6. \A n \in 1..MaxIdle : n \in 0..MaxIdle
  BY LoadAssumption
<1> QED BY <1>1, <1>2, <1>3, <1>4, <1>5, <1>6 DEF LoadNext, LoadedInv

\* No delta of a CPU that ticks or idles is lost or folded twice, a sample is a
\* load there was since the window before opened, and no average exceeds the
\* largest load there was: for any window, sampling period and weights, however
\* windows, idle periods and catching up interleave.
THEOREM LoadsSampledRight == LoadSpec => LoadSampled
<1>1. LoadInit => LoadedInv
  <2> SUFFICES ASSUME LoadInit PROVE LoadedInv
    OBVIOUS
  <2>1. LoadInv
    BY DEF LoadInit, LoadInv, Integral, DeltasConserved
  <2>2. LoadTypes
    <3>1. 0 \in 0..MaxActive /\ LOAD_FREQ \in Nat /\ FALSE \in BOOLEAN /\ 0 \in Nat
      BY LoadAssumption
    <3>2. [opened |-> 0, since |-> {0}, before |-> {0}]
            \in [opened : 0..MaxActive, since : SUBSET (0..MaxActive),
                before : SUBSET (0..MaxActive)]
      BY <3>1
    <3> QED BY <3>1, <3>2 DEF LoadInit, LoadTypes
  <2>3. Folded
    <3>1. LOAD_FREQ \in Nat /\ LOAD_FREQ > 0 /\ Window \in Nat /\ 0 \in Nat /\ 1 \in Nat
      BY LoadAssumption
    <3>2. /\ jiffies = 0 /\ rq_load_update = LOAD_FREQ /\ calc_load_update = LOAD_FREQ
          /\ tick_stopped = FALSE /\ history.since = {0} /\ nr_active = 0 /\ next_slot = 0
      BY DEF LoadInit, next_slot
    <3>3. LOAD_FREQ + 1 * LOAD_FREQ = LOAD_FREQ + LOAD_FREQ
      BY <3>1
    <3> QED BY <3>1, <3>2, <3>3 DEF Folded
  <2>4. avenrun \in [Exp -> 0..(MaxActive * FIXED_1)]
    <3>1. 0 \in 0..(MaxActive * FIXED_1)
      BY LoadAssumption
    <3> QED BY <3>1 DEF LoadInit
  <2> QED BY <2>1, <2>2, <2>3, <2>4 DEF LoadedInv, SampleInv
<1>2. LoadedInv /\ [LoadNext]_load_vars => LoadedInv'
  BY LoadedStep
<1>3. LoadedInv /\ [LoadNext]_load_vars
        => [calc_load_update' # calc_load_update
              => sampled \in up_to_opening \cup {at_opening}]_load_vars
  BY LoadedStep
<1>4. LoadedInv => LoadTypeOK /\ DeltasConserved
  BY DEF LoadedInv, SampleInv, LoadTypes, LoadInv, Integral, LoadTypeOK
<1> QED BY <1>1, <1>2, <1>3, <1>4, PTL DEF LoadSpec, LoadSampled, SampleFromLastPeriod

-----------------------------------------------------------------------------
(* CpuClock *)

Pairs == [{1, 2} -> Nat]

\* What reading word i of both times adds.
word(i) == (IF i = 1 THEN Word ELSE 1) * (irq_time["softirq"][i] + irq_time["hardirq"][i])

\* The time of the other kind.
other(kind) == IF kind = "hardirq" THEN "softirq" ELSE "hardirq"

\* What the reader has, if nobody wrote since it looked at the count.
has_read ==
  (IF 1 \in reader.left THEN 0 ELSE word(1)) + (IF 2 \in reader.left THEN 0 ELSE word(2))

ClockTypes ==
  /\ now \in Nat /\ irq_start \in 0..now
  /\ context \in Seq(Kind)
  /\ irq_time \in [Kind -> Pairs]
  /\ sequence \in Nat
  /\ vtime \in [at : {"idle", "store", "end"}, kind : Kind, sum : Nat, left : SUBSET {1, 2}]
  /\ clock \in Int /\ clock_task \in Int /\ prev_irq_time \in Int
  /\ reader \in [at : {"free", "begin", "read", "retry"}, delta : Int, seq : Nat, value : Nat,
                 left : SUBSET {1, 2}]

\* The words already stored are those of the sum, which with the time of the
\* other kind is no less than was ever charged.
WriterRight ==
  /\ vtime.at = "idle" <=> sequence % 2 = 0
  /\ vtime.at # "store" => prev_irq_time <= total(irq_time)
  /\ vtime.at = "store" =>
       /\ vtime.left # {}
       /\ prev_irq_time <= vtime.sum + value(irq_time[other(vtime.kind)])
       /\ \A i \in {1, 2} \ vtime.left : irq_time[vtime.kind][i] = words(vtime.sum)[i]

\* While the count is the one it began with, the reader has words of the times
\* as they are.
ReaderRight ==
  /\ clock_task + prev_irq_time + (IF reader.at = "free" THEN 0 ELSE reader.delta) = clock
  /\ reader.at \in {"read", "retry"} =>
       /\ reader.seq % 2 = 0 /\ reader.seq <= sequence
       /\ sequence = reader.seq => reader.value = has_read
  /\ reader.at = "read" => reader.left # {}
  /\ reader.at = "retry" => reader.left = {}

ClockInv == ClockTypes /\ WriterRight /\ ReaderRight

LEMMA WordsValue ==
  ASSUME NEW n \in Nat
  PROVE  words(n) \in Pairs /\ value(words(n)) = n
<1>1. n \div Word \in Nat /\ n % Word \in Nat /\ n = Word * (n \div Word) + (n % Word)
  BY ClockAssumption
<1> QED BY <1>1, ClockAssumption DEF words, value, Pairs

LEMMA TimesTyped ==
  ASSUME ClockTypes
  PROVE  /\ \A k \in Kind : value(irq_time[k]) \in Nat
         /\ total(irq_time) \in Nat
         /\ \A k \in Kind : total(irq_time) = value(irq_time[k]) + value(irq_time[other(k)])
         /\ \A i \in {1, 2} : word(i) \in Nat
         /\ word(1) + word(2) = total(irq_time)
<1>1. \A k \in Kind : irq_time[k][1] \in Nat /\ irq_time[k][2] \in Nat
  BY DEF ClockTypes, Pairs
<1>2. \A k \in Kind : value(irq_time[k]) \in Nat
  BY <1>1, ClockAssumption DEF value
<1>3. word(1) = Word * (irq_time["softirq"][1] + irq_time["hardirq"][1])
      /\ word(2) = irq_time["softirq"][2] + irq_time["hardirq"][2]
  BY <1>1 DEF word, Kind
<1>4. Word * (irq_time["softirq"][1] + irq_time["hardirq"][1])
        = irq_time["softirq"][1] * Word + irq_time["hardirq"][1] * Word
  BY <1>1, ClockAssumption DEF Kind
<1>5. word(1) \in Nat /\ word(2) \in Nat
  BY <1>1, <1>3, ClockAssumption DEF Kind
<1>6. word(1) + word(2) = total(irq_time)
  BY <1>1, <1>3, <1>4, ClockAssumption DEF Kind, total, value
<1> QED BY <1>2, <1>5, <1>6 DEF total, other, Kind

LEMMA ClockInitial == ClockInit => ClockInv
<1> SUFFICES ASSUME ClockInit PROVE ClockInv
  OBVIOUS
<1>1. words(0) \in Pairs /\ value(words(0)) = 0
  BY WordsValue
<1>2. ClockTypes
  BY <1>1 DEF ClockInit, ClockTypes, NoVtime, NoReader, Kind
<1>3. total(irq_time) = 0
  BY <1>1 DEF ClockInit, total, Kind
<1> QED BY <1>2, <1>3 DEF ClockInit, ClockInv, WriterRight, ReaderRight, NoVtime, NoReader

\* update_rq_clock_task() takes off no more than there is.
LEMMA Charged ==
  ASSUME NEW delta \in Int, NEW irq \in Int, prev_irq_time \in Int, clock_task \in Int,
         prev_irq_time <= irq, update_rq_clock_task(delta, irq)
  PROVE  /\ clock_task' \in Int /\ prev_irq_time' \in Int
         /\ clock_task' + prev_irq_time' = clock_task + prev_irq_time + delta
         /\ clock_task' >= clock_task
         /\ prev_irq_time' <= irq
BY DEF update_rq_clock_task, charged

\* The writer's steps.
LEMMA WriterStep ==
  ASSUME ClockInv, \/ ClockTick \/ VtimeBegin \/ (\E i \in {1, 2} : VtimeStore(i)) \/ VtimeEnd
  PROVE  ClockInv' /\ clock_task' = clock_task
<1> USE DEF ClockInv
<1>0. /\ UNCHANGED <<clock, clock_task, prev_irq_time, reader>>
  BY DEF ClockTick, VtimeBegin, VtimeStore, VtimeEnd, rq_unchanged
<1>1. CASE ClockTick
  <2>1. UNCHANGED <<context, irq_start, irq_time, sequence, vtime>> /\ now' = now + 1
    BY <1>1 DEF ClockTick
  <2>2. ClockTypes'
    BY <1>0, <2>1 DEF ClockTypes
  <2>3. WriterRight'
    BY <1>0, <2>1 DEF WriterRight
  <2>4. ReaderRight'
    BY <1>0, <2>1 DEF ReaderRight, has_read, word
  <2> QED BY <1>0, <2>2, <2>3, <2>4
<1>2. CASE VtimeBegin
  <2>1. /\ UNCHANGED <<now, context, irq_time>> /\ irq_start' = now /\ sequence' = sequence + 1
        /\ vtime.at = "idle"
    BY <1>2 DEF VtimeBegin
  <2>2. sequence % 2 = 0 /\ sequence' % 2 # 0
    BY <2>1 DEF WriterRight, ClockTypes
  <2>0. reader.at \in {"read", "retry"} => reader.seq <= sequence' /\ reader.seq # sequence'
    BY <2>1 DEF ReaderRight, ClockTypes
  <2>3. innermost \in Kind \cup {"task"}
    BY DEF innermost, ClockTypes
  <2>4. CASE innermost = "task"
    <3>1. vtime' = [NoVtime EXCEPT !.at = "end"]
      BY <1>2, <2>4 DEF VtimeBegin
    <3>2. ClockTypes'
      <4>1. vtime' = [at |-> "end", kind |-> "hardirq", left |-> {}, sum |-> 0]
        BY <3>1 DEF NoVtime
      <4> QED BY <1>0, <2>1, <4>1 DEF ClockTypes, Kind
    <3>3. WriterRight'
      BY <1>0, <2>1, <2>2, <3>1 DEF WriterRight, NoVtime
    <3>4. ReaderRight'
      BY <1>0, <2>0, <2>1 DEF ReaderRight
    <3> QED BY <1>0, <3>2, <3>3, <3>4
  <2>5. CASE innermost \in Kind
    <3> DEFINE k == innermost
               s == value(irq_time[k]) + now - irq_start
    <3>1. vtime' = [at |-> "store", kind |-> k, left |-> {1, 2}, sum |-> s]
      BY <1>2, <2>5 DEF VtimeBegin, Kind
    <3>2. s \in Nat /\ value(irq_time[k]) <= s
      <4>1. value(irq_time[k]) \in Nat
        BY <2>5, TimesTyped
      <4>2. now - irq_start \in Nat
        BY DEF ClockTypes
      <4> HIDE DEF ClockInv
      <4> QED BY <4>1, <4>2 DEF ClockTypes
    <3>3. k \in Kind /\ other(k) \in Kind
      BY <2>5 DEF Kind, other
    <3> HIDE DEF k, s
    <3>4. ClockTypes'
      BY <1>0, <2>1, <3>1, <3>2, <3>3 DEF ClockTypes
    <3>5. prev_irq_time <= s + value(irq_time[other(k)])
      <4>1. /\ total(irq_time) = value(irq_time[k]) + value(irq_time[other(k)])
            /\ value(irq_time[k]) \in Nat /\ value(irq_time[other(k)]) \in Nat
        BY <3>3, TimesTyped
      <4>2. prev_irq_time <= total(irq_time) /\ prev_irq_time \in Int
        BY <2>1 DEF WriterRight, ClockTypes
      <4>3. value(irq_time[k]) <= s
        BY <3>2 DEF k
      <4> QED BY <4>1, <4>2, <4>3, <3>2
    <3>6. WriterRight'
      BY <1>0, <2>1, <2>2, <3>1, <3>5 DEF WriterRight
    <3>7. ReaderRight'
      BY <1>0, <2>0, <2>1 DEF ReaderRight
    <3> QED BY <1>0, <3>4, <3>6, <3>7
  <2> QED BY <2>3, <2>4, <2>5
<1>3. ASSUME NEW i \in {1, 2}, VtimeStore(i) PROVE ClockInv'
  <2> DEFINE k == vtime.kind
             s == vtime.sum
  <2>1. /\ UNCHANGED <<now, context, irq_start, sequence>> /\ vtime.at = "store" /\ i \in vtime.left
        /\ irq_time' = [irq_time EXCEPT ![k][i] = words(s)[i]]
        /\ vtime' = IF vtime.left = {i} THEN [NoVtime EXCEPT !.at = "end"]
                    ELSE [vtime EXCEPT !.left = @ \ {i}]
    BY <1>3 DEF VtimeStore
  <2>2. k \in Kind /\ s \in Nat /\ other(k) \in Kind /\ other(k) # k
    BY DEF ClockTypes, other, Kind
  <2>3. words(s) \in Pairs /\ value(words(s)) = s
    BY <2>2, WordsValue
  <2>4. sequence % 2 # 0
    BY <2>1 DEF WriterRight
  <2>5. /\ irq_time' \in [Kind -> Pairs]
        /\ irq_time'[other(k)] = irq_time[other(k)]
        /\ irq_time'[k][i] = words(s)[i]
        /\ \A j \in {1, 2} : j # i => irq_time'[k][j] = irq_time[k][j]
    BY <2>1, <2>2, <2>3 DEF ClockTypes, Pairs
  <2>6. \A j \in {1, 2} \ (vtime.left \ {i}) : irq_time'[k][j] = words(s)[j]
    BY <2>1, <2>5 DEF WriterRight
  <2>7. ReaderRight'
    BY <1>0, <2>1, <2>4 DEF ReaderRight, ClockTypes
  <2>8. CASE vtime.left = {i}
    <3>1. vtime' = [NoVtime EXCEPT !.at = "end"]
      BY <2>1, <2>8
    <3>2. ClockTypes'
      BY <1>0, <2>1, <2>5, <3>1 DEF ClockTypes, NoVtime, Kind
    <3>3. \A j \in {1, 2} : irq_time'[k][j] = words(s)[j]
      BY <2>6, <2>8
    <3>4. value(irq_time'[k]) = s
      BY <2>3, <3>3 DEF value
    <3>5. total(irq_time') = s + value(irq_time[other(k)])
      BY <3>4, <2>5, <2>2, <2>3, TimesTyped DEF total, other, Kind
    <3>6. WriterRight'
      BY <1>0, <2>1, <2>4, <3>1, <3>5 DEF WriterRight, NoVtime
    <3> QED BY <2>7, <3>2, <3>6
  <2>9. CASE vtime.left # {i}
    <3>1. vtime' = [vtime EXCEPT !.left = @ \ {i}] /\ vtime.left \ {i} # {}
      BY <2>1, <2>9
    <3>2. /\ vtime'.at = "store" /\ vtime'.kind = k /\ vtime'.sum = s
          /\ vtime'.left = vtime.left \ {i}
      BY <2>1, <3>1 DEF ClockTypes
    <3>3. ClockTypes'
      BY <1>0, <2>1, <2>5, <3>1 DEF ClockTypes
    <3>4. WriterRight'
      BY <1>0, <2>1, <2>4, <2>5, <2>6, <3>1, <3>2 DEF WriterRight
    <3> QED BY <2>7, <3>3, <3>4
  <2> QED BY <2>8, <2>9
<1>4. CASE VtimeEnd
  <2>1. /\ UNCHANGED <<now, irq_start, irq_time>> /\ sequence' = sequence + 1
        /\ vtime.at = "end" /\ vtime' = NoVtime
    BY <1>4 DEF VtimeEnd
  <2>2. sequence % 2 # 0 /\ sequence' % 2 = 0
    BY <2>1 DEF WriterRight, ClockTypes
  <2>3. context' \in Seq(Kind)
    <3>1. CASE context' = <<"softirq">>
      BY <3>1 DEF Kind
    <3>2. CASE context' = Append(context, "hardirq")
      BY <3>2 DEF ClockTypes, Kind
    <3>3. CASE context # <<>> /\ context' = SubSeq(context, 1, Len(context) - 1)
      BY <3>3 DEF ClockTypes
    <3> QED BY <1>4, <3>1, <3>2, <3>3 DEF VtimeEnd
  <2>4. ClockTypes'
    BY <1>0, <2>1, <2>3 DEF ClockTypes, NoVtime, Kind
  <2>5. WriterRight'
    BY <1>0, <2>1, <2>2 DEF WriterRight, NoVtime
  <2>6. ReaderRight'
    <3>1. reader.at \in {"read", "retry"} => reader.seq # sequence + 1
      BY DEF ReaderRight, ClockTypes
    <3> QED BY <1>0, <2>1, <3>1 DEF ReaderRight, ClockTypes
  <2> QED BY <1>0, <2>4, <2>5, <2>6
<1> QED BY <1>0, <1>1, <1>2, <1>3, <1>4

\* The steps of whoever updates the clocks.
LEMMA ReaderStep ==
  ASSUME ClockInv,
         \/ UpdateRqClock \/ RemoteUpdate \/ ReadBegin \/ (\E i \in {1, 2} : ReadWords(i))
         \/ ReadEnd \/ SkipClockUpdate
  PROVE  ClockInv' /\ clock_task' >= clock_task
<1> USE DEF ClockInv
<1>0. UNCHANGED <<now, context, irq_start, irq_time, sequence, vtime>>
  BY DEF UpdateRqClock, RemoteUpdate, ReadBegin, ReadWords, ReadEnd, SkipClockUpdate, reader_only
<1>c. clock_task' = clock_task => clock_task' >= clock_task
  BY DEF ClockTypes
<1>1. CASE UpdateRqClock
  <2>1. /\ reader.at = "free" /\ vtime.at = "idle" /\ clock' = now /\ reader' = reader
        /\ update_rq_clock_task(now - clock, total(irq_time))
    BY <1>1 DEF UpdateRqClock
  <2>2. /\ now - clock \in Int /\ total(irq_time) \in Int /\ prev_irq_time <= total(irq_time)
        /\ clock_task \in Int /\ prev_irq_time \in Int
        /\ clock_task + prev_irq_time = clock
    <3>1. now - clock \in Int /\ clock_task \in Int /\ prev_irq_time \in Int
      BY DEF ClockTypes
    <3>2. total(irq_time) \in Int
      BY TimesTyped
    <3>3. prev_irq_time <= total(irq_time)
      BY <2>1 DEF WriterRight
    <3>4. clock_task + prev_irq_time + 0 = clock
      BY <2>1 DEF ReaderRight
    <3>5. clock_task + prev_irq_time = clock
      BY <3>1, <3>4
    <3> QED BY <3>1, <3>2, <3>3, <3>5
  <2>3. /\ clock_task' \in Int /\ prev_irq_time' \in Int
        /\ clock_task' + prev_irq_time' = clock_task + prev_irq_time + (now - clock)
        /\ clock_task' >= clock_task
        /\ prev_irq_time' <= total(irq_time)
    BY <2>1, <2>2, Charged
  <2>4. ClockTypes'
    BY <1>0, <2>1, <2>3 DEF ClockTypes
  <2>5. WriterRight'
    BY <1>0, <2>1, <2>3 DEF WriterRight
  <2>6. ReaderRight'
    <3>1. now \in Int /\ clock \in Int
      BY DEF ClockTypes
    <3>c. clock' = now /\ clock_task + prev_irq_time = clock
      BY <2>1, <2>2
    <3>d. clock_task' + prev_irq_time' = clock + (now - clock)
      BY <2>3, <3>c
    <3>2. clock_task' + prev_irq_time' = clock' /\ clock_task' \in Int /\ prev_irq_time' \in Int
      <4>1. clock + (now - clock) = now
        BY ONLY <3>1
      <4> QED BY ONLY <4>1, <2>3, <3>c, <3>d
    <3> QED BY <2>1, <3>2 DEF ReaderRight
  <2> QED BY <2>3, <2>4, <2>5, <2>6
<1>2. CASE RemoteUpdate
  <2>1. /\ reader.at = "free" /\ clock' = now /\ UNCHANGED <<clock_task, prev_irq_time>>
        /\ reader' = [NoReader EXCEPT !.at = "begin", !.delta = now - clock]
    BY <1>2 DEF RemoteUpdate
  <2> DEFINE d == now - clock
  <2>d. d \in Int /\ now \in Int
    BY DEF ClockTypes
  <2>r. reader' = [at |-> "begin", delta |-> d, seq |-> 0, value |-> 0, left |-> {}]
    BY <2>1 DEF NoReader
  <2>4. ReaderRight'
    BY <2>1, <2>r DEF ReaderRight, ClockTypes
  <2> HIDE DEF d
  <2>2. ClockTypes'
    BY <1>0, <2>1, <2>d, <2>r DEF ClockTypes
  <2>3. WriterRight'
    BY <1>0, <2>1 DEF WriterRight
  <2> QED BY <1>c, <2>1, <2>2, <2>3, <2>4
<1>3. CASE ReadBegin
  <2>1. /\ reader.at = "begin" /\ sequence % 2 = 0
        /\ UNCHANGED <<clock, clock_task, prev_irq_time>>
        /\ reader' = [reader EXCEPT !.at = "read", !.seq = sequence, !.value = 0, !.left = {1, 2}]
    BY <1>3 DEF ReadBegin, reader_only
  <2>2. /\ reader'.at = "read" /\ reader'.seq = sequence /\ reader'.value = 0
        /\ reader'.left = {1, 2} /\ reader'.delta = reader.delta
    BY <2>1 DEF ClockTypes
  <2>3. ClockTypes'
    BY <1>0, <2>1 DEF ClockTypes
  <2>4. WriterRight'
    BY <1>0, <2>1 DEF WriterRight
  <2>5. ReaderRight'
    BY <1>0, <2>1, <2>2 DEF ReaderRight, ClockTypes, has_read
  <2> QED BY <1>c, <2>1, <2>3, <2>4, <2>5
<1>4. ASSUME NEW i \in {1, 2}, ReadWords(i) PROVE ClockInv' /\ clock_task' >= clock_task
  <2> DEFINE v == reader.value + word(i)
  <2>1. /\ reader.at = "read" /\ i \in reader.left /\ UNCHANGED <<clock, clock_task, prev_irq_time>>
        /\ reader' = [reader EXCEPT !.value = v, !.left = @ \ {i},
                                    !.at = IF reader.left = {i} THEN "retry" ELSE "read"]
    BY <1>4 DEF ReadWords, reader_only, word
  <2>2. v \in Nat /\ word(1) \in Nat /\ word(2) \in Nat
    BY TimesTyped DEF ClockTypes
  <2>3. sequence = reader.seq => v = (IF 1 \in reader.left \ {i} THEN 0 ELSE word(1))
                                     + (IF 2 \in reader.left \ {i} THEN 0 ELSE word(2))
    <3> SUFFICES ASSUME sequence = reader.seq
                 PROVE  v = (IF 1 \in reader.left \ {i} THEN 0 ELSE word(1))
                            + (IF 2 \in reader.left \ {i} THEN 0 ELSE word(2))
      OBVIOUS
    <3>1. reader.value = (IF 1 \in reader.left THEN 0 ELSE word(1))
                         + (IF 2 \in reader.left THEN 0 ELSE word(2))
      BY <2>1 DEF ReaderRight, has_read
    <3> HIDE DEF ClockInv
    <3>2. CASE i = 1
      BY <2>1, <2>2, <3>1, <3>2
    <3>3. CASE i = 2
      BY <2>1, <2>2, <3>1, <3>3
    <3> QED BY <3>2, <3>3
  <2>4. word(1)' = word(1) /\ word(2)' = word(2)
    BY <1>0 DEF word
  <2> HIDE DEF v
  <2>5. /\ reader'.at = (IF reader.left = {i} THEN "retry" ELSE "read")
        /\ reader'.seq = reader.seq /\ reader'.value = v
        /\ reader'.left = reader.left \ {i} /\ reader'.delta = reader.delta
    BY <2>1 DEF ClockTypes
  <2>6. ClockTypes'
    BY <1>0, <2>1, <2>2 DEF ClockTypes
  <2>7. WriterRight'
    BY <1>0, <2>1 DEF WriterRight
  <2>8. ReaderRight'
    <3>1. has_read' = (IF 1 \in reader.left \ {i} THEN 0 ELSE word(1))
                      + (IF 2 \in reader.left \ {i} THEN 0 ELSE word(2))
      BY <2>4, <2>5 DEF has_read
    <3>2. (clock_task + prev_irq_time + (IF reader.at = "free" THEN 0 ELSE reader.delta) = clock)'
      BY <2>1, <2>5 DEF ReaderRight
    <3>3. reader.left # {} /\ (reader'.at = "read" <=> reader'.left # {})
      BY <2>1, <2>5 DEF ReaderRight
    <3> QED BY <1>0, <2>1, <2>3, <2>5, <3>1, <3>2, <3>3 DEF ReaderRight
  <2> QED BY <1>c, <2>1, <2>6, <2>7, <2>8
<1>5. CASE ReadEnd
  <2>1. reader.at = "retry" /\ UNCHANGED clock /\ reader.left = {}
    BY <1>5 DEF ReadEnd, ReaderRight
  <2>2. CASE sequence # reader.seq
    <3>1. reader' = [reader EXCEPT !.at = "begin"] /\ UNCHANGED <<clock_task, prev_irq_time>>
      BY <1>5, <2>2 DEF ReadEnd, read_seqcount_retry
    <3>2. ClockTypes'
      BY <1>0, <2>1, <3>1 DEF ClockTypes
    <3>3. WriterRight'
      BY <1>0, <3>1 DEF WriterRight
    <3>4. ReaderRight'
      BY <2>1, <3>1 DEF ReaderRight, ClockTypes
    <3> QED BY <1>c, <3>1, <3>2, <3>3, <3>4
  <2>3. CASE sequence = reader.seq
    <3>1. reader' = NoReader /\ update_rq_clock_task(reader.delta, reader.value)
      BY <1>5, <2>3 DEF ReadEnd, read_seqcount_retry
    <3>2. reader.value = total(irq_time) /\ sequence % 2 = 0
      BY <2>1, <2>3, TimesTyped DEF ReaderRight, has_read
    <3>3. /\ reader.delta \in Int /\ reader.value \in Int /\ prev_irq_time <= reader.value
          /\ clock_task \in Int /\ prev_irq_time \in Int /\ vtime.at = "idle"
          /\ clock_task + prev_irq_time + reader.delta = clock
      BY <2>1, <3>2 DEF ClockTypes, WriterRight, ReaderRight
    <3>4. /\ clock_task' \in Int /\ prev_irq_time' \in Int
          /\ clock_task' + prev_irq_time' = clock_task + prev_irq_time + reader.delta
          /\ clock_task' >= clock_task
          /\ prev_irq_time' <= reader.value
      BY <3>1, <3>3, Charged
    <3>5. ClockTypes'
      BY <1>0, <2>1, <3>1, <3>4 DEF ClockTypes, NoReader
    <3>6. WriterRight'
      BY <1>0, <3>2, <3>3, <3>4 DEF WriterRight
    <3>7. clock_task' + prev_irq_time' = clock' /\ clock_task' \in Int /\ prev_irq_time' \in Int
      BY <2>1, <3>3, <3>4
    <3>8. ReaderRight'
      BY <3>1, <3>7 DEF ReaderRight, NoReader
    <3> QED BY <3>4, <3>5, <3>6, <3>8
  <2> QED BY <2>2, <2>3
<1>6. CASE SkipClockUpdate
  <2>1. UNCHANGED <<clock, clock_task, prev_irq_time, reader>>
    BY <1>6 DEF SkipClockUpdate
  <2>2. ClockTypes' /\ WriterRight' /\ ReaderRight'
    BY <1>0, <2>1 DEF ClockTypes, WriterRight, ReaderRight, has_read, word
  <2> QED BY <1>c, <2>1, <2>2
<1> QED BY <1>1, <1>2, <1>3, <1>4, <1>5, <1>6

LEMMA ClockStep ==
  ASSUME ClockInv, [ClockNext]_clock_vars
  PROVE  ClockInv' /\ clock_task' >= clock_task
<1>1. clock_task \in Int
  BY DEF ClockInv, ClockTypes
<1>2. CASE UNCHANGED clock_vars
  BY <1>1, <1>2 DEF clock_vars, ClockInv, ClockTypes, WriterRight, ReaderRight, has_read, word
<1>3. CASE ClockNext
  BY <1>1, <1>3, WriterStep, ReaderStep DEF ClockNext
<1> QED BY <1>2, <1>3

\* rq->clock_task, rq->clock and the interrupt times: whatever is interrupted
\* when, and whichever CPU updates the clocks while a two-word time is stored,
\* clock_task never goes back and never has time taken off that no interrupt
\* used.
THEOREM ClockTaskCorrect == ClockSpec => ClockTaskRight
<1>1. ClockInit => ClockInv
  BY ClockInitial
<1>2. ClockInv /\ [ClockNext]_clock_vars => ClockInv' /\ clock_task' >= clock_task
  BY ClockStep
<1>3. ClockInv => /\ reader.at = "free" => clock_task + prev_irq_time = clock
                  /\ vtime.at = "idle" => prev_irq_time <= total(irq_time)
  BY DEF ClockInv, WriterRight, ReaderRight, ClockTypes
<1> QED BY <1>1, <1>2, <1>3, PTL DEF ClockSpec, ClockTaskRight

-----------------------------------------------------------------------------
(* Affinity *)

\* A call that has yet to look at the cpuset again: it has set the mask the task
\* has now, or will set one.
Pending ==
  \E k \in Caller : \/ call[k].pc = "check" /\ call[k].new_mask = allowed
                    \/ call[k].pc = "again" /\ call[k].new_mask # {}

\* A task outside its cpuset is about to be moved.
AffinityInv ==
  /\ AffinityTypeOK
  /\ update \/ allowed \subseteq cpuset \/ Pending

LEMMA AffinityStep ==
  ASSUME AffinityInv, [AffinityNext]_affinity_vars
  PROVE  AffinityInv'
<1> DEFINE M == UNION ({Cpu} \cup Mask)
           Calls == [pc : {"idle", "again", "check"}, new_mask : SUBSET M]
           Entry(c, m) == [pc |-> c, new_mask |-> m]
<1>0. /\ call \in [Caller -> Calls] /\ cpuset \in {Cpu} \cup Mask /\ cpuset # {}
      /\ allowed \subseteq M /\ update \in BOOLEAN
      /\ update \/ allowed \subseteq cpuset \/ Pending
  BY AffinityAssumption DEF AffinityInv, AffinityTypeOK
<1>1. cpuset \in SUBSET M /\ {} \in SUBSET M
  BY <1>0
<1>2. CASE ApplyCpuset
  BY <1>0, <1>1, <1>2 DEF ApplyCpuset, AffinityInv, AffinityTypeOK
<1>3. ASSUME NEW mask \in Mask, UpdateCpuset(mask) PROVE AffinityInv'
  BY <1>0, <1>3 DEF UpdateCpuset, AffinityInv, AffinityTypeOK
<1>4. ASSUME NEW k \in Caller, NEW mask \in Mask, SetAffinity(k, mask) PROVE AffinityInv'
  <2>1. /\ call[k].pc = "idle" /\ UNCHANGED <<allowed, cpuset, update>>
        /\ call' = [call EXCEPT ![k] = Entry("again", mask \cap cpuset)]
    BY <1>4 DEF SetAffinity, NoCall
  <2>2. call' \in [Caller -> Calls]
    BY <1>0, <1>1, <2>1
  <2>3. Pending => Pending'
    BY <1>0, <2>1 DEF Pending
  <2> QED BY <1>0, <2>1, <2>2, <2>3 DEF AffinityInv, AffinityTypeOK
<1>5. ASSUME NEW k \in Caller, Again(k) PROVE AffinityInv'
  <2>1. call[k].pc = "again" /\ UNCHANGED <<cpuset, update>>
    BY <1>5 DEF Again
  <2>2. CASE call[k].new_mask = {}
    <3>1. call' = [call EXCEPT ![k] = Entry("idle", {})] /\ allowed' = allowed
      BY <1>5, <2>2 DEF Again, NoCall
    <3>2. call' \in [Caller -> Calls]
      BY <1>0, <1>1, <3>1
    <3>3. Pending => Pending'
      BY <1>0, <2>1, <2>2, <3>1 DEF Pending
    <3> QED BY <1>0, <2>1, <3>1, <3>2, <3>3 DEF AffinityInv, AffinityTypeOK
  <2>3. CASE call[k].new_mask # {}
    <3>1. call' = [call EXCEPT ![k].pc = "check"] /\ allowed' = call[k].new_mask
      BY <1>5, <2>3 DEF Again
    <3>2. call' \in [Caller -> Calls] /\ allowed' \subseteq M
      BY <1>0, <3>1
    <3>3. Pending'
      BY <1>0, <3>1 DEF Pending
    <3> QED BY <1>0, <2>1, <3>2, <3>3 DEF AffinityInv, AffinityTypeOK
  <2> QED BY <2>2, <2>3
<1>6. ASSUME NEW k \in Caller, Check(k) PROVE AffinityInv'
  <2>1. call[k].pc = "check" /\ UNCHANGED <<allowed, cpuset, update>>
    BY <1>6 DEF Check
  <2>2. CASE call[k].new_mask \subseteq cpuset
    <3>1. call' = [call EXCEPT ![k] = Entry("idle", {})]
      BY <1>6, <2>2 DEF Check, checked, NoCall
    <3>2. call' \in [Caller -> Calls]
      BY <1>0, <1>1, <3>1
    <3>3. Pending => Pending' \/ allowed \subseteq cpuset
      BY <1>0, <2>1, <2>2, <3>1 DEF Pending
    <3> QED BY <1>0, <2>1, <3>2, <3>3 DEF AffinityInv, AffinityTypeOK
  <2>3. CASE ~(call[k].new_mask \subseteq cpuset)
    <3>1. call' = [call EXCEPT ![k] = Entry("again", cpuset)]
      BY <1>6, <2>3 DEF Check, checked
    <3>2. call' \in [Caller -> Calls]
      BY <1>0, <1>1, <3>1
    <3>3. Pending'
      BY <1>0, <3>1 DEF Pending
    <3> QED BY <1>0, <2>1, <3>2, <3>3 DEF AffinityInv, AffinityTypeOK
  <2> QED BY <2>2, <2>3
<1>7. CASE UNCHANGED affinity_vars
  BY <1>7 DEF affinity_vars, AffinityInv, AffinityTypeOK, Pending
<1> QED BY <1>2, <1>3, <1>4, <1>5, <1>6, <1>7 DEF AffinityNext

\* sched_setaffinity(): however calls and changes of the cpuset interleave, a task
\* that no call and no update is about to move is inside its cpuset.
THEOREM QuietWithinCpuset == AffinitySpec => [](AffinityTypeOK /\ WithinCpuset)
<1>1. AffinityInit => AffinityInv
  <2> SUFFICES ASSUME AffinityInit PROVE AffinityInv
    OBVIOUS
  <2> DEFINE M == UNION ({Cpu} \cup Mask)
             Calls == [pc : {"idle", "again", "check"}, new_mask : SUBSET M]
  <2>1. NoCall \in Calls
    BY DEF NoCall
  <2>2. call \in [Caller -> Calls]
    <3> HIDE DEF Calls
    <3>1. call = [k \in Caller |-> NoCall]
      BY DEF AffinityInit
    <3> QED BY <2>1, <3>1
  <2>3. allowed = Cpu /\ cpuset = Cpu /\ update = FALSE
    BY DEF AffinityInit
  <2>4. Cpu \in {Cpu} \cup Mask /\ Cpu \subseteq M
    OBVIOUS
  <2>5. AffinityTypeOK
    BY <2>2, <2>3, <2>4 DEF AffinityTypeOK
  <2> QED BY <2>3, <2>5 DEF AffinityInv
<1>2. AffinityInv /\ [AffinityNext]_affinity_vars => AffinityInv'
  BY AffinityStep
<1>3. AffinityInv => AffinityTypeOK /\ WithinCpuset
  <2>1. NoCall.pc = "idle"
    BY DEF NoCall
  <2> QED BY <2>1 DEF AffinityInv, Pending, WithinCpuset
<1> QED BY <1>1, <1>2, <1>3, PTL DEF AffinitySpec

=============================================================================
