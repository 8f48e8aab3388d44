------------------------- MODULE CountingSemaphore --------------------------
(***************************************************************************)
(* What a completion promises: a counter of events, and waiters of whom    *)
(* each takes one event, or gives up while there is none.                  *)
(***************************************************************************)
EXTENDS Integers

CONSTANTS
  Waiter,    \* the tasks that may wait
  UINT_MAX   \* the largest value of the counter

VARIABLES
  events,    \* events nobody has taken
  waiting    \* the tasks that wait for one

vars == <<events, waiting>>

Init == events = 0 /\ waiting = {}

\* n more events, in unsigned arithmetic.
Post(n) ==
  /\ events' = (events + n) % (UINT_MAX + 1)
  /\ UNCHANGED waiting

Begin(w) ==
  /\ events = 0
  /\ w \notin waiting
  /\ waiting' = waiting \cup {w}
  /\ UNCHANGED events

\* An event is taken, by a task that waited or by one that finds it.
Take(left) ==
  /\ events # 0
  /\ events' = events - 1
  /\ waiting' = waiting \ left

GiveUp(w) ==
  /\ events = 0
  /\ w \in waiting
  /\ waiting' = waiting \ {w}
  /\ UNCHANGED events

Next ==
  \/ Post(1) \/ Post(UINT_MAX \div 2)
  \/ Take({})
  \/ \E w \in Waiter : Begin(w) \/ Take({w}) \/ GiveUp(w)

Spec == Init /\ [][Next]_vars

=============================================================================
