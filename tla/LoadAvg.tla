------------------------------ MODULE LoadAvg -------------------------------
(***************************************************************************)
(* The load averages of kernel/sched/core.c on one CPU with CONFIG_NO_HZ:  *)
(* every LOAD_FREQ jiffies a sample window of Window jiffies opens; the    *)
(* CPU folds its number of active tasks into calc_load_tasks at its first  *)
(* tick in the window, or into calc_load_idle when it stops its tick, and  *)
(* calc_global_load() averages the sum when the window closes.             *)
(*                                                                         *)
(* When the tick is stopped, jiffies stand still until an interrupt or the *)
(* end of idling makes up for all of them at once.  The timer code that    *)
(* calls into core.c is not part of this repository.                       *)
(***************************************************************************)
EXTENDS Integers

CONSTANTS
  LOAD_FREQ,   \* jiffies between two windows
  Window,      \* jiffies a window is open, the "10" of the code; below LOAD_FREQ
  FSHIFT,      \* bits of the fraction of a load average
  Exp,         \* EXP_1, EXP_5 and EXP_15
  MaxActive,   \* bound: active tasks
  MaxIdle,     \* bound: jiffies from one interrupt to the next while idle
  MaxJiffies   \* bound: jiffies that are followed

VARIABLES
  jiffies,
  nr_active,         \* rq->nr_running + rq->nr_uninterruptible
  tick_stopped,      \* the CPU idles with its tick stopped
  calc_load_active,  \* rq->calc_load_active: what the CPU has folded so far
  rq_load_update,    \* rq->calc_load_update: when the CPU folds next
  calc_load_update,  \* when the next window opens, or did open
  calc_load_tasks,
  calc_load_idle,    \* deltas of idle CPUs, for this window and the next
  calc_load_idx,     \* which of the two is read next
  avenrun,
  history            \* nr_active when the last window opened, and the values
                     \* it had between the last two openings, and since

load_vars ==
  <<jiffies, nr_active, tick_stopped, calc_load_active, rq_load_update, calc_load_update,
    calc_load_tasks, calc_load_idle, calc_load_idx, avenrun, history>>

-----------------------------------------------------------------------------
(* Fixed-point arithmetic *)

FIXED_1 == 2^FSHIFT

ASSUME LoadAssumption ==
  /\ LOAD_FREQ \in Nat /\ Window \in 1..(LOAD_FREQ - 1)
  /\ FSHIFT \in Nat /\ FIXED_1 \in Nat \ {0}
  /\ Exp \subseteq 0..FIXED_1
  /\ MaxActive \in Nat /\ MaxIdle \in Nat

\* Back to FSHIFT bits after a multiplication, rounded.
shifted(x) == (x + FIXED_1 \div 2) \div FIXED_1

calc_load(load, exp, active) == shifted(load * exp + active * (FIXED_1 - exp))

\* fixed_power_int(): x to the power of n, by the binary digits of n, times result.
power[n \in Nat] ==
  [x \in Nat |-> [result \in Nat |->
    IF n = 0 THEN result
    ELSE power[n \div 2][shifted(x * x)][IF n % 2 = 1 THEN shifted(result * x) ELSE result]]]

fixed_power_int(x, n) == power[n][x][FIXED_1]

calc_load_n(load, exp, active, n) == calc_load(load, fixed_power_int(exp, n), active)

-----------------------------------------------------------------------------
(* The CPU's side *)

\* calc_load_fold_active(): the change since the CPU last folded.
calc_load_fold_active == nr_active - calc_load_active

\* In a window, idle deltas already belong to the next one.
calc_load_write_idx ==
  IF jiffies < calc_load_update THEN calc_load_idx ELSE 1 - calc_load_idx

\* calc_load_account_active() at jiffy j, when the global count is tasks.
calc_load_account_active(j, tasks) ==
  IF j < rq_load_update
    THEN calc_load_tasks' = tasks /\ UNCHANGED <<calc_load_active, rq_load_update>>
    ELSE /\ calc_load_tasks' = tasks + calc_load_fold_active
         /\ calc_load_active' = nr_active
         /\ rq_load_update' = rq_load_update + LOAD_FREQ

\* calc_load_exit_idle() at jiffy j, when calc_load_update is update.
calc_load_exit_idle(j, update) ==
  rq_load_update' = IF j < rq_load_update THEN rq_load_update
                    ELSE IF j < update + Window THEN update + LOAD_FREQ
                    ELSE update

-----------------------------------------------------------------------------
(* The global side *)

\* The global state, as calc_global_load() changes it.
Global == [tasks |-> calc_load_tasks, idle |-> calc_load_idle, idx |-> calc_load_idx,
           update |-> calc_load_update, avenrun |-> avenrun]

\* The count calc_global_load() averages: the old idle delta is folded in.
sampled == calc_load_tasks + calc_load_idle[calc_load_idx]

\* calc_global_nohz(): the windows that have closed since, and the other slot.
calc_global_nohz(G, j) ==
  LET n == IF j < G.update + Window THEN 0
           ELSE 1 + (j - G.update - Window) \div LOAD_FREQ
      active == IF G.tasks > 0 THEN G.tasks * FIXED_1 ELSE 0
  IN  [G EXCEPT !.avenrun = IF n = 0 THEN @
                            ELSE [e \in Exp |-> calc_load_n(@[e], e, active, n)],
                !.update = @ + n * LOAD_FREQ,
                !.idx = 1 - @]

\* Fault: the idle delta stays where it is.
global_load_keeps_idle(j) ==
  IF j < calc_load_update + Window THEN Global
  ELSE LET active == IF sampled > 0 THEN sampled * FIXED_1 ELSE 0
       IN  calc_global_nohz(
             [Global EXCEPT !.tasks = sampled,
                            !.avenrun = [e \in Exp |-> calc_load(@[e], e, active)],
                            !.update = @ + LOAD_FREQ], j)

\* calc_global_load() at jiffy j
calc_global_load(j) ==
  IF j < calc_load_update + Window THEN Global
  ELSE LET active == IF sampled > 0 THEN sampled * FIXED_1 ELSE 0
       IN  calc_global_nohz(
             [Global EXCEPT !.tasks = sampled,
                            !.idle[calc_load_idx] = 0,
                            !.avenrun = [e \in Exp |-> calc_load(@[e], e, active)],
                            !.update = @ + LOAD_FREQ], j)

\* The windows that open between now and jiffy j.
openings(j) ==
  {w \in (jiffies + 1)..j : w >= calc_load_update /\ (w - calc_load_update) % LOAD_FREQ = 0}

\* do_timer(): jiffies become j, and the load averages follow; all but the
\* number of active tasks.
do_timer(j, G) ==
  /\ j <= MaxJiffies
  /\ jiffies' = j
  /\ history' = IF openings(j) = {} THEN history
                ELSE [opened |-> nr_active, since |-> {nr_active},
                      before |-> IF \E v, w \in openings(j) : v # w THEN {nr_active}
                                 ELSE history.since]
  /\ calc_load_idle' = G.idle
  /\ calc_load_idx' = G.idx
  /\ calc_load_update' = G.update
  /\ avenrun' = G.avenrun

-----------------------------------------------------------------------------

\* What calc_global_load() leaves when n jiffies are made up for.
timer_of(n) == IF n = 0 THEN Global ELSE calc_global_load(jiffies + n)

\* The timer interrupt: do_timer(), unless idling ended in the same jiffy, then
\* scheduler_tick().
Tick(n) ==
  LET G == timer_of(n)
  IN  /\ ~tick_stopped
      /\ do_timer(jiffies + n, G)
      /\ calc_load_account_active(jiffies + n, G.tasks)
      /\ UNCHANGED <<nr_active, tick_stopped>>

\* The tick is stopped: calc_load_enter_idle().
EnterIdle ==
  /\ ~tick_stopped
  /\ tick_stopped' = TRUE
  /\ calc_load_idle' = [calc_load_idle EXCEPT ![calc_load_write_idx] = @ + calc_load_fold_active]
  /\ calc_load_active' = nr_active
  /\ UNCHANGED <<jiffies, nr_active, rq_load_update, calc_load_update, calc_load_tasks,
                 calc_load_idx, avenrun, history>>

\* An interrupt while the CPU idles makes up for n jiffies.
IdleInterrupt(n) ==
  LET G == timer_of(n)
  IN  /\ tick_stopped
      /\ do_timer(jiffies + n, G)
      /\ calc_load_tasks' = G.tasks
      /\ UNCHANGED <<nr_active, tick_stopped, calc_load_active, rq_load_update>>

\* The CPU has something to do: jiffies are made up for, if any, and
\* calc_load_exit_idle() is called.
ExitIdle(n) ==
  LET G == timer_of(n)
  IN  /\ tick_stopped
      /\ tick_stopped' = FALSE
      /\ do_timer(jiffies + n, G)
      /\ calc_load_tasks' = G.tasks
      /\ calc_load_exit_idle(jiffies + n, G.update)
      /\ UNCHANGED <<nr_active, calc_load_active>>

\* Tasks are woken and go to sleep.
Activity(n) ==
  /\ ~tick_stopped
  /\ n # nr_active
  /\ nr_active' = n
  /\ history' = [history EXCEPT !.since = @ \cup {n}]
  /\ UNCHANGED <<jiffies, tick_stopped, calc_load_active, rq_load_update, calc_load_update,
                 calc_load_tasks, calc_load_idle, calc_load_idx, avenrun>>

\* sched_init()
LoadInit ==
  /\ jiffies = 0
  /\ nr_active = 0
  /\ tick_stopped = FALSE
  /\ calc_load_active = 0
  /\ rq_load_update = LOAD_FREQ
  /\ calc_load_update = LOAD_FREQ
  /\ calc_load_tasks = 0
  /\ calc_load_idle = [i \in 0..1 |-> 0]
  /\ calc_load_idx = 0
  /\ avenrun = [e \in Exp |-> 0]
  /\ history = [opened |-> 0, since |-> {0}, before |-> {0}]

LoadNext ==
  \/ \E n \in 0..1 : Tick(n)
  \/ EnterIdle
  \/ \E n \in 1..MaxIdle : IdleInterrupt(n)
  \/ \E n \in 0..MaxIdle : ExitIdle(n)
  \/ \E n \in 0..MaxActive : Activity(n)

LoadSpec == LoadInit /\ [][LoadNext]_load_vars

-----------------------------------------------------------------------------
(* Properties *)

\* Type correctness; a load average never exceeds the largest load there was.
LoadTypeOK ==
  /\ jiffies \in Nat
  /\ nr_active \in 0..MaxActive
  /\ tick_stopped \in BOOLEAN
  /\ calc_load_active \in 0..MaxActive
  /\ rq_load_update \in Nat
  /\ calc_load_update \in Nat
  /\ calc_load_tasks \in Int
  /\ calc_load_idle \in [0..1 -> Int]
  /\ calc_load_idx \in 0..1
  /\ avenrun \in [Exp -> 0..(MaxActive * FIXED_1)]
  /\ history \in [opened : 0..MaxActive, since : SUBSET (0..MaxActive),
                  before : SUBSET (0..MaxActive)]

\* No delta is lost or folded twice: the global count and what is pending in
\* the two idle slots add up to what the CPU has folded.
DeltasConserved ==
  calc_load_tasks + calc_load_idle[0] + calc_load_idle[1] = calc_load_active

\* The number of active tasks when the window that is sampled next opened, or
\* opens if that is yet to come, and the numbers from the opening before on.
at_opening == IF jiffies < calc_load_update THEN nr_active ELSE history.opened
up_to_opening == IF jiffies < calc_load_update THEN history.since ELSE history.before

\* A sample is a number of active tasks there was between the openings of the
\* window and of the one before it: going idle and waking up inside a window,
\* for however long and however often, never mixes the load of two windows.
SampleFromLastPeriod ==
  [][calc_load_update' # calc_load_update => sampled \in up_to_opening \cup {at_opening}]_load_vars

\* No delta of an active or idle CPU is lost or folded twice, a sample is a load
\* there was since the window before opened, and an average is within the largest
\* load there was.
LoadSampled == [](LoadTypeOK /\ DeltasConserved) /\ SampleFromLastPeriod

\* "skip the entire deal and sync up for the next window": the sample is the
\* number of active tasks at the moment the window opened.
SampledWhenOpened ==
  [][calc_load_update' # calc_load_update => sampled = at_opening]_load_vars

=============================================================================
