------------------------------ MODULE CpuClock ------------------------------
(***************************************************************************)
(* The clocks of a CPU's run queue (kernel/sched/core.c, with              *)
(* CONFIG_IRQ_TIME_ACCOUNTING on a 32-bit machine): rq->clock, rq->        *)
(* clock_task that leaves interrupts out, and the time spent in hard and   *)
(* soft interrupts.                                                        *)
(*                                                                         *)
(* The CPU itself adds to its interrupt times at every change of context,  *)
(* with interrupts off and no lock.  Whoever holds rq->lock, this CPU or   *)
(* another, updates the clocks and reads those times, which are two words  *)
(* each and guarded by a sequence count only.                              *)
(***************************************************************************)
EXTENDS Integers, Sequences

CONSTANTS
  Word,        \* number of values of a word of a two-word time
  MaxTime,     \* bound on sched_clock()
  MaxSequence  \* bound on the sequence count

ASSUME ClockAssumption == Word \in Nat \ {0}

VARIABLES
  now,                 \* sched_clock_cpu()
  context,             \* "softirq" and "hardirq" entered, innermost last
  irq_start,           \* irq_start_time
  irq_time,            \* cpu_hardirq_time and cpu_softirq_time, each <<high, low>>
  sequence,            \* irq_time_seq
  vtime,               \* account_system_vtime() in progress: where, what it adds to what
  clock, clock_task, prev_irq_time, skip_clock_update,   \* of the run queue
  reader               \* update_rq_clock() by another CPU, which holds rq->lock

clock_vars == <<now, context, irq_start, irq_time, sequence, vtime, clock, clock_task,
                prev_irq_time, skip_clock_update, reader>>

Kind == {"hardirq", "softirq"}
NoVtime == [at |-> "idle", kind |-> "hardirq", sum |-> 0, left |-> {}]
NoReader == [at |-> "free", delta |-> 0, seq |-> 0, value |-> 0, left |-> {}]

words(n) == <<n \div Word, n % Word>>
value(w) == w[1] * Word + w[2]
total(t) == value(t["hardirq"]) + value(t["softirq"])

ClockInit ==
  /\ now = 0 /\ context = <<>> /\ irq_start = 0
  /\ irq_time = [k \in Kind |-> words(0)]
  /\ sequence = 0 /\ vtime = NoVtime
  /\ clock = 0 /\ clock_task = 0 /\ prev_irq_time = 0 /\ skip_clock_update = FALSE
  /\ reader = NoReader

ClockTick ==
  /\ now < MaxTime
  /\ now' = now + 1
  /\ UNCHANGED <<context, irq_start, irq_time, sequence, vtime, clock, clock_task, prev_irq_time,
                 skip_clock_update, reader>>

---------------------------------------------------------------------------
\* account_system_vtime(), before an interrupt is entered and before it is
\* left: the time since irq_start belongs to the context the CPU is in.

rq_unchanged == UNCHANGED <<clock, clock_task, prev_irq_time, skip_clock_update, reader>>

innermost == IF context = <<>> THEN "task" ELSE context[Len(context)]

\* irq_time_write_begin(), and the sum that is going to be stored.
VtimeBegin ==
  /\ vtime.at = "idle" /\ sequence < MaxSequence
  /\ irq_start' = now
  /\ sequence' = sequence + 1
  /\ vtime' = IF innermost = "task" THEN [NoVtime EXCEPT !.at = "end"]
              ELSE [at |-> "store", kind |-> innermost, left |-> {1, 2},
                    sum |-> value(irq_time[innermost]) + now - irq_start]
  /\ UNCHANGED <<now, context, irq_time>> /\ rq_unchanged

\* The two words are stored in either order.
VtimeStore(i) ==
  /\ vtime.at = "store" /\ i \in vtime.left
  /\ irq_time' = [irq_time EXCEPT ![vtime.kind][i] = words(vtime.sum)[i]]
  /\ vtime' = IF vtime.left = {i} THEN [NoVtime EXCEPT !.at = "end"] ELSE [vtime EXCEPT !.left = @ \ {i}]
  /\ UNCHANGED <<now, context, irq_start, sequence>> /\ rq_unchanged

\* irq_time_write_end(); the interrupt is entered (a soft one only from task
\* context, a hard one from either) or left.
VtimeEnd ==
  /\ vtime.at = "end"
  /\ sequence' = sequence + 1
  /\ vtime' = NoVtime
  /\ \/ context = <<>> /\ context' = <<"softirq">>
     \/ innermost # "hardirq" /\ context' = Append(context, "hardirq")
     \/ context # <<>> /\ context' = SubSeq(context, 1, Len(context) - 1)
  /\ UNCHANGED <<now, irq_start, irq_time>> /\ rq_unchanged

---------------------------------------------------------------------------
\* update_rq_clock().

\* Fault: interrupt time that does not fit is taken off as well.
charged_at_once(delta, irq) == irq - prev_irq_time

\* The part of the interrupt time that fits: the rest is left to the next
\* update.
charged(delta, irq) == IF irq - prev_irq_time > delta THEN delta ELSE irq - prev_irq_time

\* update_rq_clock_task(), when irq_time_read() returned irq.
update_rq_clock_task(delta, irq) ==
  /\ prev_irq_time' = prev_irq_time + charged(delta, irq)
  /\ clock_task' = clock_task + delta - charged(delta, irq)

\* By the CPU itself: interrupts are off, so no change of context is halfway.
UpdateRqClock ==
  /\ reader.at = "free" /\ vtime.at = "idle" /\ ~skip_clock_update
  /\ clock' = now
  /\ update_rq_clock_task(now - clock, total(irq_time))
  /\ UNCHANGED <<now, context, irq_start, irq_time, sequence, vtime, skip_clock_update, reader>>

\* By another CPU.
RemoteUpdate ==
  /\ reader.at = "free" /\ ~skip_clock_update
  /\ clock' = now
  /\ reader' = [NoReader EXCEPT !.at = "begin", !.delta = now - clock]
  /\ UNCHANGED <<now, context, irq_start, irq_time, sequence, vtime, clock_task, prev_irq_time,
                 skip_clock_update>>

reader_only == UNCHANGED <<now, context, irq_start, irq_time, sequence, vtime, clock, clock_task,
                           prev_irq_time, skip_clock_update>>

\* read_seqcount_begin() waits for an even count.
ReadBegin ==
  /\ reader.at = "begin" /\ sequence % 2 = 0
  /\ reader' = [reader EXCEPT !.at = "read", !.seq = sequence, !.value = 0, !.left = {1, 2}]
  /\ reader_only

\* The words of both times, the high or the low ones first.
ReadWords(i) ==
  /\ reader.at = "read" /\ i \in reader.left
  /\ reader' = [reader EXCEPT
                  !.value = @ + (IF i = 1 THEN Word ELSE 1)
                                  * (irq_time["softirq"][i] + irq_time["hardirq"][i]),
                  !.left = @ \ {i},
                  !.at = IF reader.left = {i} THEN "retry" ELSE "read"]
  /\ reader_only

read_seqcount_retry(start) == sequence # start

ReadEnd ==
  /\ reader.at = "retry"
  /\ IF read_seqcount_retry(reader.seq)
     THEN reader' = [reader EXCEPT !.at = "begin"] /\ UNCHANGED <<clock_task, prev_irq_time>>
     ELSE reader' = NoReader /\ update_rq_clock_task(reader.delta, reader.value)
  /\ UNCHANGED <<now, context, irq_start, irq_time, sequence, vtime, clock, skip_clock_update>>

\* A reschedule that is due already does without further updates until the
\* next schedule().
SkipClockUpdate ==
  /\ reader.at = "free"
  /\ skip_clock_update' = ~skip_clock_update
  /\ UNCHANGED <<now, context, irq_start, irq_time, sequence, vtime, clock, clock_task,
                 prev_irq_time, reader>>

ClockNext ==
  \/ ClockTick
  \/ VtimeBegin \/ (\E i \in {1, 2} : VtimeStore(i)) \/ VtimeEnd
  \/ UpdateRqClock
  \/ RemoteUpdate \/ ReadBegin \/ (\E i \in {1, 2} : ReadWords(i)) \/ ReadEnd
  \/ SkipClockUpdate

ClockSpec == ClockInit /\ [][ClockNext]_clock_vars

---------------------------------------------------------------------------
\* "This ensures ->clock_task is monotonic": neither an update inside an
\* interrupt nor one by another CPU while an interrupt ends sets it back.  And
\* no time is lost between the two clocks, and none of an interrupt that was
\* not spent is taken off: a reader on another CPU never sees half of a two-word
\* time.
ClockTaskRight ==
  /\ [](/\ reader.at = "free" => clock_task + prev_irq_time = clock
        /\ vtime.at = "idle" => prev_irq_time <= total(irq_time))
  /\ [][clock_task' >= clock_task]_clock_vars
=============================================================================
