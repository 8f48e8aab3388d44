-------------------------- MODULE RtPushPullProofs --------------------------
(***************************************************************************)
(* Proofs about RtPushPull: for every number of tasks and CPUs what CPUs   *)
(* tell each other without locks is exact and only waiting tasks are       *)
(* moved.                                                                  *)
(***************************************************************************)
EXTENDS RtPushPull, DataProofs

-----------------------------------------------------------------------------
(* The inductive invariant *)

movable(g, c) == {t \in queued(g, c) : migratory(g, t)}
waiting(g, c) == {t \in movable(g, c) : g.rq[c].curr # t}

Typed(g) ==
  g \in [task : [Task -> TaskStruct], rq : [Cpu -> RunQueue], rd : RootDomain]

\* What a run queue holds is what it says: the list of pushable tasks with its
\* first priority, and the counts of tasks.
ListExact(g, c) ==
  /\ g.rq[c].pushable = waiting(g, c)
  /\ g.rq[c].next = highest(g, waiting(g, c))

CountsExact(g, c) ==
  /\ g.rq[c].nr_total = Cardinality(queued(g, c))
  /\ g.rq[c].nr_migratory = Cardinality(movable(g, c))

OverloadedExact(g, c) ==
  g.rq[c].overloaded <=> g.rq[c].nr_migratory > 0 /\ g.rq[c].nr_total > 1

QueueExact(g, c) == ListExact(g, c) /\ CountsExact(g, c) /\ OverloadedExact(g, c)

\* What the root domain says of the run queues.
MaskExact(g) ==
  /\ g.rd.rto_mask = {c \in Cpu : g.rq[c].online /\ g.rq[c].overloaded}
  /\ g.rd.rto_count = Cardinality(g.rd.rto_mask)

CpupriExact(g, c) ==
  g.rd.cpupri[c] = IF g.rq[c].online THEN highest(g, queued(g, c)) ELSE CPUPRI_INVALID

Exact(g) ==
  /\ Typed(g)
  /\ \A c \in Cpu : QueueExact(g, c) /\ CpupriExact(g, c)
  /\ MaskExact(g)

Runs(g, t) == \E c \in Cpu : g.rq[c].curr = t

\* CPU c is on its way from schedule() to the switch.
Scheduling(ps, c) == ps[c].op \in {"pull", "pull_locked", "switch"} /\ ps[c].task = Idle

\* A CPU is at a place it can be at: what it has chosen is a task or a CPU, it
\* schedules for itself, and the task it wakes is asleep and its alone.
PlaceOK(g, ps, w) ==
  /\ ps[w].op \in {"push_locked", "wake"} => ps[w].task \in Task
  /\ ps[w].op = "push" /\ ps[w].tries > 0 => ps[w].task \in Task
  /\ ps[w].op = "push_locked" => ps[w].tries < RT_MAX_TRIES
  /\ ps[w].op \in {"push_locked", "pull_locked"} => ps[w].to \in Cpu \ {ps[w].rq}
  /\ ps[w].op = "switch" => ps[w].task = Idle
  /\ Scheduling(ps, w) => ps[w].rq = w
  /\ ps[w].op = "wake" =>
       /\ ~g.task[ps[w].task].on_rq /\ ~Runs(g, ps[w].task)
       /\ ps[w].rq \in g.task[ps[w].task].allowed
       /\ \A v \in Cpu : ps[v].op = "wake" /\ ps[v].task = ps[w].task => v = w

PlacesOK(g, ps) == ps \in [Cpu -> Place] /\ \A w \in Cpu : PlaceOK(g, ps, w)

\* The task a CPU runs is on its run queue, unless it has just gone to sleep.
RunningOK(g, ps) ==
  \A c \in Cpu : g.rq[c].curr \in Task =>
    /\ g.task[g.rq[c].curr].cpu = c
    /\ g.task[g.rq[c].curr].on_rq \/ Scheduling(ps, c)

Good(g, ps) == Exact(g) /\ PlacesOK(g, ps) /\ RunningOK(g, ps)

IndInv == Good(g0, pc) /\ excused \in BOOLEAN

-----------------------------------------------------------------------------
(* Priorities *)

LEMMA PrioType ==
  ASSUME NEW g, Typed(g), NEW t \in Task
  PROVE  prio(g, t) = g.task[t].prio /\ prio(g, t) \in 1..MAX_RT_PRIO /\ prio(g, t) < MAX_RT_PRIO
<1>1. g.task[t] \in TaskStruct
  BY DEF Typed
<1>2. g.task[t].prio \in 1..(MAX_RT_PRIO - 1)
  BY <1>1 DEF TaskStruct
<1>3. prio(g, t) = g.task[t].prio
  BY RtPushPullAssumption DEF prio
<1> QED BY <1>2, <1>3, RtPushPullAssumption

LEMMA PrioEnds == \A g : prio(g, Idle) = MAX_RT_PRIO /\ prio(g, Stop) = 0
BY RtPushPullAssumption DEF prio

\* highest() is the least of the numbers, and MAX_RT_PRIO when there is none.
LEMMA HighestIs ==
  ASSUME NEW g, Typed(g), NEW S \in SUBSET Task
  PROVE  /\ highest(g, S) \in 1..MAX_RT_PRIO
         /\ \A t \in S : highest(g, S) <= prio(g, t)
         /\ highest(g, S) = MAX_RT_PRIO \/ \E t \in S : highest(g, S) = prio(g, t)
<1> DEFINE P == {prio(g, t) : t \in S} \cup {MAX_RT_PRIO}
<1>1. P \subseteq 1..MAX_RT_PRIO
  BY PrioType, RtPushPullAssumption
<1>2. P # {} /\ P \subseteq Nat
  BY <1>1
<1>3. \A t \in S : prio(g, t) \in P
  OBVIOUS
<1>4. \A x \in P : x = MAX_RT_PRIO \/ \E t \in S : x = prio(g, t)
  OBVIOUS
<1> HIDE DEF P
<1>5. \E i \in P : \A j \in P : i <= j
  BY <1>2, Least
<1>6. Min(P) \in P /\ \A j \in P : Min(P) <= j
  BY <1>5 DEF Min
<1>7. highest(g, S) = Min(P)
  BY DEF highest, P
<1> QED BY <1>1, <1>3, <1>4, <1>6, <1>7

\* It depends on the priorities only.
LEMMA HighestSame ==
  ASSUME NEW g, NEW h, NEW S, \A t \in S : prio(g, t) = prio(h, t)
  PROVE  highest(g, S) = highest(h, S)
<1>1. {prio(g, t) : t \in S} = {prio(h, t) : t \in S}
  OBVIOUS
<1> QED BY <1>1 DEF highest

LEMMA HighestAdd ==
  ASSUME NEW g, Typed(g), NEW S \in SUBSET Task, NEW t \in Task
  PROVE  highest(g, S \cup {t}) = IF prio(g, t) < highest(g, S) THEN prio(g, t) ELSE highest(g, S)
<1>1. S \cup {t} \in SUBSET Task
  OBVIOUS
<1> DEFINE a == highest(g, S)
           b == highest(g, S \cup {t})
<1>2. /\ a \in 1..MAX_RT_PRIO
      /\ \A u \in S : a <= prio(g, u)
      /\ a = MAX_RT_PRIO \/ \E u \in S : a = prio(g, u)
  BY HighestIs
<1>3. /\ b \in 1..MAX_RT_PRIO
      /\ \A u \in S \cup {t} : b <= prio(g, u)
      /\ b = MAX_RT_PRIO \/ \E u \in S \cup {t} : b = prio(g, u)
  BY <1>1, HighestIs
<1>4. prio(g, t) \in 1..MAX_RT_PRIO
  BY PrioType
<1> HIDE DEF a, b
<1>5. b <= prio(g, t)
  BY <1>3
<1>6. b <= a
  BY <1>2, <1>3
<1>7. b = prio(g, t) \/ a <= b
  BY <1>2, <1>3
<1>8. b = IF prio(g, t) < a THEN prio(g, t) ELSE a
  BY <1>2, <1>3, <1>4, <1>5, <1>6, <1>7
<1> QED BY <1>8 DEF a, b

\* More tasks, a higher priority.
LEMMA HighestGrows ==
  ASSUME NEW g, Typed(g), NEW S \in SUBSET Task, NEW T \in SUBSET S
  PROVE  highest(g, S) <= highest(g, T)
<1>1. T \in SUBSET Task
  OBVIOUS
<1>2. highest(g, S) \in 1..MAX_RT_PRIO /\ \A t \in S : highest(g, S) <= prio(g, t)
  BY HighestIs
<1>3. highest(g, T) = MAX_RT_PRIO \/ \E t \in T : highest(g, T) = prio(g, t)
  BY <1>1, HighestIs
<1> QED BY <1>2, <1>3, RtPushPullAssumption

-----------------------------------------------------------------------------
(* Sets of tasks of a run queue *)

LEMMA QueuedFinite ==
  ASSUME NEW g, NEW c
  PROVE  /\ queued(g, c) \subseteq Task /\ movable(g, c) \subseteq queued(g, c)
         /\ waiting(g, c) \subseteq movable(g, c)
         /\ IsFiniteSet(queued(g, c)) /\ IsFiniteSet(movable(g, c))
         /\ Cardinality(queued(g, c)) \in Nat /\ Cardinality(movable(g, c)) \in Nat
<1>1. /\ queued(g, c) \subseteq Task /\ movable(g, c) \subseteq queued(g, c)
      /\ waiting(g, c) \subseteq movable(g, c)
  BY DEF queued, movable, waiting
<1>2. IsFiniteSet(queued(g, c)) /\ IsFiniteSet(movable(g, c))
  BY <1>1, FS_Subset, RtPushPullAssumption
<1> QED BY <1>1, <1>2, FS_CardinalityType

\* Whatever leaves the tasks of a run queue, their priorities and affinities
\* and what the run queue says of them alone keeps it exact.
LEMMA QueueSame ==
  ASSUME NEW g, NEW h, NEW c, queued(h, c) = queued(g, c),
         \A t \in queued(g, c) : prio(h, t) = prio(g, t) /\ (migratory(h, t) <=> migratory(g, t)),
         h.rq[c].curr = g.rq[c].curr \/ (g.rq[c].curr \notin movable(g, c) /\ h.rq[c].curr \notin movable(g, c)),
         h.rq[c].pushable = g.rq[c].pushable, h.rq[c].next = g.rq[c].next,
         h.rq[c].nr_total = g.rq[c].nr_total, h.rq[c].nr_migratory = g.rq[c].nr_migratory,
         h.rq[c].overloaded = g.rq[c].overloaded
  PROVE  /\ movable(h, c) = movable(g, c) /\ waiting(h, c) = waiting(g, c)
         /\ highest(h, queued(h, c)) = highest(g, queued(g, c))
         /\ highest(h, waiting(h, c)) = highest(g, waiting(g, c))
         /\ ListExact(g, c) => ListExact(h, c)
         /\ CountsExact(g, c) => CountsExact(h, c)
         /\ QueueExact(g, c) => QueueExact(h, c)
<1>1. movable(h, c) = movable(g, c)
  BY DEF movable
<1>2. waiting(h, c) = waiting(g, c)
  BY <1>1 DEF waiting
<1>3. \A t \in waiting(g, c) : prio(h, t) = prio(g, t)
  BY DEF waiting, movable
<1> DEFINE Q == queued(g, c)
           W == waiting(g, c)
<1>q. highest(g, Q) = highest(h, Q)
  BY HighestSame
<1>w. highest(g, W) = highest(h, W)
  BY <1>3, HighestSame
<1>4. highest(h, queued(h, c)) = highest(g, queued(g, c))
  BY <1>q
<1>5. highest(h, waiting(h, c)) = highest(g, waiting(g, c))
  BY <1>2, <1>w
<1>6. ListExact(g, c) => ListExact(h, c)
  BY <1>2, <1>5 DEF ListExact
<1>7. CountsExact(g, c) => CountsExact(h, c)
  BY <1>1 DEF CountsExact
<1>8. OverloadedExact(g, c) => OverloadedExact(h, c)
  BY DEF OverloadedExact
<1> QED BY <1>1, <1>2, <1>4, <1>5, <1>6, <1>7, <1>8 DEF QueueExact

-----------------------------------------------------------------------------
(* The bookkeeping, step by step *)

LEMMA QueueType ==
  ASSUME NEW g, Typed(g), NEW c \in Cpu
  PROVE  /\ g.rq[c] \in RunQueue /\ g.rq \in [Cpu -> RunQueue] /\ g.task \in [Task -> TaskStruct]
         /\ g.rd \in RootDomain
         /\ g.rq[c].curr \in Task \cup {Idle, Stop} /\ g.rq[c].need_resched \in BOOLEAN
         /\ g.rq[c].online \in BOOLEAN /\ g.rq[c].pushable \in SUBSET Task
         /\ g.rq[c].next \in 1..MAX_RT_PRIO /\ g.rq[c].nr_migratory \in Nat
         /\ g.rq[c].nr_total \in Nat /\ g.rq[c].overloaded \in BOOLEAN
         /\ g.rd.rto_mask \in SUBSET Cpu /\ g.rd.rto_count \in 0..NrCpus
         /\ g.rd.cpupri \in [Cpu -> 1..MAX_RT_PRIO \cup {CPUPRI_INVALID}]
BY DEF Typed, RunQueue, RootDomain

LEMMA CPUFinite ==
  /\ IsFiniteSet(Cpu)
  /\ \A S \in SUBSET Cpu : IsFiniteSet(S) /\ Cardinality(S) \in 0..NrCpus
<1>1. IsFiniteSet(Cpu) /\ Cardinality(Cpu) = NrCpus
  BY FS_Interval, CpusAssumption, RtPushPullAssumption DEF Cpu
<1>2. \A S \in SUBSET Cpu : IsFiniteSet(S) /\ Cardinality(S) <= Cardinality(Cpu)
  BY <1>1, FS_Subset
<1> QED BY <1>1, <1>2, FS_CardinalityType, CpusAssumption, RtPushPullAssumption

\* What an operation on other things leaves alone.
SameRuns(h, g) ==
  \A d \in Cpu : /\ h.rq[d].curr = g.rq[d].curr
                 /\ h.rq[d].need_resched = g.rq[d].need_resched
                 /\ h.rq[d].online = g.rq[d].online

LEMMA CpupriUpdated ==
  ASSUME NEW g, Typed(g), NEW c \in Cpu, NEW h, h = update_cpupri(g, c),
         ~g.rq[c].online => g.rd.cpupri[c] = CPUPRI_INVALID
  PROVE  /\ Typed(h) /\ h.task = g.task /\ h.rq = g.rq
         /\ h.rd.rto_mask = g.rd.rto_mask /\ h.rd.rto_count = g.rd.rto_count
         /\ \A d \in Cpu \ {c} : h.rd.cpupri[d] = g.rd.cpupri[d]
         /\ CpupriExact(h, c)
<1> DEFINE p == highest(g, queued(g, c))
<1>1. p \in 1..MAX_RT_PRIO
  BY QueuedFinite, HighestIs
<1>2. CASE g.rq[c].online
  <2>1. h = [g EXCEPT !.rd.cpupri[c] = p]
    BY <1>2 DEF update_cpupri
  <2> HIDE DEF p
  <2>2. /\ h.task = g.task /\ h.rq = g.rq /\ h.rd = [g.rd EXCEPT !.cpupri[c] = p]
        /\ h = [task |-> h.task, rq |-> h.rq, rd |-> h.rd]
    BY <2>1 DEF Typed
  <2>3. /\ h.rd.rto_mask = g.rd.rto_mask /\ h.rd.rto_count = g.rd.rto_count
        /\ h.rd.cpupri = [g.rd.cpupri EXCEPT ![c] = p]
        /\ h.rd \in RootDomain
    BY <1>1, <2>2, QueueType DEF RootDomain
  <2>4. queued(h, c) = queued(g, c)
    BY <2>2 DEF queued
  <2>5. highest(h, queued(g, c)) = highest(g, queued(g, c))
    <3>1. \A t \in queued(g, c) : prio(g, t) = prio(h, t)
      BY <2>2 DEF prio
    <3> QED BY <3>1, HighestSame
  <2>6. h.rd.cpupri[c] = p
    BY <2>3, QueueType
  <2> QED BY <1>2, <2>2, <2>3, <2>4, <2>5, <2>6, QueueType, SMTT(60) DEF Typed, CpupriExact, p
<1>3. CASE ~g.rq[c].online
  <2>1. h = g
    BY <1>3 DEF update_cpupri
  <2> QED BY <1>3, <2>1 DEF CpupriExact
<1> QED BY <1>2, <1>3

\* set_overload() and clear_overload() keep the mask exact, together with the
\* new value of overloaded.
LEMMA MigrationUpdated ==
  ASSUME NEW g, Typed(g), NEW c \in Cpu, NEW h, h = update_rt_migration(g, c), MaskExact(g)
  PROVE  /\ Typed(h) /\ h.task = g.task /\ h.rd.cpupri = g.rd.cpupri
         /\ MaskExact(h) /\ OverloadedExact(h, c) /\ SameRuns(h, g)
         /\ \A d \in Cpu \ {c} : h.rq[d] = g.rq[d]
         /\ h.rq[c].pushable = g.rq[c].pushable /\ h.rq[c].next = g.rq[c].next
         /\ h.rq[c].nr_total = g.rq[c].nr_total /\ h.rq[c].nr_migratory = g.rq[c].nr_migratory
<1> DEFINE over == g.rq[c].nr_migratory > 0 /\ g.rq[c].nr_total > 1
<1>1. CASE over = g.rq[c].overloaded
  <2>1. h = g
    BY <1>1 DEF update_rt_migration
  <2> QED BY <1>1, <2>1, QueueType DEF OverloadedExact, SameRuns
<1>2. CASE over # g.rq[c].overloaded
  <2> DEFINE o == over
             k == IF o THEN set_overload(g, c) ELSE clear_overload(g, c)
             mask == IF ~g.rq[c].online THEN g.rd.rto_mask
                     ELSE IF o THEN g.rd.rto_mask \cup {c} ELSE g.rd.rto_mask \ {c}
             count == IF ~g.rq[c].online THEN g.rd.rto_count
                      ELSE IF o THEN g.rd.rto_count + 1 ELSE g.rd.rto_count - 1
  <2>1. o \in BOOLEAN /\ (o <=> ~g.rq[c].overloaded)
    BY <1>2, QueueType
  <2>2. h = [k EXCEPT !.rq[c].overloaded = o]
    BY <1>2 DEF update_rt_migration
  <2>o. o <=> g.rq[c].nr_migratory > 0 /\ g.rq[c].nr_total > 1
    OBVIOUS
  <2> HIDE DEF over, o
  <2>3. /\ k.task = g.task /\ k.rq = g.rq /\ k.rd.cpupri = g.rd.cpupri
        /\ k.rd.rto_mask = mask /\ k.rd.rto_count = count
        /\ k = [task |-> k.task, rq |-> k.rq, rd |-> k.rd]
        /\ k.rd = [rto_mask |-> k.rd.rto_mask, rto_count |-> k.rd.rto_count, cpupri |-> k.rd.cpupri]
    <3>1. g = [task |-> g.task, rq |-> g.rq, rd |-> g.rd]
      BY DEF Typed
    <3>2. g.rd = [rto_mask |-> g.rd.rto_mask, rto_count |-> g.rd.rto_count, cpupri |-> g.rd.cpupri]
      BY QueueType DEF RootDomain
    <3>3. CASE ~g.rq[c].online
      BY <3>1, <3>2, <3>3 DEF set_overload, clear_overload
    <3>4. CASE g.rq[c].online /\ o
      BY <3>1, <3>2, <3>4 DEF set_overload
    <3>5. CASE g.rq[c].online /\ ~o
      BY <3>1, <3>2, <3>5 DEF clear_overload
    <3> QED BY <3>3, <3>4, <3>5
  <2> HIDE DEF k
  <2>4. /\ h.task = g.task /\ h.rd = k.rd /\ h.rq = [g.rq EXCEPT ![c].overloaded = o]
        /\ h = [task |-> h.task, rq |-> h.rq, rd |-> h.rd]
    BY <2>2, <2>3
  <2>5. /\ h.rq \in [Cpu -> RunQueue] /\ h.rq[c] = [g.rq[c] EXCEPT !.overloaded = o]
        /\ \A d \in Cpu \ {c} : h.rq[d] = g.rq[d]
    BY <2>1, <2>4, QueueType DEF RunQueue
  <2>6. /\ h.rq[c].overloaded = o
        /\ h.rq[c].pushable = g.rq[c].pushable /\ h.rq[c].next = g.rq[c].next
        /\ h.rq[c].nr_total = g.rq[c].nr_total /\ h.rq[c].nr_migratory = g.rq[c].nr_migratory
        /\ h.rq[c].curr = g.rq[c].curr /\ h.rq[c].need_resched = g.rq[c].need_resched
        /\ h.rq[c].online = g.rq[c].online
    BY <2>5, QueueType DEF RunQueue
  <2>7. SameRuns(h, g)
    BY <2>5, <2>6 DEF SameRuns
  <2>8. mask = {d \in Cpu : h.rq[d].online /\ h.rq[d].overloaded}
    BY <2>1, <2>5, <2>6 DEF MaskExact
  <2>9. count = Cardinality(mask)
    <3>1. IsFiniteSet(g.rd.rto_mask) /\ Cardinality(g.rd.rto_mask) \in Nat
      BY CPUFinite, QueueType
    <3>2. g.rd.rto_count = Cardinality(g.rd.rto_mask)
      BY DEF MaskExact
    <3>3. c \in g.rd.rto_mask <=> g.rq[c].online /\ g.rq[c].overloaded
      BY DEF MaskExact
    <3>4. CASE ~g.rq[c].online
      BY <3>2, <3>4
    <3>5. CASE g.rq[c].online /\ o
      <4>1. Cardinality(g.rd.rto_mask \cup {c}) = Cardinality(g.rd.rto_mask) + 1
        BY <2>1, <3>1, <3>3, <3>5, FS_AddElement
      <4> QED BY <3>2, <3>5, <4>1
    <3>6. CASE g.rq[c].online /\ ~o
      <4>1. Cardinality(g.rd.rto_mask \ {c}) = Cardinality(g.rd.rto_mask) - 1
        BY <2>1, <3>1, <3>3, <3>6, FS_RemoveElement
      <4> QED BY <3>2, <3>6, <4>1
    <3> QED BY <3>4, <3>5, <3>6
  <2>10. MaskExact(h)
    <3>1. h.rd.rto_mask = mask /\ h.rd.rto_count = count
      BY <2>3, <2>4
    <3> HIDE DEF mask, count
    <3>2. h.rd.rto_count = Cardinality(h.rd.rto_mask)
      BY <2>9, <3>1
    <3>3. h.rd.rto_mask = {d \in Cpu : h.rq[d].online /\ h.rq[d].overloaded}
      BY <2>8, <3>1
    <3> QED BY ONLY <3>2, <3>3 DEF MaskExact
  <2>11. h.rd \in RootDomain
    <3>1. mask \in SUBSET Cpu
      BY QueueType
    <3>2. count \in 0..NrCpus
      BY <2>9, <3>1, CPUFinite
    <3> HIDE DEF mask, count
    <3> QED BY <2>3, <2>4, <3>1, <3>2, QueueType DEF RootDomain
  <2>12. Typed(h)
    BY <2>4, <2>5, <2>11, QueueType DEF Typed
  <2>13. OverloadedExact(h, c)
    BY <2>o, <2>6 DEF OverloadedExact
  <2> QED BY <2>3, <2>4, <2>5, <2>6, <2>7, <2>10, <2>12, <2>13
<1> QED BY <1>1, <1>2

\* enqueue_pushable_task() and dequeue_pushable_task() on a run queue whose
\* other fields they leave alone.
OnlyList(h, g, c) ==
  /\ h.task = g.task /\ h.rd = g.rd /\ SameRuns(h, g)
  /\ \A d \in Cpu \ {c} : h.rq[d] = g.rq[d]
  /\ h.rq[c].nr_total = g.rq[c].nr_total /\ h.rq[c].nr_migratory = g.rq[c].nr_migratory
  /\ h.rq[c].overloaded = g.rq[c].overloaded

with_list(g, c, list, n) == [g EXCEPT !.rq[c].pushable = list, !.rq[c].next = n]

LEMMA ListSet ==
  ASSUME NEW g, Typed(g), NEW c \in Cpu, NEW h, NEW list \in SUBSET Task, NEW n \in 1..MAX_RT_PRIO,
         h = with_list(g, c, list, n)
  PROVE  /\ Typed(h) /\ OnlyList(h, g, c)
         /\ h.rq[c].pushable = list /\ h.rq[c].next = n
<1>1. /\ h.task = g.task /\ h.rd = g.rd
      /\ h = [task |-> h.task, rq |-> h.rq, rd |-> h.rd]
      /\ h.rq = [g.rq EXCEPT ![c].pushable = list, ![c].next = n]
  BY DEF Typed, with_list
<1>2. /\ h.rq \in [Cpu -> RunQueue] /\ h.rq[c] = [g.rq[c] EXCEPT !.pushable = list, !.next = n]
      /\ \A d \in Cpu \ {c} : h.rq[d] = g.rq[d]
  <2> DEFINE e == [g.rq[c] EXCEPT !.pushable = list, !.next = n]
  <2>1. e \in RunQueue
    <3> DEFINE r == g.rq[c]
               k == [r EXCEPT !.pushable = list]
    <3>1. r \in RunQueue
      BY QueueType
    <3> HIDE DEF r
    <3>2. k \in RunQueue
      BY <3>1 DEF RunQueue
    <3>3. e = [k EXCEPT !.next = n]
      BY DEF e, r
    <3> HIDE DEF k, e
    <3> QED BY <3>2, <3>3 DEF RunQueue
  <2>2. h.rq = [g.rq EXCEPT ![c] = e]
    BY <1>1, QueueType
  <2> HIDE DEF e
  <2>3. h.rq \in [Cpu -> RunQueue] /\ h.rq[c] = e /\ \A d \in Cpu \ {c} : h.rq[d] = g.rq[d]
    BY <2>1, <2>2, QueueType
  <2> QED BY <2>3 DEF e
<1>3. /\ h.rq[c].pushable = list /\ h.rq[c].next = n
      /\ h.rq[c].nr_total = g.rq[c].nr_total /\ h.rq[c].nr_migratory = g.rq[c].nr_migratory
      /\ h.rq[c].overloaded = g.rq[c].overloaded
      /\ h.rq[c].curr = g.rq[c].curr /\ h.rq[c].need_resched = g.rq[c].need_resched
      /\ h.rq[c].online = g.rq[c].online
  BY <1>2, QueueType DEF RunQueue
<1>4. SameRuns(h, g)
  BY <1>2, <1>3 DEF SameRuns
<1> QED BY <1>1, <1>2, <1>3, <1>4, QueueType DEF OnlyList, Typed

\* The tasks of a run queue are the same while only lists change.
LEMMA ListSame ==
  ASSUME NEW g, NEW h, h.task = g.task
  PROVE  /\ \A d : queued(h, d) = queued(g, d) /\ movable(h, d) = movable(g, d)
         /\ \A t : prio(h, t) = prio(g, t) /\ (migratory(h, t) <=> migratory(g, t))
         /\ \A S : highest(h, S) = highest(g, S)
<1>1. \A d : queued(h, d) = queued(g, d)
  BY DEF queued
<1>2. \A t : prio(h, t) = prio(g, t) /\ (migratory(h, t) <=> migratory(g, t))
  BY DEF prio, migratory
<1>3. \A d : movable(h, d) = movable(g, d)
  BY <1>1, <1>2 DEF movable
<1>4. ASSUME NEW S
      PROVE  highest(h, S) = highest(g, S)
  <2>1. \A t \in S : prio(h, t) = prio(g, t)
    BY <1>2
  <2> QED BY <2>1, HighestSame
<1> QED BY <1>1, <1>2, <1>3, <1>4

less(g, c, t) == g.rq[c].pushable \ {t}
more(g, c, t) == g.rq[c].pushable \cup {t}

\* dequeue_pushable_task() and enqueue_pushable_task() keep next the first
\* priority of the list, whatever is on it.
LEMMA ListShorter ==
  ASSUME NEW g, Typed(g), NEW c \in Cpu, NEW t, NEW h, h = dequeue_pushable_task(g, c, t)
  PROVE  /\ Typed(h) /\ OnlyList(h, g, c)
         /\ h.rq[c].pushable = less(g, c, t)
         /\ h.rq[c].next = highest(g, less(g, c, t))
<1> DEFINE left == g.rq[c].pushable \ {t}
           n == highest(g, left)
<1>1. left \in SUBSET Task
  BY QueueType
<1>2. n \in 1..MAX_RT_PRIO
  BY <1>1, HighestIs
<1>3. h = with_list(g, c, left, n)
  BY DEF with_list, dequeue_pushable_task
<1> HIDE DEF left, n
<1>4. /\ Typed(h) /\ OnlyList(h, g, c)
      /\ h.rq[c].pushable = left /\ h.rq[c].next = n
  BY <1>1, <1>2, <1>3, ListSet
<1> QED BY <1>4 DEF left, n, less

LEMMA ListLonger ==
  ASSUME NEW g, Typed(g), NEW c \in Cpu, NEW t \in Task, NEW h, h = enqueue_pushable_task(g, c, t),
         g.rq[c].next = highest(g, g.rq[c].pushable)
  PROVE  /\ Typed(h) /\ OnlyList(h, g, c)
         /\ h.rq[c].pushable = more(g, c, t)
         /\ h.rq[c].next = highest(g, more(g, c, t))
<1> DEFINE list == g.rq[c].pushable \cup {t}
           n == IF prio(g, t) < g.rq[c].next THEN prio(g, t) ELSE g.rq[c].next
<1>1. list \in SUBSET Task
  BY QueueType
<1>2. n \in 1..MAX_RT_PRIO
  BY PrioType, QueueType
<1>3. h = with_list(g, c, list, n)
  BY QueueType DEF with_list, enqueue_pushable_task, Typed, RunQueue
<1>4. n = highest(g, list)
  <2>1. highest(g, g.rq[c].pushable \cup {t})
          = IF prio(g, t) < highest(g, g.rq[c].pushable) THEN prio(g, t) ELSE highest(g, g.rq[c].pushable)
    BY HighestAdd, QueueType
  <2> QED BY <2>1
<1> HIDE DEF n, list
<1>5. /\ Typed(h) /\ OnlyList(h, g, c)
      /\ h.rq[c].pushable = list /\ h.rq[c].next = n
  BY <1>1, <1>2, <1>3, ListSet
<1> QED BY <1>4, <1>5 DEF list, more

\* The list is exact when it has the right tasks and next is their first priority.
LEMMA ListIsExact ==
  ASSUME NEW g, NEW c \in Cpu, NEW h, OnlyList(h, g, c),
         h.rq[c].pushable = waiting(g, c), h.rq[c].next = highest(g, waiting(g, c))
  PROVE  ListExact(h, c)
<1>1. h.task = g.task /\ h.rq[c].curr = g.rq[c].curr
  BY DEF OnlyList, SameRuns
<1>2. waiting(h, c) = waiting(g, c)
  BY <1>1, ListSame DEF waiting
<1>3. highest(h, waiting(g, c)) = highest(g, waiting(g, c))
  BY <1>1, ListSame
<1> QED BY <1>2, <1>3 DEF ListExact

\* What a change of a list leaves exact.
LEMMA OnlyListKeeps ==
  ASSUME NEW g, NEW h, NEW c \in Cpu, OnlyList(h, g, c)
  PROVE  /\ MaskExact(g) => MaskExact(h)
         /\ \A d \in Cpu : CpupriExact(g, d) => CpupriExact(h, d)
         /\ \A d \in Cpu : CountsExact(g, d) => CountsExact(h, d)
         /\ \A d \in Cpu : OverloadedExact(g, d) => OverloadedExact(h, d)
         /\ \A d \in Cpu \ {c} : ListExact(g, d) => ListExact(h, d)
<1>1. h.task = g.task /\ h.rd = g.rd
  BY DEF OnlyList
<1>2. \A d \in Cpu : /\ h.rq[d].online = g.rq[d].online /\ h.rq[d].overloaded = g.rq[d].overloaded
                     /\ h.rq[d].nr_total = g.rq[d].nr_total
                     /\ h.rq[d].nr_migratory = g.rq[d].nr_migratory
  BY DEF OnlyList, SameRuns
<1>3. MaskExact(g) => MaskExact(h)
  BY <1>1, <1>2 DEF MaskExact
<1>4. \A d : queued(h, d) = queued(g, d) /\ movable(h, d) = movable(g, d)
  BY <1>1, ListSame
<1>5. \A S : highest(h, S) = highest(g, S)
  BY <1>1, ListSame
<1>6. \A d \in Cpu : CpupriExact(g, d) => CpupriExact(h, d)
  BY <1>1, <1>2, <1>4, <1>5 DEF CpupriExact
<1>7. \A d \in Cpu : CountsExact(g, d) => CountsExact(h, d)
  BY <1>2, <1>4 DEF CountsExact
<1>8. \A d \in Cpu : OverloadedExact(g, d) => OverloadedExact(h, d)
  BY <1>2 DEF OverloadedExact
<1>9. \A d \in Cpu \ {c} : waiting(h, d) = waiting(g, d) /\ h.rq[d] = g.rq[d]
  BY <1>4 DEF waiting, OnlyList
<1>10. \A d \in Cpu \ {c} : ListExact(g, d) => ListExact(h, d)
  BY <1>5, <1>9 DEF ListExact
<1> QED BY <1>3, <1>6, <1>7, <1>8, <1>10

-----------------------------------------------------------------------------
(* Putting a task on a run queue and taking it off *)

with_counts(g, c, t, e, n, m) ==
  [g EXCEPT !.task[t] = e, !.rq[c].nr_total = n, !.rq[c].nr_migratory = m]

\* Changing a task and the counts of a run queue, and nothing else.
OnlyCounts(h, g, c) ==
  /\ h.rd = g.rd /\ SameRuns(h, g)
  /\ \A d \in Cpu \ {c} : h.rq[d] = g.rq[d]
  /\ h.rq[c].pushable = g.rq[c].pushable /\ h.rq[c].next = g.rq[c].next
  /\ h.rq[c].overloaded = g.rq[c].overloaded

LEMMA CountsSet ==
  ASSUME NEW g, Typed(g), NEW c \in Cpu, NEW t \in Task, NEW e \in TaskStruct,
         NEW n \in Nat, NEW m \in Nat, NEW h, h = with_counts(g, c, t, e, n, m)
  PROVE  /\ Typed(h) /\ OnlyCounts(h, g, c)
         /\ h.task = [g.task EXCEPT ![t] = e]
         /\ h.rq[c].nr_total = n /\ h.rq[c].nr_migratory = m
<1>1. /\ h.rd = g.rd /\ h.task = [g.task EXCEPT ![t] = e]
      /\ h = [task |-> h.task, rq |-> h.rq, rd |-> h.rd]
      /\ h.rq = [g.rq EXCEPT ![c].nr_total = n, ![c].nr_migratory = m]
  BY DEF Typed, with_counts
<1> DEFINE r == g.rq[c]
           k == [r EXCEPT !.nr_total = n]
           q == [k EXCEPT !.nr_migratory = m]
<1>2. r \in RunQueue
  BY QueueType
<1>3. h.rq = [g.rq EXCEPT ![c] = q]
  BY <1>1, QueueType
<1> HIDE DEF r
<1>4. k \in RunQueue
  BY <1>2 DEF RunQueue
<1>5. /\ k.nr_total = n /\ k.pushable = r.pushable /\ k.next = r.next
      /\ k.overloaded = r.overloaded /\ k.curr = r.curr
      /\ k.need_resched = r.need_resched /\ k.online = r.online
  BY <1>2 DEF RunQueue
<1> HIDE DEF k
<1>6. q \in RunQueue
  BY <1>4 DEF RunQueue
<1>7. /\ q.nr_total = n /\ q.nr_migratory = m /\ q.pushable = r.pushable /\ q.next = r.next
      /\ q.overloaded = r.overloaded /\ q.curr = r.curr
      /\ q.need_resched = r.need_resched /\ q.online = r.online
  BY <1>4, <1>5 DEF RunQueue
<1> HIDE DEF q
<1>8. h.rq \in [Cpu -> RunQueue] /\ h.rq[c] = q /\ \A d \in Cpu \ {c} : h.rq[d] = g.rq[d]
  BY <1>3, <1>6, QueueType
<1>9. SameRuns(h, g)
  BY <1>7, <1>8 DEF SameRuns, r
<1>10. h.task \in [Task -> TaskStruct]
  BY <1>1, QueueType
<1> QED BY <1>1, <1>7, <1>8, <1>9, <1>10, QueueType DEF OnlyCounts, Typed, r

\* One task changes: what others have in common.
OthersSame(h, g, t) == \A u \in Task \ {t} : h.task[u] = g.task[u]
SameKind(h, g, t) == h.task[t].prio = g.task[t].prio /\ h.task[t].allowed = g.task[t].allowed

LEMMA OneTask ==
  ASSUME NEW g, Typed(g), NEW t \in Task, NEW e \in TaskStruct, NEW h,
         h.task = [g.task EXCEPT ![t] = e]
  PROVE  OthersSame(h, g, t) /\ h.task[t] = e
<1>1. g.task \in [Task -> TaskStruct]
  BY DEF Typed
<1> QED BY <1>1 DEF OthersSame

\* What changes when one task does.
LEMMA TaskChanged ==
  ASSUME NEW g, Typed(g), NEW h, NEW t \in Task, NEW e \in TaskStruct,
         h.task = [g.task EXCEPT ![t] = e]
  PROVE  /\ \A u \in Task \ {t} : prio(h, u) = prio(g, u) /\ (migratory(h, u) <=> migratory(g, u))
         /\ prio(h, t) = e.prio /\ (migratory(h, t) <=> Cardinality(e.allowed) > 1)
         /\ \A d : queued(h, d) =
              (queued(g, d) \ {t}) \cup (IF e.on_rq /\ e.cpu = d THEN {t} ELSE {})
         /\ \A d : movable(h, d) =
              (movable(g, d) \ {t})
                \cup (IF e.on_rq /\ e.cpu = d /\ Cardinality(e.allowed) > 1 THEN {t} ELSE {})
<1>1. h.task[t] = e /\ \A u \in Task \ {t} : h.task[u] = g.task[u]
  BY DEF Typed
<1>2. \A u \in Task \ {t} : prio(h, u) = prio(g, u) /\ (migratory(h, u) <=> migratory(g, u))
  BY <1>1, RtPushPullAssumption DEF prio, migratory
<1>3. prio(h, t) = e.prio /\ (migratory(h, t) <=> Cardinality(e.allowed) > 1)
  BY <1>1, RtPushPullAssumption DEF prio, migratory
<1>4. \A d : queued(h, d) = (queued(g, d) \ {t}) \cup (IF e.on_rq /\ e.cpu = d THEN {t} ELSE {})
  BY <1>1 DEF queued
<1>5. \A d : movable(h, d) =
         (movable(g, d) \ {t})
           \cup (IF e.on_rq /\ e.cpu = d /\ Cardinality(e.allowed) > 1 THEN {t} ELSE {})
  <2> SUFFICES ASSUME NEW d
               PROVE  movable(h, d) = (movable(g, d) \ {t})
                 \cup (IF e.on_rq /\ e.cpu = d /\ Cardinality(e.allowed) > 1 THEN {t} ELSE {})
    OBVIOUS
  <2>1. \A u : u \in queued(h, d) <=>
          \/ u \in queued(g, d) /\ u # t
          \/ u = t /\ e.on_rq /\ e.cpu = d
    BY <1>4
  <2>2. \A u \in queued(g, d) : u \in Task
    BY DEF queued
  <2> QED BY <2>1, <2>2, <1>2, <1>3 DEF movable
<1> QED BY <1>2, <1>3, <1>4, <1>5

\* All is exact but what the run queue c says when one of its tasks changes and
\* is counted.
LEMMA Recounted ==
  ASSUME NEW g, Exact(g), NEW c \in Cpu, NEW t \in Task, NEW e \in TaskStruct,
         g.task[t].on_rq => g.task[t].cpu = c, e.on_rq => e.cpu = c,
         NEW h, Typed(h), OnlyCounts(h, g, c), h.task = [g.task EXCEPT ![t] = e]
  PROVE  /\ MaskExact(h)
         /\ \A d \in Cpu \ {c} : QueueExact(h, d) /\ CpupriExact(h, d)
         /\ ~h.rq[c].online => h.rd.cpupri[c] = CPUPRI_INVALID
<1>1. MaskExact(h)
  <2>1. \A d \in Cpu : h.rq[d].online = g.rq[d].online /\ h.rq[d].overloaded = g.rq[d].overloaded
    BY DEF OnlyCounts, SameRuns
  <2> QED BY <2>1 DEF MaskExact, Exact, OnlyCounts
<1>2. ASSUME NEW d \in Cpu \ {c}
      PROVE  QueueExact(h, d) /\ CpupriExact(h, d)
  <2>1. h.rq[d] = g.rq[d]
    BY DEF OnlyCounts
  <2>2. queued(h, d) = queued(g, d)
    <3>1. t \notin queued(g, d)
      BY DEF queued
    <3>2. queued(h, d) = (queued(g, d) \ {t}) \cup (IF e.on_rq /\ e.cpu = d THEN {t} ELSE {})
      BY TaskChanged DEF Exact
    <3> QED BY <3>1, <3>2
  <2>3. \A u \in queued(g, d) : prio(h, u) = prio(g, u) /\ (migratory(h, u) <=> migratory(g, u))
    <3>1. \A u \in queued(g, d) : u \in Task \ {t}
      BY DEF queued
    <3> QED BY <3>1, TaskChanged DEF Exact
  <2>4. /\ highest(h, queued(h, d)) = highest(g, queued(g, d))
        /\ QueueExact(g, d) => QueueExact(h, d)
    <3>1. /\ h.rq[d].curr = g.rq[d].curr
          /\ h.rq[d].pushable = g.rq[d].pushable /\ h.rq[d].next = g.rq[d].next
          /\ h.rq[d].nr_total = g.rq[d].nr_total /\ h.rq[d].nr_migratory = g.rq[d].nr_migratory
          /\ h.rq[d].overloaded = g.rq[d].overloaded
      BY <2>1
    <3> QED BY ONLY <3>1, <2>2, <2>3, QueueSame
  <2> QED BY <2>1, <2>4 DEF Exact, CpupriExact, OnlyCounts
<1>3. ~h.rq[c].online => h.rd.cpupri[c] = CPUPRI_INVALID
  <2>1. CpupriExact(g, c)
    BY DEF Exact
  <2> QED BY <2>1 DEF OnlyCounts, SameRuns, CpupriExact
<1> QED BY <1>1, <1>2, <1>3

\* All but the list of the run queue c is exact again after update_rt_migration().
ButList(h, c) ==
  /\ Typed(h) /\ MaskExact(h)
  /\ CountsExact(h, c) /\ OverloadedExact(h, c) /\ CpupriExact(h, c)
  /\ \A d \in Cpu \ {c} : QueueExact(h, d) /\ CpupriExact(h, d)

LEMMA MigrationCounted ==
  ASSUME NEW k, NEW c \in Cpu, Typed(k), MaskExact(k), CountsExact(k, c), CpupriExact(k, c),
         \A d \in Cpu \ {c} : QueueExact(k, d) /\ CpupriExact(k, d),
         NEW h, h = update_rt_migration(k, c)
  PROVE  /\ ButList(h, c) /\ h.task = k.task /\ SameRuns(h, k)
         /\ h.rq[c].pushable = k.rq[c].pushable /\ h.rq[c].next = k.rq[c].next
<1>1. /\ Typed(h) /\ h.task = k.task /\ h.rd.cpupri = k.rd.cpupri
      /\ MaskExact(h) /\ OverloadedExact(h, c) /\ SameRuns(h, k)
      /\ \A d \in Cpu \ {c} : h.rq[d] = k.rq[d]
      /\ h.rq[c].pushable = k.rq[c].pushable /\ h.rq[c].next = k.rq[c].next
      /\ h.rq[c].nr_total = k.rq[c].nr_total /\ h.rq[c].nr_migratory = k.rq[c].nr_migratory
  BY MigrationUpdated
<1>2. /\ \A d : queued(h, d) = queued(k, d) /\ movable(h, d) = movable(k, d)
      /\ \A S : highest(h, S) = highest(k, S)
      /\ \A t : prio(h, t) = prio(k, t) /\ (migratory(h, t) <=> migratory(k, t))
  BY <1>1, ListSame
<1>3. CountsExact(h, c)
  BY <1>1, <1>2 DEF CountsExact
<1>4. \A d \in Cpu : h.rq[d].online = k.rq[d].online
  BY <1>1 DEF SameRuns
<1>5. \A d \in Cpu : CpupriExact(k, d) => CpupriExact(h, d)
  BY <1>1, <1>2, <1>4 DEF CpupriExact
<1>6. \A d \in Cpu \ {c} : QueueExact(h, d)
  BY <1>1, <1>2, QueueSame
<1> QED BY <1>1, <1>3, <1>5, <1>6 DEF ButList

LEMMA Booked ==
  ASSUME NEW k, NEW c \in Cpu, Typed(k), MaskExact(k), CountsExact(k, c),
         \A d \in Cpu \ {c} : QueueExact(k, d) /\ CpupriExact(k, d),
         ~k.rq[c].online => k.rd.cpupri[c] = CPUPRI_INVALID,
         NEW h, h = update_rt_migration(update_cpupri(k, c), c)
  PROVE  /\ ButList(h, c) /\ h.task = k.task /\ SameRuns(h, k)
         /\ h.rq[c].pushable = k.rq[c].pushable /\ h.rq[c].next = k.rq[c].next
<1> DEFINE l == update_cpupri(k, c)
<1>1. /\ Typed(l) /\ l.task = k.task /\ l.rq = k.rq
      /\ l.rd.rto_mask = k.rd.rto_mask /\ l.rd.rto_count = k.rd.rto_count
      /\ \A d \in Cpu \ {c} : l.rd.cpupri[d] = k.rd.cpupri[d]
      /\ CpupriExact(l, c)
  BY CpupriUpdated
<1>0. h = update_rt_migration(l, c)
  OBVIOUS
<1> HIDE DEF l
<1>2. /\ \A d : queued(l, d) = queued(k, d) /\ movable(l, d) = movable(k, d)
      /\ \A S : highest(l, S) = highest(k, S)
      /\ \A t : prio(l, t) = prio(k, t) /\ (migratory(l, t) <=> migratory(k, t))
  BY <1>1, ListSame
<1>3. MaskExact(l) /\ CountsExact(l, c)
  BY <1>1, <1>2 DEF MaskExact, CountsExact
<1>4. \A d \in Cpu \ {c} : CpupriExact(l, d)
  BY <1>1, <1>2 DEF CpupriExact
<1>5. \A d \in Cpu \ {c} : QueueExact(l, d)
  BY <1>1, <1>2, QueueSame
<1>6. /\ ButList(h, c) /\ h.task = l.task /\ SameRuns(h, l)
      /\ h.rq[c].pushable = l.rq[c].pushable /\ h.rq[c].next = l.rq[c].next
  BY <1>0, <1>1, <1>3, <1>4, <1>5, MigrationCounted
<1> QED BY <1>1, <1>6 DEF SameRuns

\* The list made exact, all is.
LEMMA ListClosed ==
  ASSUME NEW g, NEW c \in Cpu, ButList(g, c), NEW h, Typed(h), OnlyList(h, g, c), ListExact(h, c)
  PROVE  Exact(h) /\ h.task = g.task /\ SameRuns(h, g)
<1>1. /\ MaskExact(h)
      /\ \A d \in Cpu : CpupriExact(h, d) /\ CountsExact(h, d) /\ OverloadedExact(h, d)
      /\ \A d \in Cpu \ {c} : ListExact(h, d)
  BY OnlyListKeeps DEF ButList, QueueExact
<1> QED BY <1>1 DEF Exact, QueueExact, OnlyList

\* enqueue_task_rt(): whatever the task that runs, t included.
LEMMA Enqueued ==
  ASSUME NEW g, Exact(g), NEW c \in Cpu, NEW t \in Task, ~g.task[t].on_rq,
         NEW h, h = enqueue_task_rt(g, c, t)
  PROVE  /\ Exact(h) /\ SameRuns(h, g) /\ OthersSame(h, g, t) /\ SameKind(h, g, t)
         /\ h.task[t].on_rq /\ h.task[t].cpu = c
<1> DEFINE e == [g.task[t] EXCEPT !.on_rq = TRUE, !.cpu = c]
           one == IF migratory(g, t) THEN 1 ELSE 0
           n == g.rq[c].nr_total + 1
           m == g.rq[c].nr_migratory + one
           k == with_counts(g, c, t, e, n, m)
           l == update_rt_migration(update_cpupri(k, c), c)
<1>1. /\ Typed(g) /\ g.task[t] \in TaskStruct
      /\ CountsExact(g, c) /\ ListExact(g, c)
  BY DEF Exact, QueueExact, Typed
<1>2. /\ e \in TaskStruct /\ e.on_rq /\ e.cpu = c
      /\ e.prio = g.task[t].prio /\ e.allowed = g.task[t].allowed
  BY <1>1 DEF TaskStruct
<1>3. n \in Nat /\ m \in Nat
  BY <1>1, QueueType
<1>4. h = IF g.rq[c].curr # t /\ migratory(g, t) THEN enqueue_pushable_task(l, c, t) ELSE l
  <2>1. k = [g EXCEPT !.task[t].on_rq = TRUE, !.task[t].cpu = c,
                      !.rq[c].nr_total = @ + 1, !.rq[c].nr_migratory = @ + one]
    BY <1>1, QueueType, ZenonT(60) DEF with_counts, Typed, TaskStruct, RunQueue
  <2> HIDE DEF k
  <2> QED BY <2>1 DEF enqueue_task_rt
<1>m. migratory(g, t) <=> Cardinality(e.allowed) > 1
  BY <1>2 DEF migratory
<1>n. n = g.rq[c].nr_total + 1 /\ m = g.rq[c].nr_migratory + one /\ one = (IF migratory(g, t) THEN 1 ELSE 0)
  OBVIOUS
<1>k. k = with_counts(g, c, t, e, n, m)
  OBVIOUS
<1>l. l = update_rt_migration(update_cpupri(k, c), c)
  OBVIOUS
<1> HIDE DEF n, m, one, k, l, e
<1>5. /\ Typed(k) /\ OnlyCounts(k, g, c) /\ k.task = [g.task EXCEPT ![t] = e]
      /\ k.rq[c].nr_total = n /\ k.rq[c].nr_migratory = m
  BY <1>1, <1>2, <1>3, <1>k, CountsSet
<1>6. /\ queued(k, c) = queued(g, c) \cup {t} /\ t \notin queued(g, c)
      /\ movable(k, c) = (IF migratory(g, t) THEN movable(g, c) \cup {t} ELSE movable(g, c))
      /\ t \notin movable(g, c)
      /\ \A u \in Task : prio(k, u) = prio(g, u) /\ (migratory(k, u) <=> migratory(g, u))
  <2>1. t \notin queued(g, c) /\ t \notin movable(g, c)
    BY DEF queued, movable
  <2>2. /\ queued(k, c) = (queued(g, c) \ {t}) \cup {t}
        /\ movable(k, c) = (movable(g, c) \ {t}) \cup (IF migratory(g, t) THEN {t} ELSE {})
    BY <1>1, <1>2, <1>5, <1>m, TaskChanged
  <2>3. \A u \in Task \ {t} : prio(k, u) = prio(g, u) /\ (migratory(k, u) <=> migratory(g, u))
    BY <1>1, <1>2, <1>5, TaskChanged
  <2>4. prio(k, t) = e.prio /\ (migratory(k, t) <=> Cardinality(e.allowed) > 1)
    BY <1>1, <1>2, <1>5, TaskChanged
  <2>5. prio(g, t) = e.prio
    BY <1>1, <1>2, PrioType
  <2> QED BY <2>1, <2>2, <2>3, <2>4, <2>5, <1>m
<1>7. n = Cardinality(queued(k, c)) /\ m = Cardinality(movable(k, c))
  <2>1. Cardinality(queued(k, c)) = Cardinality(queued(g, c)) + 1
    BY <1>6, QueuedFinite, FS_AddElement
  <2>2. migratory(g, t) => Cardinality(movable(k, c)) = Cardinality(movable(g, c)) + 1
    BY <1>6, QueuedFinite, FS_AddElement
  <2>3. g.rq[c].nr_total = Cardinality(queued(g, c)) /\ g.rq[c].nr_migratory = Cardinality(movable(g, c))
    BY <1>1 DEF CountsExact
  <2>4. ~migratory(g, t) => Cardinality(movable(k, c)) = Cardinality(movable(g, c))
    BY <1>6
  <2> QED BY <2>1, <2>2, <2>3, <2>4, <1>n, QueuedFinite
<1>8. /\ CountsExact(k, c) /\ MaskExact(k)
      /\ \A d \in Cpu \ {c} : QueueExact(k, d) /\ CpupriExact(k, d)
      /\ ~k.rq[c].online => k.rd.cpupri[c] = CPUPRI_INVALID
  <2>1. (g.task[t].on_rq => g.task[t].cpu = c) /\ (e.on_rq => e.cpu = c)
    BY <1>2
  <2>2. CountsExact(k, c)
    BY <1>5, <1>7 DEF CountsExact
  <2> QED BY <2>1, <2>2, <1>2, <1>5, Recounted
<1>9. /\ ButList(l, c) /\ l.task = k.task /\ SameRuns(l, k)
      /\ l.rq[c].pushable = k.rq[c].pushable /\ l.rq[c].next = k.rq[c].next
  BY <1>5, <1>8, <1>l, Booked
<1>10. /\ \A d : queued(l, d) = queued(k, d) /\ movable(l, d) = movable(k, d)
       /\ \A S : highest(l, S) = highest(k, S)
  BY <1>9, ListSame
<1>11. SameRuns(l, g) /\ l.rq[c].curr = g.rq[c].curr
  BY <1>5, <1>9 DEF OnlyCounts, SameRuns
<1>12. l.rq[c].pushable = waiting(g, c) /\ l.rq[c].next = highest(l, waiting(g, c))
  <2>1. \A u \in waiting(g, c) : prio(g, u) = prio(k, u)
    BY <1>6, QueuedFinite
  <2>2. highest(g, waiting(g, c)) = highest(k, waiting(g, c))
    BY <2>1, HighestSame
  <2> QED BY <2>2, <1>1, <1>5, <1>9, <1>10 DEF ListExact, OnlyCounts
<1>15. h.task = k.task =>
         /\ OthersSame(h, g, t) /\ SameKind(h, g, t) /\ h.task[t].on_rq /\ h.task[t].cpu = c
  BY <1>1, <1>2, <1>5, OneTask DEF SameKind
<1>13. CASE g.rq[c].curr # t /\ migratory(g, t)
  <2>1. h = enqueue_pushable_task(l, c, t)
    BY <1>4, <1>13
  <2>2. waiting(l, c) = waiting(g, c) \cup {t}
    BY <1>6, <1>10, <1>11, <1>13 DEF waiting
  <2>3. /\ l.rq[c].pushable \cup {t} = waiting(l, c)
        /\ l.rq[c].next = highest(l, l.rq[c].pushable)
    BY <2>2, <1>12
  <2>4. Typed(h) /\ OnlyList(h, l, c) /\ ListExact(h, c)
    <3>1. /\ Typed(h) /\ OnlyList(h, l, c)
          /\ h.rq[c].pushable = more(l, c, t) /\ h.rq[c].next = highest(l, more(l, c, t))
      BY <2>1, <2>3, <1>9, ListLonger DEF ButList
    <3>2. more(l, c, t) = waiting(l, c)
      BY <2>3 DEF more
    <3> QED BY <3>1, <3>2, ListIsExact
  <2>5. Exact(h) /\ h.task = l.task /\ SameRuns(h, l)
    BY <2>4, <1>9, ListClosed
  <2> QED BY <2>5, <1>9, <1>11, <1>15 DEF SameRuns
<1>14. CASE ~(g.rq[c].curr # t /\ migratory(g, t))
  <2>1. h = l
    BY <1>4, <1>14
  <2>2. waiting(l, c) = waiting(g, c)
    BY <1>6, <1>10, <1>11, <1>14 DEF waiting
  <2>3. ListExact(l, c)
    BY <2>2, <1>12 DEF ListExact
  <2>4. Exact(l)
    BY <2>3, <1>9 DEF Exact, ButList, QueueExact
  <2> QED BY <2>1, <2>4, <1>9, <1>11, <1>15
<1> QED BY <1>13, <1>14

\* dequeue_task_rt(), of a task that waits or runs.
LEMMA Dequeued ==
  ASSUME NEW g, Exact(g), NEW t \in Task, g.task[t].on_rq, NEW h, h = dequeue_task_rt(g, t)
  PROVE  /\ Exact(h) /\ SameRuns(h, g) /\ OthersSame(h, g, t) /\ SameKind(h, g, t)
         /\ ~h.task[t].on_rq /\ h.task[t].cpu = g.task[t].cpu
<1> DEFINE c == g.task[t].cpu
           e == [g.task[t] EXCEPT !.on_rq = FALSE]
           one == IF migratory(g, t) THEN 1 ELSE 0
           n == g.rq[c].nr_total - 1
           m == g.rq[c].nr_migratory - one
           k == with_counts(g, c, t, e, n, m)
           l == update_rt_migration(update_cpupri(k, c), c)
<1>c. c \in Cpu
  BY DEF Exact, Typed, TaskStruct
<1>1. /\ Typed(g) /\ g.task[t] \in TaskStruct
      /\ CountsExact(g, c) /\ ListExact(g, c)
  BY <1>c DEF Exact, QueueExact, Typed
<1>2. /\ e \in TaskStruct /\ ~e.on_rq /\ e.cpu = c
      /\ e.prio = g.task[t].prio /\ e.allowed = g.task[t].allowed
  BY <1>1 DEF TaskStruct
<1>s. t \in queued(g, c) /\ (migratory(g, t) => t \in movable(g, c))
  BY DEF queued, movable
<1>3. n \in Nat /\ m \in Nat
  <2>1. queued(g, c) # {} /\ (migratory(g, t) => movable(g, c) # {})
    BY <1>s
  <2>2. Cardinality(queued(g, c)) # 0 /\ (migratory(g, t) => Cardinality(movable(g, c)) # 0)
    BY <2>1, QueuedFinite, FS_EmptySet
  <2> QED BY <1>1, <2>2, QueuedFinite DEF CountsExact
<1>4. h = dequeue_pushable_task(l, c, t)
  <2>1. k = [g EXCEPT !.task[t].on_rq = FALSE,
                      !.rq[c].nr_total = @ - 1, !.rq[c].nr_migratory = @ - one]
    BY <1>1, <1>c, QueueType DEF with_counts, Typed, TaskStruct, RunQueue
  <2> QED BY <2>1, Zenon DEF dequeue_task_rt
<1>m. migratory(g, t) <=> Cardinality(e.allowed) > 1
  BY <1>2 DEF migratory
<1>n. n = g.rq[c].nr_total - 1 /\ m = g.rq[c].nr_migratory - one /\ one = (IF migratory(g, t) THEN 1 ELSE 0)
  OBVIOUS
<1>k. k = with_counts(g, c, t, e, n, m)
  OBVIOUS
<1>l. l = update_rt_migration(update_cpupri(k, c), c)
  OBVIOUS
<1>r. g.task[t].cpu = c
  OBVIOUS
<1> HIDE DEF c, n, m, one, k, l, e
<1>5. /\ Typed(k) /\ OnlyCounts(k, g, c) /\ k.task = [g.task EXCEPT ![t] = e]
      /\ k.rq[c].nr_total = n /\ k.rq[c].nr_migratory = m
  BY <1>c, <1>1, <1>2, <1>3, <1>k, CountsSet
<1>6. /\ queued(k, c) = queued(g, c) \ {t} /\ movable(k, c) = movable(g, c) \ {t}
      /\ \A u \in Task \ {t} : prio(k, u) = prio(g, u) /\ (migratory(k, u) <=> migratory(g, u))
  BY <1>1, <1>2, <1>5, TaskChanged
<1>7. n = Cardinality(queued(k, c)) /\ m = Cardinality(movable(k, c))
  <2>1. Cardinality(queued(k, c)) = Cardinality(queued(g, c)) - 1
    BY <1>6, <1>s, QueuedFinite, FS_RemoveElement, ZenonT(60)
  <2>2. migratory(g, t) => Cardinality(movable(k, c)) = Cardinality(movable(g, c)) - 1
    BY <1>6, <1>s, QueuedFinite, FS_RemoveElement, ZenonT(60)
  <2>3. ~migratory(g, t) => movable(k, c) = movable(g, c)
    BY <1>6 DEF movable
  <2>4. g.rq[c].nr_total = Cardinality(queued(g, c)) /\ g.rq[c].nr_migratory = Cardinality(movable(g, c))
    BY <1>1 DEF CountsExact
  <2> QED BY <2>1, <2>2, <2>3, <2>4, <1>n, QueuedFinite
<1>8. /\ CountsExact(k, c) /\ MaskExact(k)
      /\ \A d \in Cpu \ {c} : QueueExact(k, d) /\ CpupriExact(k, d)
      /\ ~k.rq[c].online => k.rd.cpupri[c] = CPUPRI_INVALID
  <2>1. (g.task[t].on_rq => g.task[t].cpu = c) /\ (e.on_rq => e.cpu = c)
    BY <1>2, <1>r
  <2>2. CountsExact(k, c)
    BY <1>5, <1>7 DEF CountsExact
  <2> QED BY <1>c, <2>1, <2>2, <1>2, <1>5, Recounted
<1>9. /\ ButList(l, c) /\ l.task = k.task /\ SameRuns(l, k)
      /\ l.rq[c].pushable = k.rq[c].pushable /\ l.rq[c].next = k.rq[c].next
  BY <1>c, <1>5, <1>8, <1>l, Booked
<1>10. \A d : movable(l, d) = movable(k, d)
  BY <1>9, ListSame
<1>11. SameRuns(l, g) /\ l.rq[c].curr = g.rq[c].curr
  BY <1>c, <1>5, <1>9 DEF OnlyCounts, SameRuns
<1>12. l.rq[c].pushable \ {t} = waiting(l, c)
  <2>1. l.rq[c].pushable = waiting(g, c)
    BY <1>1, <1>5, <1>9 DEF ListExact, OnlyCounts
  <2> QED BY <2>1, <1>6, <1>10, <1>11 DEF waiting
<1>13. Typed(h) /\ OnlyList(h, l, c) /\ ListExact(h, c)
  <2>1. /\ Typed(h) /\ OnlyList(h, l, c)
        /\ h.rq[c].pushable = less(l, c, t) /\ h.rq[c].next = highest(l, less(l, c, t))
    BY <1>c, <1>4, <1>9, ListShorter DEF ButList
  <2>2. less(l, c, t) = waiting(l, c)
    BY <1>12 DEF less
  <2> QED BY <1>c, <2>1, <2>2, ListIsExact
<1>14. Exact(h) /\ h.task = l.task /\ SameRuns(h, l)
  BY <1>c, <1>13, <1>9, ListClosed
<1>15. OthersSame(h, g, t) /\ h.task[t] = e
  <2>1. h.task = [g.task EXCEPT ![t] = e]
    BY <1>5, <1>9, <1>14
  <2> QED BY <1>1, <1>2, <2>1, OneTask
<1> QED BY <1>2, <1>r, <1>14, <1>9, <1>11, <1>15 DEF SameRuns, SameKind

with_rq(g, c, q) == [g EXCEPT !.rq[c] = q]

LEMMA RqSet ==
  ASSUME NEW g, Typed(g), NEW c \in Cpu, NEW q \in RunQueue, NEW h, h = with_rq(g, c, q)
  PROVE  /\ Typed(h) /\ h.task = g.task /\ h.rd = g.rd /\ h.rq[c] = q
         /\ \A d \in Cpu \ {c} : h.rq[d] = g.rq[d]
<1>1. /\ h.rd = g.rd /\ h.task = g.task
      /\ h = [task |-> h.task, rq |-> h.rq, rd |-> h.rd]
      /\ h.rq = [g.rq EXCEPT ![c] = q]
  BY DEF Typed, with_rq
<1>2. h.rq \in [Cpu -> RunQueue] /\ h.rq[c] = q /\ \A d \in Cpu \ {c} : h.rq[d] = g.rq[d]
  BY <1>1, QueueType
<1> QED BY <1>1, <1>2, QueueType DEF Typed

\* __set_cpus_allowed() through its hook: the list and the count of a queued
\* task follow its mask.
LEMMA MaskSet ==
  ASSUME NEW g, Exact(g), NEW t \in Task, NEW mask \in Mask,
         NEW h, h = set_cpus_allowed_rt(g, t, mask)
  PROVE  /\ Exact(h) /\ SameRuns(h, g) /\ OthersSame(h, g, t)
         /\ h.task[t].on_rq = g.task[t].on_rq /\ h.task[t].cpu = g.task[t].cpu
         /\ h.task[t].prio = g.task[t].prio /\ h.task[t].allowed = mask
<1> DEFINE c == g.task[t].cpu
           e == [g.task[t] EXCEPT !.allowed = mask]
           was == migratory(g, t)
           is == Cardinality(mask) > 1
           d1 == IF was /\ g.rq[c].curr # t THEN dequeue_pushable_task(g, c, t) ELSE g
           d2 == IF is /\ g.rq[c].curr # t THEN enqueue_pushable_task(d1, c, t) ELSE d1
           m == CASE is /\ ~was -> d2.rq[c].nr_migratory + 1
                  [] was /\ ~is -> d2.rq[c].nr_migratory - 1
                  [] OTHER -> d2.rq[c].nr_migratory
           d3 == [d2 EXCEPT !.rq[c].nr_migratory = m]
           moved == g.task[t].on_rq /\ Cardinality(mask) # Cardinality(g.task[t].allowed)
           hooked == IF moved THEN update_rt_migration(d3, c) ELSE g
<1>1. /\ Typed(g) /\ g.task[t] \in TaskStruct /\ c \in Cpu /\ MaskExact(g)
      /\ \A d \in Cpu : QueueExact(g, d) /\ CpupriExact(g, d)
  BY DEF Exact, Typed, TaskStruct
<1>2. /\ e \in TaskStruct /\ e.on_rq = g.task[t].on_rq /\ e.cpu = c
      /\ e.prio = g.task[t].prio /\ e.allowed = mask
  BY <1>1 DEF TaskStruct
<1>3. h = [hooked EXCEPT !.task[t].allowed = mask]
  BY DEF set_cpus_allowed_rt
<1>c. g.task[t].cpu = c
  OBVIOUS
<1> HIDE DEF c
<1>4. ASSUME NEW k, Typed(k), k.task = g.task, h = [k EXCEPT !.task[t].allowed = mask]
      PROVE  /\ Typed(h) /\ h.task = [g.task EXCEPT ![t] = e] /\ h.rq = k.rq /\ h.rd = k.rd
  <2>1. h.task = [g.task EXCEPT ![t] = e] /\ h.rq = k.rq /\ h.rd = k.rd
        /\ h = [task |-> h.task, rq |-> h.rq, rd |-> h.rd]
    BY <1>1, <1>4 DEF Typed, TaskStruct
  <2> QED BY <1>1, <1>2, <1>4, <2>1 DEF Typed
<1> HIDE DEF e
<1>5. CASE ~moved
  <2>1. Typed(h) /\ h.task = [g.task EXCEPT ![t] = e] /\ h.rq = g.rq /\ h.rd = g.rd
    BY <1>1, <1>3, <1>4, <1>5
  <2>2. ASSUME NEW d \in Cpu
        PROVE  queued(h, d) = queued(g, d)
    <3>1. queued(h, d) = (queued(g, d) \ {t}) \cup (IF e.on_rq /\ e.cpu = d THEN {t} ELSE {})
      BY <1>1, <1>2, <1>c, <2>1, TaskChanged
    <3>2. t \in queued(g, d) <=> e.on_rq /\ e.cpu = d
      BY <1>2, <1>c DEF queued
    <3> QED BY <3>1, <3>2
  <2>3. ASSUME NEW d \in Cpu, NEW u \in queued(g, d)
        PROVE  prio(h, u) = prio(g, u) /\ (migratory(h, u) <=> migratory(g, u))
    <3>1. CASE u = t
      <4>1. g.task[t].on_rq
        BY <3>1, <2>3 DEF queued
      <4>2. Cardinality(mask) = Cardinality(g.task[t].allowed)
        BY <4>1, <1>5
      <4>3. prio(h, t) = e.prio /\ (migratory(h, t) <=> Cardinality(e.allowed) > 1)
        BY <1>1, <1>2, <1>c, <2>1, TaskChanged
      <4> QED BY <1>1, <1>2, <3>1, <4>2, <4>3, PrioType DEF migratory
    <3>2. CASE u # t
      <4>1. u \in Task \ {t}
        BY <3>2, <2>3 DEF queued
      <4> QED BY <1>1, <1>2, <2>1, <4>1, TaskChanged
    <3> QED BY <3>1, <3>2
  <2>4. ASSUME NEW d \in Cpu
        PROVE  QueueExact(h, d) /\ CpupriExact(h, d)
    <3>1. /\ highest(h, queued(h, d)) = highest(g, queued(g, d))
          /\ QueueExact(g, d) => QueueExact(h, d)
      BY <2>1, <2>2, <2>3, QueueSame
    <3> QED BY <1>1, <2>1, <3>1 DEF CpupriExact
  <2>5. MaskExact(h)
    BY <1>1, <2>1 DEF MaskExact
  <2>6. SameRuns(h, g)
    BY <2>1 DEF SameRuns
  <2> QED BY <1>1, <1>2, <1>c, <2>1, <2>4, <2>5, <2>6, OneTask DEF Exact
<1>6. CASE moved
  <2> DEFINE W == waiting(g, c) \ {t}
             V == IF is /\ g.rq[c].curr # t THEN W \cup {t} ELSE W
  <2>0. /\ t \in queued(g, c) /\ W \in SUBSET Task
        /\ g.rq[c].pushable = waiting(g, c) /\ g.rq[c].next = highest(g, waiting(g, c))
        /\ g.rq[c].nr_migratory = Cardinality(movable(g, c))
        /\ g.rq[c].nr_total = Cardinality(queued(g, c))
        /\ g.task[t].on_rq
    BY <1>1, <1>c, <1>6, QueuedFinite DEF queued, QueueExact, ListExact, CountsExact
  <2>1. /\ Typed(d1) /\ OnlyList(d1, g, c)
        /\ d1.rq[c].pushable = W /\ d1.rq[c].next = highest(g, W)
    <3>1. CASE was /\ g.rq[c].curr # t
      <4>1. d1 = dequeue_pushable_task(g, c, t)
        BY <3>1
      <4> HIDE DEF d1, W
      <4>2. /\ Typed(d1) /\ OnlyList(d1, g, c)
            /\ d1.rq[c].pushable = less(g, c, t) /\ d1.rq[c].next = highest(g, less(g, c, t))
        BY <1>1, <4>1, ListShorter
      <4>3. W = less(g, c, t)
        BY <2>0 DEF W, less
      <4> QED BY <4>2, <4>3
    <3>2. CASE ~(was /\ g.rq[c].curr # t)
      <4>1. d1 = g /\ W = waiting(g, c)
        BY <3>2 DEF waiting, movable
      <4> QED BY <1>1, <2>0, <4>1 DEF OnlyList, SameRuns
    <3> QED BY <3>1, <3>2
  <2>d. d2 = IF is /\ g.rq[c].curr # t THEN enqueue_pushable_task(d1, c, t) ELSE d1
    OBVIOUS
  <2> HIDE DEF d1
  <2>2. /\ Typed(d2) /\ OnlyList(d2, d1, c)
        /\ d2.rq[c].pushable = V /\ d2.rq[c].next = highest(g, V)
    <3>1. \A S : highest(d1, S) = highest(g, S)
      BY <2>1, ListSame DEF OnlyList
    <3>2. CASE is /\ g.rq[c].curr # t
      <4>1. d2 = enqueue_pushable_task(d1, c, t) /\ V = W \cup {t}
        BY <2>d, <3>2
      <4>2. d1.rq[c].next = highest(d1, d1.rq[c].pushable)
        BY <2>1, <3>1
      <4> HIDE DEF d2, V
      <4>3. /\ Typed(d2) /\ OnlyList(d2, d1, c)
            /\ d2.rq[c].pushable = more(d1, c, t) /\ d2.rq[c].next = highest(d1, more(d1, c, t))
        <5>1. Typed(d1) /\ c \in Cpu /\ t \in Task /\ d2 = enqueue_pushable_task(d1, c, t)
          BY <1>1, <2>1, <4>1
        <5> QED BY ONLY <4>2, <5>1, ListLonger
      <4>4. V = more(d1, c, t)
        BY <2>1, <4>1 DEF more
      <4> QED BY <3>1, <4>3, <4>4
    <3>3. CASE ~(is /\ g.rq[c].curr # t)
      <4>1. d2 = d1 /\ V = W
        BY <2>d, <3>3
      <4> HIDE DEF d2, V
      <4> QED BY <2>1, <4>1 DEF OnlyList, SameRuns
    <3> QED BY <3>2, <3>3
  <2>m. d3 = [d2 EXCEPT !.rq[c].nr_migratory = m]
    OBVIOUS
  <2> HIDE DEF d2, V
  <2>3. /\ d2.task = g.task /\ d2.rd = g.rd /\ SameRuns(d2, g)
        /\ \A d \in Cpu \ {c} : d2.rq[d] = g.rq[d]
        /\ d2.rq[c].nr_total = g.rq[c].nr_total /\ d2.rq[c].nr_migratory = g.rq[c].nr_migratory
        /\ d2.rq[c].overloaded = g.rq[c].overloaded
    BY <1>1, <2>1, <2>2 DEF OnlyList, SameRuns
  <2> DEFINE M == IF is THEN movable(g, c) \cup {t} ELSE movable(g, c) \ {t}
  <2>4. m = Cardinality(M) /\ m \in Nat
    <3>1. was <=> t \in movable(g, c)
      BY <2>0 DEF movable
    <3>2. CASE is /\ ~was
      <4>1. Cardinality(M) = Cardinality(movable(g, c)) + 1
        BY <3>1, <3>2, QueuedFinite, FS_AddElement
      <4> QED BY <2>0, <2>3, <3>2, <4>1, QueuedFinite
    <3>3. CASE was /\ ~is
      <4>1. Cardinality(M) = Cardinality(movable(g, c)) - 1
        BY <3>1, <3>3, QueuedFinite, FS_RemoveElement
      <4>2. Cardinality(M) \in Nat
        BY <3>3, QueuedFinite, FS_Subset, FS_CardinalityType
      <4> QED BY <2>0, <2>3, <3>3, <4>1, <4>2, QueuedFinite
    <3>4. CASE was <=> is
      <4>1. M = movable(g, c)
        BY <3>1, <3>4
      <4>2. m = d2.rq[c].nr_migratory
        BY <3>4
      <4> QED BY <2>0, <2>3, <4>1, <4>2, QueuedFinite
    <3> QED BY <3>2, <3>3, <3>4
  <2> HIDE DEF m, M
  <2> DEFINE n == g.rq[c].nr_total
  <2>5. /\ Typed(d3) /\ OnlyCounts(d3, d2, c) /\ d3.task = g.task
        /\ d3.rq[c].nr_total = n /\ d3.rq[c].nr_migratory = m
    <3> DEFINE r == d2.rq[c]
               q == [r EXCEPT !.nr_migratory = m]
    <3>1. r \in RunQueue
      BY <1>1, <2>2, QueueType
    <3>2. d3 = with_rq(d2, c, q)
      BY <2>2, <2>m DEF with_rq, Typed
    <3>r. r = d2.rq[c]
      OBVIOUS
    <3> HIDE DEF r, d3
    <3>3. /\ q \in RunQueue /\ q.nr_migratory = m /\ q.nr_total = r.nr_total
          /\ q.curr = r.curr /\ q.need_resched = r.need_resched /\ q.online = r.online
          /\ q.pushable = r.pushable /\ q.next = r.next /\ q.overloaded = r.overloaded
      BY <2>4, <3>1 DEF RunQueue
    <3> HIDE DEF q
    <3>4. /\ Typed(d3) /\ d3.task = d2.task /\ d3.rd = d2.rd /\ d3.rq[c] = q
          /\ \A d \in Cpu \ {c} : d3.rq[d] = d2.rq[d]
      <4>1. c \in Cpu /\ Typed(d2) /\ q \in RunQueue
        BY <1>1, <2>2, <3>3
      <4> QED BY ONLY <4>1, <3>2, RqSet
    <3>5. SameRuns(d3, d2)
      BY <3>3, <3>4, <3>r DEF SameRuns
    <3> QED BY <2>3, <3>3, <3>4, <3>5, <3>r DEF OnlyCounts
  <2>h. hooked = update_rt_migration(d3, c)
    BY <1>6
  <2> HIDE DEF d3, hooked
  <2>6. MaskExact(d3)
    <3>1. \A d \in Cpu : d3.rq[d].online = g.rq[d].online /\ d3.rq[d].overloaded = g.rq[d].overloaded
      BY <2>3, <2>5 DEF OnlyCounts, SameRuns
    <3>2. d3.rd = g.rd
      BY <2>3, <2>5 DEF OnlyCounts
    <3> QED BY <1>1, <3>1, <3>2 DEF MaskExact
  <2>6a. Typed(d3) /\ d3.task = g.task /\ c \in Cpu
    BY <1>1, <2>5
  <2>7. /\ Typed(hooked) /\ hooked.task = g.task /\ hooked.rd.cpupri = d3.rd.cpupri
        /\ MaskExact(hooked) /\ OverloadedExact(hooked, c) /\ SameRuns(hooked, d3)
        /\ \A d \in Cpu \ {c} : hooked.rq[d] = d3.rq[d]
        /\ hooked.rq[c].pushable = d3.rq[c].pushable /\ hooked.rq[c].next = d3.rq[c].next
        /\ hooked.rq[c].nr_total = d3.rq[c].nr_total
        /\ hooked.rq[c].nr_migratory = d3.rq[c].nr_migratory
    BY ONLY <2>6a, <2>6, <2>h, MigrationUpdated
  <2>8. Typed(h) /\ h.task = [g.task EXCEPT ![t] = e] /\ h.rq = hooked.rq /\ h.rd = hooked.rd
    BY <1>3, <1>4, <2>7
  <2>9. /\ SameRuns(h, g) /\ h.rd.cpupri = g.rd.cpupri
        /\ \A d \in Cpu \ {c} : h.rq[d] = g.rq[d]
        /\ h.rq[c].pushable = V /\ h.rq[c].next = highest(g, V)
        /\ h.rq[c].nr_total = n /\ h.rq[c].nr_migratory = m
    <3>1. SameRuns(h, g)
      BY <2>3, <2>5, <2>7, <2>8 DEF SameRuns, OnlyCounts
    <3>2. d3.rd = d2.rd /\ \A d \in Cpu \ {c} : d3.rq[d] = d2.rq[d]
      BY <2>5 DEF OnlyCounts
    <3>3. d3.rq[c].pushable = d2.rq[c].pushable /\ d3.rq[c].next = d2.rq[c].next
      BY <2>5 DEF OnlyCounts
    <3>4. h.rd.cpupri = g.rd.cpupri /\ \A d \in Cpu \ {c} : h.rq[d] = g.rq[d]
      BY <2>3, <2>7, <2>8, <3>2
    <3>5. h.rq[c].pushable = V /\ h.rq[c].next = highest(g, V)
      BY <2>2, <2>7, <2>8, <2>1, <3>3, ListSame DEF OnlyList
    <3>6. h.rq[c].nr_total = n /\ h.rq[c].nr_migratory = m
      BY <2>5, <2>7, <2>8
    <3> QED BY <3>1, <3>4, <3>5, <3>6
  <2>10. MaskExact(h) /\ OverloadedExact(h, c)
    BY <2>7, <2>8 DEF MaskExact, OverloadedExact
  <2>11. \A d \in Cpu : queued(h, d) = queued(g, d)
    <3> SUFFICES ASSUME NEW d \in Cpu
                 PROVE  queued(h, d) = queued(g, d)
      OBVIOUS
    <3>1. queued(h, d) = (queued(g, d) \ {t}) \cup (IF e.on_rq /\ e.cpu = d THEN {t} ELSE {})
      BY <1>1, <1>2, <2>8, TaskChanged
    <3>2. t \in queued(g, d) <=> e.on_rq /\ e.cpu = d
      BY <1>2, <1>c DEF queued
    <3> QED BY <3>1, <3>2
  <2>12. \A u \in Task : prio(h, u) = prio(g, u)
    <3>1. prio(h, t) = prio(g, t)
      BY <1>1, <1>2, <2>8, TaskChanged, PrioType
    <3>2. \A u \in Task \ {t} : prio(h, u) = prio(g, u)
      BY <1>1, <1>2, <2>8, TaskChanged
    <3> QED BY <3>1, <3>2
  <2>13. movable(h, c) = M
    <3>1. movable(h, c) =
            (movable(g, c) \ {t}) \cup (IF e.on_rq /\ e.cpu = c /\ Cardinality(e.allowed) > 1 THEN {t} ELSE {})
      BY <1>1, <1>2, <2>8, TaskChanged
    <3>2. movable(h, c) = (movable(g, c) \ {t}) \cup (IF is THEN {t} ELSE {})
      BY <1>2, <2>0, <3>1
    <3> QED BY <3>2 DEF M
  <2>14. waiting(h, c) = V
    <3>1. h.rq[c].curr = g.rq[c].curr
      BY <1>1, <2>9 DEF SameRuns
    <3> QED BY <2>13, <3>1 DEF waiting, V, M
  <2>15. highest(h, V) = highest(g, V)
    <3>1. V \in SUBSET Task
      BY <2>0 DEF V
    <3>2. \A u \in V : prio(h, u) = prio(g, u)
      BY <2>12, <3>1
    <3> QED BY <3>2, HighestSame
  <2>16. QueueExact(h, c)
    BY <1>1, <2>0, <2>4, <2>9, <2>10, <2>11, <2>13, <2>14, <2>15
       DEF QueueExact, ListExact, CountsExact
  <2>17. ASSUME NEW d \in Cpu \ {c}
         PROVE  QueueExact(h, d)
    <3>1. \A u \in queued(g, d) : u \in Task \ {t}
      BY <1>1, <1>c DEF queued
    <3>2. \A u \in queued(g, d) : prio(h, u) = prio(g, u) /\ (migratory(h, u) <=> migratory(g, u))
      BY <1>1, <1>2, <2>8, <3>1, TaskChanged
    <3> QED BY <1>1, <2>9, <2>11, <3>2, QueueSame
  <2>18. ASSUME NEW d \in Cpu
         PROVE  CpupriExact(h, d)
    <3>1. \A u \in queued(g, d) : prio(h, u) = prio(g, u)
      BY <2>12, QueuedFinite
    <3>2. highest(h, queued(g, d)) = highest(g, queued(g, d))
      BY <3>1, HighestSame
    <3> QED BY <1>1, <2>9, <2>11, <3>2 DEF CpupriExact, SameRuns
  <2>19. Exact(h) /\ SameRuns(h, g)
    BY <1>1, <2>8, <2>9, <2>10, <2>16, <2>17, <2>18 DEF Exact
  <2> QED BY <1>1, <1>2, <1>c, <2>8, <2>19, OneTask
<1> QED BY <1>5, <1>6

-----------------------------------------------------------------------------
(* What a CPU runs *)

OnlyRun(h, g, c) ==
  /\ h.task = g.task /\ h.rd = g.rd
  /\ \A d \in Cpu \ {c} : h.rq[d] = g.rq[d]
  /\ h.rq[c].pushable = g.rq[c].pushable /\ h.rq[c].next = g.rq[c].next
  /\ h.rq[c].nr_total = g.rq[c].nr_total /\ h.rq[c].nr_migratory = g.rq[c].nr_migratory
  /\ h.rq[c].overloaded = g.rq[c].overloaded /\ h.rq[c].online = g.rq[c].online

\* The fields of a run queue that do not say what it runs.
SameBut(q, r) ==
  /\ q.pushable = r.pushable /\ q.next = r.next
  /\ q.nr_total = r.nr_total /\ q.nr_migratory = r.nr_migratory
  /\ q.overloaded = r.overloaded /\ q.online = r.online

\* When the list is what it has to be for the task that runs now, all is exact.
LEMMA RunClosed ==
  ASSUME NEW g, NEW c \in Cpu, ButList(g, c), NEW h, Typed(h), OnlyRun(h, g, c),
         h.rq[c].pushable = waiting(h, c), h.rq[c].next = highest(g, h.rq[c].pushable)
  PROVE  Exact(h)
<1>1. h.task = g.task /\ h.rd = g.rd
  BY DEF OnlyRun
<1>2. \A d \in Cpu : /\ h.rq[d].online = g.rq[d].online /\ h.rq[d].overloaded = g.rq[d].overloaded
                     /\ h.rq[d].nr_total = g.rq[d].nr_total
                     /\ h.rq[d].nr_migratory = g.rq[d].nr_migratory
  BY DEF OnlyRun
<1>3. MaskExact(h)
  BY <1>1, <1>2 DEF MaskExact, ButList
<1>4. \A d : queued(h, d) = queued(g, d) /\ movable(h, d) = movable(g, d)
  BY <1>1, ListSame
<1>5. \A S : highest(h, S) = highest(g, S)
  BY <1>1, ListSame
<1>6. \A d \in Cpu : CpupriExact(g, d) /\ CountsExact(g, d) /\ OverloadedExact(g, d)
  BY DEF ButList, QueueExact
<1>7. \A d \in Cpu : CpupriExact(h, d) /\ CountsExact(h, d) /\ OverloadedExact(h, d)
  BY <1>1, <1>2, <1>4, <1>5, <1>6 DEF CpupriExact, CountsExact, OverloadedExact
<1>8. \A d \in Cpu \ {c} : waiting(h, d) = waiting(g, d) /\ h.rq[d] = g.rq[d]
  BY <1>4 DEF waiting, OnlyRun
<1>9. \A d \in Cpu \ {c} : ListExact(h, d)
  BY <1>5, <1>8 DEF ListExact, ButList, QueueExact
<1>10. ListExact(h, c)
  BY <1>5 DEF ListExact
<1> QED BY <1>3, <1>7, <1>9, <1>10 DEF Exact, QueueExact

LEMMA ExactButList ==
  ASSUME NEW g, Exact(g), NEW c \in Cpu
  PROVE  ButList(g, c)
BY DEF Exact, ButList, QueueExact

\* A list changes, and all but the list stays exact.
LEMMA ButListKept ==
  ASSUME NEW g, NEW c \in Cpu, ButList(g, c), NEW h, Typed(h), OnlyList(h, g, c)
  PROVE  ButList(h, c)
BY OnlyListKeeps DEF ButList, QueueExact

\* resched_task().
LEMMA Resched ==
  ASSUME NEW g, Exact(g), NEW c \in Cpu, NEW h, h = resched_task(g, c)
  PROVE  /\ Exact(h) /\ h.task = g.task /\ OnlyRun(h, g, c)
         /\ h.rq[c].curr = g.rq[c].curr /\ h.rq[c].need_resched
<1> DEFINE q == [g.rq[c] EXCEPT !.need_resched = TRUE]
<1>1. /\ q \in RunQueue /\ SameBut(q, g.rq[c]) /\ q.curr = g.rq[c].curr /\ q.need_resched
  <2>1. g.rq[c] \in RunQueue
    BY QueueType DEF Exact
  <2> QED BY <2>1 DEF RunQueue, SameBut
<1>2. h = with_rq(g, c, q)
  BY DEF Exact, resched_task, with_rq, Typed
<1> HIDE DEF q
<1>3. /\ Typed(h) /\ h.task = g.task /\ h.rd = g.rd /\ h.rq[c] = q
      /\ \A d \in Cpu \ {c} : h.rq[d] = g.rq[d]
  BY <1>1, <1>2, RqSet DEF Exact
<1>4. OnlyRun(h, g, c) /\ h.rq[c].curr = g.rq[c].curr /\ h.rq[c].need_resched
  BY <1>1, <1>3 DEF OnlyRun, SameBut
<1>5. waiting(h, c) = waiting(g, c)
  BY <1>3, <1>4, ListSame DEF waiting
<1>6. g.rq[c].pushable = waiting(g, c) /\ g.rq[c].next = highest(g, waiting(g, c))
  BY DEF Exact, QueueExact, ListExact
<1>7. h.rq[c].pushable = waiting(h, c) /\ h.rq[c].next = highest(g, h.rq[c].pushable)
  BY <1>4, <1>5, <1>6 DEF OnlyRun
<1>8. Exact(h)
  BY <1>3, <1>4, <1>7, ExactButList, RunClosed
<1> QED BY <1>3, <1>4, <1>8

\* put_prev_task(): the task that ran is offered like those that wait.
LEMMA PutPrev ==
  ASSUME NEW g, Exact(g), NEW c \in Cpu,
         g.rq[c].curr \in Task => g.task[g.rq[c].curr].cpu = c,
         NEW h, h = put_prev_task(g, c)
  PROVE  /\ Typed(h) /\ OnlyList(h, g, c) /\ ButList(h, c)
         /\ h.rq[c].pushable = movable(g, c) /\ h.rq[c].next = highest(g, movable(g, c))
<1> DEFINE prev == g.rq[c].curr
<1>1. /\ Typed(g) /\ ButList(g, c)
      /\ g.rq[c].pushable = waiting(g, c) /\ g.rq[c].next = highest(g, waiting(g, c))
  BY ExactButList DEF Exact, QueueExact, ListExact
<1>2. CASE prev \in Task /\ g.task[prev].on_rq /\ migratory(g, prev)
  <2>1. h = enqueue_pushable_task(g, c, prev)
    BY <1>2 DEF put_prev_task
  <2>2. movable(g, c) = waiting(g, c) \cup {prev}
    BY <1>2 DEF waiting, movable, queued
  <2>3. /\ Typed(h) /\ OnlyList(h, g, c)
        /\ h.rq[c].pushable = more(g, c, prev) /\ h.rq[c].next = highest(g, more(g, c, prev))
    <3>1. prev \in Task /\ g.rq[c].next = highest(g, g.rq[c].pushable) /\ Typed(g) /\ c \in Cpu
      BY <1>1, <1>2
    <3> HIDE DEF prev
    <3> QED BY ONLY <2>1, <3>1, ListLonger
  <2>5. more(g, c, prev) = movable(g, c)
    BY <1>1, <2>2 DEF more
  <2>4. ButList(h, c)
    BY <1>1, <2>3, ButListKept
  <2> QED BY <2>3, <2>4, <2>5
<1>3. CASE ~(prev \in Task /\ g.task[prev].on_rq /\ migratory(g, prev))
  <2>1. h = g
    BY <1>3 DEF put_prev_task
  <2>2. movable(g, c) = waiting(g, c)
    BY <1>3 DEF waiting, movable, queued
  <2> QED BY <1>1, <2>1, <2>2 DEF OnlyList, SameRuns
<1> QED BY <1>2, <1>3

switch_to(g, c, next) == [g EXCEPT !.rq[c].curr = next, !.rq[c].need_resched = FALSE]
stop_on(g, c) == [g EXCEPT !.rq[c].curr = Stop]

\* The switch to next: of those that may move all others are offered.
LEMMA Switched ==
  ASSUME NEW g, Exact(g), NEW c \in Cpu,
         g.rq[c].curr \in Task => g.task[g.rq[c].curr].cpu = c,
         NEW next \in Task \cup {Idle}, next = Idle => queued(g, c) = {},
         NEW picked, picked = (IF next = Idle THEN put_prev_task(g, c)
                               ELSE dequeue_pushable_task(put_prev_task(g, c), c, next)),
         NEW h, h = switch_to(picked, c, next)
  PROVE  /\ Exact(h) /\ h.task = g.task /\ h.rd = g.rd
         /\ \A d \in Cpu \ {c} : h.rq[d] = g.rq[d]
         /\ h.rq[c].curr = next /\ ~h.rq[c].need_resched
         /\ h.rq[c].online = g.rq[c].online
         /\ h.rq[c].pushable = picked.rq[c].pushable
<1> DEFINE put == put_prev_task(g, c)
<1>1. /\ Typed(put) /\ OnlyList(put, g, c) /\ ButList(put, c)
      /\ put.rq[c].pushable = movable(g, c) /\ put.rq[c].next = highest(g, movable(g, c))
  BY PutPrev
<1>0. picked = IF next = Idle THEN put ELSE dequeue_pushable_task(put, c, next)
  OBVIOUS
<1> HIDE DEF put
<1>2. \A S : highest(put, S) = highest(g, S)
  BY <1>1, ListSame DEF OnlyList
<1>3. /\ Typed(picked) /\ OnlyList(picked, put, c)
      /\ picked.rq[c].pushable = movable(g, c) \ {next}
      /\ picked.rq[c].next = highest(g, movable(g, c) \ {next})
  <2>1. CASE next = Idle
    <3>1. movable(g, c) \ {next} = movable(g, c)
      BY <2>1, RtPushPullAssumption DEF movable, queued
    <3> QED BY <1>0, <1>1, <2>1, <3>1 DEF OnlyList, SameRuns
  <2>2. CASE next # Idle
    <3>1. picked = dequeue_pushable_task(put, c, next)
      BY <1>0, <2>2
    <3>2. /\ Typed(picked) /\ OnlyList(picked, put, c)
          /\ picked.rq[c].pushable = less(put, c, next)
          /\ picked.rq[c].next = highest(put, less(put, c, next))
      BY <1>1, <3>1, ListShorter
    <3>3. less(put, c, next) = movable(g, c) \ {next}
      BY <1>1 DEF less
    <3> QED BY <1>2, <3>2, <3>3
  <2> QED BY <2>1, <2>2
<1>4. ButList(picked, c)
  BY <1>1, <1>3, ButListKept
<1> HIDE DEF put
<1>5. /\ Typed(h) /\ OnlyRun(h, picked, c)
      /\ h.rq[c].curr = next /\ ~h.rq[c].need_resched
  <2> DEFINE r == picked.rq[c]
             k == [r EXCEPT !.curr = next]
             q == [k EXCEPT !.need_resched = FALSE]
  <2>1. r \in RunQueue
    BY <1>3, QueueType
  <2>2. h = with_rq(picked, c, q)
    BY <1>3, QueueType, ZenonT(60) DEF with_rq, switch_to, Typed
  <2>r. r = picked.rq[c]
    OBVIOUS
  <2> HIDE DEF r
  <2>x. next \in Task \cup {Idle, Stop}
    OBVIOUS
  <2>3. k \in RunQueue /\ SameBut(k, r) /\ k.curr = next
    BY <2>1, <2>x DEF RunQueue, SameBut
  <2> HIDE DEF k
  <2>4. q \in RunQueue /\ SameBut(q, k) /\ q.curr = k.curr /\ ~q.need_resched
    BY <2>3 DEF RunQueue, SameBut
  <2> HIDE DEF q
  <2>5. /\ Typed(h) /\ h.task = picked.task /\ h.rd = picked.rd /\ h.rq[c] = q
        /\ \A d \in Cpu \ {c} : h.rq[d] = picked.rq[d]
    <3>1. c \in Cpu /\ Typed(picked) /\ q \in RunQueue
      BY <1>3, <2>4
    <3> QED BY ONLY <3>1, <2>2, RqSet
  <2> QED BY <2>3, <2>4, <2>5, <2>r DEF OnlyRun, SameBut
<1>6. picked.task = g.task /\ picked.rd = g.rd /\ \A d \in Cpu \ {c} : picked.rq[d] = g.rq[d]
  BY <1>1, <1>3 DEF OnlyList
<1>7. h.task = g.task /\ h.rd = g.rd /\ \A d \in Cpu \ {c} : h.rq[d] = g.rq[d]
  BY <1>5, <1>6 DEF OnlyRun
<1>8. waiting(h, c) = movable(g, c) \ {next}
  <2>1. movable(h, c) = movable(g, c)
    BY ONLY <1>7, ListSame
  <2> QED BY <1>5, <2>1 DEF waiting
<1>9. highest(picked, movable(g, c) \ {next}) = highest(g, movable(g, c) \ {next})
  BY <1>6, ListSame
<1>10. h.rq[c].pushable = waiting(h, c) /\ h.rq[c].next = highest(picked, h.rq[c].pushable)
  BY <1>3, <1>5, <1>8, <1>9, ZenonT(60) DEF OnlyRun
<1>11. Exact(h)
  BY <1>4, <1>5, <1>10, RunClosed
<1>12. h.rq[c].online = g.rq[c].online
  <2>1. SameRuns(picked, put) /\ SameRuns(put, g) /\ OnlyRun(h, picked, c) /\ c \in Cpu
    BY <1>1, <1>3, <1>5 DEF OnlyList
  <2>2. picked.rq[c].online = put.rq[c].online /\ put.rq[c].online = g.rq[c].online
    BY ONLY <2>1 DEF SameRuns
  <2>3. h.rq[c].online = picked.rq[c].online
    BY ONLY <2>1 DEF OnlyRun
  <2> QED BY <2>2, <2>3
<1> QED BY <1>5, <1>7, <1>11, <1>12 DEF OnlyRun

\* The stopper preempts: all that may move are offered.
LEMMA Stopped ==
  ASSUME NEW g, Exact(g), NEW c \in Cpu,
         g.rq[c].curr \in Task => g.task[g.rq[c].curr].cpu = c,
         NEW h, h = stop_on(put_prev_task(g, c), c)
  PROVE  /\ Exact(h) /\ h.task = g.task
         /\ \A d \in Cpu \ {c} : h.rq[d] = g.rq[d]
         /\ h.rq[c].curr = Stop
<1> DEFINE put == put_prev_task(g, c)
           q == [put.rq[c] EXCEPT !.curr = Stop]
<1>1. /\ Typed(put) /\ OnlyList(put, g, c) /\ ButList(put, c)
      /\ put.rq[c].pushable = movable(g, c) /\ put.rq[c].next = highest(g, movable(g, c))
  BY PutPrev
<1>0. h = [put EXCEPT !.rq[c].curr = Stop]
  BY DEF stop_on
<1> HIDE DEF put
<1>2. q \in RunQueue /\ SameBut(q, put.rq[c]) /\ q.curr = Stop
  <2>1. put.rq[c] \in RunQueue /\ Stop \in Task \cup {Idle, Stop}
    BY <1>1, QueueType
  <2> DEFINE r == put.rq[c]
  <2>r. r \in RunQueue
    BY <2>1
  <2> HIDE DEF r
  <2>2. [r EXCEPT !.curr = Stop] \in RunQueue /\ SameBut([r EXCEPT !.curr = Stop], r)
        /\ [r EXCEPT !.curr = Stop].curr = Stop
    BY <2>1, <2>r DEF RunQueue, SameBut
  <2> QED BY <2>2 DEF r
<1>3. h = with_rq(put, c, q)
  BY <1>0, <1>1 DEF with_rq, Typed
<1> HIDE DEF q
<1>4. /\ Typed(h) /\ OnlyRun(h, put, c) /\ h.rq[c].curr = Stop
  <2>1. /\ Typed(h) /\ h.task = put.task /\ h.rd = put.rd /\ h.rq[c] = q
        /\ \A d \in Cpu \ {c} : h.rq[d] = put.rq[d]
    <3>1. c \in Cpu /\ Typed(put) /\ q \in RunQueue
      BY <1>1, <1>2
    <3> QED BY ONLY <3>1, <1>3, RqSet
  <2> QED BY <1>2, <2>1 DEF OnlyRun, SameBut
<1>5. waiting(h, c) = movable(g, c)
  <2>1. movable(h, c) = movable(g, c)
    <3>1. h.task = g.task
      BY <1>1, <1>4 DEF OnlyRun, OnlyList
    <3> QED BY <3>1, ListSame
  <2> QED BY <1>4, <2>1, RtPushPullAssumption DEF waiting, movable, queued
<1>6. highest(put, movable(g, c)) = highest(g, movable(g, c))
  BY <1>1, ListSame DEF OnlyList
<1>7. h.rq[c].pushable = waiting(h, c) /\ h.rq[c].next = highest(put, h.rq[c].pushable)
  BY <1>1, <1>4, <1>5, <1>6 DEF OnlyRun
<1>8. Exact(h)
  BY <1>1, <1>4, <1>7, RunClosed
<1> QED BY <1>1, <1>4, <1>8 DEF OnlyRun, OnlyList

-----------------------------------------------------------------------------
(* Root domains *)

\* rq_offline_rt() and rq_online_rt() change the root domain and whether the
\* run queue is online, and nothing else of it.
LineOnly(h, g, c) ==
  /\ h.task = g.task
  /\ \A d \in Cpu \ {c} : h.rq[d] = g.rq[d]
  /\ h.rq[c].pushable = g.rq[c].pushable /\ h.rq[c].next = g.rq[c].next
  /\ h.rq[c].nr_total = g.rq[c].nr_total /\ h.rq[c].nr_migratory = g.rq[c].nr_migratory
  /\ h.rq[c].overloaded = g.rq[c].overloaded
  /\ h.rq[c].curr = g.rq[c].curr /\ h.rq[c].need_resched = g.rq[c].need_resched
  /\ \A d \in Cpu \ {c} : h.rd.cpupri[d] = g.rd.cpupri[d]
  /\ h.rd.cpupri[c] = IF h.rq[c].online THEN highest(g, queued(g, c)) ELSE CPUPRI_INVALID
  /\ \A d \in Cpu : d \in h.rd.rto_mask <=> h.rq[d].overloaded /\ h.rq[d].online
  /\ h.rd.rto_count = Cardinality(h.rd.rto_mask)

LEMMA LineChanged ==
  ASSUME NEW g, Exact(g), NEW c \in Cpu, NEW h, Typed(h), LineOnly(h, g, c)
  PROVE  /\ Exact(h)
         /\ \A d \in Cpu : h.rq[d].curr = g.rq[d].curr /\ h.rq[d].need_resched = g.rq[d].need_resched
<1> USE DEF LineOnly
<1>3. /\ \A d : queued(h, d) = queued(g, d) /\ movable(h, d) = movable(g, d)
      /\ \A S : highest(h, S) = highest(g, S)
      /\ \A t : prio(h, t) = prio(g, t) /\ (migratory(h, t) <=> migratory(g, t))
  BY ListSame
<1>4. ASSUME NEW d \in Cpu
      PROVE  QueueExact(h, d)
  <2>1. /\ h.rq[d].curr = g.rq[d].curr
        /\ h.rq[d].pushable = g.rq[d].pushable /\ h.rq[d].next = g.rq[d].next
        /\ h.rq[d].nr_total = g.rq[d].nr_total /\ h.rq[d].nr_migratory = g.rq[d].nr_migratory
        /\ h.rq[d].overloaded = g.rq[d].overloaded
    OBVIOUS
  <2>2. QueueExact(g, d)
    BY DEF Exact
  <2> QED BY ONLY <1>3, <2>1, <2>2, QueueSame
<1>5. ASSUME NEW d \in Cpu
      PROVE  CpupriExact(h, d)
  <2>1. CASE d = c
    BY <1>3, <2>1 DEF CpupriExact
  <2>2. CASE d # c
    <3>1. CpupriExact(g, d)
      BY DEF Exact
    <3> QED BY <1>3, <2>2, <3>1 DEF CpupriExact
  <2> QED BY <2>1, <2>2
<1>6. MaskExact(h)
  <2>1. h.rd.rto_mask \in SUBSET Cpu
    BY QueueType
  <2>2. h.rd.rto_mask = {d \in Cpu : h.rq[d].online /\ h.rq[d].overloaded}
    BY <2>1
  <2> QED BY <2>2 DEF MaskExact
<1>7. \A d \in Cpu : h.rq[d].curr = g.rq[d].curr /\ h.rq[d].need_resched = g.rq[d].need_resched
  OBVIOUS
<1> QED BY <1>4, <1>5, <1>6, <1>7 DEF Exact

gone_offline(g, c) == [g EXCEPT !.rd.cpupri[c] = CPUPRI_INVALID, !.rq[c].online = FALSE]
came_online(g, c) == [g EXCEPT !.rq[c].online = TRUE]
with_cpupri(g, c, p) == [g EXCEPT !.rd.cpupri[c] = p]

LEMMA Offline ==
  ASSUME NEW g, Exact(g), NEW c \in Cpu, g.rq[c].online,
         NEW k, k = (IF g.rq[c].overloaded THEN clear_overload(g, c) ELSE g),
         NEW h, h = gone_offline(k, c)
  PROVE  /\ Exact(h) /\ h.task = g.task
         /\ \A d \in Cpu : h.rq[d].curr = g.rq[d].curr /\ h.rq[d].need_resched = g.rq[d].need_resched
<1> DEFINE r == g.rq[c]
           q == [r EXCEPT !.online = FALSE]
           mask == IF g.rq[c].overloaded THEN g.rd.rto_mask \ {c} ELSE g.rd.rto_mask
           count == IF g.rq[c].overloaded THEN g.rd.rto_count - 1 ELSE g.rd.rto_count
           pri == [g.rd.cpupri EXCEPT ![c] = CPUPRI_INVALID]
           rd1 == [rto_mask |-> mask, rto_count |-> count, cpupri |-> pri]
<1>1. /\ Typed(g) /\ r \in RunQueue
      /\ g.rd.rto_mask = {d \in Cpu : g.rq[d].online /\ g.rq[d].overloaded}
      /\ g.rd.rto_count = Cardinality(g.rd.rto_mask)
  BY QueueType DEF Exact, MaskExact
<1>2. h = [task |-> g.task, rq |-> [g.rq EXCEPT ![c] = q], rd |-> rd1]
  <2>1. /\ g = [task |-> g.task, rq |-> g.rq, rd |-> g.rd]
        /\ g.rd = [rto_mask |-> g.rd.rto_mask, rto_count |-> g.rd.rto_count, cpupri |-> g.rd.cpupri]
    BY <1>1 DEF Typed, RootDomain
  <2>2. k = [task |-> g.task, rq |-> g.rq,
             rd |-> [rto_mask |-> mask, rto_count |-> count, cpupri |-> g.rd.cpupri]]
    <3>1. CASE g.rq[c].overloaded
      BY <2>1, <3>1 DEF clear_overload
    <3>2. CASE ~g.rq[c].overloaded
      BY <2>1, <3>2
    <3> QED BY <3>1, <3>2
  <2> HIDE DEF mask, count
  <2>3. h = [k EXCEPT !.rd.cpupri[c] = CPUPRI_INVALID, !.rq[c].online = FALSE]
    BY DEF gone_offline
  <2> QED BY ONLY <2>2, <2>3
<1>3. /\ q \in RunQueue /\ ~q.online
      /\ q.pushable = r.pushable /\ q.next = r.next
      /\ q.nr_total = r.nr_total /\ q.nr_migratory = r.nr_migratory
      /\ q.overloaded = r.overloaded /\ q.curr = r.curr /\ q.need_resched = r.need_resched
  <2> HIDE DEF r
  <2> QED BY <1>1 DEF RunQueue
<1>4. pri \in [Cpu -> 1..MAX_RT_PRIO \cup {CPUPRI_INVALID}]
      /\ pri[c] = CPUPRI_INVALID /\ \A d \in Cpu \ {c} : pri[d] = g.rd.cpupri[d]
  BY <1>1, QueueType
<1>5. mask = {d \in Cpu : g.rq[d].overloaded /\ (IF d = c THEN q.online ELSE g.rq[d].online)}
  <2>1. \A d : d \in mask <=> d \in Cpu /\ g.rq[d].overloaded /\ g.rq[d].online /\ d # c
    BY <1>1
  <2> HIDE DEF mask, q
  <2> QED BY <1>3, <2>1
<1>6. count = Cardinality(mask) /\ mask \in SUBSET Cpu
  <2>1. CASE g.rq[c].overloaded
    <3>1. c \in g.rd.rto_mask
      BY <1>1, <2>1
    <3>2. IsFiniteSet(g.rd.rto_mask) /\ Cardinality(g.rd.rto_mask) \in Nat
      BY <1>1, CPUFinite, QueueType
    <3>3. Cardinality(g.rd.rto_mask \ {c}) = Cardinality(g.rd.rto_mask) - 1
      BY <3>1, <3>2, FS_RemoveElement
    <3> QED BY <1>1, <2>1, <3>3
  <2>2. CASE ~g.rq[c].overloaded
    BY <1>1, <2>2
  <2> QED BY <2>1, <2>2
<1>7. count \in 0..NrCpus
  BY <1>6, CPUFinite
<1> HIDE DEF mask, count, pri
<1>8. /\ rd1 \in RootDomain /\ rd1.rto_mask = mask /\ rd1.rto_count = count /\ rd1.cpupri = pri
  BY <1>4, <1>6, <1>7 DEF RootDomain
<1>r. r = g.rq[c]
  OBVIOUS
<1>0. Exact(g) /\ c \in Cpu
  OBVIOUS
<1> HIDE DEF rd1, q, r
<1>9. rd1.cpupri[c] = IF q.online THEN highest(g, queued(g, c)) ELSE CPUPRI_INVALID
  BY <1>3, <1>4, <1>8
<1>10. /\ h.task = g.task /\ h.rd = rd1 /\ h.rq[c] = q /\ h.rq \in [Cpu -> RunQueue]
       /\ \A d \in Cpu \ {c} : h.rq[d] = g.rq[d]
  BY ONLY <1>0, <1>1, <1>2, <1>3, QueueType
<1>11. Typed(h)
  BY ONLY <1>1, <1>2, <1>8, <1>10, QueueType DEF Typed
<1>12. \A d \in Cpu : d \in h.rd.rto_mask <=> h.rq[d].overloaded /\ h.rq[d].online
  BY ONLY <1>3, <1>5, <1>8, <1>10, <1>r
<1>13. /\ \A d \in Cpu \ {c} : h.rd.cpupri[d] = g.rd.cpupri[d]
       /\ h.rd.cpupri[c] = IF h.rq[c].online THEN highest(g, queued(g, c)) ELSE CPUPRI_INVALID
       /\ h.rd.rto_count = Cardinality(h.rd.rto_mask)
  BY ONLY <1>4, <1>6, <1>8, <1>9, <1>10
<1>14. /\ h.rq[c].pushable = g.rq[c].pushable /\ h.rq[c].next = g.rq[c].next
       /\ h.rq[c].nr_total = g.rq[c].nr_total /\ h.rq[c].nr_migratory = g.rq[c].nr_migratory
       /\ h.rq[c].overloaded = g.rq[c].overloaded
       /\ h.rq[c].curr = g.rq[c].curr /\ h.rq[c].need_resched = g.rq[c].need_resched
  BY ONLY <1>3, <1>10, <1>r
<1>15. h.task = g.task /\ \A d \in Cpu \ {c} : h.rq[d] = g.rq[d]
  BY ONLY <1>10
<1>16. /\ Exact(h)
       /\ \A d \in Cpu : h.rq[d].curr = g.rq[d].curr /\ h.rq[d].need_resched = g.rq[d].need_resched
  <2>1. LineOnly(h, g, c)
    BY ONLY <1>12, <1>13, <1>14, <1>15 DEF LineOnly
  <2> QED BY ONLY <1>0, <1>11, <2>1, LineChanged
<1> QED BY <1>15, <1>16

LEMMA Online ==
  ASSUME NEW g, Exact(g), NEW c \in Cpu, ~g.rq[c].online,
         NEW on, on = came_online(g, c),
         NEW k, k = (IF g.rq[c].overloaded THEN set_overload(on, c) ELSE on),
         NEW h, h = with_cpupri(k, c, highest(g, queued(g, c)))
  PROVE  /\ Exact(h) /\ h.task = g.task
         /\ \A d \in Cpu : h.rq[d].curr = g.rq[d].curr /\ h.rq[d].need_resched = g.rq[d].need_resched
<1> DEFINE r == g.rq[c]
           q == [r EXCEPT !.online = TRUE]
           mask == IF g.rq[c].overloaded THEN g.rd.rto_mask \cup {c} ELSE g.rd.rto_mask
           count == IF g.rq[c].overloaded THEN g.rd.rto_count + 1 ELSE g.rd.rto_count
           p == highest(g, queued(g, c))
           pri == [g.rd.cpupri EXCEPT ![c] = p]
           rd1 == [rto_mask |-> mask, rto_count |-> count, cpupri |-> pri]
<1>1. /\ Typed(g) /\ r \in RunQueue
      /\ g.rd.rto_mask = {d \in Cpu : g.rq[d].online /\ g.rq[d].overloaded}
      /\ g.rd.rto_count = Cardinality(g.rd.rto_mask)
  BY QueueType DEF Exact, MaskExact
<1>p. p \in 1..MAX_RT_PRIO
  BY <1>1, QueuedFinite, HighestIs
<1>3. /\ q \in RunQueue /\ q.online
      /\ q.pushable = r.pushable /\ q.next = r.next
      /\ q.nr_total = r.nr_total /\ q.nr_migratory = r.nr_migratory
      /\ q.overloaded = r.overloaded /\ q.curr = r.curr /\ q.need_resched = r.need_resched
  <2> HIDE DEF r
  <2> QED BY <1>1 DEF RunQueue
<1>pp. p = highest(g, queued(g, c))
  OBVIOUS
<1> HIDE DEF p
<1>2. h = [task |-> g.task, rq |-> [g.rq EXCEPT ![c] = q], rd |-> rd1]
  <2>1. /\ g = [task |-> g.task, rq |-> g.rq, rd |-> g.rd]
        /\ g.rd = [rto_mask |-> g.rd.rto_mask, rto_count |-> g.rd.rto_count, cpupri |-> g.rd.cpupri]
        /\ g.rq \in [Cpu -> RunQueue]
    BY <1>1 DEF Typed, RootDomain
  <2> DEFINE rq1 == [g.rq EXCEPT ![c] = q]
  <2>2. on = [task |-> g.task, rq |-> rq1, rd |-> g.rd]
    BY <2>1 DEF came_online
  <2>3. rq1[c].online
    BY <1>3, <2>1
  <2> HIDE DEF rq1
  <2>4. k = [task |-> g.task, rq |-> rq1,
             rd |-> [rto_mask |-> mask, rto_count |-> count, cpupri |-> g.rd.cpupri]]
    <3>1. CASE g.rq[c].overloaded
      <4>1. on.rq[c].online
        BY ONLY <2>2, <2>3
      <4>2. k = [on EXCEPT !.rd.rto_mask = @ \cup {c}, !.rd.rto_count = @ + 1]
        BY <3>1, <4>1 DEF set_overload
      <4>3. on.rd = g.rd /\ on.task = g.task /\ on.rq = rq1
        BY <2>2
      <4> QED BY ONLY <2>1, <2>2, <3>1, <4>2, <4>3
    <3>2. CASE ~g.rq[c].overloaded
      BY <2>1, <2>2, <3>2
    <3> QED BY <3>1, <3>2
  <2> HIDE DEF mask, count
  <2>5. h = [k EXCEPT !.rd.cpupri[c] = p]
    BY <1>pp DEF with_cpupri
  <2>6. h = [task |-> g.task, rq |-> rq1, rd |-> rd1]
    BY ONLY <2>4, <2>5
  <2> QED BY <2>6 DEF rq1
<1>4. pri \in [Cpu -> 1..MAX_RT_PRIO \cup {CPUPRI_INVALID}]
      /\ pri[c] = p /\ \A d \in Cpu \ {c} : pri[d] = g.rd.cpupri[d]
  BY <1>1, <1>p, QueueType
<1>5. mask = {d \in Cpu : g.rq[d].overloaded /\ (IF d = c THEN q.online ELSE g.rq[d].online)}
  <2>1. \A d : d \in mask <=> d \in Cpu /\ g.rq[d].overloaded /\ (g.rq[d].online \/ d = c)
    BY <1>1
  <2> HIDE DEF mask, q
  <2> QED BY <1>3, <2>1
<1>6. count = Cardinality(mask) /\ mask \in SUBSET Cpu
  <2>1. CASE g.rq[c].overloaded
    <3>1. c \notin g.rd.rto_mask
      BY <1>1, <2>1
    <3>2. IsFiniteSet(g.rd.rto_mask) /\ Cardinality(g.rd.rto_mask) \in Nat
      BY <1>1, CPUFinite, QueueType
    <3>3. Cardinality(g.rd.rto_mask \cup {c}) = Cardinality(g.rd.rto_mask) + 1
      BY <3>1, <3>2, FS_AddElement
    <3> QED BY <1>1, <2>1, <3>3
  <2>2. CASE ~g.rq[c].overloaded
    BY <1>1, <2>2
  <2> QED BY <2>1, <2>2
<1>7. count \in 0..NrCpus
  BY <1>6, CPUFinite
<1> HIDE DEF mask, count, pri
<1>8. /\ rd1 \in RootDomain /\ rd1.rto_mask = mask /\ rd1.rto_count = count /\ rd1.cpupri = pri
  BY <1>4, <1>6, <1>7 DEF RootDomain
<1>r. r = g.rq[c]
  OBVIOUS
<1>0. Exact(g) /\ c \in Cpu
  OBVIOUS
<1> HIDE DEF rd1, q, r
<1>9. rd1.cpupri[c] = IF q.online THEN highest(g, queued(g, c)) ELSE CPUPRI_INVALID
  BY <1>3, <1>4, <1>8, <1>pp
<1>10. /\ h.task = g.task /\ h.rd = rd1 /\ h.rq[c] = q /\ h.rq \in [Cpu -> RunQueue]
       /\ \A d \in Cpu \ {c} : h.rq[d] = g.rq[d]
  BY ONLY <1>0, <1>1, <1>2, <1>3, QueueType
<1>11. Typed(h)
  BY ONLY <1>1, <1>2, <1>8, <1>10, QueueType DEF Typed
<1>12. \A d \in Cpu : d \in h.rd.rto_mask <=> h.rq[d].overloaded /\ h.rq[d].online
  BY ONLY <1>3, <1>5, <1>8, <1>10, <1>r
<1>13. /\ \A d \in Cpu \ {c} : h.rd.cpupri[d] = g.rd.cpupri[d]
       /\ h.rd.cpupri[c] = IF h.rq[c].online THEN highest(g, queued(g, c)) ELSE CPUPRI_INVALID
       /\ h.rd.rto_count = Cardinality(h.rd.rto_mask)
  BY ONLY <1>4, <1>6, <1>8, <1>9, <1>10
<1>14. /\ h.rq[c].pushable = g.rq[c].pushable /\ h.rq[c].next = g.rq[c].next
       /\ h.rq[c].nr_total = g.rq[c].nr_total /\ h.rq[c].nr_migratory = g.rq[c].nr_migratory
       /\ h.rq[c].overloaded = g.rq[c].overloaded
       /\ h.rq[c].curr = g.rq[c].curr /\ h.rq[c].need_resched = g.rq[c].need_resched
  BY ONLY <1>3, <1>10, <1>r
<1>15. h.task = g.task /\ \A d \in Cpu \ {c} : h.rq[d] = g.rq[d]
  BY ONLY <1>10
<1>16. /\ Exact(h)
       /\ \A d \in Cpu : h.rq[d].curr = g.rq[d].curr /\ h.rq[d].need_resched = g.rq[d].need_resched
  <2>1. LineOnly(h, g, c)
    BY ONLY <1>12, <1>13, <1>14, <1>15 DEF LineOnly
  <2> QED BY ONLY <1>0, <1>11, <2>1, LineChanged
<1> QED BY <1>15, <1>16

-----------------------------------------------------------------------------
(* The initial states *)

LEMMA g0Fields ==
  /\ g0.task = task /\ g0.rq = rq /\ g0.rd = rd
  /\ \A h : Typed(h) /\ becomes(h) => g0' = h
  /\ UNCHANGED <<task, rq, rd>> => g0' = g0
<1>1. ASSUME NEW h, Typed(h), becomes(h)
      PROVE  g0' = h
  <2>1. h = [task |-> h.task, rq |-> h.rq, rd |-> h.rd]
    BY <1>1 DEF Typed
  <2> QED BY <1>1, <2>1 DEF becomes, g0
<1> QED BY <1>1 DEF g0

LEMMA MoreThanHalf ==
  ASSUME NEW g, NEW c \in Cpu, CountsExact(g, c)
  PROVE  g.rq[c].nr_migratory <= g.rq[c].nr_total
BY QueuedFinite, FS_Subset DEF CountsExact

\* What pullers and pushers read follows from the invariant.
LEMMA IndInvImplies ==
  ASSUME IndInv
  PROVE  PeersInformed
<1>1. /\ Typed(g0) /\ MaskExact(g0) /\ pc \in [Cpu -> Place] /\ excused \in BOOLEAN
      /\ \A c \in Cpu : ListExact(g0, c) /\ CountsExact(g0, c) /\ OverloadedExact(g0, c)
                        /\ CpupriExact(g0, c)
  BY DEF IndInv, Good, Exact, PlacesOK, QueueExact
<1>2. g0.task = task /\ g0.rq = rq /\ g0.rd = rd
  BY g0Fields
<1>3. TypeOK
  <2>1. task \in [Task -> TaskStruct] /\ rq \in [Cpu -> RunQueue] /\ rd \in RootDomain
    BY <1>1, <1>2 DEF Typed
  <2>2. \A c \in Cpu : rq[c].nr_migratory <= rq[c].nr_total
    BY <1>1, <1>2, MoreThanHalf
  <2> QED BY <1>1, <2>1, <2>2 DEF TypeOK
<1>4. PushableExact
  <2>1. ASSUME NEW c \in Cpu
        PROVE  waiting(g0, c) = {t \in queued(g0, c) : rq[c].curr # t /\ migratory(g0, t)}
    BY <1>2 DEF waiting, movable
  <2> QED BY <1>1, <1>2, <2>1 DEF PushableExact, ListExact
<1>5. OverloadSeen
  <2>1. ASSUME NEW c \in Cpu
        PROVE  rq[c].overloaded <=> Cardinality(queued(g0, c)) > 1 /\ \E t \in queued(g0, c) : migratory(g0, t)
    <3>1. rq[c].overloaded <=> Cardinality(movable(g0, c)) > 0 /\ Cardinality(queued(g0, c)) > 1
      BY <1>1, <1>2 DEF OverloadedExact, CountsExact
    <3>2. Cardinality(movable(g0, c)) > 0 <=> movable(g0, c) # {}
      BY QueuedFinite, FS_EmptySet
    <3>3. movable(g0, c) # {} <=> \E t \in queued(g0, c) : migratory(g0, t)
      BY DEF movable
    <3> QED BY <3>1, <3>2, <3>3
  <2>2. \A c \in Cpu : rd.cpupri[c] = IF rq[c].online THEN highest(g0, queued(g0, c)) ELSE CPUPRI_INVALID
    BY <1>1, <1>2 DEF CpupriExact
  <2>3. rd.rto_mask = {c \in Cpu : rq[c].online /\ rq[c].overloaded} /\ rd.rto_count = Cardinality(rd.rto_mask)
    BY <1>1, <1>2 DEF MaskExact
  <2> QED BY <2>1, <2>2, <2>3 DEF OverloadSeen
<1> QED BY <1>3, <1>4, <1>5 DEF PeersInformed

LEMMA InitGood ==
  ASSUME Init
  PROVE  IndInv
<1>1. PICK p \in [Task -> RtPrio] :
        task = [t \in Task |-> [prio |-> p[t], cpu |-> 1, on_rq |-> FALSE, allowed |-> Cpu]]
  BY DEF Init
<1>2. 1 \in Cpu
  BY CpusAssumption, RtPushPullAssumption DEF Cpu
<1>3. task \in [Task -> TaskStruct] /\ \A t \in Task : ~task[t].on_rq
  BY <1>1, <1>2, RtPushPullAssumption DEF TaskStruct
<1>4. rq \in [Cpu -> RunQueue]
  BY RtPushPullAssumption DEF Init, RunQueue
<1>5. rd \in RootDomain
  BY CpusAssumption, RtPushPullAssumption DEF Init, RootDomain
<1>6. g0.task = task /\ g0.rq = rq /\ g0.rd = rd /\ Typed(g0)
  BY <1>3, <1>4, <1>5 DEF g0, Typed
<1>7. ASSUME NEW c \in Cpu
      PROVE  /\ queued(g0, c) = {} /\ movable(g0, c) = {} /\ waiting(g0, c) = {}
             /\ Cardinality(queued(g0, c)) = 0 /\ Cardinality(movable(g0, c)) = 0
  <2>1. queued(g0, c) = {}
    BY <1>3, <1>6 DEF queued
  <2>2. movable(g0, c) = {} /\ waiting(g0, c) = {}
    BY <2>1 DEF movable, waiting
  <2> QED BY <2>1, <2>2, FS_EmptySet
<1>8. highest(g0, {}) = MAX_RT_PRIO
  BY <1>6, HighestIs
<1>9. \A c \in Cpu : /\ rq[c].curr = Idle /\ rq[c].online /\ ~rq[c].overloaded
                     /\ rq[c].pushable = {} /\ rq[c].next = MAX_RT_PRIO
                     /\ rq[c].nr_total = 0 /\ rq[c].nr_migratory = 0
                     /\ rd.cpupri[c] = MAX_RT_PRIO
  BY DEF Init
<1>10. ASSUME NEW c \in Cpu
       PROVE  QueueExact(g0, c) /\ CpupriExact(g0, c)
  <2>1. ListExact(g0, c)
    BY <1>6, <1>7, <1>8, <1>9 DEF ListExact
  <2>2. CountsExact(g0, c) /\ OverloadedExact(g0, c)
    BY <1>6, <1>7, <1>9 DEF CountsExact, OverloadedExact
  <2>3. CpupriExact(g0, c)
    BY <1>6, <1>7, <1>8, <1>9 DEF CpupriExact
  <2> QED BY <2>1, <2>2, <2>3 DEF QueueExact
<1>11. MaskExact(g0)
  <2>1. {c \in Cpu : g0.rq[c].online /\ g0.rq[c].overloaded} = {}
    BY <1>6, <1>9
  <2>2. rd.rto_mask = {} /\ rd.rto_count = 0
    BY DEF Init
  <2> QED BY <1>6, <2>1, <2>2, FS_EmptySet DEF MaskExact
<1>12. PlacesOK(g0, pc)
  <2>1. \A w \in Cpu : pc[w] = Free(w)
    BY DEF Init
  <2>2. pc \in [Cpu -> Place]
    BY CpusAssumption, RtPushPullAssumption DEF Init, Free, At, Place, RT_MAX_TRIES
  <2>3. \A w \in Cpu : pc[w].op = "none"
    <3>1. \A w : Free(w).op = "none"
      BY DEF Free, At
    <3> QED BY <2>1, <3>1
  <2>4. \A w \in Cpu : pc[w].op # "push" /\ pc[w].op # "push_locked" /\ pc[w].op # "pull"
                      /\ pc[w].op # "pull_locked" /\ pc[w].op # "switch" /\ pc[w].op # "wake"
    BY <2>3
  <2>5. \A w \in Cpu : PlaceOK(g0, pc, w)
    BY ONLY <2>4 DEF PlaceOK, Scheduling
  <2> QED BY <2>2, <2>5 DEF PlacesOK
<1>13. RunningOK(g0, pc)
  BY <1>6, <1>9, RtPushPullAssumption DEF RunningOK
<1> QED BY <1>6, <1>10, <1>11, <1>12, <1>13 DEF IndInv, Good, Exact, Init

-----------------------------------------------------------------------------
(* Steps in general *)

\* A task is moved only where MovedWhileWaiting allows it.
Moved(g, h) ==
  \A t \in Task : h.task[t].cpu # g.task[t].cpu =>
    ~Runs(g, t) /\ h.task[t].cpu \in g.task[t].allowed

SameCurr(h, g) == \A d \in Cpu : h.rq[d].curr = g.rq[d].curr

\* One CPU goes to another place, and no task that another CPU wakes is touched.
LEMMA PlacesKept ==
  ASSUME NEW g, NEW h, NEW ps, NEW qs, NEW w \in Cpu, NEW place \in Place,
         PlacesOK(g, ps), qs = [ps EXCEPT ![w] = place],
         PlaceOK(h, qs, w),
         \A v \in Cpu \ {w} : ps[v].op = "wake" =>
           /\ ~h.task[ps[v].task].on_rq /\ ~Runs(h, ps[v].task)
           /\ h.task[ps[v].task].allowed = g.task[ps[v].task].allowed
  PROVE  PlacesOK(h, qs)
<1>1. ps \in [Cpu -> Place] /\ \A v \in Cpu : PlaceOK(g, ps, v)
  BY DEF PlacesOK
<1>2. qs \in [Cpu -> Place] /\ qs[w] = place /\ \A v \in Cpu \ {w} : qs[v] = ps[v]
  BY <1>1
<1>3. ASSUME NEW v \in Cpu \ {w}
      PROVE  PlaceOK(h, qs, v)
  <2>1. qs[v] = ps[v] /\ PlaceOK(g, ps, v)
    BY <1>1, <1>2
  <2>2. ps[v].op = "wake" =>
          \A u \in Cpu : qs[u].op = "wake" /\ qs[u].task = ps[v].task => u = v
    <3> SUFFICES ASSUME ps[v].op = "wake", NEW u \in Cpu, qs[u].op = "wake", qs[u].task = ps[v].task
                 PROVE  u = v
      OBVIOUS
    <3>1. u # w
      BY <1>2 DEF PlaceOK
    <3> QED BY <1>2, <2>1, <3>1 DEF PlaceOK
  <2>3. Scheduling(qs, v) <=> Scheduling(ps, v)
    BY <2>1 DEF Scheduling
  <2> QED BY <2>1, <2>2, <2>3 DEF PlaceOK
<1> QED BY <1>2, <1>3 DEF PlacesOK

\* A step that changes no task and nothing that runs.
LEMMA QuietStep ==
  ASSUME NEW g, NEW ps, Good(g, ps), NEW h, Exact(h), h.task = g.task, SameCurr(h, g),
         NEW w \in Cpu, NEW place \in Place, NEW qs, qs = [ps EXCEPT ![w] = place],
         PlaceOK(h, qs, w), Scheduling(ps, w) => Scheduling(qs, w)
  PROVE  Good(h, qs) /\ Moved(g, h)
<1>1. \A t : Runs(h, t) <=> Runs(g, t)
  BY DEF Runs, SameCurr
<1>2. PlacesOK(g, ps) /\ RunningOK(g, ps)
  BY DEF Good
<1>3. \A v \in Cpu \ {w} : ps[v].op = "wake" =>
        /\ ~h.task[ps[v].task].on_rq /\ ~Runs(h, ps[v].task)
        /\ h.task[ps[v].task].allowed = g.task[ps[v].task].allowed
  BY <1>1, <1>2 DEF PlacesOK, PlaceOK
<1>4. PlacesOK(h, qs)
  BY <1>2, <1>3, PlacesKept
<1>5. \A v \in Cpu : Scheduling(ps, v) => Scheduling(qs, v)
  <2>1. \A v \in Cpu \ {w} : qs[v] = ps[v]
    BY <1>2 DEF PlacesOK
  <2> QED BY <2>1 DEF Scheduling
<1>6. RunningOK(h, qs)
  BY <1>2, <1>5 DEF RunningOK, SameCurr
<1> QED BY <1>4, <1>6 DEF Good, Moved

\* A push or a pull, or the stopper: a task that waits gets to another run queue.
LEMMA TaskMovedBy ==
  ASSUME NEW g, Exact(g), NEW t \in Task, g.task[t].on_rq, NEW c \in Cpu,
         NEW h, h = move_task(g, t, c)
  PROVE  /\ Exact(h) /\ SameRuns(h, g) /\ OthersSame(h, g, t) /\ SameKind(h, g, t)
         /\ h.task[t].on_rq /\ h.task[t].cpu = c
<1> DEFINE k == dequeue_task_rt(g, t)
<1>1. k = dequeue_task_rt(g, t) /\ h = enqueue_task_rt(k, c, t)
  BY DEF move_task
<1> HIDE DEF k
<1>2. /\ Exact(k) /\ SameRuns(k, g) /\ OthersSame(k, g, t) /\ SameKind(k, g, t) /\ ~k.task[t].on_rq
  BY <1>1, Dequeued
<1>3. /\ Exact(h) /\ SameRuns(h, k) /\ OthersSame(h, k, t) /\ SameKind(h, k, t)
      /\ h.task[t].on_rq /\ h.task[t].cpu = c
  BY <1>1, <1>2, Enqueued
<1> QED BY <1>2, <1>3 DEF SameRuns, OthersSame, SameKind

-----------------------------------------------------------------------------
(* What the steps of the specification have in common *)

Stepped == Good(g0', pc') /\ Moved(g0, g0')

\* A place that needs nothing of the tasks.
Fits(w, p) ==
  /\ p.op # "wake"
  /\ p.op = "push_locked" => p.task \in Task /\ p.tries < RT_MAX_TRIES
  /\ p.op = "push" /\ p.tries > 0 => p.task \in Task
  /\ p.op \in {"push_locked", "pull_locked"} => p.to \in Cpu \ {p.rq}
  /\ p.op = "switch" => p.task = Idle
  /\ p.op \in {"pull", "pull_locked", "switch"} /\ p.task = Idle => p.rq = w

LEMMA FitsIsOK ==
  ASSUME NEW h, NEW ps, NEW w \in Cpu, Fits(w, ps[w])
  PROVE  PlaceOK(h, ps, w)
BY DEF Fits, PlaceOK, Scheduling

LEMMA PlaceSame ==
  ASSUME NEW g, NEW h, NEW ps, NEW w \in Cpu, PlaceOK(g, ps, w), h.task = g.task, SameCurr(h, g)
  PROVE  PlaceOK(h, ps, w)
<1>1. \A t : Runs(h, t) <=> Runs(g, t)
  BY DEF Runs, SameCurr
<1> QED BY <1>1 DEF PlaceOK

\* The invariant, in the names of the variables.
LEMMA Facts ==
  ASSUME IndInv
  PROVE  /\ Good(g0, pc) /\ Exact(g0) /\ Typed(g0) /\ PlacesOK(g0, pc) /\ RunningOK(g0, pc)
         /\ g0.task = task /\ g0.rq = rq /\ g0.rd = rd
         /\ pc \in [Cpu -> Place] /\ \A w \in Cpu : PlaceOK(g0, pc, w)
BY g0Fields DEF IndInv, Good, Exact, PlacesOK

\* A step that moves no task and switches no CPU.
LEMMA Quietly ==
  ASSUME IndInv, NEW w \in Cpu, NEW h, Exact(h), h.task = task,
         \A d \in Cpu : h.rq[d].curr = rq[d].curr,
         NEW place \in Place, Fits(w, place),
         Scheduling(pc, w) => place.op \in {"pull", "pull_locked", "switch"} /\ place.task = Idle,
         becomes(h), goto(w, place)
  PROVE  Stepped
<1>1. g0' = h
  BY g0Fields DEF Exact
<1>2. pc' = [pc EXCEPT ![w] = place] /\ pc'[w] = place
  BY Facts DEF goto
<1>3. SameCurr(h, g0) /\ h.task = g0.task
  BY Facts DEF SameCurr
<1>4. PlaceOK(h, pc', w)
  BY <1>2, FitsIsOK
<1>5. Scheduling(pc, w) => Scheduling(pc', w)
  BY <1>2 DEF Scheduling
<1>6. Good(h, pc') /\ Moved(g0, h)
  <2>1. Good(g0, pc)
    BY DEF IndInv
  <2> QED BY ONLY <2>1, <1>2, <1>3, <1>4, <1>5, Exact(h), w \in Cpu, place \in Place, QuietStep
<1> QED BY <1>1, <1>6 DEF Stepped

\* The same, of the run queues only.
LEMMA Staying ==
  ASSUME IndInv, NEW w \in Cpu, NEW h, Exact(h), h.task = task,
         \A d \in Cpu : h.rq[d].curr = rq[d].curr,
         becomes(h), UNCHANGED pc
  PROVE  Stepped
<1>1. g0' = h
  BY g0Fields DEF Exact
<1>2. pc' = [pc EXCEPT ![w] = pc[w]] /\ pc[w] \in Place /\ pc' = pc
  BY Facts
<1>3. SameCurr(h, g0) /\ h.task = g0.task
  BY Facts DEF SameCurr
<1>4. PlaceOK(h, pc', w)
  BY <1>2, <1>3, Facts, PlaceSame
<1>5. Scheduling(pc, w) => Scheduling(pc', w)
  BY <1>2
<1>6. Good(h, pc') /\ Moved(g0, h)
  <2>1. Good(g0, pc)
    BY DEF IndInv
  <2> QED BY ONLY <2>1, <1>2, <1>3, <1>4, <1>5, Exact(h), w \in Cpu, QuietStep
<1> QED BY <1>1, <1>6 DEF Stepped

\* A step of one CPU that changes nothing else.
LEMMA Going ==
  ASSUME IndInv, NEW w \in Cpu, NEW place \in Place, Fits(w, place),
         Scheduling(pc, w) => place.op \in {"pull", "pull_locked", "switch"} /\ place.task = Idle,
         UNCHANGED <<task, rq, rd>>, goto(w, place)
  PROVE  Stepped
<1>1. becomes(g0)
  BY DEF becomes, g0
<1> QED BY <1>1, Facts, Quietly

NotWoken(ps, w, t) == \A v \in Cpu \ {w} : ps[v].op = "wake" => ps[v].task # t
KeepsRunning(g, h, qs, t) ==
  \A c \in Cpu : g.rq[c].curr = t => h.task[t].on_rq \/ Scheduling(qs, c)
MayMove(g, h, t) ==
  h.task[t].cpu # g.task[t].cpu => ~Runs(g, t) /\ h.task[t].cpu \in g.task[t].allowed

\* One task changes, which no other CPU wakes: it stays on its CPU if it runs,
\* and sleeps there only on the way to the switch.
LEMMA ChangeStep ==
  ASSUME NEW g, NEW ps, Good(g, ps), NEW t \in Task,
         NEW h, Exact(h), SameCurr(h, g),
         OthersSame(h, g, t),
         NEW w \in Cpu, NEW place \in Place, NEW qs, qs = [ps EXCEPT ![w] = place],
         PlaceOK(h, qs, w), Scheduling(ps, w) => Scheduling(qs, w),
         NotWoken(ps, w, t), MayMove(g, h, t), KeepsRunning(g, h, qs, t)
  PROVE  Good(h, qs) /\ Moved(g, h)
<1>1. \A u : Runs(h, u) <=> Runs(g, u)
  BY DEF Runs, SameCurr
<1>2. PlacesOK(g, ps) /\ RunningOK(g, ps)
  BY DEF Good
<1>3. \A v \in Cpu \ {w} : ps[v].op = "wake" =>
        /\ ~h.task[ps[v].task].on_rq /\ ~Runs(h, ps[v].task)
        /\ h.task[ps[v].task].allowed = g.task[ps[v].task].allowed
  BY <1>1, <1>2 DEF PlacesOK, PlaceOK, OthersSame, NotWoken
<1>4. PlacesOK(h, qs)
  BY <1>2, <1>3, PlacesKept
<1>5. \A v \in Cpu : Scheduling(ps, v) => Scheduling(qs, v)
  <2>1. \A v \in Cpu \ {w} : qs[v] = ps[v]
    BY <1>2 DEF PlacesOK
  <2> QED BY <2>1 DEF Scheduling
<1>6. RunningOK(h, qs)
  <2> SUFFICES ASSUME NEW c \in Cpu, h.rq[c].curr \in Task
               PROVE  /\ h.task[h.rq[c].curr].cpu = c
                      /\ h.task[h.rq[c].curr].on_rq \/ Scheduling(qs, c)
    BY DEF RunningOK
  <2> DEFINE u == g.rq[c].curr
  <2>1. h.rq[c].curr = u /\ u \in Task
    BY DEF SameCurr
  <2>2. g.task[u].cpu = c /\ (g.task[u].on_rq \/ Scheduling(ps, c))
    BY <1>2, <2>1 DEF RunningOK
  <2>3. CASE u = t
    <3>1. h.task[t].cpu = g.task[t].cpu
      BY <2>3 DEF Runs, MayMove
    <3> QED BY <2>1, <2>2, <2>3, <3>1 DEF KeepsRunning
  <2>4. CASE u # t
    <3>1. h.task[u] = g.task[u]
      BY <2>1, <2>4 DEF OthersSame
    <3> QED BY <1>5, <2>1, <2>2, <3>1
  <2> QED BY <2>3, <2>4
<1>7. Moved(g, h)
  BY DEF Moved, OthersSame, MayMove
<1> QED BY <1>4, <1>6, <1>7 DEF Good

\* The same of a step of the specification.
LEMMA Changes ==
  ASSUME IndInv, NEW w \in Cpu, NEW t \in Task, NEW h, Exact(h),
         \A d \in Cpu : h.rq[d].curr = rq[d].curr, \A u \in Task \ {t} : h.task[u] = task[u],
         NEW place \in Place, Fits(w, place), becomes(h), goto(w, place),
         Scheduling(pc, w) => place.op \in {"pull", "pull_locked", "switch"} /\ place.task = Idle,
         \A v \in Cpu \ {w} : pc[v].op = "wake" => pc[v].task # t,
         h.task[t].cpu # task[t].cpu => ~Runs(g0, t) /\ h.task[t].cpu \in task[t].allowed,
         \A c \in Cpu : rq[c].curr = t =>
           \/ h.task[t].on_rq
           \/ c # w /\ Scheduling(pc, c)
           \/ c = w /\ place.op \in {"pull", "pull_locked", "switch"} /\ place.task = Idle
  PROVE  Stepped
<1>1. g0' = h
  BY g0Fields DEF Exact
<1>2. pc' = [pc EXCEPT ![w] = place] /\ pc'[w] = place /\ \A v \in Cpu \ {w} : pc'[v] = pc[v]
  BY Facts DEF goto
<1>3. SameCurr(h, g0) /\ OthersSame(h, g0, t)
  BY Facts DEF SameCurr, OthersSame
<1>4. PlaceOK(h, pc', w)
  BY <1>2, FitsIsOK
<1>5. Scheduling(pc, w) => Scheduling(pc', w)
  BY <1>2 DEF Scheduling
<1>6. MayMove(g0, h, t)
  BY Facts DEF MayMove
<1>7. \A c \in Cpu : g0.rq[c].curr = t => h.task[t].on_rq \/ Scheduling(pc', c)
  BY <1>2, Facts DEF Scheduling
<1>8. /\ Good(g0, pc) /\ NotWoken(pc, w, t)
      /\ Exact(h) /\ w \in Cpu /\ t \in Task /\ place \in Place
  BY Facts DEF NotWoken
<1> DEFINE qs == pc'
<1>q. qs = [pc EXCEPT ![w] = place]
  BY <1>2
<1>9. Good(h, qs) /\ Moved(g0, h)
  <2>1. /\ PlaceOK(h, qs, w) /\ (Scheduling(pc, w) => Scheduling(qs, w))
        /\ KeepsRunning(g0, h, qs, t)
    BY <1>4, <1>5, <1>7 DEF KeepsRunning
  <2> HIDE DEF qs
  <2> QED BY ONLY <1>q, <1>3, <1>6, <1>8, <2>1, ChangeStep
<1> QED BY <1>1, <1>9 DEF Stepped

\* A task on its run queue is no task that is being woken.
LEMMA QueuedNotWoken ==
  ASSUME IndInv, NEW t \in Task, task[t].on_rq
  PROVE  \A v \in Cpu : pc[v].op = "wake" => pc[v].task # t
BY Facts DEF PlaceOK

\* A task that waits is moved to a CPU it may use, which may be rescheduled.
LEMMA Moving ==
  ASSUME IndInv, NEW w \in Cpu, NEW t \in Task, task[t].on_rq, ~Runs(g0, t),
         NEW d \in Cpu, d \in task[t].allowed,
         NEW k, k = move_task(g0, t, d), NEW h, h = k \/ h = resched_task(k, d),
         NEW place \in Place, Fits(w, place), becomes(h), goto(w, place),
         Scheduling(pc, w) => place.op \in {"pull", "pull_locked", "switch"} /\ place.task = Idle
  PROVE  Stepped
<1>1. /\ Exact(k) /\ SameRuns(k, g0) /\ OthersSame(k, g0, t)
      /\ k.task[t].on_rq /\ k.task[t].cpu = d
  <2>1. Exact(g0) /\ g0.task[t].on_rq
    BY Facts
  <2> QED BY <2>1, TaskMovedBy
<1>2. h = resched_task(k, d) => Exact(h) /\ h.task = k.task /\ OnlyRun(h, k, d) /\ h.rq[d].curr = k.rq[d].curr
  BY <1>1, Resched
<1>3. Exact(h) /\ h.task = k.task /\ \A c \in Cpu : h.rq[c].curr = k.rq[c].curr
  BY <1>1, <1>2 DEF OnlyRun
<1>4. \A c \in Cpu : h.rq[c].curr = rq[c].curr
  BY <1>1, <1>3, Facts DEF SameRuns
<1>5. /\ \A u \in Task \ {t} : h.task[u] = task[u]
      /\ h.task[t].cpu = d /\ h.task[t].on_rq
      /\ \A v \in Cpu \ {w} : pc[v].op = "wake" => pc[v].task # t
  BY <1>1, <1>3, Facts, QueuedNotWoken DEF OthersSame
<1> QED BY <1>3, <1>4, <1>5, Changes

-----------------------------------------------------------------------------
(* One lemma for every action *)

LEMMA PlaceTypes ==
  ASSUME NEW w \in Cpu
  PROVE  /\ Free(w) \in Place /\ Fits(w, Free(w)) /\ Free(w).op = "none"
         /\ \A c \in Cpu : At("push", c) \in Place /\ Fits(w, At("push", c))
         /\ At("switch", w) \in Place /\ Fits(w, At("switch", w))
         /\ At("pull", w) \in Place /\ Fits(w, At("pull", w))
         /\ \A op, c : At(op, c).op = op /\ At(op, c).task = Idle
<1>1. \A op, c : /\ At(op, c).op = op /\ At(op, c).task = Idle /\ At(op, c).rq = c
                 /\ At(op, c).to = 0 /\ At(op, c).tries = 0
  BY DEF At
<1>2. ASSUME NEW c \in Cpu, NEW op \in {"none", "push", "switch", "pull"}
      PROVE  At(op, c) \in Place
  BY CpusAssumption, RtPushPullAssumption DEF At, Place, RT_MAX_TRIES
<1>3. \A c \in Cpu : Fits(w, At("push", c)) /\ Fits(w, At("none", c))
  BY <1>1 DEF Fits
<1>4. Fits(w, At("switch", w)) /\ Fits(w, At("pull", w))
  BY <1>1 DEF Fits
<1> QED BY <1>1, <1>2, <1>3, <1>4 DEF Free

LEMMA PlaceFields ==
  ASSUME IndInv, NEW w \in Cpu
  PROVE  /\ pc[w] \in Place /\ pc[w].rq \in Cpu /\ pc[w].task \in Task \cup {Idle}
         /\ pc[w].to \in 0..NrCpus /\ pc[w].tries \in 0..RT_MAX_TRIES /\ PlaceOK(g0, pc, w)
BY Facts DEF Place

LEMMA LowestType ==
  ASSUME NEW g, Typed(g), NEW t \in Task
  PROVE  /\ g.task[t].allowed \in SUBSET Cpu /\ g.task[t].allowed # {}
         /\ lowest_mask(g, t) \in SUBSET g.task[t].allowed
         /\ find_lowest_rq(g, t) \in SUBSET g.task[t].allowed
<1>1. g.task[t] \in TaskStruct
  BY DEF Typed
<1>2. g.task[t].allowed \in SUBSET Cpu /\ g.task[t].allowed # {}
  BY <1>1, RtPushPullAssumption DEF TaskStruct
<1>3. lowest_mask(g, t) \in SUBSET g.task[t].allowed
  BY DEF lowest_mask
<1>4. find_lowest_rq(g, t) \in SUBSET g.task[t].allowed
  BY <1>3 DEF find_lowest_rq
<1> QED BY <1>2, <1>3, <1>4

LEMMA StepPush ==
  ASSUME IndInv, NEW w \in Cpu, Push(w)
  PROVE  Stepped
<1> DEFINE c == pc[w].rq
<1>1. /\ c \in Cpu /\ pc[w].op = "push" /\ ~Scheduling(pc, w)
      /\ Typed(g0) /\ g0.task = task /\ g0.rq = rq
  BY PlaceFields, Facts DEF Push, Scheduling
<1>2. CASE done(w) /\ UNCHANGED <<task, rq, rd>>
  BY <1>1, <1>2, PlaceTypes, Going DEF done
<1>3. CASE done(w) /\ becomes(resched_task(g0, c))
  <2> DEFINE h == resched_task(g0, c)
  <2>1. /\ Exact(h) /\ h.task = g0.task /\ OnlyRun(h, g0, c)
        /\ h.rq[c].curr = g0.rq[c].curr
    BY <1>1, Facts, Resched
  <2> HIDE DEF h
  <2>2. \A d \in Cpu : h.rq[d].curr = rq[d].curr
    BY <1>1, <2>1 DEF OnlyRun
  <2>3. becomes(h)
    BY <1>3 DEF h
  <2> QED BY <1>1, <1>3, <2>1, <2>2, <2>3, PlaceTypes, Quietly DEF done
<1>4. ASSUME NEW t \in IF pc[w].tries = 0 THEN pushable_first(g0, c) ELSE {pc[w].task},
             NEW d \in (IF pc[w].tries < RT_MAX_TRIES THEN find_lowest_rq(g0, t) ELSE {}) \ {c},
             goto(w, [pc[w] EXCEPT !.op = "push_locked", !.task = t, !.to = d]),
             UNCHANGED <<task, rq, rd>>
      PROVE  Stepped
  <2> DEFINE place == [pc[w] EXCEPT !.op = "push_locked", !.task = t, !.to = d]
  <2>1. t \in Task
    <3>1. pushable_first(g0, c) \subseteq Task
      BY <1>1, QueueType DEF pushable_first
    <3>2. pc[w].tries # 0 => pc[w].task \in Task
      BY <1>1, PlaceFields DEF PlaceOK, RT_MAX_TRIES
    <3> QED BY <3>1, <3>2
  <2>2. pc[w].tries < RT_MAX_TRIES /\ d \in Cpu \ {c}
    BY <1>1, <2>1, LowestType
  <2>3. d \in 0..NrCpus
    BY <2>2, CpusAssumption, RtPushPullAssumption DEF Cpu
  <2> DEFINE r == pc[w]
  <2>p. /\ place = [r EXCEPT !.op = "push_locked", !.task = t, !.to = d] /\ goto(w, place)
        /\ r \in Place /\ r.rq = c /\ r.tries = pc[w].tries
    BY <1>4, PlaceFields
  <2> HIDE DEF place, r
  <2>4. /\ place \in Place /\ place.op = "push_locked" /\ place.task = t /\ place.to = d
        /\ place.rq = c /\ place.tries = pc[w].tries
    BY <2>1, <2>3, <2>p DEF Place
  <2>5. Fits(w, place)
    BY <2>1, <2>2, <2>4 DEF Fits
  <2> QED BY <1>1, <1>4, <2>p, <2>4, <2>5, Going
<1> QED BY <1>2, <1>3, <1>4 DEF Push

LEMMA StepPushLocked ==
  ASSUME IndInv, NEW w \in Cpu, PushLocked(w)
  PROVE  Stepped
<1> DEFINE c == pc[w].rq
           t == pc[w].task
           d == pc[w].to
<1>1. /\ c \in Cpu /\ pc[w].op = "push_locked" /\ ~Scheduling(pc, w)
      /\ t \in Task /\ d \in Cpu /\ d # c /\ pc[w].tries \in 0..RT_MAX_TRIES
      /\ pc[w].tries < RT_MAX_TRIES
      /\ Typed(g0) /\ g0.task = task /\ g0.rq = rq
  BY PlaceFields, Facts DEF PushLocked, Scheduling, PlaceOK
<1>2. CASE /\ still_pushable(c, t, d)
           /\ becomes(resched_task(move_task(g0, t, d), d)) /\ goto(w, At("push", c))
  <2>1. task[t].on_rq /\ task[t].cpu = c /\ rq[c].curr # t /\ d \in task[t].allowed
    BY <1>2 DEF still_pushable
  <2>2. ~Runs(g0, t)
    BY <1>1, <2>1, Facts DEF Runs, RunningOK
  <2> DEFINE k == move_task(g0, t, d)
             h == resched_task(k, d)
  <2>3. becomes(h) /\ h = resched_task(k, d) /\ k = move_task(g0, t, d)
    BY <1>2
  <2> HIDE DEF h, k
  <2>4. /\ At("push", c) \in Place /\ Fits(w, At("push", c)) /\ goto(w, At("push", c))
    BY <1>1, <1>2, PlaceTypes
  <2> QED BY <1>1, <2>1, <2>2, <2>3, <2>4, Moving
<1>3. CASE goto(w, [pc[w] EXCEPT !.op = "push", !.tries = @ + 1]) /\ UNCHANGED <<task, rq, rd>>
  <2> DEFINE r == pc[w]
             n == r.tries + 1
             place == [pc[w] EXCEPT !.op = "push", !.tries = @ + 1]
  <2>1. n \in 0..RT_MAX_TRIES /\ r \in Place /\ r.task = t
    BY <1>1, PlaceFields DEF RT_MAX_TRIES
  <2>p. place = [r EXCEPT !.op = "push", !.tries = n] /\ goto(w, place)
    BY <1>1, <1>3, PlaceFields DEF Place
  <2> HIDE DEF n, r, place
  <2>2. place \in Place /\ place.op = "push" /\ place.task = t
    BY <2>1, <2>p DEF Place
  <2>3. Fits(w, place)
    BY <1>1, <2>2 DEF Fits
  <2> QED BY <1>1, <1>3, <2>p, <2>2, <2>3, Going
<1>4. CASE done(w) /\ UNCHANGED <<task, rq, rd>>
  BY <1>1, <1>4, PlaceTypes, Going DEF done
<1>5. CASE goto(w, [At("push", c) EXCEPT !.task = t]) /\ UNCHANGED <<task, rq, rd>>
  <2> DEFINE place == [At("push", c) EXCEPT !.task = t]
  <2>1. place \in Place /\ place.op = "push" /\ place.task = t
    BY <1>1, PlaceTypes DEF Place
  <2>2. Fits(w, place)
    BY <1>1, <2>1 DEF Fits
  <2> QED BY <1>1, <1>5, <2>1, <2>2, Going
<1> QED BY <1>2, <1>3, <1>4, <1>5 DEF PushLocked

LEMMA StepPull ==
  ASSUME IndInv, NEW w \in Cpu, Pull(w)
  PROVE  Stepped
<1> DEFINE c == pc[w].rq
           p == pc[w].task
           left == {i \in rd.rto_mask : /\ i > pc[w].to /\ i # c
                                        /\ rq[i].next < highest(g0, queued(g0, c))}
<1>1. /\ c \in Cpu /\ pc[w].op = "pull" /\ p \in Task \cup {Idle}
      /\ (p = Idle => c = w) /\ (Scheduling(pc, w) <=> p = Idle)
      /\ Typed(g0) /\ g0.task = task /\ g0.rq = rq /\ g0.rd = rd
  BY PlaceFields, Facts DEF Pull, Scheduling, PlaceOK
<1>2. CASE pulled(w)
  <2>1. CASE p = Idle
    <3>1. goto(w, At("switch", w)) /\ UNCHANGED <<task, rq, rd>>
      BY <1>1, <1>2, <2>1 DEF pulled
    <3> QED BY <3>1, PlaceTypes, Going
  <2>2. CASE p # Idle /\ UNCHANGED <<task, rq, rd>>
    <3>1. goto(w, Free(w))
      BY <1>2, <2>2 DEF pulled, done
    <3> QED BY <1>1, <2>2, <3>1, PlaceTypes, Going
  <2>3. CASE p # Idle /\ becomes(resched_task(g0, c))
    <3>1. goto(w, Free(w))
      BY <1>2, <2>3 DEF pulled, done
    <3> DEFINE h == resched_task(g0, c)
    <3>2. /\ Exact(h) /\ h.task = g0.task /\ OnlyRun(h, g0, c)
          /\ h.rq[c].curr = g0.rq[c].curr
      BY <1>1, Facts, Resched
    <3> HIDE DEF h
    <3>3. \A d \in Cpu : h.rq[d].curr = rq[d].curr
      BY <1>1, <3>2 DEF OnlyRun
    <3>4. becomes(h)
      BY <2>3 DEF h
    <3> QED BY <1>1, <2>3, <3>1, <3>2, <3>3, <3>4, PlaceTypes, Quietly
  <2> QED BY <1>2, <2>1, <2>2, <2>3 DEF pulled
<1>3. CASE left # {} /\ goto(w, [pc[w] EXCEPT !.op = "pull_locked", !.to = Min(left)])
           /\ UNCHANGED <<task, rq, rd>>
  <2> DEFINE place == [pc[w] EXCEPT !.op = "pull_locked", !.to = Min(left)]
  <2>1. left \in SUBSET Cpu /\ c \notin left
    BY <1>1 DEF Typed, RootDomain
  <2>2. Min(left) \in left
    <3>1. left \subseteq Nat
      BY <2>1, CpusAssumption, RtPushPullAssumption DEF Cpu
    <3> HIDE DEF left
    <3>2. \E i \in left : \A j \in left : i <= j
      BY <1>3, <3>1, Least
    <3> QED BY <3>2 DEF Min
  <2>3. Min(left) \in Cpu \ {c} /\ Min(left) \in 0..NrCpus
    <3>1. Cpu \subseteq 0..NrCpus
      BY CpusAssumption, RtPushPullAssumption DEF Cpu
    <3> HIDE DEF left
    <3> QED BY <2>1, <2>2, <3>1
  <2> DEFINE m == Min(left)
             r == pc[w]
  <2>m. /\ m \in Cpu \ {c} /\ m \in 0..NrCpus
        /\ r \in Place /\ r.rq = c /\ r.task = p
    BY <2>3, PlaceFields
  <2> HIDE DEF m
  <2>n. place = [r EXCEPT !.op = "pull_locked", !.to = m] /\ goto(w, place)
    BY <1>3 DEF m
  <2> HIDE DEF place, r
  <2>4. /\ place \in Place /\ place.op = "pull_locked" /\ place.to = m
        /\ place.rq = c /\ place.task = p
    BY <2>m, <2>n DEF Place
  <2>5. Fits(w, place)
    BY <1>1, <2>m, <2>4 DEF Fits
  <2> QED BY <1>1, <1>3, <2>n, <2>4, <2>5, Going
<1> QED BY <1>2, <1>3 DEF Pull

LEMMA StepPullLocked ==
  ASSUME IndInv, NEW w \in Cpu, PullLocked(w)
  PROVE  Stepped
<1> DEFINE c == pc[w].rq
           i == pc[w].to
           place == [pc[w] EXCEPT !.op = "pull"]
<1>1. /\ c \in Cpu /\ pc[w].op = "pull_locked" /\ i \in Cpu
      /\ (pc[w].task = Idle => c = w)
      /\ Typed(g0) /\ g0.task = task /\ g0.rq = rq /\ g0.rd = rd
  BY PlaceFields, Facts DEF PullLocked, Scheduling, PlaceOK
<1>2. /\ place \in Place /\ place.op = "pull" /\ place.task = pc[w].task /\ place.rq = c
  BY PlaceFields DEF Place
<1>3. Fits(w, place)
  BY <1>1, <1>2 DEF Fits
<1>4. goto(w, place)
  BY DEF PullLocked
<1>5. Scheduling(pc, w) => place.op \in {"pull", "pull_locked", "switch"} /\ place.task = Idle
  BY <1>2 DEF Scheduling
<1> HIDE DEF place
<1>6. CASE UNCHANGED <<task, rq, rd>>
  BY <1>2, <1>3, <1>4, <1>5, <1>6, Going
<1>7. ASSUME NEW t \in pick_next_highest_task_rt(i, c), becomes(move_task(g0, t, c))
      PROVE  Stepped
  <2>1. t \in queued(g0, i) /\ rq[i].curr # t /\ c \in task[t].allowed
    BY <1>7 DEF pick_next_highest_task_rt
  <2>2. t \in Task /\ task[t].on_rq /\ task[t].cpu = i
    BY <1>1, <2>1 DEF queued
  <2>3. ~Runs(g0, t)
    BY <1>1, <2>1, <2>2, Facts DEF Runs, RunningOK
  <2> DEFINE k == move_task(g0, t, c)
  <2>4. becomes(k) /\ k = move_task(g0, t, c)
    BY <1>7
  <2> HIDE DEF k
  <2> QED BY <1>1, <1>2, <1>3, <1>4, <1>5, <2>1, <2>2, <2>3, <2>4, Moving
<1> QED BY <1>6, <1>7 DEF PullLocked

LEMMA StepSchedule ==
  ASSUME IndInv, NEW c \in Cpu, NEW sleeps \in BOOLEAN, Schedule(c, sleeps)
  PROVE  Stepped
<1> DEFINE prev == rq[c].curr
           g == IF sleeps THEN dequeue_task_rt(g0, prev) ELSE g0
           place == At(IF prev \in Task /\ highest(g, queued(g, c)) > prio(g, prev)
                       THEN "pull" ELSE "switch", c)
<1>1. /\ pc[c] = Free(c) /\ ~Scheduling(pc, c)
      /\ Typed(g0) /\ g0.task = task /\ g0.rq = rq
  BY Facts DEF Schedule, idle, Scheduling, Free, At
<1>2. /\ place \in Place /\ Fits(c, place) /\ place.op \in {"pull", "switch"} /\ place.task = Idle
  BY PlaceTypes
<1>3. becomes(g) /\ goto(c, place)
  BY DEF Schedule
<1>4. CASE sleeps
  <2>1. prev \in Task
    BY <1>4 DEF Schedule
  <2>2. task[prev].on_rq /\ task[prev].cpu = c
    BY <1>1, <2>1, Facts DEF RunningOK
  <2>3. g = dequeue_task_rt(g0, prev)
    BY <1>4
  <2> DEFINE t == prev
             h == g
  <2>h. becomes(h) /\ h = dequeue_task_rt(g0, t) /\ t \in Task /\ g0.task[t].on_rq /\ t = rq[c].curr
    BY <1>1, <1>3, <2>1, <2>2, <2>3
  <2> HIDE DEF h, t, g, prev, place
  <2>4. /\ Exact(h) /\ SameRuns(h, g0) /\ OthersSame(h, g0, t) /\ h.task[t].cpu = g0.task[t].cpu
    <3>1. Exact(g0)
      BY Facts
    <3> QED BY <3>1, <2>h, Dequeued
  <2>6. h.task[t].cpu = task[t].cpu /\ \A u \in Task \ {t} : h.task[u] = task[u]
    BY <1>1, <2>4 DEF OthersSame
  <2>7. \A d \in Cpu : h.rq[d].curr = rq[d].curr
    BY <1>1, <2>4 DEF SameRuns
  <2>8. \A v \in Cpu \ {c} : pc[v].op = "wake" => pc[v].task # t
    BY <1>1, <2>h, QueuedNotWoken
  <2>9. \A d \in Cpu : rq[d].curr = t => d = c
    BY <1>1, <2>h, Facts DEF RunningOK
  <2>10. \A d \in Cpu : rq[d].curr = t =>
           \/ h.task[t].on_rq
           \/ d # c /\ Scheduling(pc, d)
           \/ d = c /\ place.op \in {"pull", "pull_locked", "switch"} /\ place.task = Idle
    BY <1>2, <2>9
  <2>11. /\ IndInv /\ c \in Cpu /\ t \in Task /\ Exact(h)
         /\ \A d \in Cpu : h.rq[d].curr = rq[d].curr
         /\ \A u \in Task \ {t} : h.task[u] = task[u]
         /\ place \in Place /\ Fits(c, place) /\ becomes(h) /\ goto(c, place)
         /\ ~Scheduling(pc, c)
         /\ \A v \in Cpu \ {c} : pc[v].op = "wake" => pc[v].task # t
         /\ h.task[t].cpu = task[t].cpu
    BY <1>1, <1>2, <1>3, <2>h, <2>4, <2>6, <2>7, <2>8
  <2> QED BY ONLY <2>10, <2>11, Changes
<1>5. CASE ~sleeps
  <2>1. g = g0
    BY <1>5
  <2>2. becomes(g0)
    BY <1>3, <2>1
  <2> HIDE DEF g, place
  <2> QED BY <1>1, <1>2, <1>3, <2>2, Facts, Quietly
<1> QED BY <1>4, <1>5

\* A CPU runs something else: the idle task, the stopper or a task of its queue.
LEMMA Switching ==
  ASSUME IndInv, NEW c \in Cpu, NEW next, NEW h, Exact(h), h.task = task,
         \A d \in Cpu \ {c} : h.rq[d].curr = rq[d].curr, h.rq[c].curr = next,
         next \in Task => task[next].on_rq /\ task[next].cpu = c,
         NEW place \in Place, Fits(c, place), becomes(h), goto(c, place)
  PROVE  Stepped
<1>1. g0' = h
  BY g0Fields DEF Exact
<1>2. pc' = [pc EXCEPT ![c] = place] /\ pc'[c] = place /\ \A v \in Cpu \ {c} : pc'[v] = pc[v]
  BY Facts DEF goto
<1>3. PlacesOK(h, pc')
  <2>1. ASSUME NEW v \in Cpu \ {c}, pc[v].op = "wake"
        PROVE  /\ ~h.task[pc[v].task].on_rq /\ ~Runs(h, pc[v].task)
               /\ h.task[pc[v].task].allowed = g0.task[pc[v].task].allowed
    <3>1. pc[v].task \in Task /\ ~task[pc[v].task].on_rq /\ ~Runs(g0, pc[v].task)
      BY <2>1, Facts DEF PlaceOK
    <3>2. \A d \in Cpu \ {c} : h.rq[d].curr # pc[v].task
      BY <3>1, Facts DEF Runs
    <3>3. h.rq[c].curr # pc[v].task
      BY <3>1
    <3> QED BY <3>1, <3>2, <3>3, Facts DEF Runs
  <2>2. PlaceOK(h, pc', c)
    BY <1>2, FitsIsOK
  <2>3. PlacesOK(g0, pc)
    BY Facts
  <2> QED BY ONLY <1>2, <2>1, <2>2, <2>3, c \in Cpu, place \in Place, PlacesKept
<1>4. RunningOK(h, pc')
  <2> SUFFICES ASSUME NEW d \in Cpu, h.rq[d].curr \in Task
               PROVE  /\ h.task[h.rq[d].curr].cpu = d
                      /\ h.task[h.rq[d].curr].on_rq \/ Scheduling(pc', d)
    BY DEF RunningOK
  <2>1. CASE d = c
    BY <2>1
  <2>2. CASE d # c
    <3>1. h.rq[d].curr = rq[d].curr /\ (Scheduling(pc', d) <=> Scheduling(pc, d))
      BY <1>2, <2>2 DEF Scheduling
    <3> QED BY <3>1, Facts DEF RunningOK
  <2> QED BY <2>1, <2>2
<1>5. Moved(g0, h)
  BY Facts DEF Moved
<1> QED BY <1>1, <1>3, <1>4, <1>5 DEF Stepped, Good

LEMMA StepSwitch ==
  ASSUME IndInv, NEW c \in Cpu, Switch(c)
  PROVE  Stepped
<1>1. /\ Exact(g0) /\ Typed(g0) /\ g0.task = task /\ g0.rq = rq
      /\ (g0.rq[c].curr \in Task => g0.task[g0.rq[c].curr].cpu = c)
  BY Facts DEF RunningOK
<1>2. PICK next \in IF queued(g0, c) = {} THEN {Idle}
                    ELSE {t \in queued(g0, c) : prio(g0, t) = highest(g0, queued(g0, c))} :
        LET put == put_prev_task(g0, c)
            picked == IF next = Idle THEN put ELSE dequeue_pushable_task(put, c, next)
        IN /\ becomes([picked EXCEPT !.rq[c].curr = next, !.rq[c].need_resched = FALSE])
           /\ IF next # Idle /\ picked.rq[c].pushable # {} THEN goto(c, At("push", c)) ELSE done(c)
  BY DEF Switch
<1>3. /\ next \in Task \cup {Idle} /\ (next = Idle => queued(g0, c) = {})
      /\ (next \in Task => task[next].on_rq /\ task[next].cpu = c)
  BY <1>1, <1>2, RtPushPullAssumption DEF queued
<1> DEFINE picked == IF next = Idle THEN put_prev_task(g0, c)
                     ELSE dequeue_pushable_task(put_prev_task(g0, c), c, next)
           h == [picked EXCEPT !.rq[c].curr = next, !.rq[c].need_resched = FALSE]
           place == IF next # Idle /\ picked.rq[c].pushable # {} THEN At("push", c) ELSE Free(c)
<1>4. becomes(h) /\ goto(c, place)
  BY <1>2 DEF done
<1>5. place \in Place /\ Fits(c, place)
  BY PlaceTypes
<1>6. /\ Exact(h) /\ h.task = g0.task
      /\ \A d \in Cpu \ {c} : h.rq[d] = g0.rq[d]
      /\ h.rq[c].curr = next
  <2>1. /\ picked = (IF next = Idle THEN put_prev_task(g0, c)
                     ELSE dequeue_pushable_task(put_prev_task(g0, c), c, next))
        /\ h = switch_to(picked, c, next)
    BY DEF switch_to
  <2> HIDE DEF picked, h
  <2>2. c \in Cpu
    OBVIOUS
  <2> QED BY ONLY <1>1, <1>3, <2>1, <2>2, Switched
<1> HIDE DEF h, place
<1> QED BY <1>1, <1>3, <1>4, <1>5, <1>6, Switching

LEMMA StepStopperRuns ==
  ASSUME IndInv, NEW c \in Cpu, StopperRuns(c)
  PROVE  Stepped
<1>1. /\ Exact(g0) /\ Typed(g0) /\ g0.task = task /\ g0.rq = rq
      /\ (g0.rq[c].curr \in Task => g0.task[g0.rq[c].curr].cpu = c)
  BY Facts DEF RunningOK
<1> DEFINE h == [put_prev_task(g0, c) EXCEPT !.rq[c].curr = Stop]
<1>2. becomes(h) /\ h = stop_on(put_prev_task(g0, c), c) /\ c \in Cpu
  BY DEF StopperRuns, stop_on
<1> HIDE DEF h
<1>3. /\ Exact(h) /\ h.task = g0.task /\ h.rq[c].curr = Stop
      /\ \A d \in Cpu \ {c} : h.rq[d] = g0.rq[d]
  BY ONLY <1>1, <1>2, Stopped
<1>4. Free(c) \in Place /\ Fits(c, Free(c)) /\ goto(c, Free(c))
  BY PlaceTypes, Facts DEF StopperRuns, idle, goto
<1>5. Stop \notin Task
  BY RtPushPullAssumption
<1> QED BY <1>1, <1>2, <1>3, <1>4, <1>5, Switching

LEMMA StepWakeSelect ==
  ASSUME IndInv, NEW w \in Cpu, NEW t \in Task, WakeSelect(w, t)
  PROVE  Stepped
<1>1. PICK d \in select_task_rq_rt(t) : goto(w, [At("wake", d) EXCEPT !.task = t])
  BY DEF WakeSelect
<1>2. d \in task[t].allowed /\ d \in Cpu
  <2>1. g0.task[t].allowed \in SUBSET Cpu /\ g0.task = task
    BY Facts, LowestType
  <2>2. select_task_rq_rt(t) \in SUBSET task[t].allowed
    BY DEF select_task_rq_rt
  <2> QED BY <2>1, <2>2
<1> DEFINE place == [At("wake", d) EXCEPT !.task = t]
<1>3. /\ place \in Place /\ place.op = "wake" /\ place.task = t /\ place.rq = d
      /\ place.tries = 0
  BY <1>2, CpusAssumption, RtPushPullAssumption DEF At, Place, RT_MAX_TRIES
<1>4. pc' = [pc EXCEPT ![w] = place]
  BY <1>1 DEF goto
<1> HIDE DEF place
<1>5. pc'[w] = place /\ \A v \in Cpu \ {w} : pc'[v] = pc[v]
  BY <1>4, Facts
<1>6. g0' = g0
  BY g0Fields DEF WakeSelect
<1>7. ~Runs(g0, t) /\ ~task[t].on_rq /\ \A v \in Cpu : pc[v].op = "wake" => pc[v].task # t
  BY Facts DEF WakeSelect, runs, Runs
<1>8. PlaceOK(g0, pc', w)
  <2>1. ~Scheduling(pc', w)
    BY <1>3, <1>5 DEF Scheduling
  <2>2. \A v \in Cpu : pc'[v].op = "wake" /\ pc'[v].task = pc'[w].task => v = w
    BY <1>3, <1>5, <1>7
  <2> QED BY <1>2, <1>3, <1>5, <1>7, <2>1, <2>2, Facts DEF PlaceOK
<1>9. ~Scheduling(pc, w)
  BY DEF WakeSelect, idle, Free, At, Scheduling
<1>10. Good(g0, pc') /\ Moved(g0, g0)
  <2>1. SameCurr(g0, g0) /\ Good(g0, pc) /\ Exact(g0)
    BY Facts DEF SameCurr
  <2> QED BY ONLY <2>1, <1>3, <1>4, <1>8, <1>9, w \in Cpu, QuietStep
<1> QED BY <1>6, <1>10 DEF Stepped

LEMMA StepWake ==
  ASSUME IndInv, NEW w \in Cpu, Wake(w)
  PROVE  Stepped
<1> DEFINE c == pc[w].rq
           t == pc[w].task
           g == enqueue_task_rt(g0, c, t)
<1>1. /\ c \in Cpu /\ t \in Task /\ pc[w].op = "wake" /\ ~Scheduling(pc, w)
      /\ ~task[t].on_rq /\ ~Runs(g0, t) /\ c \in task[t].allowed
      /\ (\A v \in Cpu \ {w} : pc[v].op = "wake" => pc[v].task # t)
      /\ Exact(g0) /\ Typed(g0) /\ g0.task = task /\ g0.rq = rq
  <2>1. pc[w].op = "wake"
    BY DEF Wake
  <2>2. ~Scheduling(pc, w)
    BY <2>1 DEF Scheduling
  <2>3. /\ t \in Task /\ ~task[t].on_rq /\ ~Runs(g0, t) /\ c \in task[t].allowed
        /\ \A v \in Cpu : pc[v].op = "wake" /\ pc[v].task = t => v = w
    BY <2>1, Facts DEF PlaceOK
  <2> QED BY <2>1, <2>2, <2>3, PlaceFields, Facts
<1>2. PICK h, place : /\ h = g \/ h = resched_task(g, c)
                      /\ becomes(h) /\ goto(w, place)
                      /\ place = At("push", c) \/ place = Free(w)
  BY DEF Wake, done
<1>3. place \in Place /\ Fits(w, place)
  BY <1>1, <1>2, PlaceTypes
<1>g. g = enqueue_task_rt(g0, c, t)
  OBVIOUS
<1>c. c = pc[w].rq /\ t = pc[w].task
  OBVIOUS
<1> HIDE DEF g, c, t
<1>4. /\ Exact(g) /\ SameRuns(g, g0) /\ OthersSame(g, g0, t)
      /\ g.task[t].on_rq /\ g.task[t].cpu = c
  <2>1. ~g0.task[t].on_rq
    BY <1>1
  <2> QED BY <1>1, <1>g, <2>1, Enqueued
<1>5. h = resched_task(g, c) => Exact(h) /\ h.task = g.task /\ OnlyRun(h, g, c) /\ h.rq[c].curr = g.rq[c].curr
  BY <1>1, <1>4, Resched
<1>6. Exact(h) /\ h.task = g.task /\ \A d \in Cpu : h.rq[d].curr = g.rq[d].curr
  BY <1>2, <1>4, <1>5 DEF OnlyRun
<1>7. \A d \in Cpu : h.rq[d].curr = rq[d].curr
  BY <1>1, <1>4, <1>6 DEF SameRuns
<1>9. h.task[t].cpu = c /\ h.task[t].on_rq /\ \A u \in Task \ {t} : h.task[u] = task[u]
  BY <1>1, <1>4, <1>6 DEF OthersSame
<1> QED BY ONLY <1>1, <1>2, <1>3, <1>6, <1>7, <1>9, IndInv, w \in Cpu, Changes

LEMMA StepSetCpusAllowed ==
  ASSUME IndInv, NEW w \in Cpu, NEW t \in Task, NEW mask \in Mask, SetCpusAllowed(w, t, mask)
  PROVE  Stepped
<1> DEFINE h == set_cpus_allowed_rt(g0, t, mask)
<1>1. /\ Exact(g0) /\ Typed(g0) /\ g0.task = task /\ g0.rq = rq
  BY Facts
<1>2. h = set_cpus_allowed_rt(g0, t, mask) /\ becomes(h) /\ pc' = pc
  BY DEF SetCpusAllowed
<1> HIDE DEF h
<1>3. /\ Exact(h) /\ SameRuns(h, g0) /\ OthersSame(h, g0, t)
      /\ h.task[t].on_rq = g0.task[t].on_rq /\ h.task[t].cpu = g0.task[t].cpu
  BY <1>1, <1>2, MaskSet
<1>4. Free(w) \in Place /\ Fits(w, Free(w)) /\ goto(w, Free(w)) /\ ~Scheduling(pc, w)
  BY PlaceTypes, Facts DEF SetCpusAllowed, idle, goto, Scheduling
<1>5. \A v \in Cpu \ {w} : pc[v].op = "wake" => pc[v].task # t
  BY DEF SetCpusAllowed
<1>7. /\ h.task[t].cpu = task[t].cpu /\ h.task[t].on_rq = task[t].on_rq
      /\ \A u \in Task \ {t} : h.task[u] = task[u]
  BY <1>1, <1>3 DEF OthersSame
<1>8. \A d \in Cpu : h.rq[d].curr = rq[d].curr
  BY <1>1, <1>3 DEF SameRuns
<1>9. \A d \in Cpu : rq[d].curr = t => h.task[t].on_rq \/ (d # w /\ Scheduling(pc, d))
  BY <1>1, <1>4, <1>7, Facts DEF RunningOK
<1> QED BY ONLY <1>2, <1>3, <1>4, <1>5, <1>7, <1>8, <1>9, IndInv, w \in Cpu, t \in Task, Changes

LEMMA StepMigrateTask ==
  ASSUME IndInv, NEW c \in Cpu, MigrateTask(c)
  PROVE  Stepped
<1>0. PICK t \in astray(c) : \E d \in task[t].allowed :
        \/ becomes(move_task(g0, t, d))
        \/ becomes(resched_task(move_task(g0, t, d), d))
  BY DEF MigrateTask
<1>1. PICK d \in task[t].allowed :
        \/ becomes(move_task(g0, t, d))
        \/ becomes(resched_task(move_task(g0, t, d), d))
  BY <1>0
<1>2. /\ t \in Task /\ task[t].on_rq /\ task[t].cpu = c
      /\ g0.task = task /\ g0.rq = rq /\ Typed(g0)
  BY <1>1, Facts DEF astray, queued
<1>3. d \in Cpu
  BY <1>1, <1>2, LowestType
<1>4. ~Runs(g0, t)
  <2>1. rq[c].curr = Stop /\ Stop \notin Task
    BY RtPushPullAssumption DEF MigrateTask
  <2> QED BY <1>2, <2>1, Facts DEF Runs, RunningOK
<1>5. Free(c) \in Place /\ Fits(c, Free(c)) /\ goto(c, Free(c)) /\ ~Scheduling(pc, c)
  BY PlaceTypes, Facts DEF MigrateTask, idle, goto, Scheduling
<1> DEFINE k == move_task(g0, t, d)
<1>6. k = move_task(g0, t, d) /\ (becomes(k) \/ becomes(resched_task(k, d)))
  BY <1>1
<1> HIDE DEF k
<1>7. PICK h : (h = k \/ h = resched_task(k, d)) /\ becomes(h)
  BY <1>6
<1>8. d \in task[t].allowed
  BY <1>1
<1> QED BY ONLY <1>2, <1>3, <1>4, <1>5, <1>6, <1>7, <1>8, IndInv, c \in Cpu, Moving

with_prio(g, t, new) == [g EXCEPT !.task[t].prio = new]

\* The priority of a task that is on no run queue matters to none.
LEMMA PrioSet ==
  ASSUME NEW g, Exact(g), NEW t \in Task, ~g.task[t].on_rq, NEW new \in RtPrio,
         NEW h, h = with_prio(g, t, new)
  PROVE  /\ Exact(h) /\ SameRuns(h, g) /\ OthersSame(h, g, t)
         /\ ~h.task[t].on_rq /\ h.task[t].cpu = g.task[t].cpu
<1> DEFINE e == [g.task[t] EXCEPT !.prio = new]
<1>1. Typed(g) /\ g.task[t] \in TaskStruct
  BY DEF Exact, Typed
<1>2. e \in TaskStruct /\ ~e.on_rq /\ e.allowed = g.task[t].allowed /\ e.cpu = g.task[t].cpu
  BY <1>1, RtPushPullAssumption DEF TaskStruct
<1>3. /\ h.task = [g.task EXCEPT ![t] = e] /\ h.rq = g.rq /\ h.rd = g.rd
      /\ h = [task |-> h.task, rq |-> h.rq, rd |-> h.rd]
  BY <1>1 DEF Typed, with_prio
<1> HIDE DEF e
<1>4. Typed(h)
  BY <1>1, <1>2, <1>3 DEF Typed
<1>5. ASSUME NEW d \in Cpu
      PROVE  QueueExact(h, d) /\ CpupriExact(h, d)
  <2>1. t \notin queued(g, d)
    BY DEF queued
  <2>2. queued(h, d) = queued(g, d)
    <3>1. queued(h, d) = (queued(g, d) \ {t}) \cup (IF e.on_rq /\ e.cpu = d THEN {t} ELSE {})
      BY <1>1, <1>2, <1>3, TaskChanged
    <3> QED BY <1>2, <2>1, <3>1
  <2>3. \A u \in queued(g, d) : prio(h, u) = prio(g, u) /\ (migratory(h, u) <=> migratory(g, u))
    <3>1. \A u \in queued(g, d) : u \in Task \ {t}
      BY <2>1 DEF queued
    <3> QED BY <1>1, <1>2, <1>3, <3>1, TaskChanged
  <2>4. /\ h.rq[d].curr = g.rq[d].curr
        /\ h.rq[d].pushable = g.rq[d].pushable /\ h.rq[d].next = g.rq[d].next
        /\ h.rq[d].nr_total = g.rq[d].nr_total /\ h.rq[d].nr_migratory = g.rq[d].nr_migratory
        /\ h.rq[d].overloaded = g.rq[d].overloaded
    BY <1>3
  <2>5. /\ highest(h, queued(h, d)) = highest(g, queued(g, d))
        /\ QueueExact(g, d) => QueueExact(h, d)
    BY ONLY <2>2, <2>3, <2>4, QueueSame
  <2>6. QueueExact(g, d) /\ CpupriExact(g, d)
    BY DEF Exact
  <2> QED BY <1>3, <2>5, <2>6 DEF CpupriExact
<1>6. MaskExact(h)
  BY <1>3 DEF Exact, MaskExact
<1>7. OthersSame(h, g, t) /\ h.task[t] = e
  BY <1>1, <1>2, <1>3, OneTask
<1> QED BY <1>2, <1>3, <1>4, <1>5, <1>6, <1>7 DEF Exact, SameRuns

LEMMA StepPrioChanged ==
  ASSUME IndInv, NEW w \in Cpu, NEW t \in Task, NEW new \in RtPrio, PrioChanged(w, t, new)
  PROVE  Stepped
<1> DEFINE c == task[t].cpu
           k1 == dequeue_task_rt(g0, t)
           k2 == with_prio(k1, t, new)
           g1 == enqueue_task_rt(k2, c, t)
<1>1. /\ Exact(g0) /\ Typed(g0) /\ g0.task = task /\ g0.rq = rq
      /\ task[t] \in TaskStruct /\ c \in Cpu
  BY Facts DEF Typed, TaskStruct
<1>2. PICK h, place : /\ h = g1 \/ h = resched_task(g1, c)
                      /\ becomes(h) /\ goto(w, place)
                      /\ place = Free(w) \/ place = [At("pull", c) EXCEPT !.task = t]
  <2>1. goto(w, Free(w)) \/ ~UNCHANGED pc
    BY Facts DEF PrioChanged, idle, goto
  <2>2. prio(g0, t) \in Nat /\ new \in Nat /\ new # prio(g0, t)
    BY <1>1, PrioType, RtPushPullAssumption DEF PrioChanged
  <2>3. \/ becomes(resched_task(g1, c)) /\ UNCHANGED pc
        \/ becomes(g1) /\ UNCHANGED pc
        \/ becomes(g1) /\ goto(w, [At("pull", c) EXCEPT !.task = t])
    <3>1. CASE rq[c].curr # t
      BY <3>1 DEF PrioChanged, with_prio
    <3>2. CASE rq[c].curr = t /\ prio(g0, t) < new
      BY <2>2, <3>2 DEF PrioChanged, with_prio
    <3>3. CASE rq[c].curr = t /\ prio(g0, t) > new
      BY <2>2, <3>3 DEF PrioChanged, with_prio
    <3> QED BY <2>2, <3>1, <3>2, <3>3
  <2> QED BY <2>1, <2>3
<1>3. /\ task[t].on_rq /\ ~Scheduling(pc, w)
  BY DEF PrioChanged, idle, Free, At, Scheduling
<1>4. place \in Place /\ Fits(w, place)
  <2> DEFINE p == [At("pull", c) EXCEPT !.task = t]
  <2>1. /\ p.op = "pull" /\ p.task = t /\ p.rq = c /\ p.to = 0 /\ p.tries = 0
        /\ p = [op |-> p.op, rq |-> p.rq, task |-> p.task, to |-> p.to, tries |-> p.tries]
    BY DEF At
  <2> HIDE DEF p
  <2>2. p \in Place
    BY <1>1, <2>1, CpusAssumption, RtPushPullAssumption DEF Place, RT_MAX_TRIES
  <2>3. Fits(w, p)
    BY <2>1, RtPushPullAssumption DEF Fits
  <2> QED BY <1>2, <2>2, <2>3, PlaceTypes DEF p
<1>k. /\ k1 = dequeue_task_rt(g0, t) /\ k2 = with_prio(k1, t, new)
      /\ g1 = enqueue_task_rt(k2, c, t) /\ c = task[t].cpu
  OBVIOUS
<1> HIDE DEF k1, k2, g1, c
<1>5. /\ Exact(k1) /\ SameRuns(k1, g0) /\ OthersSame(k1, g0, t) /\ ~k1.task[t].on_rq
  BY <1>1, <1>3, <1>k, Dequeued
<1>7. /\ Exact(k2) /\ SameRuns(k2, k1) /\ OthersSame(k2, k1, t) /\ ~k2.task[t].on_rq
  BY <1>k, <1>5, PrioSet
<1>9. /\ Exact(g1) /\ SameRuns(g1, k2) /\ OthersSame(g1, k2, t)
      /\ g1.task[t].on_rq /\ g1.task[t].cpu = c
  BY <1>k, <1>1, <1>7, Enqueued
<1>10. g1.task[t].on_rq /\ g1.task[t].cpu = c /\ \A u \in Task \ {t} : g1.task[u] = task[u]
  BY <1>1, <1>5, <1>7, <1>9 DEF OthersSame
<1>11. h = resched_task(g1, c) =>
         Exact(h) /\ h.task = g1.task /\ OnlyRun(h, g1, c) /\ h.rq[c].curr = g1.rq[c].curr
  BY <1>1, <1>9, Resched
<1>12. Exact(h) /\ h.task = g1.task /\ \A d \in Cpu : h.rq[d].curr = g1.rq[d].curr
  BY <1>2, <1>9, <1>11 DEF OnlyRun
<1>13. \A d \in Cpu : h.rq[d].curr = rq[d].curr
  BY <1>1, <1>5, <1>7, <1>9, <1>12 DEF SameRuns
<1>14. h.task[t].cpu = task[t].cpu /\ h.task[t].on_rq /\ \A u \in Task \ {t} : h.task[u] = task[u]
  BY <1>k, <1>10, <1>12
<1>15. \A v \in Cpu \ {w} : pc[v].op = "wake" => pc[v].task # t
  BY <1>3, QueuedNotWoken
<1> QED BY ONLY <1>2, <1>3, <1>4, <1>12, <1>13, <1>14, <1>15, IndInv, w \in Cpu, t \in Task, Changes

LEMMA StepRqOffline ==
  ASSUME IndInv, NEW c \in Cpu, RqOffline(c)
  PROVE  Stepped
<1> DEFINE k == IF g0.rq[c].overloaded THEN clear_overload(g0, c) ELSE g0
           h == [k EXCEPT !.rd.cpupri[c] = CPUPRI_INVALID, !.rq[c].online = FALSE]
<1>1. Exact(g0) /\ g0.task = task /\ g0.rq = rq
  BY Facts
<1>2. /\ g0.rq[c].online /\ becomes(h) /\ pc' = pc
      /\ k = (IF g0.rq[c].overloaded THEN clear_overload(g0, c) ELSE g0)
      /\ h = gone_offline(k, c) /\ c \in Cpu
  BY <1>1 DEF RqOffline, gone_offline
<1> HIDE DEF h, k
<1>3. /\ Exact(h) /\ h.task = g0.task
      /\ \A d \in Cpu : h.rq[d].curr = g0.rq[d].curr
  BY ONLY <1>1, <1>2, Offline
<1> QED BY <1>1, <1>2, <1>3, Staying

LEMMA StepRqOnline ==
  ASSUME IndInv, NEW c \in Cpu, RqOnline(c)
  PROVE  Stepped
<1> DEFINE on == [g0 EXCEPT !.rq[c].online = TRUE]
           k == IF g0.rq[c].overloaded THEN set_overload(on, c) ELSE on
           h == [k EXCEPT !.rd.cpupri[c] = highest(g0, queued(g0, c))]
<1>1. Exact(g0) /\ g0.task = task /\ g0.rq = rq
  BY Facts
<1>2. /\ ~g0.rq[c].online /\ becomes(h) /\ pc' = pc
      /\ on = came_online(g0, c) /\ c \in Cpu
      /\ k = (IF g0.rq[c].overloaded THEN set_overload(on, c) ELSE on)
      /\ h = with_cpupri(k, c, highest(g0, queued(g0, c)))
  BY <1>1 DEF RqOnline, came_online, with_cpupri
<1> HIDE DEF on, h, k
<1>3. /\ Exact(h) /\ h.task = g0.task
      /\ \A d \in Cpu : h.rq[d].curr = g0.rq[d].curr
  BY ONLY <1>1, <1>2, Online
<1> QED BY <1>1, <1>2, <1>3, Staying

\* Every step keeps the invariant and moves only what may be moved.
LEMMA StepKeeps ==
  ASSUME IndInv, Next
  PROVE  IndInv' /\ Moved(g0, g0')
<1>1. Stepped
  <2>1. ASSUME NEW w \in Cpu,
               \/ Push(w) \/ PushLocked(w) \/ Pull(w) \/ PullLocked(w)
               \/ \E sleeps \in BOOLEAN : Schedule(w, sleeps)
               \/ Switch(w) \/ Wake(w) \/ StopperRuns(w) \/ MigrateTask(w)
               \/ \E t \in Task : WakeSelect(w, t)
        PROVE  Stepped
    BY <2>1, StepPush, StepPushLocked, StepPull, StepPullLocked, StepSchedule, StepSwitch,
       StepWake, StepStopperRuns, StepMigrateTask, StepWakeSelect
  <2>2. ASSUME NEW c \in Rebuilt, RqOffline(c) \/ RqOnline(c)
        PROVE  Stepped
    BY <2>2, StepRqOffline, StepRqOnline, RtPushPullAssumption
  <2>3. ASSUME NEW w \in Cpu, NEW t \in Changed,
               \/ \E mask \in Mask : SetCpusAllowed(w, t, mask)
               \/ \E new \in RtPrio : PrioChanged(w, t, new)
        PROVE  Stepped
    BY <2>3, StepSetCpusAllowed, StepPrioChanged, RtPushPullAssumption
  <2> QED BY <2>1, <2>2, <2>3 DEF Next, Running, Changing
<1>2. excused' \in BOOLEAN
  BY DEF Next, IndInv
<1> QED BY <1>1, <1>2 DEF Stepped, IndInv

-----------------------------------------------------------------------------
(* Theorems *)

\* The invariant: the lists, counts, masks and priorities of all run queues are
\* exact, tasks that are woken are asleep, and a task that runs is on the run
\* queue of its CPU until it sleeps and the CPU switches.
THEOREM Invariance == Spec => []IndInv
<1>1. Init => IndInv
  BY InitGood
<1>2. IndInv /\ [Next]_pp_vars => IndInv'
  <2>1. IndInv /\ Next => IndInv'
    BY StepKeeps
  <2>2. IndInv /\ UNCHANGED pp_vars => IndInv'
    BY DEF IndInv, pp_vars, g0, Good, Exact, PlacesOK, RunningOK, PlaceOK, Scheduling
  <2> QED BY <2>1, <2>2
<1> QED BY <1>1, <1>2, PTL DEF Spec

\* What CPUs read of each other without locks is exact: the pushable tasks and
\* their first priority, the mask and count of overloaded CPUs, and cpupri.
THEOREM PeersCorrect == Spec => []PeersInformed
<1>1. IndInv => PeersInformed
  BY IndInvImplies
<1> QED BY <1>1, Invariance, PTL

\* Pushes, pulls, wake-ups and the stopper, which may all drop the lock between
\* the choice and the move, move no task that runs and none to a forbidden CPU.
THEOREM MovedCorrect == Spec => MovedWhileWaiting
<1>1. IndInv /\ [Next]_pp_vars
        => [\A t \in Task : task'[t].cpu # task[t].cpu =>
              /\ ~runs(t)
              /\ task'[t].cpu \in task[t].allowed]_pp_vars
  <2> SUFFICES ASSUME IndInv, Next
               PROVE  \A t \in Task : task'[t].cpu # task[t].cpu =>
                        ~runs(t) /\ task'[t].cpu \in task[t].allowed
    OBVIOUS
  <2>1. Moved(g0, g0')
    BY StepKeeps
  <2>2. g0.task = task /\ g0.rq = rq /\ g0'.task = task'
    BY DEF g0
  <2>3. \A t \in Task : Runs(g0, t) <=> runs(t)
    BY <2>2 DEF Runs, runs
  <2> QED BY <2>1, <2>2, <2>3 DEF Moved
<1> QED BY <1>1, Invariance, PTL DEF Spec, MovedWhileWaiting

-----------------------------------------------------------------------------
(* Balanced: on two CPUs pushes and pulls leave no task waiting behind      *)
(* lower priorities.                                                        *)

top(g, c) == highest(g, queued(g, c))

\* c will call schedule(), or is in it.
Due(g, ps, c) == g.rq[c].need_resched \/ Scheduling(ps, c)

\* w will look at c's first pushable task, or has chosen that one or one that
\* is gone, after which it looks again.
Pusher(g, ps, w, c) ==
  /\ ps[w].rq = c
  /\ \/ ps[w].op = "push" /\ ps[w].tries = 0
     \/ /\ ps[w].op = "push_locked"
        /\ ps[w].task \notin g.rq[c].pushable \/ g.task[ps[w].task].prio <= g.rq[c].next

Pushing(g, ps, c) == \E w \in Cpu : Pusher(g, ps, w, c)

\* d will still look at c.
Pulling(ps, d, c) == ps[d].op = "pull_locked" \/ (ps[d].op = "pull" /\ ps[d].to < c)

\* A CPU runs its first task or is about to, and a task that should run on the
\* other CPU will be looked at by somebody.
Picks(g, ps, c) == top(g, c) < prio(g, g.rq[c].curr) => Due(g, ps, c)
Serves(g, ps, c, d) ==
  g.rq[c].next < top(g, d) => Due(g, ps, c) \/ Pushing(g, ps, c) \/ Pulling(ps, d, c)

Settles(g, ps) ==
  /\ \A t \in Task : g.task[t].allowed = Cpu
  /\ \A c \in Cpu : g.rq[c].online /\ g.rq[c].curr # Stop
  /\ \A w \in Cpu : ps[w].op \in {"pull", "pull_locked"} => ps[w].task = Idle
  /\ \A c \in Cpu : Picks(g, ps, c)
  /\ \A c \in Cpu, d \in Cpu : c # d => Serves(g, ps, c, d)

BalanceInv == NrCpus = 2 /\ ~excused => Settles(g0, pc)

LEMMA CpuCount == Cardinality(Cpu) = NrCpus
BY FS_Interval, CpusAssumption DEF Cpu

LEMMA TwoCpus ==
  ASSUME NrCpus = 2
  PROVE  /\ Cardinality(Cpu) > 1
         /\ \A c \in Cpu, d \in Cpu, e \in Cpu : c # d => e = c \/ e = d
         /\ \A c \in Cpu : c > 0
<1>1. Cpu = 1..2
  BY DEF Cpu
<1>2. Cardinality(Cpu) = 2
  BY CpuCount
<1> QED BY <1>1, <1>2

\* What the run queue of c says when all tasks may run everywhere.
LEMMA Roaming ==
  ASSUME NrCpus = 2, NEW g, Exact(g), \A t \in Task : g.task[t].allowed = Cpu, NEW c \in Cpu
  PROVE  /\ top(g, c) \in 1..MAX_RT_PRIO /\ g.rq[c].next \in 1..MAX_RT_PRIO
         /\ top(g, c) <= g.rq[c].next
         /\ g.rq[c].pushable = queued(g, c) \ {g.rq[c].curr}
         /\ \A t \in queued(g, c) : top(g, c) <= prio(g, t)
         /\ \A t \in g.rq[c].pushable : g.rq[c].next <= prio(g, t)
         /\ top(g, c) = MAX_RT_PRIO \/ \E t \in queued(g, c) : top(g, c) = prio(g, t)
         /\ g.rq[c].next = MAX_RT_PRIO \/ \E t \in g.rq[c].pushable : g.rq[c].next = prio(g, t)
         /\ \A t \in Task : migratory(g, t)
<1>1. Typed(g) /\ g.rq[c].pushable = waiting(g, c) /\ g.rq[c].next = highest(g, waiting(g, c))
  BY DEF Exact, QueueExact, ListExact
<1>2. \A t \in Task : migratory(g, t)
  BY TwoCpus DEF migratory
<1>3. waiting(g, c) = queued(g, c) \ {g.rq[c].curr}
  BY <1>2 DEF waiting, movable, queued
<1>4. queued(g, c) \in SUBSET Task /\ waiting(g, c) \in SUBSET queued(g, c)
  BY <1>3 DEF queued
<1>5. waiting(g, c) \in SUBSET Task
  BY <1>4
<1>6. /\ top(g, c) \in 1..MAX_RT_PRIO
      /\ \A t \in queued(g, c) : top(g, c) <= prio(g, t)
      /\ top(g, c) = MAX_RT_PRIO \/ \E t \in queued(g, c) : top(g, c) = prio(g, t)
  BY <1>1, <1>4, HighestIs DEF top
<1>7. /\ g.rq[c].next \in 1..MAX_RT_PRIO
      /\ \A t \in waiting(g, c) : g.rq[c].next <= prio(g, t)
      /\ g.rq[c].next = MAX_RT_PRIO \/ \E t \in waiting(g, c) : g.rq[c].next = prio(g, t)
  BY <1>1, <1>5, HighestIs
<1>8. top(g, c) <= g.rq[c].next
  BY <1>1, <1>4, HighestGrows DEF top
<1> QED BY <1>1, <1>2, <1>3, <1>6, <1>7, <1>8

\* The task another CPU should run is the first that waits.
LEMMA FirstWaits ==
  ASSUME NrCpus = 2, NEW g, Exact(g), \A t \in Task : g.task[t].allowed = Cpu,
         NEW c \in Cpu, NEW d \in Cpu, g.rq[c].next < top(g, d)
  PROVE  g.rq[c].next < MAX_RT_PRIO /\ \E t \in g.rq[c].pushable : g.rq[c].next = prio(g, t)
<1>1. /\ g.rq[c].next \in 1..MAX_RT_PRIO
      /\ g.rq[c].next = MAX_RT_PRIO \/ \E t \in g.rq[c].pushable : g.rq[c].next = prio(g, t)
  BY Roaming
<1>2. top(g, d) \in 1..MAX_RT_PRIO
  BY Roaming
<1>3. g.rq[c].next < MAX_RT_PRIO /\ g.rq[c].next # MAX_RT_PRIO
  BY <1>1, <1>2, RtPushPullAssumption
<1> QED BY <1>1, <1>3

\* A run queue that is not overloaded has nothing to push, or its CPU does not
\* run the one task it has.
LEMMA Alone ==
  ASSUME NrCpus = 2, NEW g, NEW ps, Good(g, ps), Settles(g, ps), NEW c \in Cpu,
         \/ ~g.rq[c].overloaded
         \/ ~(Cardinality(queued(g, c)) > 1),
         g.rq[c].next < MAX_RT_PRIO
  PROVE  Due(g, ps, c)
<1>1. /\ Exact(g) /\ (\A t \in Task : g.task[t].allowed = Cpu) /\ Typed(g)
      /\ CountsExact(g, c) /\ OverloadedExact(g, c) /\ RunningOK(g, ps)
  BY DEF Good, Settles, Exact, QueueExact
<1> DEFINE Q == queued(g, c)
           curr == g.rq[c].curr
<1>2. /\ g.rq[c].pushable = Q \ {curr} /\ \A t \in Task : migratory(g, t)
      /\ \A t \in Q : top(g, c) <= prio(g, t)
      /\ \E t \in g.rq[c].pushable : g.rq[c].next = prio(g, t)
  BY <1>1, Roaming, RtPushPullAssumption
<1>3. PICK t \in Q : t # curr
  BY <1>2
<1>4. Q \in SUBSET Task /\ IsFiniteSet(Q) /\ Cardinality(Q) \in Nat
  BY QueuedFinite
<1>5. movable(g, c) = Q
  BY <1>2, <1>4 DEF movable
<1>6. ~(Cardinality(Q) > 1)
  <2>1. Cardinality(Q) # 0
    BY <1>3, <1>4, FS_EmptySet
  <2> QED BY <1>1, <1>4, <1>5, <2>1 DEF CountsExact, OverloadedExact
<1>7. curr \notin Q
  <2> SUFFICES ASSUME curr \in Q PROVE FALSE
    OBVIOUS
  <2> HIDE DEF Q, curr
  <2>1. Cardinality(Q \ {curr}) = Cardinality(Q) - 1
    BY <1>4, FS_RemoveElement
  <2>2. IsFiniteSet(Q \ {curr}) /\ Q \ {curr} # {}
    BY <1>3, <1>4, FS_RemoveElement
  <2>3. Cardinality(Q \ {curr}) \in Nat /\ Cardinality(Q \ {curr}) # 0
    BY <2>2, FS_EmptySet, FS_CardinalityType
  <2> QED BY <1>4, <1>6, <2>1, <2>3
<1>8. CASE curr \in Task
  BY <1>1, <1>7, <1>8 DEF RunningOK, queued, Due
<1>9. CASE curr \notin Task
  <2>1. curr = Idle
    BY <1>1, <1>9, QueueType DEF Settles, RunQueue
  <2>2. prio(g, curr) = MAX_RT_PRIO
    BY <2>1, PrioEnds
  <2>3. prio(g, t) < MAX_RT_PRIO /\ prio(g, t) \in 1..MAX_RT_PRIO
    BY <1>1, <1>3, <1>4, PrioType
  <2>4. top(g, c) <= prio(g, t) /\ top(g, c) \in 1..MAX_RT_PRIO
    BY <1>1, <1>2, <1>3, Roaming
  <2>5. top(g, c) < prio(g, curr)
    BY <2>2, <2>3, <2>4, RtPushPullAssumption
  <2> QED BY <2>5 DEF Settles, Picks
<1> QED BY <1>8, <1>9

\* The tasks have the priorities they had.
SamePrio(h, g) == \A t \in Task : h.task[t].prio = g.task[t].prio

LEMMA TopSame ==
  ASSUME NEW g, Typed(g), NEW h, Typed(h), SamePrio(h, g), NEW c \in Cpu
  PROVE  /\ \A t \in Task \cup {Idle, Stop} : prio(h, t) = prio(g, t)
         /\ queued(h, c) = queued(g, c) => top(h, c) = top(g, c)
         /\ queued(h, c) \subseteq queued(g, c) => top(g, c) <= top(h, c)
<1>1. \A t \in Task \cup {Idle, Stop} : prio(h, t) = prio(g, t)
  BY PrioType, PrioEnds DEF SamePrio
<1>2. \A S \in SUBSET Task : highest(h, S) = highest(g, S)
  <2> SUFFICES ASSUME NEW S \in SUBSET Task PROVE highest(h, S) = highest(g, S)
    OBVIOUS
  <2>1. \A t \in S : prio(h, t) = prio(g, t)
    BY <1>1
  <2> QED BY <2>1, HighestSame
<1>3. queued(h, c) \in SUBSET Task /\ queued(g, c) \in SUBSET Task
  BY DEF queued
<1>4. top(h, c) = highest(g, queued(h, c))
  BY <1>2, <1>3 DEF top
<1>5. queued(h, c) \subseteq queued(g, c) => top(g, c) <= top(h, c)
  BY <1>3, <1>4, HighestGrows DEF top
<1> QED BY <1>1, <1>4, <1>5 DEF top


\* The run queues hold the same, and more CPUs will schedule.
SameQueues(h, g) ==
  /\ h.task = g.task
  /\ \A c \in Cpu : /\ h.rq[c].curr = g.rq[c].curr /\ h.rq[c].online = g.rq[c].online
                    /\ h.rq[c].pushable = g.rq[c].pushable /\ h.rq[c].next = g.rq[c].next
                    /\ g.rq[c].need_resched => h.rq[c].need_resched

\* What w did for the others is done, or will be.
Relieved(g, h, ps, qs, w) ==
  \A c \in Cpu, d \in Cpu : c # d /\ g.rq[c].next < top(g, d) =>
    /\ Pusher(g, ps, w, c) => Due(h, qs, c) \/ Pusher(h, qs, w, c)
    /\ w = d /\ Pulling(ps, d, c) => Due(h, qs, c) \/ Pulling(qs, d, c)

LEMMA SettlesGoing ==
  ASSUME NEW g, NEW ps, Good(g, ps), Settles(g, ps), NEW h, SameQueues(h, g),
         NEW w \in Cpu, NEW qs, \A v \in Cpu \ {w} : qs[v] = ps[v],
         qs[w].op \in {"pull", "pull_locked"} => qs[w].task = Idle,
         Scheduling(ps, w) => Scheduling(qs, w), Relieved(g, h, ps, qs, w)
  PROVE  Settles(h, qs)
<1>1. \A c \in Cpu : Scheduling(ps, c) => Scheduling(qs, c)
  BY DEF Scheduling
<1>2. \A c \in Cpu : Due(g, ps, c) => Due(h, qs, c)
  BY <1>1 DEF Due, SameQueues
<1>3. /\ \A c \in Cpu : top(h, c) = top(g, c)
      /\ \A t : prio(h, t) = prio(g, t)
  BY ListSame DEF SameQueues, top
<1>4. \A c \in Cpu : Picks(h, qs, c)
  BY <1>2, <1>3 DEF Picks, SameQueues, Settles
<1>5. ASSUME NEW c \in Cpu, NEW d \in Cpu, c # d, h.rq[c].next < top(h, d)
      PROVE  Due(h, qs, c) \/ Pushing(h, qs, c) \/ Pulling(qs, d, c)
  <2>1. g.rq[c].next < top(g, d)
    BY <1>3, <1>5 DEF SameQueues
  <2>2. Due(g, ps, c) \/ Pushing(g, ps, c) \/ Pulling(ps, d, c)
    BY <1>5, <2>1 DEF Settles, Serves
  <2>3. CASE Due(g, ps, c)
    BY <1>2, <2>3
  <2>4. CASE Pushing(g, ps, c)
    <3>1. PICK v \in Cpu : Pusher(g, ps, v, c)
      BY <2>4 DEF Pushing
    <3>2. CASE v = w
      BY <1>5, <2>1, <3>1, <3>2 DEF Relieved, Pushing
    <3>3. CASE v # w
      <4>1. qs[v] = ps[v]
        BY <3>3
      <4>2. Pusher(h, qs, v, c)
        BY <3>1, <4>1 DEF Pusher, SameQueues
      <4> QED BY <4>2 DEF Pushing
    <3> QED BY <3>2, <3>3
  <2>5. CASE Pulling(ps, d, c)
    <3>1. CASE d = w
      BY <1>5, <2>1, <2>5, <3>1 DEF Relieved
    <3>2. CASE d # w
      <4>1. qs[d] = ps[d]
        BY <3>2
      <4> QED BY <2>5, <4>1 DEF Pulling
    <3> QED BY <3>1, <3>2
  <2> QED BY <2>2, <2>3, <2>4, <2>5
<1>6. \A c \in Cpu, d \in Cpu : c # d => Serves(h, qs, c, d)
  BY <1>5 DEF Serves
<1>7. /\ \A t \in Task : h.task[t].allowed = Cpu
      /\ \A c \in Cpu : h.rq[c].online /\ h.rq[c].curr # Stop
  BY DEF SameQueues, Settles
<1>8. \A v \in Cpu : qs[v].op \in {"pull", "pull_locked"} => qs[v].task = Idle
  <2> SUFFICES ASSUME NEW v \in Cpu
               PROVE  qs[v].op \in {"pull", "pull_locked"} => qs[v].task = Idle
    OBVIOUS
  <2>1. CASE v = w
    BY <2>1
  <2>2. CASE v # w
    BY <2>2 DEF Settles
  <2> QED BY <2>1, <2>2
<1> QED BY <1>4, <1>6, <1>7, <1>8 DEF Settles

\* find_lowest_rq() finds the other CPU when that runs something lower.
LEMMA Finds ==
  ASSUME NrCpus = 2, NEW g, NEW ps, Good(g, ps), Settles(g, ps),
         NEW c \in Cpu, NEW d \in Cpu, c # d, NEW t \in g.rq[c].pushable, prio(g, t) < top(g, d)
  PROVE  find_lowest_rq(g, t) = {d}
<1>1. /\ Exact(g) /\ (\A u \in Task : g.task[u].allowed = Cpu) /\ Typed(g)
      /\ \A e \in Cpu : CpupriExact(g, e) /\ g.rq[e].online
  BY DEF Good, Settles, Exact
<1>2. \A e \in Cpu : g.rd.cpupri[e] = top(g, e)
  BY <1>1 DEF CpupriExact, top
<1>3. t \in queued(g, c) /\ top(g, c) <= prio(g, t) /\ migratory(g, t)
  BY <1>1, Roaming, QueueType
<1>4. t \in Task /\ g.task[t].cpu = c /\ g.task[t].allowed = Cpu
  BY <1>1, <1>3 DEF queued
<1>5. top(g, c) \in Int /\ top(g, d) \in Int /\ prio(g, t) \in Int
  BY <1>1, <1>4, Roaming, PrioType
<1>6. {e \in g.task[t].allowed : g.rd.cpupri[e] > prio(g, t)} = {d}
  <2>1. \A e \in Cpu : g.rd.cpupri[e] > prio(g, t) <=> e = d
    <3> SUFFICES ASSUME NEW e \in Cpu PROVE g.rd.cpupri[e] > prio(g, t) <=> e = d
      OBVIOUS
    <3>1. CASE e = c
      BY <1>2, <1>3, <1>5, <3>1
    <3>2. CASE e = d
      BY <1>2, <1>5, <3>2
    <3> QED BY <3>1, <3>2, TwoCpus
  <2> QED BY <1>4, <2>1
<1>7. lowest_mask(g, t) = {d}
  <2>1. g.rd.cpupri[d] <= g.rd.cpupri[d]
    BY <1>2, <1>5
  <2> QED BY <1>6, <2>1 DEF lowest_mask
<1> QED BY <1>3, <1>4, <1>7 DEF find_lowest_rq
-----------------------------------------------------------------------------
(* A task that waits gets to the other run queue *)

LEMMA QueuesMoved ==
  ASSUME NEW g, NEW h, NEW t \in Task, OthersSame(h, g, t), NEW c,
         h.task[t].on_rq, h.task[t].cpu = c
  PROVE  /\ queued(h, c) = queued(g, c) \cup {t}
         /\ \A i : i # c => queued(h, i) = queued(g, i) \ {t}
BY DEF OthersSame, queued

LEMMA QueuesSlept ==
  ASSUME NEW g, NEW h, NEW t \in Task, OthersSame(h, g, t), ~h.task[t].on_rq
  PROVE  \A i : queued(h, i) = queued(g, i) \ {t}
BY DEF OthersSame, queued

LEMMA PrioKept ==
  ASSUME NEW g, NEW h, NEW t, OthersSame(h, g, t), SameKind(h, g, t)
  PROVE  /\ SamePrio(h, g)
         /\ \A u \in Task : h.task[u].allowed = g.task[u].allowed
BY DEF OthersSame, SameKind, SamePrio

\* The CPUs run what they ran, and more of them will schedule.
StillRuns(h, g) ==
  \A c \in Cpu : /\ h.rq[c].curr = g.rq[c].curr /\ h.rq[c].online = g.rq[c].online
                 /\ (g.rq[c].need_resched => h.rq[c].need_resched)

LEMMA SettlesMoved ==
  ASSUME NrCpus = 2, NEW g, NEW ps, Good(g, ps), Settles(g, ps), NEW h, NEW qs, Exact(h),
         NEW i \in Cpu, NEW c \in Cpu, c # i, NEW t \in g.rq[i].pushable, StillRuns(h, g),
         OthersSame(h, g, t), SameKind(h, g, t), h.task[t].on_rq, h.task[t].cpu = c,
         \A v \in Cpu : Scheduling(ps, v) => Scheduling(qs, v),
         \A v \in Cpu : qs[v].op \in {"pull", "pull_locked"} => qs[v].task = Idle,
         Due(h, qs, c),
         Pushing(h, qs, i) \/ \A u \in g.rq[i].pushable : prio(g, t) <= prio(g, u)
  PROVE  Settles(h, qs)
<1>1. /\ Exact(g) /\ Typed(g) /\ Typed(h) /\ t \in Task
      /\ \A u \in Task : g.task[u].allowed = Cpu
  BY QueueType DEF Good, Settles, Exact
<1>2. SamePrio(h, g) /\ \A u \in Task : h.task[u].allowed = Cpu
  BY <1>1, PrioKept
<1>3. \A u \in Task \cup {Idle, Stop} : prio(h, u) = prio(g, u)
  BY <1>1, <1>2, TopSame
<1>4. /\ queued(h, c) = queued(g, c) \cup {t}
      /\ queued(h, i) = queued(g, i) \ {t}
  BY <1>1, QueuesMoved
<1>5. top(g, i) <= top(h, i)
  BY <1>1, <1>2, <1>4, TopSame
<1>6. \A e \in Cpu : Due(g, ps, e) => Due(h, qs, e)
  BY DEF StillRuns, Due
<1>7. Picks(h, qs, i)
  <2> DEFINE curr == g.rq[i].curr
  <2>1. curr \in Task \cup {Idle, Stop} /\ h.rq[i].curr = curr
    BY <1>1, QueueType DEF StillRuns
  <2>2. prio(h, h.rq[i].curr) = prio(g, g.rq[i].curr)
    BY <1>3, <2>1
  <2>3. Picks(g, ps, i)
    BY DEF Settles
  <2>4. top(g, i) \in Int /\ top(h, i) \in Int
    BY <1>1, <1>2, Roaming
  <2>5. prio(g, g.rq[i].curr) \in Int
    BY <1>1, <2>1, PrioType, PrioEnds, RtPushPullAssumption
  <2> HIDE DEF curr
  <2> QED BY ONLY <1>5, <1>6, <2>2, <2>3, <2>4, <2>5, i \in Cpu DEF Picks
<1>8. \A e \in Cpu : Picks(h, qs, e)
  <2>1. Picks(h, qs, c)
    BY DEF Picks
  <2> QED BY <1>7, <2>1, TwoCpus
<1>9. Serves(h, qs, c, i)
  BY DEF Serves
<1>10. Serves(h, qs, i, c)
  <2>1. CASE Pushing(h, qs, i)
    BY <2>1 DEF Serves
  <2>2. CASE \A u \in g.rq[i].pushable : prio(g, t) <= prio(g, u)
    <3> SUFFICES ASSUME h.rq[i].next < top(h, c)
                 PROVE  FALSE
      BY DEF Serves
    <3>1. /\ h.rq[i].next \in 1..MAX_RT_PRIO /\ h.rq[i].pushable = queued(h, i) \ {h.rq[i].curr}
          /\ h.rq[i].next = MAX_RT_PRIO \/ \E u \in h.rq[i].pushable : h.rq[i].next = prio(h, u)
      BY <1>2, Roaming
    <3>2. /\ top(h, c) \in 1..MAX_RT_PRIO /\ top(h, c) <= prio(h, t)
      BY <1>2, <1>4, Roaming
    <3>3. PICK u \in h.rq[i].pushable : h.rq[i].next = prio(h, u)
      BY <3>1, <3>2, RtPushPullAssumption
    <3>4. u \in queued(g, i) \ {g.rq[i].curr} /\ u \in Task
      BY <1>4, <3>1, <3>3 DEF StillRuns, queued
    <3>5. u \in g.rq[i].pushable
      <4>1. g.rq[i].pushable = queued(g, i) \ {g.rq[i].curr}
        BY <1>1, Roaming
      <4> QED BY <3>4, <4>1
    <3>6. prio(g, t) <= prio(g, u) /\ prio(h, u) = prio(g, u) /\ prio(h, t) = prio(g, t)
      BY <1>1, <1>3, <2>2, <3>4, <3>5
    <3>7. prio(g, t) \in Int /\ prio(g, u) \in Int
      BY <1>1, <3>4, PrioType
    <3> QED BY <3>1, <3>2, <3>3, <3>6, <3>7
  <2> QED BY <2>1, <2>2
<1>11. \A e \in Cpu, f \in Cpu : e # f => Serves(h, qs, e, f)
  BY <1>9, <1>10, TwoCpus
<1>12. \A e \in Cpu : h.rq[e].online /\ h.rq[e].curr # Stop
  BY DEF StillRuns, Settles
<1> QED BY <1>2, <1>8, <1>11, <1>12 DEF Settles

\* What a push or a pull does to the run queues.
LEMMA MovedThere ==
  ASSUME NEW g, Exact(g), NEW t \in Task, g.task[t].on_rq, NEW d \in Cpu,
         NEW k, k = move_task(g, t, d), NEW h, h = k \/ h = resched_task(k, d)
  PROVE  /\ Exact(h) /\ OthersSame(h, g, t) /\ SameKind(h, g, t)
         /\ h.task[t].on_rq /\ h.task[t].cpu = d /\ StillRuns(h, g)
         /\ h = resched_task(k, d) => h.rq[d].need_resched
<1>1. /\ Exact(k) /\ SameRuns(k, g) /\ OthersSame(k, g, t) /\ SameKind(k, g, t)
      /\ k.task[t].on_rq /\ k.task[t].cpu = d
  BY TaskMovedBy
<1>2. StillRuns(k, g)
  BY <1>1 DEF SameRuns, StillRuns
<1>3. ASSUME h = resched_task(k, d)
      PROVE  /\ Exact(h) /\ h.task = k.task /\ StillRuns(h, k) /\ h.rq[d].need_resched
  <2>1. /\ Exact(h) /\ h.task = k.task /\ OnlyRun(h, k, d)
        /\ h.rq[d].curr = k.rq[d].curr /\ h.rq[d].need_resched
    BY <1>1, <1>3, Resched
  <2> QED BY <2>1 DEF OnlyRun, StillRuns
<1>4. StillRuns(h, k) /\ StillRuns(k, g) => StillRuns(h, g)
  BY DEF StillRuns
<1>5. CASE h = k
  BY <1>1, <1>2, <1>5, <1>3
<1>6. CASE h = resched_task(k, d)
  BY <1>1, <1>2, <1>3, <1>4, <1>6 DEF OthersSame, SameKind
<1> QED BY <1>5, <1>6
-----------------------------------------------------------------------------
(* The steps: choosing what to push or pull, and finding nothing *)

Balancing == NrCpus = 2 /\ IndInv /\ Settles(g0, pc)

LEMMA BalanceFacts ==
  ASSUME Balancing
  PROVE  /\ NrCpus = 2 /\ Good(g0, pc) /\ Exact(g0) /\ Typed(g0) /\ Settles(g0, pc)
         /\ g0.task = task /\ g0.rq = rq /\ g0.rd = rd
         /\ \A t \in Task : g0.task[t].allowed = Cpu
         /\ \A c \in Cpu : g0.rq[c].online /\ g0.rq[c].curr # Stop
         /\ \A w \in Cpu : pc[w].op \in {"pull", "pull_locked"} => pc[w].task = Idle
         /\ \A w \in Cpu : pc[w] \in Place /\ pc[w].rq \in Cpu /\ PlaceOK(g0, pc, w)
         /\ \A w \in Cpu : pc[w].tries \in 0..RT_MAX_TRIES /\ pc[w].to \in 0..NrCpus
BY Facts, PlaceFields DEF Balancing, Settles

LEMMA Gone ==
  ASSUME Balancing, NEW w \in Cpu, NEW place, goto(w, place)
  PROVE  pc'[w] = place /\ \A v \in Cpu \ {w} : pc'[v] = pc[v]
BY Facts DEF Balancing, goto

\* w goes on, and what it was to do for others is done or will be.
LEMMA Goes ==
  ASSUME Balancing, NEW w \in Cpu, NEW place, goto(w, place),
         NEW h, Exact(h), becomes(h), SameQueues(h, g0),
         place.op \in {"pull", "pull_locked"} => place.task = Idle,
         Scheduling(pc, w) => place.op \in {"pull", "pull_locked", "switch"} /\ place.task = Idle,
         Relieved(g0, h, pc, pc', w)
  PROVE  Settles(g0', pc')
<1>1. g0' = h
  BY g0Fields DEF Exact
<1>2. pc'[w] = place /\ \A v \in Cpu \ {w} : pc'[v] = pc[v]
  BY Gone
<1> DEFINE qs == pc'
<1>3. /\ \A v \in Cpu \ {w} : qs[v] = pc[v]
      /\ qs[w].op \in {"pull", "pull_locked"} => qs[w].task = Idle
      /\ Scheduling(pc, w) => Scheduling(qs, w)
      /\ Relieved(g0, h, pc, qs, w)
  BY <1>2 DEF Scheduling
<1>4. Good(g0, pc) /\ Settles(g0, pc) /\ SameQueues(h, g0) /\ w \in Cpu
  BY BalanceFacts
<1> HIDE DEF qs
<1>5. Settles(h, qs)
  BY ONLY <1>3, <1>4, SettlesGoing
<1> QED BY <1>1, <1>5 DEF qs

LEMMA Unchanged ==
  ASSUME UNCHANGED <<task, rq, rd>>
  PROVE  becomes(g0) /\ SameQueues(g0, g0)
BY DEF becomes, g0, SameQueues

\* A CPU that neither pushes nor pulls is not waited for.
LEMMA IdleRelieved ==
  ASSUME NEW g, NEW h, NEW ps, NEW qs, NEW w \in Cpu,
         ps[w].op \notin {"push", "push_locked", "pull", "pull_locked"}
  PROVE  Relieved(g, h, ps, qs, w)
BY DEF Relieved, Pusher, Pulling

LEMMA Rescheduled ==
  ASSUME Balancing, NEW c \in Cpu, NEW h, h = resched_task(g0, c)
  PROVE  Exact(h) /\ SameQueues(h, g0) /\ h.rq[c].need_resched
<1>1. /\ Exact(h) /\ h.task = g0.task /\ OnlyRun(h, g0, c)
      /\ h.rq[c].curr = g0.rq[c].curr /\ h.rq[c].need_resched
  BY BalanceFacts, Resched
<1> QED BY <1>1 DEF OnlyRun, SameQueues

LEMMA FirstPushable ==
  ASSUME Balancing, NEW c \in Cpu, NEW t \in pushable_first(g0, c)
  PROVE  /\ t \in g0.rq[c].pushable /\ t \in Task /\ g0.rq[c].next = prio(g0, t)
         /\ g0.task[t].prio = prio(g0, t)
<1>1. t \in g0.rq[c].pushable /\ \A u \in g0.rq[c].pushable : prio(g0, t) <= prio(g0, u)
  BY DEF pushable_first
<1>2. t \in Task
  BY <1>1, BalanceFacts, QueueType
<1>3. /\ g0.rq[c].next <= prio(g0, t) /\ g0.rq[c].next \in 1..MAX_RT_PRIO
      /\ g0.rq[c].next = MAX_RT_PRIO \/ \E u \in g0.rq[c].pushable : g0.rq[c].next = prio(g0, u)
  BY <1>1, BalanceFacts, Roaming
<1>4. prio(g0, t) \in 1..MAX_RT_PRIO /\ prio(g0, t) < MAX_RT_PRIO /\ prio(g0, t) = g0.task[t].prio
  BY <1>2, BalanceFacts, PrioType
<1>5. prio(g0, t) <= g0.rq[c].next
  BY <1>1, <1>3, <1>4
<1> QED BY <1>1, <1>2, <1>3, <1>4, <1>5

LEMMA BalancedPush ==
  ASSUME Balancing, NEW w \in Cpu, Push(w)
  PROVE  Settles(g0', pc')
<1> DEFINE c == pc[w].rq
<1>1. /\ c \in Cpu /\ pc[w].op = "push" /\ ~Scheduling(pc, w) /\ pc[w].tries \in 0..RT_MAX_TRIES
      /\ Exact(g0) /\ g0.rq = rq
  BY BalanceFacts DEF Push, Scheduling
<1>r. ASSUME NEW h,
             pc[w].tries = 0 => \A d \in Cpu : c # d /\ g0.rq[c].next < top(g0, d) =>
                                  Due(h, pc', c) \/ Pusher(h, pc', w, c)
      PROVE  Relieved(g0, h, pc, pc', w)
  BY <1>1, <1>r DEF Relieved, Pusher, Pulling
<1>2. CASE /\ (pc[w].task = Idle /\ ~rq[c].overloaded) \/ rq[c].pushable = {}
           /\ done(w) /\ UNCHANGED <<task, rq, rd>>
  <2>1. goto(w, Free(w)) /\ Free(w).op = "none"
    BY <1>2, PlaceTypes DEF done
  <2>2. \A v \in Cpu : Scheduling(pc, v) => Scheduling(pc', v)
    BY <1>1, <2>1, Gone DEF Scheduling
  <2>3. ASSUME NEW d \in Cpu, g0.rq[c].next < top(g0, d)
        PROVE  Due(g0, pc', c)
    <3>1. /\ g0.rq[c].next \in 1..MAX_RT_PRIO /\ top(g0, d) \in 1..MAX_RT_PRIO
          /\ g0.rq[c].next = MAX_RT_PRIO \/ \E t \in g0.rq[c].pushable : g0.rq[c].next = prio(g0, t)
      BY <1>1, BalanceFacts, Roaming
    <3>2. g0.rq[c].next < MAX_RT_PRIO
      BY <2>3, <3>1, RtPushPullAssumption
    <3>3. ~g0.rq[c].overloaded
      BY <1>1, <1>2, <3>1, <3>2
    <3>4. Due(g0, pc, c)
      BY <1>1, <3>2, <3>3, BalanceFacts, Alone
    <3> QED BY <1>1, <2>2, <3>4 DEF Due
  <2>4. Relieved(g0, g0, pc, pc', w)
    BY <1>r, <2>3
  <2> QED BY <1>1, <1>2, <2>1, <2>4, Goes, Unchanged
<1>3. CASE done(w) /\ becomes(resched_task(g0, c))
  <2> DEFINE h == resched_task(g0, c)
  <2>1. Exact(h) /\ SameQueues(h, g0) /\ h.rq[c].need_resched
    BY <1>1, Rescheduled
  <2>2. becomes(h)
    BY <1>3
  <2> HIDE DEF h
  <2>3. goto(w, Free(w)) /\ Free(w).op = "none"
    BY <1>3, PlaceTypes DEF done
  <2>4. Relieved(g0, h, pc, pc', w)
    BY <1>r, <2>1 DEF Due
  <2> QED BY <1>1, <2>1, <2>2, <2>3, <2>4, Goes
<1> DEFINE first == IF pc[w].tries = 0 THEN pushable_first(g0, c) ELSE {pc[w].task}
           found(t) == IF pc[w].tries < RT_MAX_TRIES THEN find_lowest_rq(g0, t) ELSE {}
<1>4. ASSUME NEW t \in first, found(t) \ {c} = {}, done(w), UNCHANGED <<task, rq, rd>>
      PROVE  Settles(g0', pc')
  <2>1. goto(w, Free(w)) /\ Free(w).op = "none"
    BY <1>4, PlaceTypes DEF done
  <2>2. ASSUME pc[w].tries = 0, NEW d \in Cpu, c # d, g0.rq[c].next < top(g0, d)
        PROVE  FALSE
    <3>1. t \in pushable_first(g0, c)
      BY <1>4, <2>2
    <3>2. t \in g0.rq[c].pushable /\ g0.rq[c].next = prio(g0, t)
      BY <1>1, <3>1, FirstPushable
    <3>3. find_lowest_rq(g0, t) = {d}
      BY <1>1, <2>2, <3>2, BalanceFacts, Finds
    <3>4. found(t) = {d}
      BY <2>2, <3>3 DEF RT_MAX_TRIES
    <3> QED BY <1>4, <2>2, <3>4
  <2>3. Relieved(g0, g0, pc, pc', w)
    BY <1>r, <2>2
  <2> QED BY <1>1, <1>4, <2>1, <2>3, Goes, Unchanged
<1>5. ASSUME NEW t \in first, NEW e,
             goto(w, [pc[w] EXCEPT !.op = "push_locked", !.task = t, !.to = e]),
             UNCHANGED <<task, rq, rd>>
      PROVE  Settles(g0', pc')
  <2> DEFINE r == pc[w]
             place == [r EXCEPT !.op = "push_locked", !.task = t, !.to = e]
  <2>1. r \in Place /\ r.rq = c /\ goto(w, place)
    BY <1>5, BalanceFacts
  <2> HIDE DEF r
  <2>2. place.op = "push_locked" /\ place.rq = c /\ place.task = t
    BY <2>1 DEF Place
  <2> HIDE DEF place
  <2>3. pc'[w] = place
    BY <2>1, Gone
  <2>4. ASSUME pc[w].tries = 0
        PROVE  Pusher(g0, pc', w, c)
    <3>1. t \in pushable_first(g0, c)
      BY <1>5, <2>4
    <3>2. g0.task[t].prio = prio(g0, t) /\ g0.rq[c].next = prio(g0, t)
      BY <1>1, <3>1, FirstPushable
    <3>3. g0.rq[c].next \in Int
      BY <1>1, BalanceFacts, QueueType
    <3> QED BY <2>2, <2>3, <3>2, <3>3 DEF Pusher
  <2>5. Relieved(g0, g0, pc, pc', w)
    BY <1>r, <2>4
  <2> QED BY <1>1, <1>5, <2>1, <2>2, <2>5, Goes, Unchanged
<1> QED BY <1>2, <1>3, <1>4, <1>5 DEF Push
\* The task to push is still there or gone; when the other CPU got something
\* higher meanwhile, nothing of this run queue has to be served.
LEMMA BalancedPushLocked ==
  ASSUME Balancing, NEW w \in Cpu, PushLocked(w)
  PROVE  Settles(g0', pc')
<1> DEFINE c == pc[w].rq
           t == pc[w].task
           d == pc[w].to
<1>1. /\ c \in Cpu /\ pc[w].op = "push_locked" /\ ~Scheduling(pc, w)
      /\ t \in Task /\ d \in Cpu /\ d # c
      /\ Exact(g0) /\ g0.task = task /\ g0.rq = rq /\ task[t].allowed = Cpu
      /\ pc[w] \in Place
  <2>1. pc[w].op = "push_locked"
    BY DEF PushLocked
  <2>2. c \in Cpu /\ pc[w] \in Place /\ PlaceOK(g0, pc, w)
    BY BalanceFacts
  <2>3. t \in Task /\ d \in Cpu /\ d # c
    BY <2>1, <2>2 DEF PlaceOK
  <2>4. Exact(g0) /\ g0.task = task /\ g0.rq = rq /\ g0.task[t].allowed = Cpu
    BY <2>3, BalanceFacts
  <2> QED BY <2>1, <2>2, <2>3, <2>4 DEF Scheduling
<1>2. g0.rq[c].pushable = queued(g0, c) \ {g0.rq[c].curr}
  BY <1>1, BalanceFacts, Roaming
<1>3. still_pushable(c, t, d) <=> t \in g0.rq[c].pushable
  BY <1>1, <1>2 DEF still_pushable, queued
<1>4. CASE /\ still_pushable(c, t, d)
           /\ becomes(resched_task(move_task(g0, t, d), d)) /\ goto(w, At("push", c))
  <2> DEFINE k == move_task(g0, t, d)
             h == resched_task(k, d)
             qs == pc'
  <2>1. becomes(h) /\ h = resched_task(k, d) /\ k = move_task(g0, t, d)
    BY <1>4
  <2> HIDE DEF k, h
  <2>2. g0.task[t].on_rq
    BY <1>1, <1>4 DEF still_pushable
  <2>3. /\ Exact(h) /\ OthersSame(h, g0, t) /\ SameKind(h, g0, t)
        /\ h.task[t].on_rq /\ h.task[t].cpu = d /\ StillRuns(h, g0) /\ h.rq[d].need_resched
    <3>1. Exact(g0) /\ t \in Task /\ d \in Cpu
      BY <1>1
    <3> HIDE DEF t, d
    <3> QED BY ONLY <2>1, <2>2, <3>1, MovedThere
  <2>4. qs[w] = At("push", c) /\ \A v \in Cpu \ {w} : qs[v] = pc[v]
    BY <1>4, Gone
  <2>5. /\ At("push", c).op = "push" /\ At("push", c).rq = c /\ At("push", c).tries = 0
    BY DEF At
  <2>6. /\ \A v \in Cpu : Scheduling(pc, v) => Scheduling(qs, v)
        /\ \A v \in Cpu : qs[v].op \in {"pull", "pull_locked"} => qs[v].task = Idle
    BY <1>1, <2>4, <2>5, BalanceFacts DEF Scheduling
  <2>7. Pushing(h, qs, c)
    BY <2>4, <2>5 DEF Pushing, Pusher
  <2>8. Due(h, qs, d)
    BY <2>3 DEF Due
  <2>9. /\ NrCpus = 2 /\ Good(g0, pc) /\ Settles(g0, pc) /\ c \in Cpu /\ d \in Cpu /\ d # c
        /\ t \in g0.rq[c].pushable
    BY <1>1, <1>3, <1>4, BalanceFacts
  <2> HIDE DEF qs, t, c, d
  <2>10. Settles(h, qs)
    BY ONLY <2>3, <2>6, <2>7, <2>8, <2>9, SettlesMoved
  <2>11. g0' = h
    BY <2>1, <2>3, g0Fields DEF Exact
  <2> QED BY <2>10, <2>11 DEF qs
<1>r. ASSUME NEW place, goto(w, place), place.op \notin {"pull", "pull_locked"},
             UNCHANGED <<task, rq, rd>>,
             Pusher(g0, pc, w, c) /\ g0.rq[c].next < top(g0, d) => Pusher(g0, pc', w, c)
      PROVE  Settles(g0', pc')
  <2>1. ASSUME NEW e \in Cpu, NEW f \in Cpu, e # f, g0.rq[e].next < top(g0, f), Pusher(g0, pc, w, e)
        PROVE  Pusher(g0, pc', w, e)
    <3>1. e = c
      BY <2>1 DEF Pusher
    <3>2. f = d
      BY <1>1, <2>1, <3>1, BalanceFacts, TwoCpus
    <3> QED BY <1>r, <2>1, <3>1, <3>2
  <2>2. Relieved(g0, g0, pc, pc', w)
    BY <1>1, <2>1 DEF Relieved, Pulling
  <2> QED BY <1>1, <1>r, <2>2, Goes, Unchanged
<1>5. CASE /\ still_pushable(c, t, d) /\ highest(g0, queued(g0, d)) <= prio(g0, t)
           /\ goto(w, [pc[w] EXCEPT !.op = "push", !.tries = @ + 1])
           /\ UNCHANGED <<task, rq, rd>>
  <2> DEFINE r == pc[w]
             n == r.tries + 1
             place == [r EXCEPT !.op = "push", !.tries = n]
  <2>1. r \in Place /\ goto(w, place)
    BY <1>1, <1>5, BalanceFacts DEF Place
  <2> HIDE DEF n, r
  <2>2. place.op = "push"
    BY <2>1 DEF Place
  <2> HIDE DEF place
  <2>3. ASSUME Pusher(g0, pc, w, c), g0.rq[c].next < top(g0, d)
        PROVE  FALSE
    <3>1. g0.task[t].prio <= g0.rq[c].next
      BY <1>1, <1>3, <1>5, <2>3 DEF Pusher
    <3>2. prio(g0, t) = g0.task[t].prio /\ prio(g0, t) \in Int
      BY <1>1, BalanceFacts, PrioType
    <3>3. top(g0, d) <= prio(g0, t) /\ top(g0, d) \in Int /\ g0.rq[c].next \in Int
      BY <1>1, <1>5, BalanceFacts, Roaming DEF top
    <3> QED BY <2>3, <3>1, <3>2, <3>3
  <2> QED BY <1>5, <1>r, <2>1, <2>2, <2>3
<1>6. CASE ~still_pushable(c, t, d) /\ task[t].cpu = c /\ t \in pushable_first(g0, c)
  BY <1>3, <1>6 DEF pushable_first
<1>7. CASE goto(w, [At("push", c) EXCEPT !.task = t]) /\ UNCHANGED <<task, rq, rd>>
  <2> DEFINE place == [At("push", c) EXCEPT !.task = t]
  <2>1. place.op = "push" /\ place.rq = c /\ place.tries = 0
    BY DEF At
  <2>2. goto(w, place)
    BY <1>7
  <2> HIDE DEF place
  <2>3. pc'[w] = place
    BY <2>2, Gone
  <2>4. Pusher(g0, pc', w, c)
    BY <2>1, <2>3 DEF Pusher
  <2> QED BY <1>7, <1>r, <2>1, <2>2, <2>4
<1> QED BY <1>4, <1>5, <1>6, <1>7 DEF PushLocked

\* A CPU that looks no further passes over those that are not overloaded.
LEMMA BalancedPull ==
  ASSUME Balancing, NEW w \in Cpu, Pull(w)
  PROVE  Settles(g0', pc')
<1> DEFINE left == {i \in rd.rto_mask : /\ i > pc[w].to /\ i # w
                                        /\ rq[i].next < highest(g0, queued(g0, w))}
<1>1. /\ pc[w].op = "pull" /\ pc[w].task = Idle /\ pc[w].rq = w /\ Scheduling(pc, w)
      /\ Exact(g0) /\ g0.rq = rq /\ g0.rd = rd /\ pc[w] \in Place
  <2>1. pc[w].op = "pull" /\ pc[w].task = Idle
    BY BalanceFacts DEF Pull
  <2> QED BY <2>1, BalanceFacts DEF Scheduling, PlaceOK
<1>r. ASSUME \A c \in Cpu : c # w /\ g0.rq[c].next < top(g0, w) /\ pc[w].to < c =>
                Due(g0, pc', c) \/ Pulling(pc', w, c)
      PROVE  Relieved(g0, g0, pc, pc', w)
  BY <1>1, <1>r DEF Relieved, Pusher, Pulling
<1>2. CASE left = {} /\ pulled(w)
  <2>1. goto(w, At("switch", w)) /\ UNCHANGED <<task, rq, rd>>
    BY <1>1, <1>2 DEF pulled
  <2>2. At("switch", w).op = "switch" /\ At("switch", w).task = Idle
    BY PlaceTypes
  <2>3. \A v \in Cpu : Scheduling(pc, v) => Scheduling(pc', v)
    BY <1>1, <2>1, <2>2, Gone DEF Scheduling
  <2>4. ASSUME NEW c \in Cpu, c # w, g0.rq[c].next < top(g0, w), pc[w].to < c
        PROVE  Due(g0, pc', c)
    <3>1. c \notin rd.rto_mask
      <4>1. c > pc[w].to
        BY <2>4, BalanceFacts DEF Cpu
      <4>2. rq[c].next < highest(g0, queued(g0, w))
        BY <1>1, <2>4 DEF top
      <4> QED BY <1>2, <2>4, <4>1, <4>2
    <3>2. ~g0.rq[c].overloaded
      BY <1>1, <3>1, BalanceFacts DEF Exact, MaskExact
    <3>3. g0.rq[c].next < MAX_RT_PRIO
      <4>1. g0.rq[c].next \in 1..MAX_RT_PRIO /\ top(g0, w) \in 1..MAX_RT_PRIO
        BY <1>1, BalanceFacts, Roaming
      <4> QED BY <2>4, <4>1, RtPushPullAssumption
    <3>4. Due(g0, pc, c)
      BY <3>2, <3>3, BalanceFacts, Alone
    <3> QED BY <2>3, <3>4 DEF Due
  <2>5. Relieved(g0, g0, pc, pc', w)
    BY <1>r, <2>4
  <2> QED BY <1>1, <2>1, <2>2, <2>5, Goes, Unchanged
<1>3. CASE goto(w, [pc[w] EXCEPT !.op = "pull_locked", !.to = Min(left)]) /\ UNCHANGED <<task, rq, rd>>
  <2> DEFINE r == pc[w]
             m == Min(left)
             place == [r EXCEPT !.op = "pull_locked", !.to = m]
  <2>1. r \in Place /\ goto(w, place) /\ r.task = Idle
    BY <1>1, <1>3
  <2> HIDE DEF m, r
  <2>2. place.op = "pull_locked" /\ place.task = Idle
    BY <2>1 DEF Place
  <2> HIDE DEF place
  <2>3. \A c : Pulling(pc', w, c)
    BY <2>1, <2>2, Gone DEF Pulling
  <2>4. Relieved(g0, g0, pc, pc', w)
    BY <1>r, <2>3
  <2> QED BY <1>1, <1>3, <2>1, <2>2, <2>4, Goes, Unchanged
<1>4. pc[w].rq = w /\ (left = {} => pulled(w))
      /\ (left # {} => goto(w, [pc[w] EXCEPT !.op = "pull_locked", !.to = Min(left)])
                       /\ UNCHANGED <<task, rq, rd>>)
  BY <1>1 DEF Pull
<1> QED BY <1>2, <1>3, <1>4
\* A pull that finds nothing: what the other CPU has waiting is not higher, or
\* that CPU takes it itself.
LEMMA BalancedPullLocked ==
  ASSUME Balancing, NEW w \in Cpu, PullLocked(w)
  PROVE  Settles(g0', pc')
<1> DEFINE i == pc[w].to
           first == pick_next_highest_task_rt(i, w)
           S == {t \in first : /\ Cardinality(queued(g0, i)) > 1
                               /\ prio(g0, t) < highest(g0, queued(g0, w))
                               /\ prio(g0, t) >= prio(g0, rq[i].curr)}
           r == pc[w]
           place == [r EXCEPT !.op = "pull"]
           qs == pc'
<1>1. /\ pc[w].op = "pull_locked" /\ pc[w].task = Idle /\ pc[w].rq = w /\ Scheduling(pc, w)
      /\ Exact(g0) /\ g0.rq = rq /\ g0.task = task /\ pc[w] \in Place /\ i \in Cpu /\ i # w
  <2>1. pc[w].op = "pull_locked" /\ pc[w].task = Idle
    BY BalanceFacts DEF PullLocked
  <2> QED BY <2>1, BalanceFacts DEF Scheduling, PlaceOK
<1>2. goto(w, place) /\ r \in Place /\ r.task = Idle
  BY <1>1 DEF PullLocked
<1> HIDE DEF r
<1>3. place.op = "pull" /\ place.task = Idle
  BY <1>2 DEF Place
<1> HIDE DEF place
<1>4. qs[w] = place /\ \A v \in Cpu \ {w} : qs[v] = pc[v]
  BY <1>2, Gone
<1>5. /\ \A v \in Cpu : Scheduling(pc, v) => Scheduling(qs, v)
      /\ \A v \in Cpu : qs[v].op \in {"pull", "pull_locked"} => qs[v].task = Idle
  BY <1>3, <1>4, BalanceFacts DEF Scheduling
<1>6. /\ g0.rq[i].pushable = queued(g0, i) \ {rq[i].curr}
      /\ \A t \in Task : migratory(g0, t) /\ task[t].allowed = Cpu
      /\ \A t \in queued(g0, i) : t \in Task
  BY <1>1, BalanceFacts, Roaming DEF queued
<1>7. \A t : t \in first <=> t \in pushable_first(g0, i)
  <2>1. {t \in queued(g0, i) : rq[i].curr # t /\ w \in task[t].allowed /\ migratory(g0, t)}
          = g0.rq[i].pushable
    BY <1>6
  <2> QED BY <2>1 DEF pick_next_highest_task_rt, pushable_first
<1> HIDE DEF first
<1>8. CASE S = {} /\ UNCHANGED <<task, rq, rd>>
  <2>1. ASSUME g0.rq[i].next < top(g0, w)
        PROVE  Due(g0, pc, i)
    <3>1. /\ g0.rq[i].next \in 1..MAX_RT_PRIO /\ top(g0, w) \in 1..MAX_RT_PRIO
          /\ top(g0, i) \in 1..MAX_RT_PRIO /\ top(g0, i) <= g0.rq[i].next
          /\ \A t \in g0.rq[i].pushable : g0.rq[i].next <= prio(g0, t)
      BY <1>1, BalanceFacts, Roaming
    <3>a. NrCpus = 2 /\ Exact(g0) /\ (\A t \in Task : g0.task[t].allowed = Cpu) /\ i \in Cpu
      BY <1>1, BalanceFacts
    <3>2. /\ g0.rq[i].next < MAX_RT_PRIO
          /\ \E t \in g0.rq[i].pushable : g0.rq[i].next = prio(g0, t)
      <4> HIDE DEF i
      <4> QED BY ONLY <2>1, <3>a, w \in Cpu, FirstWaits
    <3>3. PICK t \in g0.rq[i].pushable : g0.rq[i].next = prio(g0, t)
      BY <3>2
    <3>4. t \in first
      BY <1>7, <3>1, <3>3 DEF pushable_first
    <3>5. CASE ~(Cardinality(queued(g0, i)) > 1)
      BY <1>1, <3>2, <3>5, BalanceFacts, Alone
    <3>6. CASE Cardinality(queued(g0, i)) > 1
      <4>1. prio(g0, t) < highest(g0, queued(g0, w))
        BY <2>1, <3>3 DEF top
      <4>2. ~(prio(g0, t) >= prio(g0, rq[i].curr))
        BY <1>8, <3>4, <3>6, <4>1
      <4>3. prio(g0, rq[i].curr) \in Int
        <5>1. rq[i].curr \in Task \cup {Idle, Stop}
          BY <1>1, BalanceFacts, QueueType
        <5> QED BY <5>1, BalanceFacts, PrioType, PrioEnds, RtPushPullAssumption
      <4>4. top(g0, i) < prio(g0, g0.rq[i].curr)
        BY <1>1, <3>1, <3>3, <4>2, <4>3
      <4> QED BY <1>1, <4>4, BalanceFacts DEF Settles, Picks
    <3> QED BY <3>5, <3>6
  <2>2. Relieved(g0, g0, pc, pc', w)
    <3>1. ASSUME NEW c \in Cpu, c # w, g0.rq[c].next < top(g0, w)
          PROVE  Due(g0, pc', c)
      <4>1. c = i
        BY <1>1, <3>1, BalanceFacts, TwoCpus
      <4> QED BY <1>5, <2>1, <3>1, <4>1 DEF Due
    <3> QED BY <1>1, <3>1 DEF Relieved, Pusher
  <2> QED BY <1>1, <1>2, <1>3, <1>8, <2>2, Goes, Unchanged
<1>9. ASSUME NEW t \in S, becomes(move_task(g0, t, w))
      PROVE  Settles(g0', pc')
  <2> DEFINE h == move_task(g0, t, w)
  <2>1. becomes(h) /\ h = move_task(g0, t, w)
    BY <1>9
  <2> HIDE DEF h
  <2>2. t \in pushable_first(g0, i)
    BY <1>7, <1>9
  <2>3. t \in g0.rq[i].pushable /\ \A u \in g0.rq[i].pushable : prio(g0, t) <= prio(g0, u)
    BY <2>2 DEF pushable_first
  <2>4. t \in Task /\ g0.task[t].on_rq
    BY <1>6, <2>3 DEF queued
  <2>5. /\ Exact(h) /\ OthersSame(h, g0, t) /\ SameKind(h, g0, t)
        /\ h.task[t].on_rq /\ h.task[t].cpu = w /\ StillRuns(h, g0)
    BY <1>1, <2>1, <2>4, MovedThere
  <2>6. Due(h, qs, w)
    BY <1>1, <1>5 DEF Due
  <2>7. /\ NrCpus = 2 /\ Good(g0, pc) /\ Settles(g0, pc) /\ i \in Cpu /\ w \in Cpu /\ w # i
    BY <1>1, BalanceFacts
  <2> HIDE DEF qs, i
  <2>8. Settles(h, qs)
    BY ONLY <1>5, <2>3, <2>5, <2>6, <2>7, SettlesMoved
  <2>9. g0' = h
    BY <2>1, <2>5, g0Fields DEF Exact
  <2> QED BY <2>8, <2>9 DEF qs
<1>10. IF S = {} THEN UNCHANGED <<task, rq, rd>> ELSE \E t \in S : becomes(move_task(g0, t, w))
  BY <1>1 DEF PullLocked, first
<1> QED BY <1>8, <1>9, <1>10
-----------------------------------------------------------------------------
(* The steps: schedule(), the switch, wake-ups *)

LEMMA NextSame ==
  ASSUME NEW g, Exact(g), NEW h, Exact(h), SamePrio(h, g), NEW c \in Cpu,
         h.rq[c].pushable = g.rq[c].pushable
  PROVE  h.rq[c].next = g.rq[c].next
<1>1. /\ Typed(g) /\ Typed(h)
      /\ g.rq[c].pushable = waiting(g, c) /\ g.rq[c].next = highest(g, waiting(g, c))
      /\ h.rq[c].pushable = waiting(h, c) /\ h.rq[c].next = highest(h, waiting(h, c))
  BY DEF Exact, QueueExact, ListExact
<1> DEFINE S == waiting(g, c)
<1>2. \A t \in S : prio(g, t) = prio(h, t)
  <2>1. S \subseteq Task
    BY <1>1, QueueType
  <2>2. \A t \in Task : prio(h, t) = prio(g, t)
    BY <1>1, TopSame
  <2> QED BY <2>1, <2>2
<1>3. highest(g, S) = highest(h, S)
  BY <1>2, HighestSame
<1> QED BY <1>1, <1>3

\* One who pushes for c still does when c's list and the priorities stay.
LEMMA PusherKept ==
  ASSUME NEW g, NEW ps, Good(g, ps), NEW h, Exact(h), SamePrio(h, g), NEW c \in Cpu, NEW v \in Cpu,
         h.rq[c].pushable = g.rq[c].pushable, NEW qs, qs[v] = ps[v], Pusher(g, ps, v, c)
  PROVE  Pusher(h, qs, v, c)
<1>1. h.rq[c].next = g.rq[c].next
  BY NextSame DEF Good
<1>2. ps[v].op = "push_locked" => ps[v].task \in Task
  BY DEF Good, PlacesOK, PlaceOK
<1> QED BY <1>1, <1>2 DEF Pusher, SamePrio

\* The other run queue is as it was.
OtherQueue(h, g, d) ==
  /\ queued(h, d) = queued(g, d) /\ h.rq[d].curr = g.rq[d].curr
  /\ (g.rq[d].need_resched => h.rq[d].need_resched)

LEMMA OtherPicks ==
  ASSUME NrCpus = 2, NEW g, NEW ps, Good(g, ps), Settles(g, ps), NEW h, NEW qs, Exact(h),
         SamePrio(h, g), \A t \in Task : h.task[t].allowed = Cpu,
         NEW d \in Cpu, OtherQueue(h, g, d), Scheduling(ps, d) => Scheduling(qs, d)
  PROVE  /\ Picks(h, qs, d) /\ top(h, d) = top(g, d)
         /\ h.rq[d].pushable = g.rq[d].pushable /\ h.rq[d].next = g.rq[d].next
         /\ (Due(g, ps, d) => Due(h, qs, d))
<1>1. /\ Exact(g) /\ Typed(g) /\ Typed(h) /\ \A t \in Task : g.task[t].allowed = Cpu
  BY DEF Good, Settles, Exact
<1>2. top(h, d) = top(g, d) /\ \A t \in Task \cup {Idle, Stop} : prio(h, t) = prio(g, t)
  BY <1>1, TopSame DEF OtherQueue
<1>3. Due(g, ps, d) => Due(h, qs, d)
  BY DEF Due, OtherQueue
<1>4. g.rq[d].curr \in Task \cup {Idle, Stop}
  BY <1>1, QueueType
<1>5. Picks(h, qs, d)
  BY <1>2, <1>3, <1>4 DEF Picks, OtherQueue, Settles
<1>6. h.rq[d].pushable = queued(h, d) \ {h.rq[d].curr} /\ g.rq[d].pushable = queued(g, d) \ {g.rq[d].curr}
  BY <1>1, Roaming
<1>7. h.rq[d].pushable = g.rq[d].pushable
  BY <1>6 DEF OtherQueue
<1> QED BY <1>1, <1>2, <1>3, <1>5, <1>7, NextSame

\* The task that runs on c goes to sleep; c pulls when that lowers its priority.
LEMMA SettlesSlept ==
  ASSUME NrCpus = 2, NEW g, NEW ps, Good(g, ps), Settles(g, ps), NEW h, NEW qs, Exact(h),
         NEW c \in Cpu, NEW t \in Task, t = g.rq[c].curr, g.task[t].on_rq, g.task[t].cpu = c,
         OthersSame(h, g, t), SameKind(h, g, t), ~h.task[t].on_rq, StillRuns(h, g),
         \A v \in Cpu \ {c} : qs[v] = ps[v], ps[c].op = "none",
         qs[c].op = (IF top(h, c) > prio(h, t) THEN "pull" ELSE "switch"),
         qs[c].task = Idle, qs[c].to = 0
  PROVE  Settles(h, qs)
<1>1. /\ Exact(g) /\ Typed(g) /\ Typed(h) /\ SamePrio(h, g)
      /\ \A u \in Task : g.task[u].allowed = Cpu /\ h.task[u].allowed = Cpu
  BY PrioKept DEF Good, Settles, Exact
<1>2. \A i : queued(h, i) = queued(g, i) \ {t}
  BY QueuesSlept
<1>3. Due(h, qs, c)
  BY DEF Due, Scheduling
<1>4. \A d \in Cpu \ {c} : OtherQueue(h, g, d) /\ (Scheduling(ps, d) => Scheduling(qs, d))
  <2> SUFFICES ASSUME NEW d \in Cpu \ {c}
               PROVE  OtherQueue(h, g, d) /\ (Scheduling(ps, d) => Scheduling(qs, d))
    OBVIOUS
  <2>1. t \notin queued(g, d)
    BY DEF queued
  <2>2. queued(h, d) = queued(g, d)
    BY ONLY <1>2, <2>1
  <2>3. qs[d] = ps[d]
    OBVIOUS
  <2> QED BY <2>2, <2>3 DEF OtherQueue, StillRuns, Scheduling
<1>5. \A d \in Cpu \ {c} : Picks(h, qs, d)
  BY <1>1, <1>4, OtherPicks
<1>6. ASSUME NEW d \in Cpu, d # c, h.rq[d].next < top(h, c)
      PROVE  Due(h, qs, d) \/ Pushing(h, qs, d) \/ Pulling(qs, c, d)
  <2>0. OtherQueue(h, g, d) /\ (Scheduling(ps, d) => Scheduling(qs, d))
    BY <1>4, <1>6
  <2>1. /\ h.rq[d].next = g.rq[d].next /\ h.rq[d].pushable = g.rq[d].pushable
        /\ (Due(g, ps, d) => Due(h, qs, d))
    BY ONLY <1>1, <2>0, d \in Cpu, NrCpus = 2, Good(g, ps), Settles(g, ps), Exact(h), OtherPicks
  <2>2. CASE top(h, c) > prio(h, t)
    BY <1>6, <2>2, TwoCpus DEF Pulling
  <2>3. CASE ~(top(h, c) > prio(h, t))
    <3>1. t \in queued(g, c) /\ prio(h, t) = prio(g, t) /\ prio(g, t) \in 1..MAX_RT_PRIO
          /\ prio(g, t) < MAX_RT_PRIO
      <4>1. t \in queued(g, c)
        BY DEF queued
      <4>2. prio(h, t) = prio(g, t)
        BY <1>1, TopSame
      <4>3. prio(g, t) \in 1..MAX_RT_PRIO /\ prio(g, t) < MAX_RT_PRIO
        BY <1>1, PrioType
      <4> QED BY <4>1, <4>2, <4>3
    <3>2. /\ top(g, c) \in 1..MAX_RT_PRIO /\ top(g, c) <= prio(g, t)
          /\ top(g, c) = MAX_RT_PRIO \/ \E u \in queued(g, c) : top(g, c) = prio(g, u)
      <4>1. /\ top(g, c) \in 1..MAX_RT_PRIO /\ \A u \in queued(g, c) : top(g, c) <= prio(g, u)
            /\ top(g, c) = MAX_RT_PRIO \/ \E u \in queued(g, c) : top(g, c) = prio(g, u)
        BY <1>1, Roaming
      <4> QED BY ONLY <3>1, <4>1
    <3>3. PICK u \in queued(g, c) : top(g, c) = prio(g, u)
      BY <3>1, <3>2, RtPushPullAssumption
    <3>4. top(h, c) \in 1..MAX_RT_PRIO /\ \A x \in queued(h, c) : top(h, c) <= prio(h, x)
      BY <1>1, Roaming
    <3>5. top(h, c) <= top(g, c)
      <4>1. CASE u = t
        BY ONLY <2>3, <3>1, <3>2, <3>3, <3>4, <4>1
      <4>2. CASE u # t
        <5>1. u \in queued(h, c) /\ u \in Task
          BY <1>2, <3>3, <4>2 DEF queued
        <5>2. prio(h, u) = prio(g, u)
          BY <1>1, <5>1, TopSame
        <5> QED BY <3>3, <3>4, <5>1, <5>2
      <4> QED BY <4>1, <4>2
    <3>6. g.rq[d].next < top(g, c)
      <4>1. g.rq[d].next \in Int
        BY ONLY <1>1, d \in Cpu, QueueType
      <4> QED BY <1>6, <2>1, <3>2, <3>4, <3>5, <4>1
    <3>7. Due(g, ps, d) \/ Pushing(g, ps, d) \/ Pulling(ps, c, d)
      BY <1>6, <3>6 DEF Settles, Serves
    <3>8. ~Pulling(ps, c, d)
      BY DEF Pulling
    <3>9. Pushing(g, ps, d) => Pushing(h, qs, d)
      <4> SUFFICES ASSUME NEW v \in Cpu, Pusher(g, ps, v, d) PROVE Pusher(h, qs, v, d)
        BY DEF Pushing
      <4>1. v # c
        BY DEF Pusher
      <4>2. qs[v] = ps[v]
        BY <4>1
      <4> QED BY <1>1, <1>6, <2>1, <4>2, PusherKept
    <3> QED BY <2>1, <3>7, <3>8, <3>9
  <2> QED BY <2>2, <2>3
<1>7. \A e \in Cpu, f \in Cpu : e # f => Serves(h, qs, e, f)
  <2> SUFFICES ASSUME NEW e \in Cpu, NEW f \in Cpu, e # f PROVE Serves(h, qs, e, f)
    OBVIOUS
  <2>1. CASE e = c
    BY <1>3, <2>1 DEF Serves
  <2>2. CASE e # c
    <3>1. f = c
      BY <2>2, TwoCpus
    <3> QED BY <1>6, <2>2, <3>1 DEF Serves
  <2> QED BY <2>1, <2>2
<1>8. \A e \in Cpu : Picks(h, qs, e)
  <2>1. Picks(h, qs, c)
    BY <1>3 DEF Picks
  <2> QED BY <1>5, <2>1
<1>9. \A e \in Cpu : h.rq[e].online /\ h.rq[e].curr # Stop
  BY DEF StillRuns, Settles
<1>10. \A v \in Cpu : qs[v].op \in {"pull", "pull_locked"} => qs[v].task = Idle
  BY DEF Settles
<1> QED BY <1>1, <1>7, <1>8, <1>9, <1>10 DEF Settles
\* c switches to its first task, and pushes if others wait.
LEMMA SettlesSwitched ==
  ASSUME NrCpus = 2, NEW g, NEW ps, Good(g, ps), Settles(g, ps), NEW h, NEW qs, Exact(h),
         NEW c \in Cpu, h.task = g.task, \A d \in Cpu \ {c} : h.rq[d] = g.rq[d],
         h.rq[c].online = g.rq[c].online, h.rq[c].curr \in Task \cup {Idle},
         prio(g, h.rq[c].curr) = top(g, c),
         h.rq[c].curr = Idle => queued(g, c) = {},
         \A v \in Cpu \ {c} : qs[v] = ps[v], ps[c].op = "switch",
         qs[c].op \notin {"pull", "pull_locked"},
         h.rq[c].curr # Idle /\ h.rq[c].pushable # {} =>
           qs[c].op = "push" /\ qs[c].rq = c /\ qs[c].tries = 0
  PROVE  Settles(h, qs)
<1>1. /\ Exact(g) /\ Typed(g) /\ Typed(h) /\ SamePrio(h, g)
      /\ \A u \in Task : g.task[u].allowed = Cpu /\ h.task[u].allowed = Cpu
  BY DEF Good, Settles, Exact, SamePrio
<1>2. \A i : queued(h, i) = queued(g, i)
  BY DEF queued
<1>3. \A d \in Cpu : top(h, d) = top(g, d)
  BY <1>1, <1>2, TopSame
<1>4. Picks(h, qs, c)
  <2>1. prio(h, h.rq[c].curr) = prio(g, h.rq[c].curr)
    BY <1>1, TopSame
  <2>2. top(g, c) \in Int
    BY <1>1, Roaming
  <2> QED BY <1>3, <2>1, <2>2 DEF Picks
<1>5. \A d \in Cpu \ {c} : OtherQueue(h, g, d) /\ (Scheduling(ps, d) => Scheduling(qs, d))
  BY <1>2 DEF OtherQueue, Scheduling
<1>6. \A d \in Cpu : Picks(h, qs, d)
  <2>1. \A d \in Cpu \ {c} : Picks(h, qs, d)
    BY <1>1, <1>5, OtherPicks
  <2> QED BY <1>4, <2>1
<1>7. ASSUME NEW d \in Cpu, d # c
      PROVE  Serves(h, qs, c, d)
  <2> SUFFICES ASSUME h.rq[c].next < top(h, d)
               PROVE  Pushing(h, qs, c)
    BY DEF Serves
  <2>1. /\ h.rq[c].next \in 1..MAX_RT_PRIO /\ top(h, d) \in 1..MAX_RT_PRIO
    BY <1>1, Roaming
  <2>2. h.rq[c].pushable = queued(h, c) \ {h.rq[c].curr}
        /\ (h.rq[c].next = MAX_RT_PRIO \/ \E t \in h.rq[c].pushable : h.rq[c].next = prio(h, t))
    BY <1>1, Roaming
  <2>3. h.rq[c].pushable # {}
    BY <2>1, <2>2, RtPushPullAssumption
  <2>4. h.rq[c].curr # Idle
    BY <1>2, <2>2, <2>3
  <2> QED BY <2>3, <2>4 DEF Pushing, Pusher
<1>8. ASSUME NEW d \in Cpu, d # c
      PROVE  Serves(h, qs, d, c)
  <2> SUFFICES ASSUME h.rq[d].next < top(h, c)
               PROVE  Due(h, qs, d) \/ Pushing(h, qs, d)
    BY DEF Serves
  <2>1. h.rq[d] = g.rq[d] /\ g.rq[d].next < top(g, c)
    BY <1>3, <1>8
  <2>2. Due(g, ps, d) \/ Pushing(g, ps, d) \/ Pulling(ps, c, d)
    BY <1>8, <2>1 DEF Settles, Serves
  <2>3. ~Pulling(ps, c, d)
    BY DEF Pulling
  <2>4. Due(g, ps, d) => Due(h, qs, d)
    BY <1>5, <1>8 DEF Due, OtherQueue
  <2>5. Pushing(g, ps, d) => Pushing(h, qs, d)
    <3> SUFFICES ASSUME NEW v \in Cpu, Pusher(g, ps, v, d) PROVE Pusher(h, qs, v, d)
      BY DEF Pushing
    <3>1. v # c
      BY DEF Pusher
    <3>2. qs[v] = ps[v] /\ h.rq[d].pushable = g.rq[d].pushable
      BY <2>1, <3>1
    <3> QED BY <1>1, <1>8, <3>2, PusherKept
  <2> QED BY <2>2, <2>3, <2>4, <2>5
<1>9. \A e \in Cpu, f \in Cpu : e # f => Serves(h, qs, e, f)
  <2> SUFFICES ASSUME NEW e \in Cpu, NEW f \in Cpu, e # f PROVE Serves(h, qs, e, f)
    OBVIOUS
  <2>1. e = c \/ f = c
    BY TwoCpus
  <2> QED BY <1>7, <1>8, <2>1
<1>10. \A e \in Cpu : h.rq[e].online /\ h.rq[e].curr # Stop
  <2>1. h.rq[c].curr # Stop
    BY RtPushPullAssumption
  <2> QED BY <2>1 DEF Settles
<1>11. \A v \in Cpu : qs[v].op \in {"pull", "pull_locked"} => qs[v].task = Idle
  BY DEF Settles
<1> QED BY <1>1, <1>6, <1>9, <1>10, <1>11 DEF Settles

\* A task is woken on c: c will reschedule, or the CPU that woke it pushes.
LEMMA SettlesWoken ==
  ASSUME NrCpus = 2, NEW g, NEW ps, Good(g, ps), Settles(g, ps), NEW h, NEW qs, Exact(h),
         NEW c \in Cpu, NEW w \in Cpu, NEW t \in Task, ~g.task[t].on_rq,
         OthersSame(h, g, t), SameKind(h, g, t), h.task[t].on_rq, h.task[t].cpu = c,
         StillRuns(h, g), \A v \in Cpu \ {w} : qs[v] = ps[v], ps[w].op = "wake",
         qs[w].op \in {"push", "none"},
         h.rq[c].need_resched \/ (qs[w].op = "push" /\ qs[w].rq = c /\ qs[w].tries = 0),
         prio(g, t) < prio(g, g.rq[c].curr) => h.rq[c].need_resched
  PROVE  Settles(h, qs)
<1>1. /\ Exact(g) /\ Typed(g) /\ Typed(h) /\ SamePrio(h, g)
      /\ \A u \in Task : g.task[u].allowed = Cpu /\ h.task[u].allowed = Cpu
  BY PrioKept DEF Good, Settles, Exact
<1>2. /\ queued(h, c) = queued(g, c) \cup {t}
      /\ \A i : i # c => queued(h, i) = queued(g, i) \ {t}
      /\ \A i : t \notin queued(g, i)
  BY QueuesMoved DEF queued
<1>3. \A u \in Task \cup {Idle, Stop} : prio(h, u) = prio(g, u)
  BY <1>1, TopSame
<1>4. \A e \in Cpu : Scheduling(ps, e) => Scheduling(qs, e)
  BY DEF Scheduling
<1>5. \A e \in Cpu : Due(g, ps, e) => Due(h, qs, e)
  BY <1>4 DEF Due, StillRuns
<1>6. \A d \in Cpu \ {c} : OtherQueue(h, g, d)
  <2> SUFFICES ASSUME NEW d \in Cpu \ {c} PROVE OtherQueue(h, g, d)
    OBVIOUS
  <2>1. queued(h, d) = queued(g, d) \ {t} /\ t \notin queued(g, d)
    BY <1>2
  <2> DEFINE Q == queued(g, d)
  <2>2. Q \ {t} = Q
    BY <2>1
  <2> QED BY <2>1, <2>2 DEF OtherQueue, StillRuns
<1>7. Picks(h, qs, c)
  <2> SUFFICES ASSUME top(h, c) < prio(h, h.rq[c].curr)
               PROVE  Due(h, qs, c)
    BY DEF Picks
  <2>1. g.rq[c].curr \in Task \cup {Idle, Stop} /\ h.rq[c].curr = g.rq[c].curr
    BY <1>1, QueueType DEF StillRuns
  <2>2. prio(g, g.rq[c].curr) \in Int /\ prio(g, g.rq[c].curr) <= MAX_RT_PRIO
    BY <1>1, <2>1, PrioType, PrioEnds, RtPushPullAssumption
  <2>3. top(h, c) < prio(g, g.rq[c].curr)
    BY <1>3, <2>1
  <2>4. /\ top(h, c) \in 1..MAX_RT_PRIO
        /\ top(h, c) = MAX_RT_PRIO \/ \E u \in queued(h, c) : top(h, c) = prio(h, u)
    BY <1>1, Roaming
  <2>5. PICK u \in queued(h, c) : top(h, c) = prio(h, u)
    BY <2>2, <2>3, <2>4, RtPushPullAssumption
  <2>6. u \in Task /\ prio(h, u) = prio(g, u)
    BY <1>3, <2>5 DEF queued
  <2>7. CASE u = t
    BY <2>3, <2>5, <2>6, <2>7 DEF Due
  <2>8. CASE u # t
    <3>1. u \in queued(g, c)
      BY <1>2, <2>5, <2>8
    <3>2. top(g, c) \in Int /\ top(g, c) <= prio(g, u)
      BY <1>1, <3>1, Roaming
    <3>3. top(g, c) < prio(g, g.rq[c].curr)
      BY <2>2, <2>3, <2>4, <2>5, <2>6, <3>2
    <3> QED BY <1>5, <3>3 DEF Settles, Picks
  <2> QED BY <2>7, <2>8
<1>8. \A d \in Cpu : Picks(h, qs, d)
  <2>1. \A d \in Cpu \ {c} : Picks(h, qs, d)
    BY <1>1, <1>4, <1>6, OtherPicks
  <2> QED BY <1>7, <2>1
<1>9. \A d \in Cpu : Serves(h, qs, c, d)
  BY DEF Serves, Due, Pushing, Pusher
<1>10. ASSUME NEW d \in Cpu, d # c
       PROVE  Serves(h, qs, d, c)
  <2> SUFFICES ASSUME h.rq[d].next < top(h, c)
               PROVE  Due(h, qs, d) \/ Pushing(h, qs, d) \/ Pulling(qs, c, d)
    BY DEF Serves
  <2>0. OtherQueue(h, g, d) /\ (Scheduling(ps, d) => Scheduling(qs, d))
    BY <1>4, <1>6, <1>10
  <2>1. /\ h.rq[d].next = g.rq[d].next /\ h.rq[d].pushable = g.rq[d].pushable
    BY ONLY <1>1, <2>0, d \in Cpu, NrCpus = 2, Good(g, ps), Settles(g, ps), Exact(h), OtherPicks
  <2>2. top(h, c) <= top(g, c)
    <3>1. queued(g, c) \in SUBSET Task /\ queued(h, c) \in SUBSET Task /\ queued(g, c) \in SUBSET queued(h, c)
      BY <1>2 DEF queued
    <3>2. highest(h, queued(h, c)) <= highest(h, queued(g, c))
      BY <1>1, <3>1, HighestGrows
    <3>3. \A u \in queued(g, c) : prio(h, u) = prio(g, u)
      BY <1>3, <3>1
    <3> DEFINE Q == queued(g, c)
    <3>4. highest(h, Q) = highest(g, Q)
      BY <3>3, HighestSame
    <3> QED BY <3>2, <3>4 DEF top
  <2>3. g.rq[d].next < top(g, c)
    <3>1. g.rq[d].next \in Int /\ top(h, c) \in Int /\ top(g, c) \in Int
      BY <1>1, QueueType, Roaming
    <3> QED BY <2>1, <2>2, <3>1
  <2>4. Due(g, ps, d) \/ Pushing(g, ps, d) \/ Pulling(ps, c, d)
    BY <1>10, <2>3 DEF Settles, Serves
  <2>5. Pulling(ps, c, d) => Pulling(qs, c, d)
    BY DEF Pulling
  <2>6. Pushing(g, ps, d) => Pushing(h, qs, d)
    <3> SUFFICES ASSUME NEW v \in Cpu, Pusher(g, ps, v, d) PROVE Pusher(h, qs, v, d)
      BY DEF Pushing
    <3>1. v # w
      BY DEF Pusher
    <3>2. qs[v] = ps[v]
      BY <3>1
    <3> QED BY <1>1, <1>10, <2>1, <3>2, PusherKept
  <2> QED BY <1>5, <2>4, <2>5, <2>6
<1>11. \A e \in Cpu, f \in Cpu : e # f => Serves(h, qs, e, f)
  <2> SUFFICES ASSUME NEW e \in Cpu, NEW f \in Cpu, e # f PROVE Serves(h, qs, e, f)
    OBVIOUS
  <2>1. e = c \/ f = c
    BY TwoCpus
  <2> QED BY <1>9, <1>10, <2>1
<1>12. \A e \in Cpu : h.rq[e].online /\ h.rq[e].curr # Stop
  BY DEF StillRuns, Settles
<1>13. \A v \in Cpu : qs[v].op \in {"pull", "pull_locked"} => qs[v].task = Idle
  BY DEF Settles
<1> QED BY <1>1, <1>8, <1>11, <1>12, <1>13 DEF Settles
LEMMA BalancedSchedule ==
  ASSUME Balancing, NEW c \in Cpu, NEW sleeps \in BOOLEAN, Schedule(c, sleeps)
  PROVE  Settles(g0', pc')
<1> DEFINE prev == rq[c].curr
           g == IF sleeps THEN dequeue_task_rt(g0, prev) ELSE g0
           place == At(IF prev \in Task /\ highest(g, queued(g, c)) > prio(g, prev)
                       THEN "pull" ELSE "switch", c)
           qs == pc'
<1>1. /\ pc[c].op = "none" /\ Exact(g0) /\ g0.task = task /\ g0.rq = rq
  BY BalanceFacts DEF Schedule, idle, Free, At
<1>2. becomes(g) /\ goto(c, place)
  BY DEF Schedule
<1>3. place.op \in {"pull", "switch"} /\ place.task = Idle /\ place.to = 0
  BY DEF At
<1>4. qs[c] = place /\ \A v \in Cpu \ {c} : qs[v] = pc[v]
  BY <1>2, Gone
<1>5. CASE ~sleeps
  <2>1. g = g0
    BY <1>5
  <2>2. Relieved(g0, g0, pc, pc', c)
    BY <1>1, IdleRelieved
  <2>3. becomes(g0) /\ SameQueues(g0, g0) /\ goto(c, place)
    BY <1>2, <2>1 DEF SameQueues
  <2>4. ~Scheduling(pc, c)
    BY <1>1 DEF Scheduling
  <2> HIDE DEF place, g, qs
  <2> QED BY <1>1, <1>3, <2>2, <2>3, <2>4, Goes
<1>6. CASE sleeps
  <2> DEFINE t == prev
             h == dequeue_task_rt(g0, t)
  <2>1. t \in Task /\ t = g0.rq[c].curr
    BY <1>1, <1>6 DEF Schedule
  <2>2. g0.task[t].on_rq /\ g0.task[t].cpu = c
    BY <1>1, <2>1, BalanceFacts DEF Good, RunningOK, Scheduling
  <2>3. g = h /\ h = dequeue_task_rt(g0, t) /\ becomes(h)
    BY <1>2, <1>6
  <2>p. qs[c].op = (IF t \in Task /\ highest(g, queued(g, c)) > prio(g, t) THEN "pull" ELSE "switch")
    BY <1>4 DEF At
  <2> HIDE DEF g, h, place, qs, t, prev
  <2>4. /\ Exact(h) /\ SameRuns(h, g0) /\ OthersSame(h, g0, t) /\ SameKind(h, g0, t)
        /\ ~h.task[t].on_rq
    BY <1>1, <2>1, <2>2, <2>3, Dequeued
  <2>5. StillRuns(h, g0)
    BY <2>4 DEF SameRuns, StillRuns
  <2>6. qs[c].op = (IF top(h, c) > prio(h, t) THEN "pull" ELSE "switch")
    BY <2>1, <2>3, <2>p DEF top
  <2>7. NrCpus = 2 /\ Good(g0, pc) /\ Settles(g0, pc) /\ c \in Cpu /\ qs[c].task = Idle /\ qs[c].to = 0
    BY <1>3, <1>4, BalanceFacts
  <2>8. Settles(h, qs)
    BY ONLY <1>1, <1>4, <2>1, <2>2, <2>4, <2>5, <2>6, <2>7, SettlesSlept
  <2>9. g0' = h
    BY <2>3, <2>4, g0Fields DEF Exact
  <2> QED BY <2>8, <2>9 DEF qs
<1> QED BY <1>5, <1>6

LEMMA BalancedSwitch ==
  ASSUME Balancing, NEW c \in Cpu, Switch(c)
  PROVE  Settles(g0', pc')
<1> DEFINE choice == IF queued(g0, c) = {} THEN {Idle}
                     ELSE {t \in queued(g0, c) : prio(g0, t) = highest(g0, queued(g0, c))}
           put == put_prev_task(g0, c)
           picked(n) == IF n = Idle THEN put ELSE dequeue_pushable_task(put, c, n)
           qs == pc'
<1>1. /\ pc[c].op = "switch" /\ Exact(g0) /\ g0.task = task /\ g0.rq = rq
  BY BalanceFacts DEF Switch
<1>2. PICK next \in choice :
        /\ becomes(switch_to(picked(next), c, next))
        /\ IF next # Idle /\ picked(next).rq[c].pushable # {} THEN goto(c, At("push", c)) ELSE done(c)
  BY DEF Switch, switch_to
<1>3. /\ next \in Task \cup {Idle}
      /\ next = Idle => queued(g0, c) = {}
  BY <1>2, RtPushPullAssumption DEF queued
<1>4. prio(g0, next) = top(g0, c)
  <2>1. CASE queued(g0, c) = {}
    <3>1. next = Idle
      BY <1>2, <2>1
    <3>2. top(g0, c) = MAX_RT_PRIO
      BY <2>1, BalanceFacts, Roaming
    <3> QED BY <3>1, <3>2, PrioEnds
  <2>2. CASE queued(g0, c) # {}
    BY <1>2, <2>2 DEF top
  <2> QED BY <2>1, <2>2
<1>5. g0.rq[c].curr \in Task => g0.task[g0.rq[c].curr].cpu = c
  BY BalanceFacts DEF Good, RunningOK
<1> DEFINE p == picked(next)
           h == switch_to(p, c, next)
<1>6. /\ p = (IF next = Idle THEN put_prev_task(g0, c)
              ELSE dequeue_pushable_task(put_prev_task(g0, c), c, next))
      /\ h = switch_to(p, c, next) /\ becomes(h)
  BY <1>2
<1>7. IF next # Idle /\ p.rq[c].pushable # {} THEN goto(c, At("push", c)) ELSE goto(c, Free(c))
  BY <1>2 DEF done
<1> HIDE DEF p, h, put, picked, choice
<1>8. /\ Exact(h) /\ h.task = g0.task
      /\ \A d \in Cpu \ {c} : h.rq[d] = g0.rq[d]
      /\ h.rq[c].curr = next /\ h.rq[c].online = g0.rq[c].online
      /\ h.rq[c].pushable = p.rq[c].pushable
  BY ONLY <1>1, <1>3, <1>5, <1>6, c \in Cpu, Switched
<1>9. \A v \in Cpu \ {c} : qs[v] = pc[v]
  BY <1>7, Gone
<1>10. /\ qs[c].op \notin {"pull", "pull_locked"}
       /\ h.rq[c].curr # Idle /\ h.rq[c].pushable # {} =>
            qs[c].op = "push" /\ qs[c].rq = c /\ qs[c].tries = 0
  <2>1. CASE next # Idle /\ p.rq[c].pushable # {}
    <3>1. qs[c] = At("push", c)
      BY <1>7, <2>1, Gone
    <3> QED BY <3>1 DEF At
  <2>2. CASE ~(next # Idle /\ p.rq[c].pushable # {})
    <3>1. qs[c] = Free(c)
      BY <1>7, <2>2, Gone
    <3> QED BY <1>8, <2>2, <3>1 DEF At, Free
  <2> QED BY <2>1, <2>2
<1>11. /\ NrCpus = 2 /\ Good(g0, pc) /\ Settles(g0, pc) /\ c \in Cpu
       /\ h.rq[c].curr \in Task \cup {Idle} /\ prio(g0, h.rq[c].curr) = top(g0, c)
       /\ h.rq[c].curr = Idle => queued(g0, c) = {}
  BY <1>3, <1>4, <1>8, BalanceFacts
<1> HIDE DEF qs
<1>12. Settles(h, qs)
  BY ONLY <1>1, <1>8, <1>9, <1>10, <1>11, SettlesSwitched
<1>13. g0' = h
  BY <1>6, <1>8, g0Fields DEF Exact
<1> QED BY <1>12, <1>13 DEF qs

LEMMA BalancedWakeSelect ==
  ASSUME Balancing, NEW w \in Cpu, NEW t \in Task, WakeSelect(w, t)
  PROVE  Settles(g0', pc')
<1>1. pc[w].op = "none" /\ Exact(g0) /\ UNCHANGED <<task, rq, rd>>
  BY BalanceFacts DEF WakeSelect, idle, Free, At
<1>2. PICK d \in select_task_rq_rt(t) : goto(w, [At("wake", d) EXCEPT !.task = t])
  BY DEF WakeSelect
<1> DEFINE place == [At("wake", d) EXCEPT !.task = t]
<1>3. place.op = "wake" /\ goto(w, place)
  BY <1>2 DEF At
<1> HIDE DEF place
<1>4. Relieved(g0, g0, pc, pc', w) /\ ~Scheduling(pc, w)
  BY <1>1, IdleRelieved DEF Scheduling
<1> QED BY <1>1, <1>3, <1>4, Goes, Unchanged

LEMMA BalancedWake ==
  ASSUME Balancing, NEW w \in Cpu, Wake(w)
  PROVE  Settles(g0', pc')
<1> DEFINE c == pc[w].rq
           t == pc[w].task
           curr == rq[c].curr
           g == enqueue_task_rt(g0, c, t)
           equal == /\ curr \in Task /\ prio(g, t) = prio(g, curr) /\ ~rq[c].need_resched
                    /\ migratory(g, curr)
                    /\ ~(migratory(g, t) /\ lowest_mask(g, t) # {})
                    /\ lowest_mask(g, curr) # {}
           higher == prio(g, t) < prio(g, curr)
           h == IF higher \/ equal THEN resched_task(g, c) ELSE g
           push == /\ ~h.rq[c].need_resched /\ h.rq[c].pushable # {} /\ migratory(g, t)
                   /\ curr # Idle
                   /\ curr = Stop \/ ~migratory(g, curr) \/ prio(g, curr) <= prio(g, t)
           qs == pc'
<1>1. /\ pc[w].op = "wake" /\ c \in Cpu /\ t \in Task /\ Exact(g0) /\ g0.rq = rq
      /\ ~g0.task[t].on_rq /\ ~Runs(g0, t)
  BY BalanceFacts DEF Wake, PlaceOK
<1>2. becomes(h) /\ (push => goto(w, At("push", c))) /\ (~push => goto(w, Free(w)))
  BY DEF Wake, done
<1>3. g = enqueue_task_rt(g0, c, t) /\ curr = g0.rq[c].curr
  BY <1>1
<1>e. h = g \/ h = resched_task(g, c)
  OBVIOUS
<1>f. higher => h = resched_task(g, c)
  OBVIOUS
<1>g. higher <=> prio(g, t) < prio(g, curr)
  OBVIOUS
<1>h. push <=> /\ ~h.rq[c].need_resched /\ h.rq[c].pushable # {} /\ migratory(g, t)
               /\ curr # Idle
               /\ curr = Stop \/ ~migratory(g, curr) \/ prio(g, curr) <= prio(g, t)
  OBVIOUS
<1> HIDE DEF g, h, push, higher, equal, curr
<1>4. /\ Exact(g) /\ SameRuns(g, g0) /\ OthersSame(g, g0, t) /\ SameKind(g, g0, t)
      /\ g.task[t].on_rq /\ g.task[t].cpu = c
  BY ONLY <1>1, <1>3, Enqueued
<1>5. /\ Exact(h) /\ h.task = g.task /\ StillRuns(h, g)
      /\ h = resched_task(g, c) => h.rq[c].need_resched
  <2>1. CASE h = resched_task(g, c)
    <3>1. /\ Exact(h) /\ h.task = g.task /\ OnlyRun(h, g, c)
          /\ h.rq[c].curr = g.rq[c].curr /\ h.rq[c].need_resched
      <4>1. Exact(g) /\ c \in Cpu
        BY <1>1, <1>4
      <4> HIDE DEF c
      <4> QED BY ONLY <2>1, <4>1, Resched
    <3> QED BY <3>1 DEF OnlyRun, StillRuns
  <2>2. CASE h = g /\ h # resched_task(g, c)
    BY <1>4, <2>2 DEF StillRuns
  <2> QED BY <1>e, <2>1, <2>2
<1>6. /\ OthersSame(h, g0, t) /\ SameKind(h, g0, t) /\ h.task[t].on_rq /\ h.task[t].cpu = c
      /\ StillRuns(h, g0)
  BY <1>4, <1>5 DEF OthersSame, SameKind, SameRuns, StillRuns
<1>7. /\ SamePrio(g, g0) /\ SamePrio(h, g0) /\ \A u \in Task : h.task[u].allowed = Cpu /\ g.task[u].allowed = Cpu
      /\ Typed(g) /\ Typed(g0)
  <2>0. \A u \in Task : g0.task[u].allowed = Cpu
    BY BalanceFacts
  <2>1. SamePrio(g, g0) /\ \A u \in Task : g.task[u].allowed = Cpu
    BY ONLY <1>4, <2>0, PrioKept
  <2>2. SamePrio(h, g0) /\ \A u \in Task : h.task[u].allowed = Cpu
    BY ONLY <1>6, <2>0, PrioKept
  <2>3. Typed(g) /\ Typed(g0)
    BY <1>4, BalanceFacts DEF Exact
  <2> QED BY <2>1, <2>2, <2>3
<1>8. \A u \in Task \cup {Idle, Stop} : prio(g, u) = prio(g0, u)
  BY <1>1, <1>7, TopSame
<1>9. curr \in Task \cup {Idle} /\ curr # t
  BY <1>1, <1>3, BalanceFacts, QueueType DEF Runs
<1>10. prio(g0, t) < prio(g0, g0.rq[c].curr) => h.rq[c].need_resched
  BY <1>1, <1>3, <1>5, <1>8, <1>9, <1>f, <1>g
<1>11. h.rq[c].need_resched \/ push
  <2> SUFFICES ASSUME ~h.rq[c].need_resched PROVE push
    OBVIOUS
  <2>1. ~(prio(g0, t) < prio(g0, curr))
    BY <1>3, <1>10
  <2>2. prio(g0, t) \in Int /\ prio(g0, t) < MAX_RT_PRIO
    BY <1>1, <1>7, PrioType
  <2>3. curr # Idle
    BY <2>1, <2>2, PrioEnds
  <2>4. prio(g0, curr) \in Int
    BY <1>7, <1>9, <2>3, PrioType
  <2>5. prio(g, curr) <= prio(g, t)
    BY <1>1, <1>8, <1>9, <2>1, <2>2, <2>4
  <2>6. h.rq[c].pushable = queued(h, c) \ {h.rq[c].curr} /\ \A u \in Task : migratory(g, u)
    <3>1. c \in Cpu /\ Exact(g) /\ Exact(h) /\ NrCpus = 2
      BY <1>1, <1>4, <1>5, BalanceFacts
    <3>2. h.rq[c].pushable = queued(h, c) \ {h.rq[c].curr}
      <4> HIDE DEF c
      <4> QED BY ONLY <1>7, <3>1, Roaming
    <3>3. \A u \in Task : migratory(g, u)
      <4> HIDE DEF c
      <4> QED BY ONLY <1>7, <3>1, Roaming
    <3> QED BY <3>2, <3>3
  <2>7. t \in h.rq[c].pushable
    BY <1>1, <1>3, <1>6, <1>9, <2>6 DEF queued, StillRuns
  <2> QED BY <1>1, <2>3, <2>5, <2>6, <2>7, <1>h
<1>12. \A v \in Cpu \ {w} : qs[v] = pc[v]
  BY <1>2, Gone
<1>13. qs[w].op \in {"push", "none"}
       /\ (push => qs[w].op = "push" /\ qs[w].rq = c /\ qs[w].tries = 0)
  <2>1. CASE push
    <3>1. qs[w] = At("push", c)
      BY <1>2, <2>1, Gone
    <3> QED BY <3>1 DEF At
  <2>2. CASE ~push
    <3>1. qs[w] = Free(w)
      BY <1>2, <2>2, Gone
    <3> QED BY <2>2, <3>1 DEF At, Free
  <2> QED BY <2>1, <2>2
<1>14. h.rq[c].need_resched \/ (qs[w].op = "push" /\ qs[w].rq = c /\ qs[w].tries = 0)
  BY <1>11, <1>13
<1>15. NrCpus = 2 /\ Good(g0, pc) /\ Settles(g0, pc) /\ w \in Cpu
  BY BalanceFacts
<1>16. qs[w].op \in {"push", "none"} /\ pc[w].op = "wake" /\ c \in Cpu /\ t \in Task /\ ~g0.task[t].on_rq
       /\ Exact(h)
  BY <1>1, <1>5, <1>13
<1> HIDE DEF qs, c, t
<1>17. Settles(h, qs)
  BY ONLY <1>6, <1>10, <1>12, <1>14, <1>15, <1>16, SettlesWoken
<1>18. g0' = h
  BY <1>2, <1>5, g0Fields DEF Exact
<1> QED BY <1>17, <1>18 DEF qs

\* Nobody is astray, so the stopper has nothing to do.
LEMMA NobodyAstray ==
  ASSUME Balancing, NEW c \in Cpu
  PROVE  ~StopperRuns(c) /\ ~MigrateTask(c)
<1>1. queued(g0, c) \subseteq Task /\ g0.task = task
  BY BalanceFacts DEF queued
<1>2. astray(c) = {}
  BY <1>1, BalanceFacts DEF astray
<1> QED BY <1>2 DEF StopperRuns, MigrateTask

-----------------------------------------------------------------------------
(* The invariant *)

LEMMA InitBalanced ==
  ASSUME Init
  PROVE  BalanceInv
<1> SUFFICES ASSUME NrCpus = 2
             PROVE  Settles(g0, pc)
  BY DEF BalanceInv
<1>1. /\ g0.task = task /\ g0.rq = rq /\ Good(g0, pc) /\ Exact(g0)
      /\ \A t \in Task : ~task[t].on_rq /\ task[t].allowed = Cpu
      /\ \A c \in Cpu : rq[c].curr = Idle /\ rq[c].online /\ rq[c].next = MAX_RT_PRIO
      /\ \A w \in Cpu : pc[w].op = "none"
  <2>1. g0.task = task /\ g0.rq = rq /\ Good(g0, pc) /\ Exact(g0)
    BY InitGood, g0Fields DEF IndInv, Good
  <2>2. \A t \in Task : ~task[t].on_rq /\ task[t].allowed = Cpu
    <3>1. PICK p \in [Task -> RtPrio] :
            task = [t \in Task |-> [prio |-> p[t], cpu |-> 1, on_rq |-> FALSE, allowed |-> Cpu]]
      BY DEF Init
    <3> QED BY ONLY <3>1
  <2>3. \A c \in Cpu : rq[c].curr = Idle /\ rq[c].online /\ rq[c].next = MAX_RT_PRIO
    BY DEF Init
  <2>4. \A w \in Cpu : pc[w].op = "none"
    BY DEF Init, Free, At
  <2> QED BY <2>1, <2>2, <2>3, <2>4
<1>2. ASSUME NEW c \in Cpu
      PROVE  top(g0, c) = MAX_RT_PRIO
  <2>1. queued(g0, c) = {}
    BY <1>1 DEF queued
  <2>2. top(g0, c) = MAX_RT_PRIO \/ \E t \in queued(g0, c) : top(g0, c) = prio(g0, t)
    BY <1>1, Roaming
  <2> QED BY <2>1, <2>2
<1>3. ~(MAX_RT_PRIO < MAX_RT_PRIO)
  BY RtPushPullAssumption
<1>4. \A c \in Cpu : Picks(g0, pc, c)
  BY <1>1, <1>2, <1>3, PrioEnds DEF Picks
<1>5. \A c \in Cpu, d \in Cpu : Serves(g0, pc, c, d)
  BY <1>1, <1>2, <1>3 DEF Serves
<1>6. /\ \A c \in Cpu : g0.rq[c].online /\ g0.rq[c].curr # Stop
      /\ \A w \in Cpu : pc[w].op \in {"pull", "pull_locked"} => pc[w].task = Idle
  BY <1>1, RtPushPullAssumption
<1> QED BY <1>1, <1>4, <1>5, <1>6 DEF Settles

LEMMA StepBalanced ==
  ASSUME IndInv, BalanceInv, Next
  PROVE  BalanceInv'
<1> SUFFICES ASSUME NrCpus = 2, ~excused'
             PROVE  Settles(g0', pc')
  BY DEF BalanceInv
<1>1. Running /\ ~excused
  BY DEF Next
<1>2. Balancing
  BY <1>1 DEF Balancing, BalanceInv
<1> QED BY <1>1, <1>2, NobodyAstray, BalancedPush, BalancedPushLocked, BalancedPull,
           BalancedPullLocked, BalancedSchedule, BalancedSwitch, BalancedWakeSelect, BalancedWake
        DEF Running

\* When nobody is due, pushes or pulls, what settles has settled.
LEMMA BalanceImplies ==
  ASSUME IndInv, BalanceInv
  PROVE  Balanced
<1> SUFFICES ASSUME NrCpus = 2, Quiet, ~excused, NEW t \in Task, task[t].on_rq, ~runs(t),
                    NEW e \in task[t].allowed
             PROVE  prio(g0, rq[e].curr) <= prio(g0, t)
  BY DEF Balanced
<1>1. Balancing
  BY DEF Balancing, BalanceInv
<1> DEFINE c == task[t].cpu
<1>2. /\ Exact(g0) /\ Typed(g0) /\ g0.task = task /\ g0.rq = rq /\ e \in Cpu
      /\ \A u \in Task : g0.task[u].allowed = Cpu
  BY <1>1, BalanceFacts
<1>3. c \in Cpu
  BY <1>2, QueueType DEF TaskStruct
<1>4. \A d \in Cpu : ~Due(g0, pc, d) /\ ~Pushing(g0, pc, d) /\ \A i \in Cpu : ~Pulling(pc, d, i)
  <2>f. \A w \in Cpu : Free(w).op = "none"
    BY DEF Free, At
  <2>q. \A w \in Cpu : pc[w] = Free(w) /\ ~rq[w].need_resched
    BY DEF Quiet, idle
  <2>1. \A w \in Cpu : pc[w].op = "none" /\ ~rq[w].need_resched
    BY ONLY <2>f, <2>q
  <2> QED BY <1>2, <2>1 DEF Due, Scheduling, Pushing, Pusher, Pulling
<1> HIDE DEF c
<1>5. t \in queued(g0, c) /\ t # rq[c].curr
  BY <1>2, <1>3 DEF queued, runs, c
<1>6. t \in g0.rq[c].pushable
  BY <1>2, <1>3, <1>5, Roaming
<1>7. g0.rq[c].next <= prio(g0, t) /\ top(g0, c) <= prio(g0, t) /\ prio(g0, t) \in Int
  BY <1>2, <1>3, <1>5, <1>6, Roaming, PrioType
<1>8. /\ top(g0, e) \in Int /\ g0.rq[c].next \in Int /\ top(g0, c) \in Int
  BY <1>2, <1>3, Roaming
<1>9. prio(g0, rq[e].curr) \in Int
  <2>1. rq[e].curr \in Task \cup {Idle, Stop}
    BY <1>2, QueueType
  <2> QED BY <1>2, <2>1, PrioType, PrioEnds, RtPushPullAssumption
<1>10. prio(g0, rq[e].curr) <= top(g0, e)
  BY <1>1, <1>2, <1>4, <1>8, <1>9 DEF Balancing, Settles, Picks
<1>11. CASE e = c
  BY <1>7, <1>8, <1>9, <1>10, <1>11
<1>12. CASE e # c
  <2>1. top(g0, e) <= g0.rq[c].next
    BY <1>1, <1>2, <1>3, <1>4, <1>8, <1>12 DEF Balancing, Settles, Serves
  <2> QED BY <1>7, <1>8, <1>9, <1>10, <2>1
<1> QED BY <1>11, <1>12

\* On two CPUs pushes and pulls, whose locks may be dropped between the choice
\* and the move, leave no task waiting behind a lower priority: what a push
\* misses, or gives up, is found by the schedule or the pull that made it miss.
THEOREM BalancedCorrect == Spec => []Balanced
<1>1. Init => BalanceInv
  BY InitBalanced
<1>2. IndInv /\ BalanceInv /\ [Next]_pp_vars => BalanceInv'
  <2>1. IndInv /\ BalanceInv /\ Next => BalanceInv'
    BY StepBalanced
  <2>2. BalanceInv /\ UNCHANGED pp_vars => BalanceInv'
    <3> SUFFICES ASSUME BalanceInv, UNCHANGED pp_vars
                 PROVE  BalanceInv'
      OBVIOUS
    <3>1. UNCHANGED <<task, rq, rd>> /\ pc' = pc /\ excused' = excused
      BY DEF pp_vars
    <3>2. g0' = g0
      BY <3>1, g0Fields
    <3> QED BY <3>1, <3>2 DEF BalanceInv
  <2> QED BY <2>1, <2>2
<1>3. IndInv /\ BalanceInv => Balanced
  BY BalanceImplies
<1> QED BY <1>1, <1>2, <1>3, Invariance, PTL DEF Spec

=============================================================================
