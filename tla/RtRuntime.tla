----------------------------- MODULE RtRuntime -----------------------------
(***************************************************************************)
(* The runtime that the rt_rqs of one task group lend each other           *)
(* (RT_RUNTIME_SHARE, kernel/sched/rt.c): a run queue that has used more   *)
(* than its runtime takes some of what the others of its root domain have  *)
(* left, and a run queue that goes offline first takes back what it lent.  *)
(* CPUs come and go through the notifiers of CPU hotplug, and cpusets move *)
(* them between root domains.                                              *)
(*                                                                         *)
(* rt_b->rt_runtime_lock orders all writes of rt_runtime; rq->lock is held *)
(* from the check in balance_runtime() to the end of the borrowing, so of  *)
(* one CPU only the limit may change in between.                           *)
(***************************************************************************)
EXTENDS FiniteSets, Functions, Cpus, Bandwidth

CONSTANTS
  Domain,       \* root domains
  DefDomain,    \* def_root_domain
  Period,       \* rt_b->rt_period
  Limit,        \* values rt_b->rt_runtime is set to
  MaxRtTime     \* bound: rt_time

ASSUME RuntimeAssumption ==
  /\ DefDomain \in Domain
  /\ Period \in Nat /\ MaxRtTime \in Nat /\ Limit \subseteq Nat \cup {RUNTIME_INF}

VARIABLES
  rt_limit,     \* rt_b->rt_runtime
  rt_runtime,   \* rt_rq->rt_runtime
  rt_time,      \* rt_rq->rt_time
  rt_throttled, \* rt_rq->rt_throttled
  balancing,    \* "no", or who is inside do_balance_runtime(): "tick" or "timer"
  runtime_rd,   \* rq->rd; its span is the CPUs that have it
  rq_online,    \* rq->online, and membership of rd->online
  active,       \* cpu_active_mask
  hotplug,      \* the CPU that comes or goes and the notifiers that have run
  want          \* what the last __disable_runtime() could not take back

rt_vars == <<rt_limit, rt_runtime, rt_time, rt_throttled, balancing, runtime_rd, rq_online,
             active, hotplug, want>>

Stable == [cpu |-> 0, step |-> "none"]

RuntimeInit ==
  /\ rt_limit \in Limit
  /\ rt_runtime = [c \in Cpu |-> rt_limit]
  /\ rt_time = [c \in Cpu |-> 0]
  /\ rt_throttled = [c \in Cpu |-> FALSE]
  /\ balancing = [c \in Cpu |-> "no"]
  /\ runtime_rd = [c \in Cpu |-> DefDomain]
  /\ rq_online = [c \in Cpu |-> TRUE]
  /\ active = Cpu
  /\ hotplug = Stable
  /\ want = 0

span(d) == {c \in Cpu : runtime_rd[c] = d}

\* A CPU that executes: it is not the one between CPU_DEAD and CPU_STARTING.
running(c) == ~(hotplug.cpu = c /\ hotplug.step = "dead")

---------------------------------------------------------------------------
\* Borrowing.

\* Fault: the lender keeps what it lends.
lend_and_keep(r, c, i) ==
  LET spare == (r[i] - rt_time[i]) \div Cardinality(span(runtime_rd[c]))
      diff == IF r[c] + spare > Period THEN Period - r[c] ELSE spare
  IN IF \/ i = c \/ runtime_rd[i] # runtime_rd[c]
        \/ r[i] = RUNTIME_INF \/ r[i] <= rt_time[i] \/ r[c] = Period
     THEN r
     ELSE [r EXCEPT ![c] = @ + diff]

\* One turn of do_balance_runtime()'s loop: c takes its share of what i has
\* left, but no more than fills its period.
lend(r, c, i) ==
  LET spare == (r[i] - rt_time[i]) \div Cardinality(span(runtime_rd[c]))
      diff == IF r[c] + spare > Period THEN Period - r[c] ELSE spare
  IN IF \/ i = c \/ runtime_rd[i] # runtime_rd[c]
        \/ r[i] = RUNTIME_INF \/ r[i] <= rt_time[i] \/ r[c] = Period
     THEN r
     ELSE [r EXCEPT ![i] = @ - diff, ![c] = @ + diff]

do_balance_runtime(c) ==
  LET after[i \in 0..NrCpus] == IF i = 0 THEN rt_runtime ELSE lend(after[i - 1], c, i)
  IN after[NrCpus]

exceeded(c, r, time) == r[c] # RUNTIME_INF /\ time > r[c]

\* The end of sched_rt_runtime_exceeded(): throttle, unless the group has no
\* runtime at all.
throttle(c, r, time) ==
  IF exceeded(c, r, time)
  THEN /\ rt_throttled' = [rt_throttled EXCEPT ![c] = @ \/ rt_limit # 0]
       /\ rt_time' = [rt_time EXCEPT ![c] = IF rt_limit = 0 THEN 0 ELSE time]
  ELSE /\ rt_time' = [rt_time EXCEPT ![c] = time]
       /\ UNCHANGED rt_throttled

\* update_curr_rt() charges a tick, and sched_rt_runtime_exceeded() decides
\* whether to borrow: then the lock of the rt_rq is dropped.
UpdateCurrRt(c) ==
  /\ running(c) /\ balancing[c] = "no" /\ ~rt_throttled[c]
  /\ rt_limit # RUNTIME_INF /\ rt_time[c] < MaxRtTime
  /\ LET time == rt_time[c] + 1 IN
       IF rt_runtime[c] = RUNTIME_INF \/ rt_runtime[c] >= Period \/ time <= rt_runtime[c]
       THEN /\ rt_time' = [rt_time EXCEPT ![c] = time]
            /\ UNCHANGED balancing
       ELSE /\ balancing' = [balancing EXCEPT ![c] = "tick"]
            /\ rt_time' = [rt_time EXCEPT ![c] = time]
  /\ UNCHANGED <<rt_limit, rt_runtime, rt_throttled, runtime_rd, rq_online, active, hotplug, want>>

\* The period timer's pay-back: what is left of the time used, and whether
\* the rt_rq is let run again.
pay_back(c, r) ==
  LET paid == IF r[c] = RUNTIME_INF \/ rt_time[c] < r[c] THEN rt_time[c] ELSE r[c]
      left == rt_time[c] - paid
  IN /\ rt_time' = [rt_time EXCEPT ![c] = left]
     /\ rt_throttled' = [rt_throttled EXCEPT ![c] = @ /\ ~(r[c] = RUNTIME_INF \/ left < r[c])]

\* do_sched_rt_period_timer() for one CPU.
PeriodTimer(c) ==
  /\ balancing[c] = "no" /\ rt_time[c] > 0
  /\ IF rt_throttled[c] /\ exceeded(c, rt_runtime, rt_time[c])
     THEN /\ balancing' = [balancing EXCEPT ![c] = "timer"]
          /\ UNCHANGED <<rt_time, rt_throttled>>
     ELSE pay_back(c, rt_runtime) /\ UNCHANGED balancing
  /\ UNCHANGED <<rt_limit, rt_runtime, runtime_rd, rq_online, active, hotplug, want>>

\* do_balance_runtime() under rt_b->rt_runtime_lock, and the rest of the caller.
Balance(c) ==
  /\ balancing[c] # "no"
  /\ LET r == do_balance_runtime(c) IN
       /\ rt_runtime' = r
       /\ IF balancing[c] = "tick" THEN throttle(c, r, rt_time[c]) ELSE pay_back(c, r)
  /\ balancing' = [balancing EXCEPT ![c] = "no"]
  /\ UNCHANGED <<rt_limit, runtime_rd, rq_online, active, hotplug, want>>

\* tg_set_rt_bandwidth(), once the new limit was found schedulable: every
\* possible CPU gets it, those that are offline too.
SetBandwidth(runtime) ==
  /\ rt_limit' = runtime
  /\ rt_runtime' = [c \in Cpu |-> runtime]
  /\ UNCHANGED <<rt_time, rt_throttled, balancing, runtime_rd, rq_online, active, hotplug, want>>

---------------------------------------------------------------------------
\* A run queue goes offline and comes online.

\* __disable_runtime()'s greedy loop: what is left to take back, and the
\* runtimes, after CPU i was asked.
reclaim(s, c, i) ==
  LET taken == IF s.want > 0 /\ s.r[i] < s.want THEN s.r[i] ELSE s.want
  IN IF i = c \/ runtime_rd[i] # runtime_rd[c] \/ s.r[i] = RUNTIME_INF \/ s.want = 0
     THEN s
     ELSE [r |-> [s.r EXCEPT ![i] = @ - taken], want |-> s.want - taken]

disable_runtime(c) ==
  LET start == [r |-> rt_runtime,
                want |-> IF rt_runtime[c] = RUNTIME_INF \/ rt_limit = RUNTIME_INF THEN 0
                         ELSE rt_limit - rt_runtime[c]]
      after[i \in 0..NrCpus] == IF i = 0 THEN start ELSE reclaim(after[i - 1], c, i)
      end == after[NrCpus]
  IN [end EXCEPT !.r[c] = RUNTIME_INF]

enable_runtime(c) ==
  /\ rt_runtime' = [rt_runtime EXCEPT ![c] = rt_limit]
  /\ rt_time' = [rt_time EXCEPT ![c] = 0]
  /\ rt_throttled' = [rt_throttled EXCEPT ![c] = FALSE]

take_out(c) ==
  /\ rt_runtime' = disable_runtime(c).r
  /\ want' = disable_runtime(c).want
  /\ UNCHANGED <<rt_time, rt_throttled>>

keep_runtime == UNCHANGED <<rt_runtime, rt_time, rt_throttled>>

\* rq->lock of c is free.
lock(c) == balancing[c] = "no"

at(c, step) == hotplug = [cpu |-> c, step |-> step]
to(c, step) == hotplug' = [cpu |-> c, step |-> step]

\* The moments cpusets rebuild the domains: between hotplug operations, and
\* from their notifiers.
may_rebuild == hotplug.step \in {"none", "starting", "inactive", "failed"}

\* rq_attach_root() of a run queue that is online and stays so: it leaves the
\* old domain with what it owns and enters the new one with the limit.
Reattach(c, d) ==
  /\ lock(c) /\ may_rebuild /\ runtime_rd[c] # d /\ rq_online[c] /\ c \in active
  /\ want' = disable_runtime(c).want
  /\ rt_runtime' = [disable_runtime(c).r EXCEPT ![c] = rt_limit]
  /\ rt_time' = [rt_time EXCEPT ![c] = 0]
  /\ rt_throttled' = [rt_throttled EXCEPT ![c] = FALSE]
  /\ runtime_rd' = [runtime_rd EXCEPT ![c] = d]
  /\ UNCHANGED <<rt_limit, balancing, rq_online, active, hotplug>>

\* rq_attach_root() of a CPU that is no longer active: it goes to
\* def_root_domain and stays offline.
Detach(c) ==
  /\ lock(c) /\ may_rebuild /\ c \notin active
  /\ runtime_rd[c] # DefDomain \/ rq_online[c]
  /\ runtime_rd' = [runtime_rd EXCEPT ![c] = DefDomain]
  /\ rq_online' = [rq_online EXCEPT ![c] = FALSE]
  /\ IF rq_online[c] THEN take_out(c) ELSE keep_runtime /\ UNCHANGED want
  /\ UNCHANGED <<rt_limit, balancing, active, hotplug>>

\* rq_attach_root() of a CPU that is active and not online yet.
Attach(c, d) ==
  /\ lock(c) /\ may_rebuild /\ c \in active /\ ~rq_online[c]
  /\ runtime_rd' = [runtime_rd EXCEPT ![c] = d]
  /\ rq_online' = [rq_online EXCEPT ![c] = TRUE]
  /\ enable_runtime(c)
  /\ UNCHANGED <<rt_limit, balancing, active, hotplug, want>>

\* CPU_DOWN_PREPARE: update_runtime() first, sched_cpu_inactive() later.
DownPrepare(c) ==
  /\ hotplug = Stable /\ lock(c) /\ c \in active /\ active # {c}
  /\ take_out(c)
  /\ to(c, "prepared")
  /\ UNCHANGED <<rt_limit, balancing, runtime_rd, rq_online, active>>

SchedCpuInactive(c) ==
  /\ at(c, "prepared")
  /\ active' = active \ {c}
  /\ to(c, "inactive")
  /\ keep_runtime
  /\ UNCHANGED <<rt_limit, balancing, runtime_rd, rq_online, want>>

\* CPU_DOWN_FAILED: sched_cpu_active(), the cpusets, then update_runtime().
DownFailed(c) ==
  /\ at(c, "inactive")
  /\ active' = active \cup {c}
  /\ to(c, "failed")
  /\ keep_runtime
  /\ UNCHANGED <<rt_limit, balancing, runtime_rd, rq_online, want>>

\* CPU_DYING: migration_call() sets the run queue offline.
Dying(c) ==
  /\ at(c, "inactive") /\ \A i \in Cpu : lock(i)
  /\ to(c, "dead")
  /\ rq_online' = [rq_online EXCEPT ![c] = FALSE]
  /\ IF rq_online[c] THEN take_out(c) ELSE keep_runtime /\ UNCHANGED want
  /\ UNCHANGED <<rt_limit, balancing, runtime_rd, active>>

\* CPU_STARTING: sched_cpu_active() on the CPU that comes up.
Starting(c) ==
  /\ at(c, "dead")
  /\ active' = active \cup {c}
  /\ to(c, "starting")
  /\ keep_runtime
  /\ UNCHANGED <<rt_limit, balancing, runtime_rd, rq_online, want>>

\* CPU_ONLINE: migration_call(), after the cpusets.
Online(c) ==
  /\ at(c, "starting") /\ lock(c)
  /\ to(c, "online")
  /\ rq_online' = [rq_online EXCEPT ![c] = TRUE]
  /\ IF rq_online[c] THEN keep_runtime ELSE enable_runtime(c)
  /\ UNCHANGED <<rt_limit, balancing, runtime_rd, active, want>>

\* update_runtime() at CPU_ONLINE and CPU_DOWN_FAILED.
UpdateRuntime(c) ==
  /\ at(c, "online") \/ at(c, "failed")
  /\ lock(c)
  /\ hotplug' = Stable
  /\ enable_runtime(c)
  /\ UNCHANGED <<rt_limit, balancing, runtime_rd, rq_online, active, want>>

\* BUG_ON(want): the kernel stops.
Bug == want # 0 /\ UNCHANGED rt_vars

RuntimeNext ==
  \/ Bug
  \/ want = 0 /\ \E runtime \in Limit : SetBandwidth(runtime)
  \/ /\ want = 0
     /\ \E c \in Cpu :
          \/ UpdateCurrRt(c) \/ PeriodTimer(c) \/ Balance(c)
          \/ Detach(c)
          \/ \E d \in Domain : Reattach(c, d) \/ Attach(c, d)
          \/ DownPrepare(c) \/ SchedCpuInactive(c) \/ DownFailed(c) \/ Dying(c)
          \/ Starting(c) \/ Online(c) \/ UpdateRuntime(c)

RuntimeSpec == RuntimeInit /\ [][RuntimeNext]_rt_vars

---------------------------------------------------------------------------
\* What the run queues S own together.
owned(S) ==
  SumFunctionOnSet([c \in Cpu |-> IF rt_runtime[c] = RUNTIME_INF THEN 0 ELSE rt_runtime[c]], S)

\* Types, and nobody lends what it does not have: neither the runtime nor the
\* time used is ever negative, so that the unsigned numbers never wrap.
RuntimeTypes ==
  /\ rt_limit \in Limit
  /\ rt_runtime \in [Cpu -> Nat \cup {RUNTIME_INF}]
  /\ rt_time \in [Cpu -> 0..MaxRtTime]
  /\ rt_throttled \in [Cpu -> BOOLEAN]
  /\ balancing \in [Cpu -> {"no", "tick", "timer"}]
  /\ runtime_rd \in [Cpu -> Domain]
  /\ rq_online \in [Cpu -> BOOLEAN]
  /\ active \subseteq Cpu
  /\ want \in Int

\* A run queue that borrows leaves the total of its domain as it was, and one
\* that goes offline takes out of its domain exactly the limit it came with,
\* less what it is left wanting.
Conserves(c) ==
  LET S == span(runtime_rd[c]) IN
    /\ Balance(c) => owned(S)' = owned(S)
    /\ DownPrepare(c) /\ rt_runtime[c] # RUNTIME_INF => owned(S)' = owned(S) - rt_limit + want'

\* Borrowing moves runtime and makes none, whoever borrows, changes the limit
\* or goes offline when; and neither runtime nor time is ever negative.
RuntimeConserved == []RuntimeTypes /\ [][\A c \in Cpu : Conserves(c)]_rt_vars
=============================================================================
