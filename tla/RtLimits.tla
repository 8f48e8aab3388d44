------------------------------ MODULE RtLimits ------------------------------
(***************************************************************************)
(* How much of the CPU the real-time tasks of each group may use           *)
(* (kernel/sched/core.c, CONFIG_RT_GROUP_SCHED): cpu.rt_runtime_us and     *)
(* cpu.rt_period_us of the groups, sched_rt_runtime_us and                 *)
(* sched_rt_period_us of the whole system, and the check that keeps the    *)
(* tree of groups schedulable.                                             *)
(*                                                                         *)
(* A write of one of a group's two files reads the other outside           *)
(* rt_constraints_mutex; the sysctl handler stores what was written before *)
(* it is checked, under a mutex of its own, and undoes it when refused.    *)
(***************************************************************************)
EXTENDS Functions, Bandwidth, GroupTree

CONSTANTS
  RtWriter,        \* tasks that write the files of groups
  RtRuntimes,      \* runtimes that are written; a negative one is RUNTIME_INF
  RtPeriods,       \* periods that are written
  InitRtRuntime, InitRtPeriod

ASSUME RtLimitsAssumption ==
  /\ RtRuntimes \in SUBSET Int /\ RtPeriods \in SUBSET Nat
  /\ InitRtRuntime \in Nat /\ InitRtPeriod \in Nat \ {0} /\ InitRtRuntime <= InitRtPeriod

VARIABLES
  rt_exists,    \* groups created
  limit,        \* rt_bandwidth of a group: runtime and period
  sysctl,       \* sysctl_sched_rt_runtime and _period
  def_rt,       \* def_rt_bandwidth
  old,          \* what the sysctl handler saved, or Nothing: its mutex is free
  rt_writer     \* a write of a group's file that has read the other value

limit_vars == <<rt_exists, limit, sysctl, def_rt, old, rt_writer>>

Nothing == [runtime |-> 0, period |-> 0]
NoRtWrite == [tg |-> Root, to |-> Nothing, busy |-> FALSE]

LimitsInit ==
  LET start == [runtime |-> InitRtRuntime, period |-> InitRtPeriod]
  IN /\ rt_exists = {Root}
     /\ limit = [g \in Group |-> IF g = Root THEN start ELSE Nothing]
     /\ sysctl = start /\ def_rt = start
     /\ old = Nothing
     /\ rt_writer = [w \in RtWriter |-> NoRtWrite]

---------------------------------------------------------------------------
\* The check.

ratio(b) == to_ratio(b.period, b.runtime)

global == [runtime |-> IF sysctl.runtime < 0 THEN RUNTIME_INF ELSE sysctl.runtime,
           period |-> sysctl.period]

children(g) == {c \in rt_exists \ {Root} : Parent[c] = g}

\* What the children of g have together.
children_ratio(l, g) == SumFunctionOnSet([c \in Group |-> ratio(l[c])], children(g))

\* tg_has_rt_tasks(): it compares the group of the CPU's own rt_rq, which is
\* Root, and Root always has RT tasks of the kernel.
tg_has_rt_tasks(g) == g = Root

\* tg_rt_schedulable() for one group, with the limits l.
tg_rt_schedulable(l, g) ==
  /\ l[g].runtime <= l[g].period
  /\ ~(global.runtime # RUNTIME_INF /\ l[g].runtime = 0 /\ tg_has_rt_tasks(g))
  /\ ratio(l[g]) <= ratio(global)
  /\ children_ratio(l, g) <= ratio(l[g])

\* __rt_schedulable(): every group must pass.
rt_schedulable(l) == \A g \in rt_exists : tg_rt_schedulable(l, g)

---------------------------------------------------------------------------
\* A group's two files.

\* sched_group_set_rt_runtime() and sched_group_set_rt_period() read the value
\* that is not written.
rt_write_read(w, g, b) ==
  /\ ~rt_writer[w].busy /\ g \in rt_exists
  /\ rt_writer' = [rt_writer EXCEPT ![w] = [tg |-> g, to |-> b, busy |-> TRUE]]
  /\ UNCHANGED <<rt_exists, limit, sysctl, def_rt, old>>

SetRtRuntime(w, g, runtime) ==
  rt_write_read(w, g, [limit[g] EXCEPT !.runtime = IF runtime < 0 THEN RUNTIME_INF ELSE runtime])

SetRtPeriod(w, g, period) ==
  period # 0 /\ rt_write_read(w, g, [limit[g] EXCEPT !.period = period])

\* Fault: the values are stored without the check.
TgSetRtBandwidth_unchecked(w) ==
  /\ rt_writer[w].busy
  /\ rt_writer' = [rt_writer EXCEPT ![w] = NoRtWrite]
  /\ limit' = [limit EXCEPT ![rt_writer[w].tg] = rt_writer[w].to]
  /\ UNCHANGED <<rt_exists, sysctl, def_rt, old>>

\* tg_set_rt_bandwidth(), under rt_constraints_mutex and tasklist_lock.
TgSetRtBandwidth(w) ==
  LET l == [limit EXCEPT ![rt_writer[w].tg] = rt_writer[w].to]
  IN /\ rt_writer[w].busy
     /\ rt_writer' = [rt_writer EXCEPT ![w] = NoRtWrite]
     /\ limit' = IF rt_schedulable(l) THEN l ELSE limit
     /\ UNCHANGED <<rt_exists, sysctl, def_rt, old>>

---------------------------------------------------------------------------
\* The sysctls.

\* sched_rt_handler() stores the number written.
SysctlWrite(b) ==
  /\ old = Nothing /\ b # sysctl
  /\ b.runtime = sysctl.runtime \/ b.period = sysctl.period
  /\ old' = sysctl
  /\ sysctl' = b
  /\ UNCHANGED <<rt_exists, limit, def_rt, rt_writer>>

sched_rt_global_constraints ==
  /\ sysctl.period > 0
  /\ global.runtime <= global.period
  /\ rt_schedulable(limit)

\* The rest of sched_rt_handler(): accepted, or undone.
SysctlCheck ==
  /\ old # Nothing
  /\ IF sched_rt_global_constraints
     THEN def_rt' = global /\ UNCHANGED sysctl
     ELSE sysctl' = old /\ UNCHANGED def_rt
  /\ old' = Nothing
  /\ UNCHANGED <<rt_exists, limit, rt_writer>>

---------------------------------------------------------------------------
\* The cpu cgroup.

\* cpu_cgroup_create(): a group starts with no runtime and the period of
\* def_rt_bandwidth.
CreateRtGroup(g) ==
  /\ g \notin rt_exists /\ Parent[g] \in rt_exists
  /\ rt_exists' = rt_exists \cup {g}
  /\ limit' = [limit EXCEPT ![g] = [runtime |-> 0, period |-> def_rt.period]]
  /\ UNCHANGED <<sysctl, def_rt, old, rt_writer>>

\* cpu_cgroup_destroy(), of a group with neither tasks, children nor open files.
DestroyRtGroup(g) ==
  /\ g \in rt_exists \ {Root} /\ children(g) = {}
  /\ \A w \in RtWriter : rt_writer[w].tg # g
  /\ rt_exists' = rt_exists \ {g}
  /\ limit' = [limit EXCEPT ![g] = Nothing]
  /\ UNCHANGED <<sysctl, def_rt, old, rt_writer>>

LimitsNext ==
  \/ \E w \in RtWriter :
       \/ \E g \in Group, r \in RtRuntimes : SetRtRuntime(w, g, r)
       \/ \E g \in Group, p \in RtPeriods : SetRtPeriod(w, g, p)
       \/ TgSetRtBandwidth(w)
  \/ \E r \in RtRuntimes, p \in RtPeriods : SysctlWrite([runtime |-> r, period |-> p])
  \/ SysctlCheck
  \/ \E g \in Group \ {Root} : CreateRtGroup(g) \/ DestroyRtGroup(g)

LimitsSpec == LimitsInit /\ [][LimitsNext]_limit_vars

---------------------------------------------------------------------------
\* However writes of the groups' files and of the sysctls interleave, the
\* children of a group never have more of the CPU together than it has, and
\* no group has more runtime than its period.
TreeSchedulable ==
  \A g \in rt_exists :
    /\ limit[g].runtime <= limit[g].period
    /\ children_ratio(limit, g) <= ratio(limit[g])

\* Between two calls of the handler the sysctls are what was last accepted:
\* a refused write leaves nothing behind.
SysctlAccepted == old = Nothing => def_rt = global
=============================================================================
