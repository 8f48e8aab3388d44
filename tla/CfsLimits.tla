----------------------------- MODULE CfsLimits -----------------------------
(***************************************************************************)
(* The CPU time each group of fair tasks may use (kernel/sched/core.c,     *)
(* CONFIG_CFS_BANDWIDTH): cpu.cfs_quota_us and cpu.cfs_period_us, the walk *)
(* that keeps a group within its ancestors, and what a change does to the  *)
(* run queues of the group.                                                *)
(*                                                                         *)
(* A write of one of a group's two files reads the other outside           *)
(* cfs_constraints_mutex; what follows is under that mutex, but a CPU's    *)
(* run queue is changed under that CPU's lock, one CPU after the other.    *)
(***************************************************************************)
EXTENDS FiniteSets, Bandwidth, GroupTree, Cpus

CONSTANTS
  CfsWriter,                        \* tasks that write the files of groups
  Quotas, QuotaPeriods,             \* what is written; a negative quota is RUNTIME_INF
  MinQuotaPeriod, MaxQuotaPeriod,   \* min_cfs_quota_period, max_cfs_quota_period
  InitQuotaPeriod,                  \* default_cfs_period() of fair.c
  MaxUsed

Nobody == "nobody"

ASSUME CfsLimitsAssumption ==
  /\ Quotas \in SUBSET Int
  /\ MinQuotaPeriod \in Nat \ {0} /\ MaxQuotaPeriod \in Nat
  /\ InitQuotaPeriod \in MinQuotaPeriod..MaxQuotaPeriod
  /\ Nobody \notin CfsWriter

VARIABLES
  cfs_exists,   \* groups created
  band,         \* cfs_bandwidth of a group: quota and period
  enabled,      \* runtime_enabled of the group's run queue on a CPU
  used,         \* cfs_bandwidth_used: changes to limited less changes to unlimited
  cfs_writer,   \* a write in progress
  mutex         \* holder of cfs_constraints_mutex, or Nobody

cfs_vars == <<cfs_exists, band, enabled, used, cfs_writer, mutex>>

NoCfsWrite == [tg |-> Root, to |-> [quota |-> RUNTIME_INF, period |-> 0], cpu |-> 0, busy |-> FALSE]

\* init_cfs_bandwidth() of fair.c.
init_cfs_bandwidth == [quota |-> RUNTIME_INF, period |-> InitQuotaPeriod]

CfsInit ==
  /\ cfs_exists = {Root}
  /\ band = [g \in Group |-> init_cfs_bandwidth]
  /\ enabled = [g \in Group |-> [c \in Cpu |-> FALSE]]
  /\ used = 0
  /\ cfs_writer = [w \in CfsWriter |-> NoCfsWrite]
  /\ mutex = Nobody

---------------------------------------------------------------------------
\* The check.

limited(b) == b.quota # RUNTIME_INF

normalize_cfs_quota(b) ==
  IF limited(b) THEN to_ratio(b.period, b.quota) ELSE RUNTIME_INF

\* What tg_cfs_schedulable_down() leaves in hierarchal_quota, from the root
\* down: every walk computes it anew, whatever a refused one left there.
hierarchal_quota(b) ==
  LET h[g \in Group] ==
        CASE g = Root -> RUNTIME_INF
          [] g # Root /\ limited(b[g]) -> normalize_cfs_quota(b[g])
          [] OTHER -> h[Parent[g]]
  IN h

\* __cfs_schedulable() of the groups that exist.
cfs_schedulable(b) ==
  LET h == hierarchal_quota(b)
  IN \A g \in cfs_exists \ {Root} :
       limited(b[g]) /\ h[Parent[g]] # RUNTIME_INF => h[g] <= h[Parent[g]]

---------------------------------------------------------------------------
\* A group's two files.

\* tg_set_cfs_quota() and tg_set_cfs_period() have read the other value, and
\* tg_set_cfs_bandwidth() has found both in range.
cfs_write_read(w, g, b) ==
  /\ ~cfs_writer[w].busy /\ g \in cfs_exists \ {Root}
  /\ (b.quota >= MinQuotaPeriod \/ ~limited(b)) /\ b.period \in MinQuotaPeriod..MaxQuotaPeriod
  /\ cfs_writer' = [cfs_writer EXCEPT ![w] = [tg |-> g, to |-> b, cpu |-> 0, busy |-> TRUE]]
  /\ UNCHANGED <<cfs_exists, band, enabled, used, mutex>>

SetQuota(w, g, quota) ==
  cfs_write_read(w, g, [band[g] EXCEPT !.quota = IF quota < 0 THEN RUNTIME_INF ELSE quota])

SetPeriod(w, g, period) == cfs_write_read(w, g, [band[g] EXCEPT !.period = period])

\* account_cfs_bandwidth_used() of fair.c.
account_cfs_bandwidth_used(on, was) ==
  (IF on /\ ~was THEN 1 ELSE 0) - (IF ~on /\ was THEN 1 ELSE 0)

\* The mutex is taken, the walk made, the values stored; refused, all ends.
CheckQuota(w) ==
  LET g == cfs_writer[w].tg
      b == cfs_writer[w].to
  IN /\ cfs_writer[w].busy /\ mutex = Nobody
     /\ IF cfs_schedulable([band EXCEPT ![g] = b])
        THEN /\ used' = used + account_cfs_bandwidth_used(limited(b), limited(band[g]))
             /\ band' = [band EXCEPT ![g] = b]
             /\ cfs_writer' = [cfs_writer EXCEPT ![w].cpu = 1]
             /\ mutex' = w
        ELSE cfs_writer' = [cfs_writer EXCEPT ![w] = NoCfsWrite] /\ UNCHANGED <<band, used, mutex>>
     /\ UNCHANGED <<cfs_exists, enabled>>

\* The next CPU's run queue, under its lock; after the last the mutex is free.
EnableCpu(w) ==
  LET g == cfs_writer[w].tg
      c == cfs_writer[w].cpu
      last == c = NrCpus
  IN /\ mutex = w
     /\ enabled' = [enabled EXCEPT ![g][c] = limited(cfs_writer[w].to)]
     /\ cfs_writer' = [cfs_writer EXCEPT ![w] = IF last THEN NoCfsWrite ELSE [@ EXCEPT !.cpu = c + 1]]
     /\ mutex' = IF last THEN Nobody ELSE w
     /\ UNCHANGED <<cfs_exists, band, used>>

---------------------------------------------------------------------------
\* The cpu cgroup.

CreateCfsGroup(g) ==
  /\ g \notin cfs_exists /\ Parent[g] \in cfs_exists
  /\ cfs_exists' = cfs_exists \cup {g}
  /\ band' = [band EXCEPT ![g] = init_cfs_bandwidth]
  /\ enabled' = [enabled EXCEPT ![g] = [c \in Cpu |-> FALSE]]
  /\ UNCHANGED <<used, cfs_writer, mutex>>

\* cpu_cgroup_destroy(), of a group with neither children nor open files.  A
\* limited one goes without account_cfs_bandwidth_used() and stays counted;
\* MaxUsed bounds that.
DestroyCfsGroup(g) ==
  /\ g \in cfs_exists \ {Root} /\ (limited(band[g]) => used < MaxUsed)
  /\ \A c \in cfs_exists \ {Root} : Parent[c] # g
  /\ \A w \in CfsWriter : cfs_writer[w].tg # g
  /\ cfs_exists' = cfs_exists \ {g}
  /\ band' = [band EXCEPT ![g] = init_cfs_bandwidth]
  /\ enabled' = [enabled EXCEPT ![g] = [c \in Cpu |-> FALSE]]
  /\ UNCHANGED <<used, cfs_writer, mutex>>

CfsNext ==
  \/ \E w \in CfsWriter :
       \/ \E g \in Group, q \in Quotas : SetQuota(w, g, q)
       \/ \E g \in Group, p \in QuotaPeriods : SetPeriod(w, g, p)
       \/ CheckQuota(w)
       \/ EnableCpu(w)
  \/ \E g \in Group \ {Root} : CreateCfsGroup(g) \/ DestroyCfsGroup(g)

CfsSpec == CfsInit /\ [][CfsNext]_cfs_vars

---------------------------------------------------------------------------
ancestors(g) == upwards(g) \ {g}

\* However writes of the two files interleave and groups come and go, a
\* limited group has no more of the CPU than any limited group above it, also
\* across groups in between that have no limit of their own.
QuotaWithinAncestors ==
  \A g \in cfs_exists, a \in Group :
    limited(band[g]) /\ limited(band[a]) /\ a \in ancestors(g)
      => normalize_cfs_quota(band[g]) <= normalize_cfs_quota(band[a])

\* While nobody is changing a limit, run time is accounted on every CPU of a
\* group exactly when the group is limited, and the count that switches the
\* bandwidth code on covers every limited group.
EnabledWhereLimited ==
  mutex = Nobody =>
    /\ \A g \in cfs_exists, c \in Cpu : enabled[g][c] = limited(band[g])
    /\ used >= Cardinality({g \in cfs_exists : limited(band[g])})
=============================================================================
