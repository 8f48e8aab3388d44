---------------------------- MODULE SchedDomains ----------------------------
(***************************************************************************)
(* How the CPUs are divided into scheduling domains and root domains       *)
(* (kernel/sched/core.c): partition_sched_domains() for the cpusets, for a *)
(* change of the power-saving policy, and for CPUs that go and come, one   *)
(* by one or all of them when the system is suspended; with allocations    *)
(* that fail.                                                              *)
(*                                                                         *)
(* All of this is under sched_domains_mutex and the hotplug lock, so each  *)
(* call is one step.  A domain stands for the tree of domains above a CPU  *)
(* and is known by the CPUs it spans.                                      *)
(***************************************************************************)
EXTENDS Integers, FiniteSets, FiniteSetsExt

CONSTANTS
  DomCpu, Boot,     \* the CPUs; Boot is never taken down
  Isolated,         \* cpu_isolated_map
  Config,           \* partitions cpusets may ask for
  RootDomain, Def   \* root domains there is memory for; Def is def_root_domain

Disjoint(parts) == \A m, n \in parts : m # n => m \cap n = {}

\* A CPU that is alone in a root domain of its own is as many as there can be
\* of them; def_root_domain is never freed.
ASSUME DomainsAssumption ==
  /\ IsFiniteSet(DomCpu) /\ IsFiniteSet(RootDomain)
  /\ Def \in RootDomain /\ Cardinality(RootDomain) > Cardinality(DomCpu)
  /\ \A cf \in Config : Disjoint(cf)

VARIABLES
  dom,              \* root domains and domains: see DomainsInit
  cpu_active,       \* cpu_active_mask
  status,           \* of a CPU: "up", "going" after CPU_DOWN_PREPARE, "down", "frozen"
  doms_cur,         \* the partition that is remembered
  num_cpus_frozen,
  phase,            \* "boot" before sched_init_smp(), "run", or "suspend" while
                    \* CPUs are taken down for a suspend
  config,           \* what cpusets ask for
  failed            \* CPUs of domains whose last build failed

dom_vars == <<dom, cpu_active, status, doms_cur, num_cpus_frozen, phase, config, failed>>

suspending == phase = "suspend"

---------------------------------------------------------------------------
\* rq_attach_root(), first half: the CPU leaves its root domain.
leave(d, c) == [d EXCEPT !.ref[d.rd[c]] = @ - 1, !.online[d.rd[c]] = @ \ {c},
                         !.span[d.rd[c]] = @ \ {c}]

rq_attach_root(d, c, r) ==
  LET l == leave(d, c)
  IN [l EXCEPT !.rd[c] = r, !.ref[r] = @ + 1, !.span[r] = @ \cup {c},
               !.online[r] = IF c \in cpu_active' THEN @ \cup {c} ELSE @]

\* A domain of a single CPU balances nothing and is not kept.
sd_degenerate(m) == Cardinality(m) <= 1

cpu_attach_domain(d, c, m, r) ==
  [rq_attach_root(d, c, r) EXCEPT !.sd[c] = IF sd_degenerate(m) THEN {} ELSE m]

\* for_each_cpu(i, m): cpu_attach_domain() to the root domain r.
attach_all(d, m, sd, r) == FoldSet(LAMBDA c, e : cpu_attach_domain(e, c, sd, r), d, m)

detach_destroy_domains(d, m) == attach_all(d, m, {}, Def)

\* build_sched_domains() of a new root domain for the CPUs m.
build_sched_domains(d, m) ==
  attach_all(d, m, m, CHOOSE x \in RootDomain : d.ref[x] = 0)

destroy_all(d, parts) == FoldSet(LAMBDA m, e : detach_destroy_domains(e, m), d, parts)
build_all(d, parts) == FoldSet(LAMBDA m, e : build_sched_domains(e, m), d, parts)

\* partition_sched_domains(): domains that are not in new are destroyed, those
\* not among the old ones built, and new is remembered.  fail are the builds
\* that get no memory.
partition(d, new, fail) ==
  LET todo == new \ doms_cur
  IN /\ dom' = build_all(destroy_all(d, doms_cur \ new), todo \ fail)
     /\ failed' = (failed \ UNION (doms_cur \ new)) \cup UNION (todo \cap fail)
     /\ doms_cur' = new

\* As above with doms_new == NULL: every domain is destroyed, and one for all
\* the active CPUs that are not isolated is built.
partition_fallback(d, fail) ==
  LET gone == destroy_all(d, doms_cur)
      all == cpu_active' \ Isolated
  IN /\ dom' = IF fail THEN gone ELSE build_sched_domains(gone, all)
     /\ failed' = IF fail THEN all ELSE {}
     /\ doms_cur' = {all}

\* What cpusets pass: their partition of the active CPUs.
wanted(cf, act) == {m \cap act : m \in cf} \ {{}}

cpuset_update_active_cpus(d, fail) == partition(d, wanted(config, cpu_active'), fail)

---------------------------------------------------------------------------
\* After sched_init(): every CPU is in def_root_domain, without a domain.
DomainsInit ==
  /\ dom = [rd |-> [c \in DomCpu |-> Def], sd |-> [c \in DomCpu |-> {}],
            span |-> [r \in RootDomain |-> IF r = Def THEN DomCpu ELSE {}],
            online |-> [r \in RootDomain |-> IF r = Def THEN DomCpu ELSE {}],
            ref |-> [r \in RootDomain |-> IF r = Def THEN Cardinality(DomCpu) + 1 ELSE 0]]
  /\ doms_cur = {} /\ failed = {}
  /\ cpu_active = DomCpu
  /\ status = [c \in DomCpu |-> "up"]
  /\ num_cpus_frozen = 0 /\ phase = "boot"
  /\ config = {DomCpu \ Isolated}

\* init_sched_domains() of sched_init_smp().
InitSchedDomains(fail) ==
  /\ phase = "boot" /\ phase' = "run"
  /\ UNCHANGED <<cpu_active, status, num_cpus_frozen, config>>
  /\ partition(dom, {cpu_active \ Isolated}, fail)

settled ==
  phase = "run" /\ num_cpus_frozen = 0 /\ \A c \in DomCpu : status[c] # "going"

\* A cpuset is changed: rebuild_sched_domains().  User space does not run
\* while the system is suspended.
ChangeCpusets(fail) ==
  /\ settled
  /\ config' \in Config
  /\ UNCHANGED <<cpu_active, status, num_cpus_frozen, phase>>
  /\ partition(dom, wanted(config', cpu_active), fail)

\* reinit_sched_domains(): partition_sched_domains(0, NULL, NULL) destroys all
\* and leaves doms_cur empty, and rebuild_sched_domains() builds all.
ReinitSchedDomains(fail) ==
  LET new == wanted(config, cpu_active)
  IN /\ settled
     /\ UNCHANGED <<cpu_active, status, num_cpus_frozen, phase, config>>
     /\ dom' = build_all(destroy_all(dom, doms_cur), new \ fail)
     /\ failed' = UNION (new \cap fail)
     /\ doms_cur' = new

---------------------------------------------------------------------------
\* CPUs that go and come.

\* sched_cpu_inactive() and then cpuset_cpu_inactive() at CPU_DOWN_PREPARE.
DownPrepare(c, fail) ==
  /\ c # Boot /\ status[c] = "up" /\ \A x \in DomCpu : status[x] # "going"
  /\ suspending \/ settled
  /\ status' = [status EXCEPT ![c] = "going"]
  /\ cpu_active' = cpu_active \ {c}
  /\ IF suspending THEN /\ num_cpus_frozen' = num_cpus_frozen + 1
                        /\ partition_fallback(dom, fail # {})
     ELSE cpuset_update_active_cpus(dom, fail) /\ UNCHANGED num_cpus_frozen
  /\ UNCHANGED <<phase, config>>

\* Fault: the count is looked at before this CPU is taken off it.
others_frozen_before == num_cpus_frozen # 0

others_frozen == num_cpus_frozen - 1 # 0

\* cpuset_cpu_active() for CPU_DOWN_FAILED and CPU_ONLINE, frozen or not.
cpuset_cpu_active(d, frozen, fail) ==
  /\ num_cpus_frozen' = IF frozen THEN num_cpus_frozen - 1 ELSE num_cpus_frozen
  /\ IF frozen /\ others_frozen THEN partition_fallback(d, fail # {})
     ELSE cpuset_update_active_cpus(d, fail)

\* Something refuses that the CPU goes; a suspend is then given up.
DownFailed(c, fail) ==
  /\ status[c] = "going"
  /\ status' = [status EXCEPT ![c] = "up"]
  /\ cpu_active' = cpu_active \cup {c}
  /\ cpuset_cpu_active(dom, suspending, fail)
  /\ phase' = "run"
  /\ UNCHANGED config

\* migration_call() at CPU_DYING: set_rq_offline().
Dying(c) ==
  /\ status[c] = "going"
  /\ status' = [status EXCEPT ![c] = IF suspending THEN "frozen" ELSE "down"]
  /\ dom' = [dom EXCEPT !.online[dom.rd[c]] = @ \ {c}]
  /\ UNCHANGED <<cpu_active, doms_cur, num_cpus_frozen, phase, config, failed>>

\* sched_cpu_active() at CPU_STARTING, set_rq_online() and cpuset_cpu_active()
\* at CPU_ONLINE.  CPUs a suspend took down come back before anything else.
Online(c, fail) ==
  /\ status[c] = IF num_cpus_frozen > 0 THEN "frozen" ELSE "down"
  /\ ~suspending /\ \A x \in DomCpu : status[x] # "going"
  /\ status' = [status EXCEPT ![c] = "up"]
  /\ cpu_active' = cpu_active \cup {c}
  /\ cpuset_cpu_active([dom EXCEPT !.online[dom.rd[c]] = @ \cup {c}], num_cpus_frozen > 0, fail)
  /\ UNCHANGED <<phase, config>>

\* disable_nonboot_cpus() begins; it ends with all the CPUs but Boot down, or
\* when one fails.
Suspend ==
  /\ settled
  /\ phase' = "suspend"
  /\ UNCHANGED <<dom, cpu_active, status, doms_cur, num_cpus_frozen, config, failed>>

Resume ==
  /\ suspending /\ \A c \in DomCpu \ {Boot} : status[c] \in {"down", "frozen"}
  /\ phase' = "run"
  /\ UNCHANGED <<dom, cpu_active, status, doms_cur, num_cpus_frozen, config, failed>>

DomainsNext ==
  \/ \E fail \in {{}, SUBSET DomCpu} \cup {{m} : m \in SUBSET DomCpu} :
       \/ InitSchedDomains(fail) \/ ChangeCpusets(fail) \/ ReinitSchedDomains(fail)
       \/ \E c \in DomCpu : DownPrepare(c, fail) \/ DownFailed(c, fail) \/ Online(c, fail)
  \/ \E c \in DomCpu : Dying(c)
  \/ Suspend \/ Resume

DomainsSpec == DomainsInit /\ [][DomainsNext]_dom_vars

---------------------------------------------------------------------------
\* A root domain is referenced once by every CPU attached to it (and the
\* default one once more), spans exactly those, and is freed with the last.
RootDomainExact ==
  \A r \in RootDomain :
    /\ dom.span[r] = {c \in DomCpu : dom.rd[c] = r}
    /\ dom.ref[r] = Cardinality(dom.span[r]) + IF r = Def THEN 1 ELSE 0
    /\ dom.online[r] \subseteq dom.span[r]

\* Two CPUs share a domain and a root domain exactly when they are in the same
\* part, those whose build failed apart; an empty part is none.
DividedAsAsked ==
  settled =>
    /\ doms_cur \ {{}} = wanted(config, cpu_active)
    /\ \A m \in doms_cur : m \cap failed = {} =>
         \A c \in m, x \in cpu_active : (dom.rd[x] = dom.rd[c]) <=> x \in m
    /\ \A c \in cpu_active \ failed, m \in doms_cur :
         c \in m => dom.sd[c] = IF Cardinality(m) > 1 THEN m ELSE {}

\* Whatever was suspended, failed half-way and came back, the CPUs are divided
\* as the cpusets ask, and a root domain is referenced and spanned by its CPUs.
PartitionRestored == RootDomainExact /\ DividedAsAsked
=============================================================================
