------------------------------- MODULE MCRtSmp ------------------------------
(***************************************************************************)
(* Instances for TLC of what CPUs and groups share: RtPushPull, RtRuntime  *)
(* and CpuClock, in which CPUs look at one another's run queues, and the   *)
(* limits of the groups of the cpu cgroup, for RT and for fair tasks.      *)
(* They share no state, so a behaviour is one of a single part.            *)
(***************************************************************************)
EXTENDS RtPushPull, RtRuntime, CpuClock, Limits, TLC

CONSTANTS t1, t2, t3, w1, w2

\* The tasks that nobody changes are interchangeable, and so are the writers of
\* limits.
Symmetry == Permutations(Task \ Changed) \cup Permutations(RtWriter)

asleep(t) == ~task[t].on_rq /\ \A w \in Cpu : pc[w].task # t

\* Bound: from the first change of a priority, an affinity mask or a root
\* domain on, only one of the tasks that nobody changes is awake.
OneBesideChanged == excused => \A t, u \in Task \ Changed : asleep(t) \/ asleep(u) \/ t = u

-----------------------------------------------------------------------------
VARIABLE part

\* Groups in a chain, and one beside it.
Tree == ("a" :> "root") @@ ("b" :> "a") @@ ("c" :> "b") @@ ("d" :> "root")

\* Bounds, in groups, on the limits of RT tasks (siblings) and on those of fair
\* tasks (the chain).
FewGroups ==
  rt_exists \subseteq {"root", "a", "d"} /\ cfs_exists \subseteq {"root", "a", "b", "c"}

Bounds == OneBesideChanged /\ FewGroups

GroupLimits == {-1, 4}
Runtimes == {-1, 1}
QuotaValues == {-1, 0, 1, 2}

-----------------------------------------------------------------------------
\* A part that does not move begins in one of its states.
RtSmpInit ==
  /\ part \in {"push_pull", "rt_runtime", "clock", "rt_limits", "cfs_limits"}
  /\ Init /\ (part # "push_pull" => \A t \in Task : task[t].prio = 1)
  /\ RuntimeInit /\ (part # "rt_runtime" => rt_limit = 4)
  /\ ClockInit
  /\ LimitsInit /\ CfsInit

RtSmpNext ==
  \/ /\ part = "push_pull" /\ Next
     /\ UNCHANGED <<part, rt_vars, clock_vars, limit_vars, cfs_vars>>
  \/ /\ part = "rt_runtime" /\ RuntimeNext
     /\ UNCHANGED <<part, pp_vars, clock_vars, limit_vars, cfs_vars>>
  \/ /\ part = "clock" /\ ClockNext
     /\ UNCHANGED <<part, pp_vars, rt_vars, limit_vars, cfs_vars>>
  \/ /\ part = "rt_limits" /\ LimitsNext
     /\ UNCHANGED <<part, pp_vars, rt_vars, clock_vars, cfs_vars>>
  \/ /\ part = "cfs_limits" /\ CfsNext
     /\ UNCHANGED <<part, pp_vars, rt_vars, clock_vars, limit_vars>>

RtSmpSpec ==
  RtSmpInit /\ [][RtSmpNext]_<<part, pp_vars, rt_vars, clock_vars, limit_vars, cfs_vars>>

=============================================================================
