----------------------------- MODULE MCRtGroups -----------------------------
(***************************************************************************)
(* Two instances of RtBandwidth for TLC: two groups with inherited         *)
(* priorities, and a chain of three groups.  A behaviour is one of a       *)
(* single instance.                                                        *)
(***************************************************************************)
EXTENDS MCRtBandwidth

VARIABLE part
VARIABLES deep_task, deep_linked, deep_rq, deep_curr, deep_resched, deep_delta, deep_now

Deep == INSTANCE RtBandwidth WITH
  Group <- {root, apps, bg}, Parent <- Nested,
  MAX_RT_PRIO <- 1, BoostPrio <- {}, GlobalRuntime <- Period, Runtime <- {},
  task <- deep_task, linked <- deep_linked, rt_rq <- deep_rq, curr <- deep_curr,
  need_resched <- deep_resched, delta <- deep_delta, now <- deep_now

deep_vars == <<deep_task, deep_linked, deep_rq, deep_curr, deep_resched, deep_delta, deep_now>>

\* The chain's limits are set beforehand: the root group has none, which the
\* check admits when the global limit is the period.
DeepInit == Deep!InitWith([g \in {root, apps, bg} |-> IF g = root THEN RUNTIME_INF ELSE 1])

GroupsInit == part \in {"groups", "nested"} /\ Init /\ DeepInit

GroupsNext ==
  \/ part = "groups" /\ Next /\ UNCHANGED <<part, deep_vars>>
  \/ part = "nested" /\ Deep!Next /\ UNCHANGED <<part, vars>>

GroupsSpec == GroupsInit /\ [][GroupsNext]_<<part, vars, deep_vars>>

\* The same of a chain of three groups.
NestedConsistent == part = "nested" => Deep!GroupsConsistent

=============================================================================
