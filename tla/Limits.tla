------------------------------- MODULE Limits -------------------------------
(***************************************************************************)
(* The two limits of the groups of the cpu cgroup, for RT tasks and for    *)
(* fair ones.                                                              *)
(***************************************************************************)
EXTENDS RtLimits, CfsLimits

\* However writes interleave with one another and with groups that come and
\* go, no group gets more than the groups above it have, a refused write of the
\* sysctls leaves nothing behind, and run queues are limited exactly where
\* their group is.
GroupLimitsHold ==
  /\ TreeSchedulable /\ SysctlAccepted
  /\ QuotaWithinAncestors /\ EnabledWhereLimited
=============================================================================
