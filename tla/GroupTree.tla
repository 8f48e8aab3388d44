----------------------------- MODULE GroupTree ------------------------------
(***************************************************************************)
(* The groups of a cgroup hierarchy (kernel/sched/core.c): a tree, of the  *)
(* task groups of the cpu cgroup and of the groups of cpuacct.             *)
(***************************************************************************)
EXTENDS FiniteSets

CONSTANTS
  Group, Root,
  Parent         \* parent of every group but Root

\* From every group the parents lead to Root.
ASSUME GroupsAssumption ==
  /\ IsFiniteSet(Group) /\ Root \in Group
  /\ Parent \in [Group \ {Root} -> Group]
  /\ \A S \in SUBSET (Group \ {Root}) : S # {} => \E g \in S : Parent[g] \notin S

\* A group and the groups above it, as the loops over parents go through them.
upwards(g) ==
  LET up[x \in Group] == {x} \cup (IF x = Root THEN {} ELSE up[Parent[x]])
  IN up[g]
=============================================================================
