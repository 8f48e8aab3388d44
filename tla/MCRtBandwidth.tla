--------------------------- MODULE MCRtBandwidth ----------------------------
(***************************************************************************)
(* Instances of RtBandwidth for TLC: a root group, and a group with a      *)
(* child of its own.                                                       *)
(***************************************************************************)
EXTENDS RtBandwidth, TLC

CONSTANTS t1, t2, root, apps, bg, other

\* The tasks are interchangeable.
Symmetry == Permutations(Task)

OneGroup == apps :> root

Nested == apps :> root @@ bg :> apps

=============================================================================
