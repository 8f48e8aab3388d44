-------------------------------- MODULE MCSmp -------------------------------
(***************************************************************************)
(* Migration on a small instance for TLC.                                  *)
(***************************************************************************)
EXTENDS Migration, TLC

CONSTANTS t1, t2, c1, c2

\* Affinity to the CPU that comes and goes, and to both.
Masks == {{c2}, {c1, c2}}

\* The tasks are interchangeable.
Symmetry == Permutations(Task)

=============================================================================
