-------------------------------- MODULE Cpus --------------------------------
(***************************************************************************)
(* The CPUs, numbered as for_each_possible_cpu() goes through them.        *)
(***************************************************************************)
EXTENDS Integers

CONSTANT NrCpus

ASSUME CpusAssumption == NrCpus \in Nat \ {0}

Cpu == 1..NrCpus
=============================================================================
