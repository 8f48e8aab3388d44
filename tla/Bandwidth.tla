----------------------------- MODULE Bandwidth ------------------------------
(***************************************************************************)
(* A runtime in a period as a part of a CPU (kernel/sched/core.c), as the  *)
(* limits of RT and of fair groups are compared.                           *)
(***************************************************************************)
EXTENDS Integers

RUNTIME_INF == -1
UNIT == 1048576    \* 1 << 20: all of a CPU

\* A period of 0 is met while the RT sysctl handler has stored one:
\* div64_u64() of the ARM build then warns and returns 0.
to_ratio(period, runtime) ==
  CASE runtime = RUNTIME_INF -> UNIT
    [] runtime # RUNTIME_INF /\ period = 0 -> 0
    [] OTHER -> (runtime * UNIT) \div period
=============================================================================
