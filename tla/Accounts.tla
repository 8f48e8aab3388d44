------------------------------ MODULE Accounts ------------------------------
(***************************************************************************)
(* What is said of the time of CPUs, tasks and groups together: ticks by   *)
(* kind (CpuTime), times reported (TaskTimes), usage of groups (CpuAcct).  *)
(***************************************************************************)
EXTENDS CpuTime, TaskTimes, CpuAcct

\* Every tick is accounted once, to interrupts only for time they took, and a
\* group has what its children have (CpuTime); with siglock held the times
\* reported stay within the run time (TaskTimes); a usage read lies between
\* what was charged before and after, and a reset forgets all before (CpuAcct).
TimesAccounted ==
  /\ TicksAccountedOnce /\ GroupCoversChildren /\ IrqTicksEarned
  /\ TimesWithinRuntime
  /\ ReadBetween /\ ResetForgetsAll
=============================================================================
