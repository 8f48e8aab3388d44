------------------------------ MODULE CpuAcct ------------------------------
(***************************************************************************)
(* cpuacct.usage (kernel/sched/core.c, CONFIG_CGROUP_CPUACCT): the run     *)
(* time of the tasks of a group and of the groups in it, a counter on      *)
(* every CPU.  A charge goes up the tree under the run queue's lock; a     *)
(* read and a reset go through the CPUs, taking one lock after the other,  *)
(* so that charges, reads and resets overlap.                              *)
(***************************************************************************)
EXTENDS Functions, Cpus, GroupTree

CONSTANTS
  File,          \* open files of cpuacct.usage
  MaxCharge      \* bound on the charges

VARIABLES
  exists,        \* groups created
  usage,         \* cpuusage of a group on a CPU
  file,          \* what goes on at a file: nothing, a read or a reset, and how far it is
  charges,       \* charges made
  since_begin,   \* charged to a group since its last reset began
  since_end      \* charged to a group since one ended

acct_vars == <<exists, usage, file, charges, since_begin, since_end>>

Closed == [op |-> "none", group |-> Root, cpu |-> 1, sum |-> 0, from |-> 0, reset |-> FALSE]

AcctInit ==
  /\ exists = {Root}
  /\ usage = [g \in Group |-> [c \in Cpu |-> 0]]
  /\ file = [f \in File |-> Closed]
  /\ charges = 0
  /\ since_begin = [g \in Group |-> 0] /\ since_end = [g \in Group |-> 0]

total(g) == SumFunctionOnSet(usage[g], Cpu)

---------------------------------------------------------------------------
\* cpuacct_charge() of a task of group g on CPU c, under rq->lock.
CpuacctCharge(g, c) ==
  /\ g \in exists /\ charges < MaxCharge
  /\ charges' = charges + 1
  /\ usage' = [x \in Group |-> IF x \in upwards(g) THEN [usage[x] EXCEPT ![c] = @ + 1] ELSE usage[x]]
  /\ since_begin' = [x \in Group |-> since_begin[x] + IF x \in upwards(g) THEN 1 ELSE 0]
  /\ since_end' = [x \in Group |-> since_end[x] + IF x \in upwards(g) THEN 1 ELSE 0]
  /\ UNCHANGED <<exists, file>>

\* cpuusage_read() or cpuusage_write() begins; `from` is the total then.
Begin(f, op, g) ==
  /\ file[f].op = "none" /\ g \in exists
  /\ file' = [x \in File |->
                CASE x = f -> [Closed EXCEPT !.op = op, !.group = g,
                                 !.from = IF op = "read" THEN total(g) ELSE 0,
                                 !.reset = \E y \in File : file[y].op = "reset" /\ file[y].group = g]
                  [] x # f /\ op = "reset" /\ file[x].op = "read" /\ file[x].group = g ->
                       [file[x] EXCEPT !.reset = TRUE]
                  [] OTHER -> file[x]]
  /\ since_begin' = IF op = "reset" THEN [since_begin EXCEPT ![g] = 0] ELSE since_begin
  /\ UNCHANGED <<exists, usage, charges, since_end>>

added(sum, u) == sum + u

ReadCpu(f) ==
  LET g == file[f].group
      c == file[f].cpu
  IN /\ file[f].op = "read" /\ c <= NrCpus
     /\ file' = [file EXCEPT ![f].sum = added(@, usage[g][c]), ![f].cpu = c + 1]
     /\ UNCHANGED <<exists, usage, charges, since_begin, since_end>>

reset_upto == NrCpus

ResetCpu(f) ==
  LET g == file[f].group
      c == file[f].cpu
  IN /\ file[f].op = "reset" /\ c <= reset_upto
     /\ usage' = [usage EXCEPT ![g][c] = 0]
     /\ file' = [file EXCEPT ![f].cpu = c + 1]
     /\ UNCHANGED <<exists, charges, since_begin, since_end>>

\* The call returns.
End(f) ==
  LET g == file[f].group
  IN /\ file[f].op # "none"
     /\ file[f].cpu > IF file[f].op = "read" THEN NrCpus ELSE reset_upto
     /\ file' = [file EXCEPT ![f] = Closed]
     /\ since_end' = IF file[f].op = "reset" THEN [since_end EXCEPT ![g] = 0] ELSE since_end
     /\ UNCHANGED <<exists, usage, charges, since_begin>>

---------------------------------------------------------------------------
CpuacctCreate(g) ==
  /\ g \notin exists /\ Parent[g] \in exists
  /\ exists' = exists \cup {g}
  /\ UNCHANGED <<usage, file, charges, since_begin, since_end>>

\* cpuacct_destroy(), of a group without children and open files.
CpuacctDestroy(g) ==
  /\ g \in exists \ {Root}
  /\ \A x \in exists \ {Root} : Parent[x] # g
  /\ \A f \in File : file[f].op = "none" \/ file[f].group # g
  /\ exists' = exists \ {g}
  /\ usage' = [usage EXCEPT ![g] = [c \in Cpu |-> 0]]
  /\ since_begin' = [since_begin EXCEPT ![g] = 0]
  /\ since_end' = [since_end EXCEPT ![g] = 0]
  /\ UNCHANGED <<file, charges>>

AcctNext ==
  \/ \E g \in Group, c \in Cpu : CpuacctCharge(g, c)
  \/ \E f \in File :
       \/ \E op \in {"read", "reset"}, g \in Group : Begin(f, op, g)
       \/ ReadCpu(f) \/ ResetCpu(f) \/ End(f)
  \/ \E g \in Group \ {Root} : CpuacctCreate(g) \/ CpuacctDestroy(g)

AcctSpec == AcctInit /\ [][AcctNext]_acct_vars

---------------------------------------------------------------------------
\* A read that overlaps no reset returns a value the usage had during it: at
\* least what it was at the beginning, at most what it is at the end.
ReadBetween ==
  \A f \in File :
    file[f].op = "read" /\ file[f].cpu > NrCpus /\ ~file[f].reset
      => file[f].from <= file[f].sum /\ file[f].sum <= total(file[f].group)

\* While no reset of a group is going on, its usage has everything charged
\* since the last one ended, and nothing from before the last one began.
ResetForgetsAll ==
  \A g \in exists :
    (\A f \in File : file[f].op # "reset" \/ file[f].group # g)
      => since_end[g] <= total(g) /\ total(g) <= since_begin[g]
=============================================================================
