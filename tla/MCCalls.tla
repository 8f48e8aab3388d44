------------------------------- MODULE MCCalls ------------------------------
(***************************************************************************)
(* Instances for TLC of what user space asks of the scheduler and what the *)
(* scheduler counts: system calls that change parameters, CPU times of     *)
(* tasks and groups, address spaces and tasks across a switch, and         *)
(* scheduling domains.  They share no state, so a behaviour is one of a    *)
(* single part.                                                            *)
(***************************************************************************)
EXTENDS SetSched, ContextSwitch, SchedDomains, Accounts, TLC

CONSTANTS t1, c1, c2, p1, p2

VARIABLE part

\* Both callers own the task; only one of them is capable.
Owners == Caller \X Target

Nice == -1
Increments == {-1, 1}

\* Groups in a chain.
Tree == ("a" :> "root") @@ ("b" :> "a")

\* Bound: the usage is that of two groups.
TwoUsageGroups == exists \subseteq {"root", "a"}

\* Partitions of the CPUs 1 to 4, of which 4 is isolated.
Configs == {{{1, 2, 3}}, {{1, 2}, {3, 4}}, {{1}, {2, 3}}}

ASSUME SwitchAssumption

-----------------------------------------------------------------------------
Part == {"set_sched", "cpu_time", "task_times", "cpuacct", "switch", "domains"}

\* The variables of parts that go together.
machine_vars == <<switch_vars, dom_vars>>
count_vars == <<time_vars, times_vars, acct_vars>>

\* The part that moves, and the variables of the others.
Moves(name, still) == part = name /\ UNCHANGED <<part, still>>

\* A part that does not move begins in one of its states.
CallsInit ==
  /\ part \in Part
  /\ TimesInit /\ AcctInit /\ SwitchInit
  /\ DomainsInit
  /\ Init /\ (part # "set_sched" => \A t \in Target : task[t].has_runtime)
  /\ TimeInit /\ (part # "cpu_time" => irqtime)

CallsNext ==
  \/ /\ Moves("set_sched", <<count_vars, machine_vars>>)
     /\ Next
  \/ /\ Moves("cpu_time", <<vars, times_vars, acct_vars, machine_vars>>)
     /\ TimeNext
  \/ /\ Moves("task_times", <<vars, time_vars, acct_vars, machine_vars>>)
     /\ TimesNext
  \/ /\ Moves("cpuacct", <<vars, time_vars, times_vars, machine_vars>>)
     /\ AcctNext
  \/ /\ Moves("switch", <<vars, count_vars, dom_vars>>)
     /\ SwitchNext
  \/ /\ Moves("domains", <<vars, count_vars, switch_vars>>)
     /\ DomainsNext

CallsSpec ==
  CallsInit /\ [][CallsNext]_<<part, vars, count_vars, machine_vars>>
=============================================================================
