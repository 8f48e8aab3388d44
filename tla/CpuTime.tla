------------------------------ MODULE CpuTime ------------------------------
(***************************************************************************)
(* Where the ticks of a CPU go (kernel/sched/core.c): user, nice, system,  *)
(* interrupt, idle and guest time of the CPU, of the task that was running *)
(* and of the cpuacct groups it is in, with and without                    *)
(* CONFIG_IRQ_TIME_ACCOUNTING's clocks.                                    *)
(* Time stolen by a hypervisor (CONFIG_PARAVIRT) is left out.              *)
(***************************************************************************)
EXTENDS Integers, Functions, GroupTree

CONSTANTS
  Accounted,       \* tasks other than the idle task
  Ksoftirqd,       \* the one that is this_cpu_ksoftirqd()
  IdleTicks,       \* numbers of ticks account_idle_ticks() makes up for
  MaxTicks         \* bound on the ticks accounted

ASSUME TicksAssumption ==
  IsFiniteSet(Accounted) /\ Ksoftirqd \in Accounted /\ IdleTicks \in SUBSET Nat

Idle == "idle"
Field == {"user", "nice", "system", "softirq", "irq", "idle", "iowait", "guest", "guest_nice"}

VARIABLES
  stat,            \* kernel_cpustat of the CPU
  group_stat,      \* cpustat of a group but Root
  utime, stime, gtime,   \* of a task, in ticks
  nice,            \* tasks with TASK_NICE() > 0
  group,           \* group of a task
  irqtime,         \* sched_clock_irqtime
  irq_clock,       \* cpu_hardirq_time and cpu_softirq_time, in ticks
  ticks            \* ticks accounted

time_vars == <<stat, group_stat, utime, stime, gtime, nice, group, irqtime, irq_clock, ticks>>

TimeInit ==
  /\ stat = [f \in Field |-> 0]
  /\ group_stat = [g \in Group \ {Root} |-> [f \in Field |-> 0]]
  /\ utime = [t \in Accounted |-> 0] /\ stime = [t \in Accounted |-> 0] /\ gtime = [t \in Accounted |-> 0]
  /\ nice = {} /\ group = [t \in Accounted |-> Root]
  /\ irqtime \in BOOLEAN
  /\ irq_clock = [hard |-> 0, soft |-> 0]
  /\ ticks = 0

---------------------------------------------------------------------------
\* Fault: only the group the task is in gets the time.
charged_groups_first(t) == {group[t]} \ {Root}

\* The groups task_group_account_field() goes through, up to Root.
charged_groups(t) == upwards(group[t]) \ {Root}

task_group_account_field(t, f) ==
  /\ stat' = [stat EXCEPT ![f] = @ + 1]
  /\ group_stat' = [g \in Group \ {Root} |->
                      IF g \in charged_groups(t) THEN [group_stat[g] EXCEPT ![f] = @ + 1]
                      ELSE group_stat[g]]

\* cpustat of the CPU alone.
account_cpu(fields, n) ==
  /\ stat' = [f \in Field |-> IF f \in fields THEN stat[f] + n ELSE stat[f]]
  /\ UNCHANGED group_stat

account_user_time(t) ==
  /\ utime' = [utime EXCEPT ![t] = @ + 1]
  /\ task_group_account_field(t, IF t \in nice THEN "nice" ELSE "user")
  /\ UNCHANGED <<stime, gtime>>

guest_fields(t) == IF t \in nice THEN {"nice", "guest_nice"} ELSE {"user", "guest"}

account_guest_time(t) ==
  /\ utime' = [utime EXCEPT ![t] = @ + 1]
  /\ gtime' = [gtime EXCEPT ![t] = @ + 1]
  /\ account_cpu(guest_fields(t), 1)
  /\ UNCHANGED stime

__account_system_time(t, f) ==
  /\ stime' = [stime EXCEPT ![t] = @ + 1]
  /\ task_group_account_field(t, f)
  /\ UNCHANGED <<utime, gtime>>

\* The tick interrupted `in`: nothing, a soft or another hard interrupt.
account_system_time(t, vcpu, in) ==
  IF vcpu /\ in = "task" THEN account_guest_time(t)
  ELSE __account_system_time(t, CASE in = "hardirq" -> "irq" [] in = "softirq" -> "softirq"
                                  [] OTHER -> "system")

\* nr_iowait of the run queue is positive or not.
account_idle_time(iowait, n) ==
  account_cpu({IF iowait THEN "iowait" ELSE "idle"}, n) /\ UNCHANGED <<utime, stime, gtime>>

irqtime_account_hi_update == irq_clock.hard > stat["irq"]
irqtime_account_si_update == irq_clock.soft > stat["softirq"]

account_irq(f) == account_cpu({f}, 1) /\ UNCHANGED <<utime, stime, gtime>>

irqtime_account_process_tick(t, user, vcpu, iowait) ==
  CASE irqtime_account_hi_update -> account_irq("irq")
    [] ~irqtime_account_hi_update /\ irqtime_account_si_update -> account_irq("softirq")
    [] OTHER ->
         CASE t = Ksoftirqd -> __account_system_time(t, "softirq")
           [] t = Idle -> account_idle_time(iowait, 1)
           [] t \in Accounted \ {Ksoftirqd} /\ user -> account_user_time(t)
           [] t \in Accounted \ {Ksoftirqd} /\ ~user /\ vcpu -> account_guest_time(t)
           [] OTHER -> __account_system_time(t, "system")

\* account_process_tick(); a soft interrupt in the idle task is system time of
\* it, which no process has.
AccountProcessTick(t, user, vcpu, in, iowait) ==
  /\ ticks < MaxTicks
  /\ ticks' = ticks + 1
  /\ t = Idle => ~user /\ ~vcpu
  /\ user => in = "task"
  /\ CASE irqtime -> irqtime_account_process_tick(t, user, vcpu, iowait)
       [] ~irqtime /\ user -> account_user_time(t)
       [] ~irqtime /\ ~user /\ t # Idle -> account_system_time(t, vcpu, in)
       [] ~irqtime /\ t = Idle /\ in # "task" ->
            account_irq(IF in = "hardirq" THEN "irq" ELSE "softirq")
       [] OTHER -> account_idle_time(iowait, 1)
  /\ UNCHANGED <<nice, group, irqtime, irq_clock>>

\* The ticks irqtime_account_idle_ticks() gives to interrupts before the rest
\* is idle.
due(clock, f, n) ==
  IF clock <= stat[f] THEN 0 ELSE IF clock - stat[f] > n THEN n ELSE clock - stat[f]

\* account_idle_ticks(), when the tick starts again.
AccountIdleTicks(n, iowait) ==
  LET hard == IF irqtime THEN due(irq_clock.hard, "irq", n) ELSE 0
      soft == IF irqtime THEN due(irq_clock.soft, "softirq", n - hard) ELSE 0
      add == [f \in Field |-> CASE f = "irq" -> hard [] f = "softirq" -> soft
                                [] f = "iowait" -> IF iowait THEN n - hard - soft ELSE 0
                                [] f = "idle" -> IF iowait THEN 0 ELSE n - hard - soft
                                [] OTHER -> 0]
  IN /\ ticks + n <= MaxTicks
     /\ ticks' = ticks + n
     /\ stat' = [f \in Field |-> stat[f] + add[f]]
     /\ UNCHANGED <<group_stat, utime, stime, gtime, nice, group, irqtime, irq_clock>>

---------------------------------------------------------------------------
others == UNCHANGED <<stat, group_stat, utime, stime, gtime, ticks>>

\* account_system_vtime() brought a clock to the next tick; time does not run
\* ahead of the ticks by more than one.
IrqClock(k) ==
  /\ irqtime /\ irq_clock.hard + irq_clock.soft <= ticks
  /\ irq_clock' = [irq_clock EXCEPT ![k] = @ + 1]
  /\ others /\ UNCHANGED <<nice, group, irqtime>>

DisableSchedClockIrqtime ==
  /\ irqtime /\ irqtime' = FALSE
  /\ others /\ UNCHANGED <<nice, group, irq_clock>>

Renice(t) ==
  /\ nice' = IF t \in nice THEN nice \ {t} ELSE nice \cup {t}
  /\ others /\ UNCHANGED <<group, irqtime, irq_clock>>

AttachTask(t, g) ==
  /\ g # group[t] /\ group' = [group EXCEPT ![t] = g]
  /\ others /\ UNCHANGED <<nice, irqtime, irq_clock>>

sum(f) == SumFunctionOnSet(f, Accounted)

TimeNext ==
  \/ \E t \in Accounted \cup {Idle}, user, vcpu, iowait \in BOOLEAN, in \in {"task", "softirq", "hardirq"} :
       AccountProcessTick(t, user, vcpu, in, iowait)
  \/ \E n \in IdleTicks, iowait \in BOOLEAN : AccountIdleTicks(n, iowait)
  \/ \E k \in {"hard", "soft"} : IrqClock(k)
  \/ DisableSchedClockIrqtime
  \/ \E t \in Accounted : Renice(t) \/ \E g \in Group : AttachTask(t, g)

TimeSpec == TimeInit /\ [][TimeNext]_time_vars

---------------------------------------------------------------------------
\* Every tick is in exactly one of the CPU's fields, guest time being part of
\* user time, and the user and guest times of the tasks are the CPU's.
TicksAccountedOnce ==
  /\ SumFunctionOnSet(stat, Field \ {"guest", "guest_nice"}) = ticks
  /\ sum(utime) = stat["user"] + stat["nice"]
  /\ sum(gtime) = stat["guest"] + stat["guest_nice"]

\* A group's times cover those of the groups in it, and the CPU's those of all
\* the groups, however tasks move between groups and change their nice level.
GroupCoversChildren ==
  \A f \in Field, p \in Group :
    SumFunctionOnSet([g \in Group \ {Root} |-> group_stat[g][f]],
                     {g \in Group \ {Root} : Parent[g] = p})
      <= IF p = Root THEN stat[f] ELSE group_stat[p][f]

\* With the interrupt clocks on, a tick goes to hard interrupts only for time
\* that was spent in them.
IrqTicksEarned == irqtime => stat["irq"] <= irq_clock.hard
=============================================================================
