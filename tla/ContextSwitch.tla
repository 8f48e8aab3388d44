--------------------------- MODULE ContextSwitch ---------------------------
(***************************************************************************)
(* What a context switch does to the address spaces and to the task that   *)
(* was running (kernel/sched/core.c, context_switch() and                  *)
(* finish_task_switch()).  A thread without an address space borrows the   *)
(* one it finds; the reference it had to an earlier one, and that of a     *)
(* dead task to itself, are dropped by the next task, after the run        *)
(* queue's lock was released and the old task may run elsewhere.           *)
(*                                                                         *)
(* exit_mm(), copy_mm() and release_task() are outside these files and are *)
(* here with what they do to the counts.                                   *)
(***************************************************************************)
EXTENDS Cpus, FiniteSets

CONSTANTS
  Task,        \* tasks other than the idle tasks
  Mm           \* address spaces of processes

idle(c) == <<"idle", c>>
Thread == Task \cup {idle(c) : c \in Cpu}
InitMm == "init_mm"
None == "none"

\* init_mm belongs to no process.
SwitchAssumption ==
  /\ NrCpus \in Nat \ {0}
  /\ IsFiniteSet(Task) /\ Task # {}
  /\ \A c \in Cpu : idle(c) \notin Task
  /\ Mm # {} /\ InitMm \notin Mm /\ None \notin Mm

VARIABLES
  curr,         \* task of a CPU
  online,
  on_cpu,       \* threads that a CPU has not finished switching from
  state,        \* "run", "sleep", "dead" or, with its task_struct freed, "gone"
  mm, active_mm,
  mm_users, mm_count,
  prev_mm,      \* of a CPU's run queue
  finish,       \* finish_task_switch() on a CPU
  refs,         \* references to a task_struct: its own, and its parent's until it reaps
  reaped

switch_vars == <<curr, online, on_cpu, state, mm, active_mm, mm_users, mm_count, prev_mm,
                 finish, refs, reaped>>

Done == [at |-> "done", prev |-> idle(1), mm |-> None, dead |-> FALSE]

\* Every CPU idles; one task runs a process, the others are kernel threads.
SwitchInit ==
  LET first == CHOOSE t \in Task : TRUE
      own == CHOOSE m \in Mm : TRUE
  IN /\ curr = [c \in Cpu |-> idle(c)]
     /\ online = Cpu
     /\ on_cpu = {idle(c) : c \in Cpu}
     /\ state = [t \in Thread |-> "run"]
     /\ mm = [t \in Thread |-> IF t = first THEN own ELSE None]
     /\ active_mm = [t \in Thread |-> CASE t = first -> own [] t \in Task \ {first} -> None
                                        [] OTHER -> InitMm]
     /\ mm_users = [m \in Mm |-> IF m = own THEN 1 ELSE 0]
     /\ mm_count = [m \in Mm \cup {InitMm} |->
                      CASE m = InitMm -> 1 + NrCpus [] m = own -> 1 [] OTHER -> 0]
     /\ prev_mm = [c \in Cpu |-> None]
     /\ finish = [c \in Cpu |-> Done]
     /\ refs = [t \in Thread |-> 2]
     /\ reaped = {}

---------------------------------------------------------------------------
\* The reference the switched-out thread had goes to rq->prev_mm.
put_lazily(n, prev) == mm[prev] = None

\* context_switch() to n, with the run queue's lock.
Switch(c, n) ==
  LET prev == curr[c]
      old == active_mm[prev]
      lazy == mm[n] = None
  IN /\ c \in online /\ finish[c].at = "done" /\ n # prev
     /\ n = idle(c) \/ (n \in Task /\ state[n] = "run" /\ n \notin on_cpu)
     /\ curr' = [curr EXCEPT ![c] = n]
     /\ on_cpu' = on_cpu \cup {n}
     /\ active_mm' = [t \in Thread |-> CASE t = n /\ lazy -> old
                                         [] t = prev /\ mm[prev] = None -> None
                                         [] OTHER -> active_mm[t]]
     /\ mm_count' = IF lazy THEN [mm_count EXCEPT ![old] = @ + 1] ELSE mm_count
     /\ prev_mm' = IF put_lazily(n, prev) THEN [prev_mm EXCEPT ![c] = old] ELSE prev_mm
     /\ finish' = [finish EXCEPT ![c] = [at |-> "locked", prev |-> prev, mm |-> None, dead |-> FALSE]]
     /\ UNCHANGED <<online, state, mm, mm_users, refs, reaped>>

\* finish_task_switch() up to finish_lock_switch(), which releases the lock and
\* lets prev run elsewhere.
FinishLocked(c) ==
  LET prev == finish[c].prev
  IN /\ finish[c].at = "locked"
     /\ finish' = [finish EXCEPT ![c] = [at |-> "unlocked", prev |-> prev, mm |-> prev_mm[c],
                                         dead |-> state[prev] = "dead"]]
     /\ prev_mm' = [prev_mm EXCEPT ![c] = None]
     /\ on_cpu' = on_cpu \ {prev}
     /\ UNCHANGED <<curr, online, state, mm, active_mm, mm_users, mm_count, refs, reaped>>

mmdrop(m) == IF m = None THEN mm_count ELSE [mm_count EXCEPT ![m] = @ - 1]

\* Fault: the state of prev is looked at after the lock is released.
prev_was_dead_late(c) == state[finish[c].prev] = "dead"

prev_was_dead(c) == finish[c].dead

\* Its rest: the delayed mmdrop(), and the dead task's own reference.
FinishUnlocked(c) ==
  LET prev == finish[c].prev
  IN /\ finish[c].at = "unlocked"
     /\ mm_count' = mmdrop(finish[c].mm)
     /\ IF prev_was_dead(c)
        THEN /\ refs' = [refs EXCEPT ![prev] = @ - 1]
             /\ state' = IF refs[prev] = 1 THEN [state EXCEPT ![prev] = "gone"] ELSE state
        ELSE UNCHANGED <<refs, state>>
     /\ finish' = [finish EXCEPT ![c] = Done]
     /\ UNCHANGED <<curr, online, on_cpu, mm, active_mm, mm_users, prev_mm, reaped>>

---------------------------------------------------------------------------
\* The running task sleeps, another is woken; a wake-up waits for on_cpu.

running(c) == c \in online /\ finish[c].at = "done" /\ curr[c] \in Task /\ state[curr[c]] = "run"

Sleep(c) ==
  /\ running(c)
  /\ state' = [state EXCEPT ![curr[c]] = "sleep"]
  /\ UNCHANGED <<curr, online, on_cpu, mm, active_mm, mm_users, mm_count, prev_mm, finish, refs,
                 reaped>>

Wake(t) ==
  /\ state[t] = "sleep" /\ t \notin on_cpu
  /\ state' = [state EXCEPT ![t] = "run"]
  /\ UNCHANGED <<curr, online, on_cpu, mm, active_mm, mm_users, mm_count, prev_mm, finish, refs,
                 reaped>>

\* do_exit(): exit_mm() makes the thread a borrower, mmput() ends its use, and
\* the state is TASK_DEAD for the last schedule().
Exit(c) ==
  LET t == curr[c]
      m == mm[t]
  IN /\ running(c)
     /\ state' = [state EXCEPT ![t] = "dead"]
     /\ mm' = [mm EXCEPT ![t] = None]
     /\ IF m = None THEN UNCHANGED <<mm_users, mm_count>>
        ELSE /\ mm_users' = [mm_users EXCEPT ![m] = @ - 1]
             /\ mm_count' = [mm_count EXCEPT ![m] = IF mm_users[m] = 1 THEN @ ELSE @ + 1]
     /\ UNCHANGED <<curr, online, on_cpu, active_mm, prev_mm, finish, refs, reaped>>

\* release_task() of a zombie.
Reap(t) ==
  /\ state[t] = "dead" /\ t \notin reaped
  /\ reaped' = reaped \cup {t}
  /\ refs' = [refs EXCEPT ![t] = @ - 1]
  /\ state' = IF refs[t] = 1 THEN [state EXCEPT ![t] = "gone"] ELSE state
  /\ UNCHANGED <<curr, online, on_cpu, mm, active_mm, mm_users, mm_count, prev_mm, finish>>

\* copy_process(): a thread, a process with an address space of its own, or a
\* kernel thread.
Fork(c, t) ==
  LET m == mm[curr[c]]
      space == IF m = None THEN {None} ELSE {m} \cup {f \in Mm : mm_count[f] = 0}
  IN /\ running(c) /\ state[t] = "gone"
     /\ \E x \in space :
          /\ mm' = [mm EXCEPT ![t] = x]
          /\ active_mm' = [active_mm EXCEPT ![t] = x]
          /\ IF x = None THEN UNCHANGED <<mm_users, mm_count>>
             ELSE /\ mm_users' = [mm_users EXCEPT ![x] = @ + 1]
                  /\ mm_count' = [mm_count EXCEPT ![x] = IF x = m THEN @ ELSE 1]
     /\ state' = [state EXCEPT ![t] = "run"]
     /\ refs' = [refs EXCEPT ![t] = 2]
     /\ reaped' = reaped \ {t}
     /\ UNCHANGED <<curr, online, on_cpu, prev_mm, finish>>

---------------------------------------------------------------------------
\* idle_task_exit() of a CPU that went offline, and its start anew.
IdleTaskExit(c) ==
  /\ c \in online /\ Cardinality(online) > 1
  /\ curr[c] = idle(c) /\ finish[c].at = "done"
  /\ online' = online \ {c}
  /\ mm_count' = mmdrop(active_mm[idle(c)])
  /\ active_mm' = [active_mm EXCEPT ![idle(c)] = None]
  /\ UNCHANGED <<curr, on_cpu, state, mm, mm_users, prev_mm, finish, refs, reaped>>

StartCpu(c) ==
  /\ c \notin online
  /\ online' = online \cup {c}
  /\ mm_count' = [mm_count EXCEPT ![InitMm] = @ + 1]
  /\ active_mm' = [active_mm EXCEPT ![idle(c)] = InitMm]
  /\ UNCHANGED <<curr, on_cpu, state, mm, mm_users, prev_mm, finish, refs, reaped>>

SwitchNext ==
  \/ \E c \in Cpu :
       \/ \E n \in Thread : Switch(c, n)
       \/ FinishLocked(c) \/ FinishUnlocked(c)
       \/ Sleep(c) \/ Exit(c)
       \/ \E t \in Task : Fork(c, t)
       \/ IdleTaskExit(c) \/ StartCpu(c)
  \/ \E t \in Task : Wake(t) \/ Reap(t)

SwitchSpec == SwitchInit /\ [][SwitchNext]_switch_vars

---------------------------------------------------------------------------
\* An address space is counted once for its processes and once for every
\* thread that borrows it and every mmdrop() still due: none is freed while a
\* CPU uses it, and none is kept for ever.
MmCountExact ==
  /\ \A m \in Mm \cup {InitMm} :
       mm_count[m] = (IF m = InitMm \/ mm_users[m] > 0 THEN 1 ELSE 0)
                     + Cardinality({t \in Thread : mm[t] = None /\ active_mm[t] = m})
                     + Cardinality({c \in Cpu : prev_mm[c] = m})
                     + Cardinality({c \in Cpu : finish[c].mm = m})
  /\ \A c \in online : mm_count[active_mm[curr[c]]] > 0

\* The reference of a dead task to itself is dropped once, by the task that
\* ran next on the CPU where it died, and no CPU uses a task that is freed.
TaskPutOnce ==
  /\ \A t \in Task : state[t] # "gone" =>
       refs[t] = (IF t \in reaped THEN 0 ELSE 1)
                 + (IF state[t] # "dead" \/ t \in on_cpu
                       \/ \E c \in Cpu : finish[c].dead /\ finish[c].prev = t THEN 1 ELSE 0)
  /\ \A c \in Cpu : /\ state[curr[c]] # "gone"
                    /\ finish[c].at = "locked" => state[finish[c].prev] # "gone"

\* Address spaces and task structs are released once, and not too early.
ReferencesExact == MmCountExact /\ TaskPutOnce
=============================================================================
