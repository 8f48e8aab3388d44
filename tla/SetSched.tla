------------------------------ MODULE SetSched ------------------------------
(***************************************************************************)
(* The system calls around __sched_setscheduler() and set_user_nice(), of  *)
(* callers that race with each other.                                      *)
(*                                                                         *)
(* The body of __sched_setscheduler() is three steps: it reads the policy  *)
(* (sched_setparam() keeps it) and the reset flag without a lock, checks   *)
(* parameters and permissions against the task as it is a little later,    *)
(* and then acts under task_rq_lock(), where it may find that the policy   *)
(* it read is no longer the task's and start again.  sys_nice() computes   *)
(* the new level and sets it in two steps.                                 *)
(*                                                                         *)
(* What the locked step does to run queues and priorities is in SchedCore. *)
(***************************************************************************)
EXTENDS Integers

CONSTANTS
  Target,             \* the tasks that are changed
  Caller,           \* the threads that make calls
  Capable,          \* callers with CAP_SYS_NICE
  Owner,            \* pairs <<c, t>>: caller c has the user id of t
  Policy,           \* policies in use
  Priority,         \* sched_param.sched_priority values passed
  RlimitRtprio,     \* RLIMIT_RTPRIO of the tasks
  RlimitNice,       \* RLIMIT_NICE of the tasks
  MAX_USER_RT_PRIO,
  MinNice, MaxNice, \* -20 and 19
  Increment,        \* increments passed to nice()
  Keep              \* the policy -1 that sched_setparam() passes

ASSUME SetSchedAssumption ==
  /\ Policy \subseteq {"NORMAL", "IDLE", "FIFO", "RR", "WRR"}
  /\ Keep \notin Policy
  /\ MAX_USER_RT_PRIO \in Nat \ {0}
  /\ Priority \subseteq Int /\ Increment \subseteq Int
  /\ MinNice \in Int /\ MaxNice \in Int /\ MinNice <= 0 /\ 0 <= MaxNice

VARIABLES
  task,   \* the scheduling parameters of every task, and whether its group
          \* has RT runtime (or is an autogroup)
  call    \* the call every caller is in

vars == <<task, call>>

rt_policy(policy) == policy \in {"FIFO", "RR"}

\* A caller that is in no call; result is that of its last one.
NoCall(result) == [pc |-> "idle", result |-> result]

return(c, result) == call' = [call EXCEPT ![c] = NoCall(result)]

\* can_nice(): 20 - nice is the value RLIMIT_NICE bounds.
can_nice(c, nice) == MaxNice + 1 - nice <= RlimitNice \/ c \in Capable

-----------------------------------------------------------------------------
(* sched_setscheduler(), sched_setparam(), sched_setscheduler_nocheck()    *)

\* The unlocked reads at the label recheck.
read(c, t, policy, prio, reset, user) ==
  call' = [call EXCEPT ![c] =
             [pc |-> "read", t |-> t, arg |-> policy, prio |-> prio, user |-> user,
              policy |-> IF policy = Keep THEN task[t].policy ELSE policy,
              reset |-> IF policy = Keep THEN task[t].reset_on_fork ELSE reset]]

\* sys_sched_setscheduler() refuses negative policies, so that only
\* sched_setparam() keeps the policy.
SysSetscheduler(c, t, policy, prio, reset, user) ==
  /\ call[c].pc = "idle"
  /\ read(c, t, policy, prio, reset, user)
  /\ UNCHANGED task

\* The parameter check: a priority goes with an RT policy and only with one,
\* except that SCHED_WRR takes a weight.
valid_param(policy, prio) ==
  /\ prio \in 0..(MAX_USER_RT_PRIO - 1)
  /\ rt_policy(policy) = (prio # 0) \/ (policy = "WRR" /\ prio > 0)

\* What callers without CAP_SYS_NICE may do.
permitted(c, a, p) ==
  /\ rt_policy(a.policy) =>
       /\ a.policy = p.policy \/ RlimitRtprio # 0
       /\ a.prio <= p.rt_priority \/ a.prio <= RlimitRtprio
  /\ p.policy = "IDLE" /\ a.policy # "IDLE" => can_nice(c, p.nice)
  /\ <<c, a.t>> \in Owner
  /\ p.reset_on_fork => a.reset

Check(c) ==
  /\ call[c].pc = "read"
  /\ LET a == call[c]
     IN  \/ /\ ~valid_param(a.policy, a.prio)
            /\ return(c, "EINVAL")
         \/ /\ valid_param(a.policy, a.prio)
            /\ a.user /\ c \notin Capable /\ ~permitted(c, a, task[a.t])
            /\ return(c, "EPERM")
         \/ /\ valid_param(a.policy, a.prio)
            /\ a.user => c \in Capable \/ permitted(c, a, task[a.t])
            /\ call' = [call EXCEPT ![c].pc = "checked"]
  /\ UNCHANGED task

\* Fault: a weight from an earlier stay in the class is kept.
setscheduler_keeps_weight(p, policy, prio) ==
  IF policy # "WRR"
    THEN [p EXCEPT !.policy = policy, !.rt_priority = prio]
    ELSE [p EXCEPT !.policy = policy, !.rt_priority = 0,
                   !.weight = IF prio # 0 THEN prio ELSE @,
                   !.custom_weight = @ \/ prio # 0]

\* The part of __setscheduler() that sets the parameters.
setscheduler(p, policy, prio) ==
  IF policy # "WRR"
    THEN [p EXCEPT !.policy = policy, !.rt_priority = prio]
    ELSE [p EXCEPT !.policy = policy, !.rt_priority = 0,
                   !.weight = IF prio # 0 THEN prio ELSE 1, !.custom_weight = (prio # 0)]

\* Nothing changes: the early return under the lock.
unchanged(a, p) ==
  a.policy = p.policy /\ (~rt_policy(a.policy) \/ a.prio = p.rt_priority)

\* Fault: no second look at the policy.
never_recheck(a, p) == FALSE

\* The policy read before is no longer the task's.
must_recheck(a, p) == a.arg = Keep /\ a.policy # p.policy

\* goto recheck
retry(c, a) == read(c, a.t, Keep, a.prio, a.reset, a.user)

\* The critical section under task_rq_lock().
Locked(c) ==
  /\ call[c].pc = "checked"
  /\ LET a == call[c]
         p == task[a.t]
         no_runtime == a.user /\ rt_policy(a.policy) /\ ~p.has_runtime
     IN  \/ /\ unchanged(a, p)
            /\ return(c, "OK")
            /\ UNCHANGED task
         \/ /\ ~unchanged(a, p) /\ no_runtime
            /\ return(c, "EPERM")
            /\ UNCHANGED task
         \/ /\ ~unchanged(a, p) /\ ~no_runtime /\ must_recheck(a, p)
            /\ retry(c, a)
            /\ UNCHANGED task
         \/ /\ ~unchanged(a, p) /\ ~no_runtime /\ ~must_recheck(a, p)
            /\ task' = [task EXCEPT ![a.t] =
                          setscheduler([p EXCEPT !.reset_on_fork = a.reset], a.policy, a.prio)]
            /\ return(c, "OK")

-----------------------------------------------------------------------------
(* nice() and setpriority() *)

clamp(n) == IF n < MinNice THEN MinNice ELSE IF n > MaxNice THEN MaxNice ELSE n

\* sys_nice() of caller c, a thread of task t, up to the call of
\* set_user_nice().  (An increment is itself cut to -40..40 first, which is
\* wider than the levels and changes nothing.)
SysNice(c, t, increment) ==
  /\ call[c].pc = "idle"
  /\ <<c, t>> \in Owner
  /\ LET nice == clamp(task[t].nice + increment)
     IN  IF increment < 0 /\ ~can_nice(c, nice)
           THEN return(c, "EPERM")
           ELSE call' = [call EXCEPT ![c] = [pc |-> "nice", t |-> t, nice |-> nice]]
  /\ UNCHANGED task

\* setpriority() (external) checks and sets a level.
Setpriority(c, t, nice) ==
  /\ call[c].pc = "idle"
  /\ nice < task[t].nice => can_nice(c, nice)
  /\ call' = [call EXCEPT ![c] = [pc |-> "nice", t |-> t, nice |-> nice]]
  /\ UNCHANGED task

SetUserNice(c) ==
  /\ call[c].pc = "nice"
  /\ task' = [task EXCEPT ![call[c].t].nice = call[c].nice]
  /\ return(c, "OK")

-----------------------------------------------------------------------------
Init ==
  /\ \E runtime \in [Target -> BOOLEAN] :
       task = [t \in Target |-> [policy |-> "NORMAL", rt_priority |-> 0, nice |-> 0, weight |-> 0,
                               custom_weight |-> FALSE, reset_on_fork |-> FALSE,
                               has_runtime |-> runtime[t]]]
  /\ call = [c \in Caller |-> NoCall("OK")]

Next ==
  \E c \in Caller :
    \/ Check(c) \/ Locked(c) \/ SetUserNice(c)
    \/ \E t \in Target :
         \/ \E prio \in Priority, policy \in Policy, reset \in BOOLEAN :
              SysSetscheduler(c, t, policy, prio, reset, TRUE)
         \/ \E prio \in Priority : SysSetscheduler(c, t, Keep, prio, FALSE, TRUE)
         \/ \E prio \in Priority, policy \in Policy :   \* sched_setscheduler_nocheck()
              SysSetscheduler(c, t, policy, prio, FALSE, FALSE)
         \/ \E increment \in Increment : SysNice(c, t, increment)
         \/ \E nice \in MinNice..MaxNice : Setpriority(c, t, nice)

Spec == Init /\ [][Next]_vars

-----------------------------------------------------------------------------
\* Nice levels stay in their range whatever calls race.
NiceInRange == \A t \in Target : task[t].nice \in MinNice..MaxNice

\* A task has an RT priority exactly if it has an RT policy: a parameter
\* checked against one policy is never applied under another.
ParametersConsistent ==
  \A t \in Target :
    /\ rt_policy(task[t].policy) <=> task[t].rt_priority # 0
    /\ task[t].rt_priority \in 0..(MAX_USER_RT_PRIO - 1)
    /\ task[t].custom_weight => task[t].weight > 0

\* sched_setparam() never changes a policy, not even one that somebody else
\* sets between its unlocked read and its critical section.
SetparamKeepsPolicy ==
  [][\A c \in Caller : call[c].pc = "checked" /\ call'[c].pc # "checked" /\ call[c].arg = Keep
       => \A t \in Target : task'[t].policy = task[t].policy]_vars

\* The step of a call that ends it with success.
succeeds(c) == call[c].pc = "checked" /\ call'[c] = NoCall("OK")

\* A call that returns 0 leaves the task with the policy and the priority it
\* asked for, the early return for an unchanged task included.
SuccessMeansSet ==
  [][\A c \in Caller : succeeds(c) =>
       LET a == call[c]
           p == task'[a.t]
       IN  /\ a.arg # Keep => p.policy = a.arg
           /\ rt_policy(p.policy) => p.rt_priority = a.prio]_vars

\* The weight of a WRR task is the parameter of the call that brought it into
\* the class, a positive one as its own weight and 0 for that of its group,
\* whatever weight it had there before.  A later call that returns 0 changes
\* nothing: for an unchanged policy the early return comes first.
WeightSetOnEntry ==
  [][\A c \in Caller : succeeds(c) =>
       LET a == call[c]
           old == task[a.t]
           p == task'[a.t]
       IN  p.policy = "WRR" =>
             IF old.policy = "WRR"
             THEN p.weight = old.weight /\ p.custom_weight = old.custom_weight
             ELSE p.custom_weight = (a.prio # 0) /\ (a.prio # 0 => p.weight = a.prio)]_vars

\* "Setting this value to a non-negative value manually adjusts the weight of
\* the task, while setting it to 0 restores the original weighting convention"
\* (report.md), said of sched_setscheduler() and sched_setparam() alike.
ParamAdjustsWeight ==
  [][\A c \in Caller : succeeds(c) =>
       LET a == call[c]
           p == task'[a.t]
       IN  p.policy = "WRR" =>
             p.custom_weight = (a.prio # 0) /\ (a.prio # 0 => p.weight = a.prio)]_vars

\* However calls race, parameters are those of the policy they are applied
\* under, sched_setparam() changes no policy, and nice levels stay in range.
ParametersChecked == []NiceInRange /\ []ParametersConsistent /\ SetparamKeepsPolicy

\* A call that returns 0 has set what it was asked for, but for the weight of a
\* task that is WRR already.
SuccessSets == SuccessMeansSet /\ WeightSetOnEntry

=============================================================================
