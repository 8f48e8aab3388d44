------------------------------ MODULE Affinity ------------------------------
(***************************************************************************)
(* sched_setaffinity() against changes of the cpuset of the task: the mask *)
(* asked for is cut to the cpuset before it is set, and the cpuset may     *)
(* change in between.  The cpuset code is external; it publishes a new     *)
(* mask and then applies it to the tasks.  Both hold get_online_cpus().    *)
(***************************************************************************)
EXTENDS FiniteSets

CONSTANTS
  Cpu,      \* the online CPUs
  Caller,   \* threads that call sched_setaffinity() for the task
  Mask      \* masks they ask for, and masks given to the cpuset

\* A cpuset always has CPUs for its tasks.
ASSUME AffinityAssumption == Cpu # {} /\ {} \notin Mask

VARIABLES
  allowed,   \* p->cpus_allowed
  cpuset,    \* what cpuset_cpus_allowed() returns
  update,    \* the cpuset code has still to apply cpuset to the task
  call       \* the call every caller is in, with its new_mask

affinity_vars == <<allowed, cpuset, update, call>>

NoCall == [pc |-> "idle", new_mask |-> {}]

\* sys_sched_setaffinity() up to the label again: permissions are the caller's
\* choice of a task, the mask is cut to the cpuset.
SetAffinity(k, in_mask) ==
  /\ call[k] = NoCall
  /\ call' = [call EXCEPT ![k] = [pc |-> "again", new_mask |-> in_mask \cap cpuset]]
  /\ UNCHANGED <<allowed, cpuset, update>>

\* set_cpus_allowed_ptr(), which fails if no CPU is left.
Again(k) ==
  /\ call[k].pc = "again"
  /\ IF call[k].new_mask = {}
       THEN call' = [call EXCEPT ![k] = NoCall] /\ UNCHANGED allowed
       ELSE /\ allowed' = call[k].new_mask
            /\ call' = [call EXCEPT ![k].pc = "check"]
  /\ UNCHANGED <<cpuset, update>>

\* Fault: the cpuset is not looked at again.
check_nothing(k) == NoCall

\* The second look at the cpuset.
checked(k) ==
  IF call[k].new_mask \subseteq cpuset THEN NoCall
  ELSE [pc |-> "again", new_mask |-> cpuset]

Check(k) ==
  /\ call[k].pc = "check"
  /\ call' = [call EXCEPT ![k] = checked(k)]
  /\ UNCHANGED <<allowed, cpuset, update>>

\* cpuset code (external): the new mask shows first, and is applied later.
UpdateCpuset(mask) ==
  /\ ~update
  /\ cpuset # mask
  /\ cpuset' = mask
  /\ update' = TRUE
  /\ UNCHANGED <<allowed, call>>

ApplyCpuset ==
  /\ update
  /\ allowed' = cpuset
  /\ update' = FALSE
  /\ UNCHANGED <<cpuset, call>>

AffinityInit ==
  /\ allowed = Cpu /\ cpuset = Cpu /\ update = FALSE
  /\ call = [k \in Caller |-> NoCall]

AffinityNext ==
  \/ ApplyCpuset
  \/ \E mask \in Mask : UpdateCpuset(mask)
  \/ \E k \in Caller : Again(k) \/ Check(k) \/ \E mask \in Mask : SetAffinity(k, mask)

\* Calls go on, and so does an update.
AffinityFairness ==
  /\ WF_affinity_vars(ApplyCpuset)
  /\ \A k \in Caller : WF_affinity_vars(Again(k)) /\ WF_affinity_vars(Check(k))

AffinitySpec == AffinityInit /\ [][AffinityNext]_affinity_vars /\ AffinityFairness

-----------------------------------------------------------------------------
(* Properties *)

\* Type correctness: a mask is made of CPUs that somebody asked for.
AffinityTypeOK ==
  LET M == UNION ({Cpu} \cup Mask)
  IN  /\ allowed \subseteq M /\ cpuset \in {Cpu} \cup Mask /\ update \in BOOLEAN
      /\ call \in [Caller -> [pc : {"idle", "again", "check"}, new_mask : SUBSET M]]

\* When all is quiet the task runs inside its cpuset: a mask set from a stale
\* cpuset is noticed and replaced.
WithinCpuset ==
  ~update /\ (\A k \in Caller : call[k] = NoCall) => allowed \subseteq cpuset

\* The loop ends, once the cpuset stays as it is.
CallsEnd ==
  <>[][UNCHANGED cpuset]_affinity_vars => \A k \in Caller : []<>(call[k] = NoCall)

\* A call ends once the cpuset stays as it is, and when all is quiet the task is
\* inside its cpuset.
AffinityInCpuset == [](AffinityTypeOK /\ WithinCpuset) /\ CallsEnd

=============================================================================
