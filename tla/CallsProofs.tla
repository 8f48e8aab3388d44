----------------------------- MODULE CallsProofs ----------------------------
(***************************************************************************)
(* Proofs about SetSched for any callers, tasks, policies and parameters,  *)
(* about ContextSwitch for any tasks, address spaces and CPUs, and about   *)
(* SchedDomains for any CPUs and partitions and whatever fails.            *)
(***************************************************************************)
EXTENDS SetSched, ContextSwitch, SchedDomains, DataProofs

-----------------------------------------------------------------------------
(* SetSched *)

\* The policies tasks have: those set and that of boot.
Policies == Policy \cup {"NORMAL"}

Parameters ==
  [policy : Policies, rt_priority : Int, nice : Int, weight : Int, custom_weight : BOOLEAN,
   reset_on_fork : BOOLEAN, has_runtime : BOOLEAN]

\* The calls: none, one for parameters, one for a nice level.
Idles == [pc : {"idle"}, result : {"OK", "EINVAL", "EPERM"}]
ParamCalls ==
  [pc : {"read", "checked"}, t : Target, arg : Policy \cup {Keep}, prio : Int, user : BOOLEAN,
   policy : Policies, reset : BOOLEAN]
NiceCalls == [pc : {"nice"}, t : Target, nice : MinNice..MaxNice]

SetSchedTypes ==
  /\ task \in [Target -> Parameters]
  /\ call \in [Caller -> Idles \cup ParamCalls \cup NiceCalls]

\* A call is for the policy it was made for, and past the check it has
\* parameters of that policy.
CallRight(a) ==
  a.pc \in {"read", "checked"} =>
    /\ a.arg # Keep => a.policy = a.arg
    /\ a.pc = "checked" => valid_param(a.policy, a.prio)

\* The parameters of a task are consistent and its nice level is in range.
ParamsRight(p) ==
  /\ p.nice \in MinNice..MaxNice
  /\ rt_policy(p.policy) <=> p.rt_priority # 0
  /\ p.rt_priority \in 0..(MAX_USER_RT_PRIO - 1)
  /\ p.custom_weight => p.weight > 0

SetSchedInv ==
  /\ SetSchedTypes
  /\ \A c \in Caller : CallRight(call[c])
  /\ \A t \in Target : ParamsRight(task[t])

\* What one step of caller c keeps for the next.
Checked(c) ==
  /\ call[c].pc = "checked" /\ call'[c].pc # "checked" /\ call[c].arg = Keep
       => \A t \in Target : task'[t].policy = task[t].policy
  /\ succeeds(c) =>
       LET a == call[c]
           old == task[a.t]
           p == task'[a.t]
       IN  /\ a.arg # Keep => p.policy = a.arg
           /\ rt_policy(p.policy) => p.rt_priority = a.prio
           /\ p.policy = "WRR" =>
                IF old.policy = "WRR"
                THEN p.weight = old.weight /\ p.custom_weight = old.custom_weight
                ELSE p.custom_weight = (a.prio # 0) /\ (a.prio # 0 => p.weight = a.prio)

LEMMA SetSchedInit == Init => SetSchedInv
<1> SUFFICES ASSUME Init PROVE SetSchedInv
  OBVIOUS
<1>1. PICK runtime \in [Target -> BOOLEAN] :
        task = [t \in Target |-> [policy |-> "NORMAL", rt_priority |-> 0, nice |-> 0, weight |-> 0,
                                custom_weight |-> FALSE, reset_on_fork |-> FALSE,
                                has_runtime |-> runtime[t]]]
  BY DEF Init
<1>2. call = [c \in Caller |-> [pc |-> "idle", result |-> "OK"]]
  BY DEF Init, NoCall
<1>3. 0 \in MinNice..MaxNice /\ 0 \in 0..(MAX_USER_RT_PRIO - 1)
  BY SetSchedAssumption
<1>4. SetSchedTypes
  BY <1>1, <1>2 DEF SetSchedTypes, Parameters, Policies, Idles
<1>5. \A c \in Caller : CallRight(call[c])
  BY <1>2 DEF CallRight
<1>6. \A t \in Target : ParamsRight(task[t])
  BY <1>1, <1>3 DEF ParamsRight, rt_policy
<1> QED BY <1>4, <1>5, <1>6 DEF SetSchedInv

\* A step of one caller that leaves the tasks alone and does not end with success.
LEMMA CallStep ==
  ASSUME SetSchedInv, NEW c \in Caller, NEW a \in Idles \cup ParamCalls \cup NiceCalls,
         CallRight(a), call' = [call EXCEPT ![c] = a], task' = task,
         call[c].pc = "checked" => a # NoCall("OK")
  PROVE  SetSchedInv' /\ \A k \in Caller : Checked(k)
<1>1. /\ call'[c] = a
      /\ \A k \in Caller : k # c => call'[k] = call[k]
      /\ call' \in [Caller -> Idles \cup ParamCalls \cup NiceCalls]
  BY DEF SetSchedInv, SetSchedTypes
<1>2. SetSchedInv'
  BY <1>1 DEF SetSchedInv, SetSchedTypes
<1>3. ASSUME NEW k \in Caller, succeeds(k) PROVE FALSE
  <2>1. k # c
    BY <1>1, <1>3 DEF succeeds
  <2>2. call'[k].pc = "checked" /\ call'[k] = NoCall("OK")
    BY <1>1, <1>3, <2>1 DEF succeeds
  <2> QED BY <2>2 DEF NoCall
<1> QED BY <1>2, <1>3 DEF Checked

\* Where nothing changes nothing is to be kept.
LEMMA CallStutter ==
  ASSUME SetSchedInv, UNCHANGED vars
  PROVE  SetSchedInv' /\ \A k \in Caller : Checked(k)
<1>1. task' = task /\ call' = call
  BY DEF vars
<1>2. SetSchedInv'
  BY <1>1 DEF SetSchedInv, SetSchedTypes
<1>3. \A k \in Caller : ~succeeds(k)
  BY <1>1 DEF succeeds, NoCall
<1> QED BY <1>1, <1>2, <1>3 DEF Checked

\* The unlocked reads of a policy that may be Keep.
LEMMA ReadStep ==
  ASSUME SetSchedInv, NEW c \in Caller, NEW t \in Target, NEW policy \in Policy \cup {Keep},
         NEW prio \in Int, NEW reset \in BOOLEAN, NEW user \in BOOLEAN,
         read(c, t, policy, prio, reset, user), task' = task
  PROVE  SetSchedInv' /\ \A k \in Caller : Checked(k)
<1> DEFINE a == [pc |-> "read", t |-> t, arg |-> policy, prio |-> prio, user |-> user,
                 policy |-> IF policy = Keep THEN task[t].policy ELSE policy,
                 reset |-> IF policy = Keep THEN task[t].reset_on_fork ELSE reset]
<1>1. task[t].policy \in Policies /\ task[t].reset_on_fork \in BOOLEAN
  BY DEF SetSchedInv, SetSchedTypes, Parameters
<1>2. a \in ParamCalls
  BY <1>1 DEF ParamCalls, Policies
<1>3. CallRight(a) /\ a # NoCall("OK")
  BY DEF CallRight, NoCall
<1>4. call' = [call EXCEPT ![c] = a]
  BY DEF read
<1> HIDE DEF a
<1> QED BY <1>2, <1>3, <1>4, CallStep

LEMMA CheckStep ==
  ASSUME SetSchedInv, NEW c \in Caller, Check(c)
  PROVE  SetSchedInv' /\ \A k \in Caller : Checked(k)
<1> DEFINE a == call[c]
<1>0. a.pc = "read" /\ task' = task
  BY DEF Check
<1>1. a \in ParamCalls
  BY <1>0 DEF SetSchedInv, SetSchedTypes, Idles, NiceCalls
<1>2. CASE call' = [call EXCEPT ![c] = NoCall("EINVAL")]
  <2> DEFINE n == NoCall("EINVAL")
  <2>1. n \in Idles /\ CallRight(n) /\ n # NoCall("OK")
    BY DEF NoCall, Idles, CallRight
  <2> HIDE DEF n
  <2>2. call' = [call EXCEPT ![c] = n]
    BY <1>2 DEF n
  <2> QED BY <1>0, <2>1, <2>2, CallStep
<1>3. CASE call' = [call EXCEPT ![c] = NoCall("EPERM")]
  <2> DEFINE n == NoCall("EPERM")
  <2>1. n \in Idles /\ CallRight(n) /\ n # NoCall("OK")
    BY DEF NoCall, Idles, CallRight
  <2> HIDE DEF n
  <2>2. call' = [call EXCEPT ![c] = n]
    BY <1>3 DEF n
  <2> QED BY <1>0, <2>1, <2>2, CallStep
<1>4. CASE /\ valid_param(a.policy, a.prio)
           /\ call' = [call EXCEPT ![c].pc = "checked"]
  <2> DEFINE n == [a EXCEPT !.pc = "checked"]
  <2>1. /\ n \in ParamCalls /\ n.pc = "checked" /\ n.policy = a.policy /\ n.prio = a.prio
        /\ n.arg = a.arg
    BY <1>1 DEF ParamCalls
  <2>2. call' = [call EXCEPT ![c] = n]
    BY <1>4 DEF SetSchedInv, SetSchedTypes
  <2> HIDE DEF n
  <2>3. CallRight(n)
    <3>1. a.arg # Keep => a.policy = a.arg
      BY <1>0 DEF SetSchedInv, CallRight
    <3> QED BY <1>4, <2>1, <3>1 DEF CallRight
  <2> QED BY <1>0, <2>1, <2>2, <2>3, CallStep
<1> QED BY <1>2, <1>3, <1>4 DEF Check, return
\* What the critical section sets when it sets parameters.
LEMMA SetRight ==
  ASSUME NEW p \in Parameters, ParamsRight(p), NEW a \in ParamCalls, CallRight(a),
         a.pc = "checked", ~unchanged(a, p), ~must_recheck(a, p),
         NEW q, q = setscheduler([p EXCEPT !.reset_on_fork = a.reset], a.policy, a.prio)
  PROVE  /\ q \in Parameters /\ ParamsRight(q) /\ q.policy = a.policy
         /\ a.arg # Keep => q.policy = a.arg
         /\ a.arg = Keep => q.policy = p.policy
         /\ rt_policy(q.policy) => q.rt_priority = a.prio
         /\ q.policy = "WRR" =>
              /\ p.policy # "WRR"
              /\ q.custom_weight = (a.prio # 0) /\ (a.prio # 0 => q.weight = a.prio)
<1>1. /\ a.policy \in Policies /\ a.prio \in Int /\ a.reset \in BOOLEAN
      /\ valid_param(a.policy, a.prio)
      /\ a.arg # Keep => a.policy = a.arg
      /\ a.arg = Keep => a.policy = p.policy
  BY DEF CallRight, ParamCalls, must_recheck
<1>2. /\ a.prio \in 0..(MAX_USER_RT_PRIO - 1)
      /\ a.policy # "WRR" => (rt_policy(a.policy) <=> a.prio # 0)
  BY <1>1, SetSchedAssumption DEF valid_param
<1>3. a.policy = "WRR" => p.policy # "WRR"
  BY DEF unchanged, rt_policy
<1>4. p.nice \in MinNice..MaxNice
  BY DEF ParamsRight
<1>5. CASE a.policy # "WRR"
  <2>1. q = [[p EXCEPT !.reset_on_fork = a.reset] EXCEPT !.policy = a.policy, !.rt_priority = a.prio]
    BY <1>5 DEF setscheduler
  <2>2. /\ q \in Parameters /\ q.policy = a.policy /\ q.rt_priority = a.prio
        /\ q.nice = p.nice /\ q.custom_weight = p.custom_weight /\ q.weight = p.weight
    BY <2>1, <1>1 DEF Parameters
  <2>3. ParamsRight(q)
    BY <2>2, <1>2, <1>4, <1>5 DEF ParamsRight
  <2> QED BY <2>2, <2>3, <1>1, <1>5
<1>6. CASE a.policy = "WRR"
  <2> DEFINE w == IF a.prio # 0 THEN a.prio ELSE 1
  <2>1. q = [[p EXCEPT !.reset_on_fork = a.reset]
               EXCEPT !.policy = a.policy, !.rt_priority = 0,
                      !.weight = w, !.custom_weight = (a.prio # 0)]
    BY <1>6 DEF setscheduler
  <2>2. w \in Int /\ w > 0 /\ (a.prio # 0 => w = a.prio)
    BY <1>2, SetSchedAssumption
  <2> HIDE DEF w
  <2> DEFINE b == (a.prio # 0)
  <2>b. b \in BOOLEAN /\ b = (a.prio # 0)
    OBVIOUS
  <2> HIDE DEF b
  <2>q. q = [[p EXCEPT !.reset_on_fork = a.reset]
               EXCEPT !.policy = a.policy, !.rt_priority = 0, !.weight = w, !.custom_weight = b]
    BY <2>1, <2>b
  <2>t. /\ q \in Parameters /\ q.policy = a.policy /\ q.rt_priority = 0
        /\ q.nice = p.nice /\ q.custom_weight = b /\ q.weight = w
    <3>1. PICK r : r = [p EXCEPT !.reset_on_fork = a.reset]
      OBVIOUS
    <3>2. r \in Parameters /\ r.nice = p.nice
      BY <3>1, <1>1 DEF Parameters
    <3>3. PICK s, zero : zero = 0 /\ s = [r EXCEPT !.policy = a.policy, !.rt_priority = zero]
      OBVIOUS
    <3>z. a.policy \in Policies /\ zero \in Int
      BY <3>3, <1>1
    <3>s. s \in Parameters /\ s.nice = p.nice /\ s.policy = a.policy /\ s.rt_priority = zero
      BY <3>2, <3>3, <3>z DEF Parameters
    <3>4. s \in Parameters /\ s.nice = p.nice /\ s.policy = a.policy /\ s.rt_priority = 0
      BY <3>s, <3>3
    <3>5. q = [s EXCEPT !.weight = w, !.custom_weight = b]
      BY <2>q, <3>1, <3>2, <3>3, Zenon DEF Parameters
    <3> QED BY <3>4, <3>5, <2>2, <2>b DEF Parameters
  <2>3. /\ q \in Parameters /\ q.policy = a.policy /\ q.rt_priority = 0
        /\ q.nice = p.nice /\ q.custom_weight = (a.prio # 0) /\ q.weight = w
    BY <2>t, <2>b
  <2>4. ~rt_policy(q.policy) /\ 0 \in 0..(MAX_USER_RT_PRIO - 1)
    BY <2>3, <1>6, SetSchedAssumption DEF rt_policy
  <2>5. ParamsRight(q)
    BY <2>2, <2>3, <2>4, <1>4 DEF ParamsRight
  <2> QED BY <2>2, <2>3, <2>4, <2>5, <1>1, <1>3, <1>6
<1> QED BY <1>5, <1>6

\* The three ends of the critical section that leave the task alone.
LEMMA LockedKeeps ==
  ASSUME SetSchedInv, NEW c \in Caller, call[c].pc = "checked", task' = task,
         NEW n \in Idles, call' = [call EXCEPT ![c] = n],
         n = NoCall("OK") => unchanged(call[c], task[call[c].t])
  PROVE  SetSchedInv' /\ \A k \in Caller : Checked(k)
<1>1. /\ call'[c] = n
      /\ \A k \in Caller : k # c => call'[k] = call[k]
      /\ call' \in [Caller -> Idles \cup ParamCalls \cup NiceCalls]
  BY DEF SetSchedInv, SetSchedTypes
<1>2. n.pc = "idle" /\ CallRight(n)
  BY DEF Idles, CallRight
<1>3. SetSchedInv'
  BY <1>1, <1>2 DEF SetSchedInv, SetSchedTypes
<1>4. ASSUME NEW k \in Caller, succeeds(k) PROVE k = c /\ n = NoCall("OK")
  <2>1. call[k].pc = "checked" /\ call'[k] = NoCall("OK")
    BY <1>4 DEF succeeds
  <2>2. k = c
    BY <2>1, <1>1 DEF NoCall
  <2> QED BY <2>1, <2>2, <1>1
<1>5. call[c] \in ParamCalls /\ CallRight(call[c])
  BY DEF SetSchedInv, SetSchedTypes, Idles, NiceCalls
<1> DEFINE a == call[c]
           p == task[a.t]
<1>6. ASSUME unchanged(a, p)
      PROVE  /\ a.arg # Keep => p.policy = a.arg
             /\ rt_policy(p.policy) => p.rt_priority = a.prio
  BY <1>5, <1>6 DEF unchanged, CallRight
<1> QED BY <1>3, <1>4, <1>6 DEF Checked

\* The end of the critical section that sets parameters.
LEMMA LockedSets ==
  ASSUME SetSchedInv, NEW c \in Caller, call[c].pc = "checked",
         call' = [call EXCEPT ![c] = NoCall("OK")],
         ~unchanged(call[c], task[call[c].t]), ~must_recheck(call[c], task[call[c].t]),
         task' = [task EXCEPT ![call[c].t] =
                    setscheduler([task[call[c].t] EXCEPT !.reset_on_fork = call[c].reset],
                                 call[c].policy, call[c].prio)]
  PROVE  SetSchedInv' /\ \A k \in Caller : Checked(k)
<1>1. PICK a \in ParamCalls : a = call[c]
  BY DEF SetSchedInv, SetSchedTypes, Idles, NiceCalls
<1>2. PICK p \in Parameters : p = task[a.t]
  BY DEF SetSchedInv, SetSchedTypes, ParamCalls
<1>3. CallRight(a) /\ ParamsRight(p) /\ a.t \in Target
  BY <1>1, <1>2 DEF SetSchedInv, ParamCalls
<1>4. PICK q : q = setscheduler([p EXCEPT !.reset_on_fork = a.reset], a.policy, a.prio)
  OBVIOUS
<1>5. /\ q \in Parameters /\ ParamsRight(q) /\ q.policy = a.policy
      /\ a.arg # Keep => q.policy = a.arg
      /\ a.arg = Keep => q.policy = p.policy
      /\ rt_policy(q.policy) => q.rt_priority = a.prio
      /\ q.policy = "WRR" =>
           /\ p.policy # "WRR"
           /\ q.custom_weight = (a.prio # 0) /\ (a.prio # 0 => q.weight = a.prio)
  BY <1>1, <1>2, <1>3, <1>4, SetRight
<1>6. task' = [task EXCEPT ![a.t] = q]
  BY <1>1, <1>2, <1>4
<1>7. /\ task'[a.t] = q
      /\ \A t \in Target : t # a.t => task'[t] = task[t]
      /\ task' \in [Target -> Parameters]
  BY <1>3, <1>5, <1>6 DEF SetSchedInv, SetSchedTypes
<1> DEFINE n == NoCall("OK")
<1>8. n \in Idles /\ CallRight(n) /\ n.pc = "idle"
  BY DEF NoCall, Idles, CallRight
<1>9. /\ call'[c] = n
      /\ \A k \in Caller : k # c => call'[k] = call[k]
      /\ call' \in [Caller -> Idles \cup ParamCalls \cup NiceCalls]
  BY <1>8 DEF SetSchedInv, SetSchedTypes
<1> HIDE DEF n
<1>10. SetSchedInv'
  BY <1>3, <1>5, <1>7, <1>8, <1>9 DEF SetSchedInv, SetSchedTypes
<1>11. \A t \in Target : a.arg = Keep => task'[t].policy = task[t].policy
  BY <1>2, <1>5, <1>7
<1>12. ASSUME NEW k \in Caller PROVE Checked(k)
  <2>1. CASE k = c
    BY <2>1, <1>1, <1>2, <1>5, <1>7, <1>11 DEF Checked
  <2>2. CASE k # c
    <3>1. ~succeeds(k) /\ call'[k].pc = call[k].pc
      BY <2>2, <1>9 DEF succeeds, NoCall
    <3> QED BY <3>1 DEF Checked
  <2> QED BY <2>1, <2>2
<1> QED BY <1>10, <1>12

LEMMA LockedStep ==
  ASSUME SetSchedInv, NEW c \in Caller, Locked(c)
  PROVE  SetSchedInv' /\ \A k \in Caller : Checked(k)
<1> DEFINE a == call[c]
           p == task[a.t]
<1>1. a.pc = "checked" /\ a \in ParamCalls
  BY DEF Locked, SetSchedInv, SetSchedTypes, Idles, NiceCalls
<1>2. CASE unchanged(a, p) /\ return(c, "OK") /\ UNCHANGED task
  <2>1. NoCall("OK") \in Idles
    BY DEF NoCall, Idles
  <2> QED BY <1>1, <1>2, <2>1, LockedKeeps DEF return
<1>3. CASE return(c, "EPERM") /\ UNCHANGED task
  <2>1. NoCall("EPERM") \in Idles /\ NoCall("EPERM") # NoCall("OK")
    BY DEF NoCall, Idles
  <2> QED BY <1>1, <1>3, <2>1, LockedKeeps DEF return
<1>4. CASE retry(c, a) /\ UNCHANGED task
  <2>1. read(c, a.t, Keep, a.prio, a.reset, a.user)
    BY <1>4 DEF retry
  <2>2. a.t \in Target /\ a.prio \in Int /\ a.reset \in BOOLEAN /\ a.user \in BOOLEAN
    BY <1>1 DEF ParamCalls
  <2> HIDE DEF a
  <2> QED BY <1>4, <2>1, <2>2, ReadStep
<1>5. CASE /\ ~unchanged(a, p) /\ ~must_recheck(a, p)
           /\ task' = [task EXCEPT ![a.t] =
                         setscheduler([p EXCEPT !.reset_on_fork = a.reset], a.policy, a.prio)]
           /\ return(c, "OK")
  BY <1>1, <1>5, LockedSets DEF return
<1> QED BY <1>2, <1>3, <1>4, <1>5 DEF Locked
LEMMA NiceCallStep ==
  ASSUME SetSchedInv, NEW c \in Caller, NEW t \in Target, NEW nice \in MinNice..MaxNice,
         call[c].pc = "idle", task' = task,
         call' = [call EXCEPT ![c] = [pc |-> "nice", t |-> t, nice |-> nice]]
  PROVE  SetSchedInv' /\ \A k \in Caller : Checked(k)
<1> DEFINE n == [pc |-> "nice", t |-> t, nice |-> nice]
<1>1. n \in NiceCalls /\ CallRight(n)
  BY DEF NiceCalls, CallRight
<1>2. call' = [call EXCEPT ![c] = n] /\ call[c].pc # "checked"
  OBVIOUS
<1> HIDE DEF n
<1> QED BY <1>1, <1>2, CallStep

LEMMA SysNiceStep ==
  ASSUME SetSchedInv, NEW c \in Caller, NEW t \in Target, NEW increment \in Increment,
         SysNice(c, t, increment)
  PROVE  SetSchedInv' /\ \A k \in Caller : Checked(k)
<1> DEFINE nice == clamp(task[t].nice + increment)
<1>1. nice \in MinNice..MaxNice
  BY SetSchedAssumption DEF SetSchedInv, SetSchedTypes, Parameters, clamp
<1>2. call[c].pc = "idle" /\ task' = task
  BY DEF SysNice
<1>3. CASE return(c, "EPERM")
  <2> DEFINE n == NoCall("EPERM")
  <2>1. n \in Idles /\ CallRight(n) /\ call[c].pc # "checked"
    BY <1>2 DEF NoCall, Idles, CallRight
  <2>2. call' = [call EXCEPT ![c] = n]
    BY <1>3 DEF return
  <2> HIDE DEF n
  <2> QED BY <1>2, <2>1, <2>2, CallStep
<1>4. CASE call' = [call EXCEPT ![c] = [pc |-> "nice", t |-> t, nice |-> nice]]
  <2> HIDE DEF nice
  <2> QED BY <1>1, <1>2, <1>4, NiceCallStep
<1> QED BY <1>3, <1>4 DEF SysNice

LEMMA SetUserNiceStep ==
  ASSUME SetSchedInv, NEW c \in Caller, SetUserNice(c)
  PROVE  SetSchedInv' /\ \A k \in Caller : Checked(k)
<1>1. PICK a \in NiceCalls : a = call[c]
  BY DEF SetUserNice, SetSchedInv, SetSchedTypes, Idles, ParamCalls
<1>2. a.t \in Target /\ a.nice \in MinNice..MaxNice /\ a.pc = "nice"
  BY DEF NiceCalls
<1>3. PICK p \in Parameters : p = task[a.t] /\ ParamsRight(p)
  BY <1>2 DEF SetSchedInv, SetSchedTypes
<1>4. PICK q : q = [p EXCEPT !.nice = a.nice]
  OBVIOUS
<1>5. /\ q.policy = p.policy /\ q.rt_priority = p.rt_priority
      /\ q.custom_weight = p.custom_weight /\ q.weight = p.weight /\ q.nice = a.nice
      /\ q \in Parameters
  BY <1>2, <1>4, SetSchedAssumption DEF Parameters
<1>6. ParamsRight(q)
  BY <1>2, <1>3, <1>5 DEF ParamsRight
<1>7. task' = [task EXCEPT ![a.t] = q]
  BY <1>1, <1>3, <1>4 DEF SetUserNice, SetSchedInv, SetSchedTypes
<1>8. /\ task'[a.t] = q
      /\ \A t \in Target : t # a.t => task'[t] = task[t]
      /\ task' \in [Target -> Parameters]
  BY <1>2, <1>5, <1>7 DEF SetSchedInv, SetSchedTypes
<1> DEFINE n == NoCall("OK")
<1>9. n \in Idles /\ CallRight(n)
  BY DEF NoCall, Idles, CallRight
<1>10. /\ call'[c] = n
       /\ \A k \in Caller : k # c => call'[k] = call[k]
       /\ call' \in [Caller -> Idles \cup ParamCalls \cup NiceCalls]
  BY <1>9 DEF SetUserNice, return, SetSchedInv, SetSchedTypes
<1> HIDE DEF n
<1>11. SetSchedInv'
  BY <1>2, <1>6, <1>8, <1>9, <1>10 DEF SetSchedInv, SetSchedTypes
<1>12. ASSUME NEW k \in Caller PROVE Checked(k)
  <2>1. CASE k = c
    BY <2>1, <1>1, <1>2 DEF Checked, succeeds
  <2>2. CASE k # c
    <3>1. ~succeeds(k) /\ call'[k].pc = call[k].pc
      BY <2>2, <1>10 DEF succeeds, NoCall
    <3> QED BY <3>1 DEF Checked
  <2> QED BY <2>1, <2>2
<1> QED BY <1>11, <1>12

LEMMA SetSchedStep ==
  ASSUME SetSchedInv, [Next]_vars
  PROVE  SetSchedInv' /\ \A k \in Caller : Checked(k)
<1>1. CASE UNCHANGED vars
  BY <1>1, CallStutter
<1>2. CASE Next
  <2>1. PICK c \in Caller :
          \/ Check(c) \/ Locked(c) \/ SetUserNice(c)
          \/ \E t \in Target :
               \/ \E prio \in Priority, policy \in Policy, reset \in BOOLEAN :
                    SysSetscheduler(c, t, policy, prio, reset, TRUE)
               \/ \E prio \in Priority : SysSetscheduler(c, t, Keep, prio, FALSE, TRUE)
               \/ \E prio \in Priority, policy \in Policy :
                    SysSetscheduler(c, t, policy, prio, FALSE, FALSE)
               \/ \E increment \in Increment : SysNice(c, t, increment)
               \/ \E nice \in MinNice..MaxNice : Setpriority(c, t, nice)
    BY <1>2 DEF Next
  <2>2. CASE Check(c)
    BY <2>2, CheckStep
  <2>3. CASE Locked(c)
    BY <2>3, LockedStep
  <2>4. CASE SetUserNice(c)
    BY <2>4, SetUserNiceStep
  <2>5. ASSUME NEW t \in Target, NEW prio \in Priority, NEW policy \in Policy \cup {Keep},
               NEW reset \in BOOLEAN, NEW user \in BOOLEAN,
               SysSetscheduler(c, t, policy, prio, reset, user)
        PROVE  SetSchedInv' /\ \A k \in Caller : Checked(k)
    <3>1. prio \in Int
      BY SetSchedAssumption
    <3> QED BY <2>5, <3>1, ReadStep DEF SysSetscheduler
  <2>6. ASSUME NEW t \in Target, NEW nice \in MinNice..MaxNice, Setpriority(c, t, nice)
        PROVE  SetSchedInv' /\ \A k \in Caller : Checked(k)
    BY <2>6, NiceCallStep DEF Setpriority
  <2>7. ASSUME NEW t \in Target, NEW increment \in Increment, SysNice(c, t, increment)
        PROVE  SetSchedInv' /\ \A k \in Caller : Checked(k)
    BY <2>7, SysNiceStep
  <2>8. Keep \in Policy \cup {Keep} /\ Policy \subseteq Policy \cup {Keep}
    OBVIOUS
  <2> HIDE DEF SetSchedInv, Checked
  <2> QED BY ONLY <2>1, <2>2, <2>3, <2>4, <2>5, <2>6, <2>7, <2>8
<1> QED BY <1>1, <1>2

\* What Checked says of every caller is what the action properties say.
LEMMA CheckedProperties ==
  ASSUME \A c \in Caller : Checked(c)
  PROVE  /\ \A c \in Caller :
              call[c].pc = "checked" /\ call'[c].pc # "checked" /\ call[c].arg = Keep
              => \A t \in Target : task'[t].policy = task[t].policy
         /\ \A c \in Caller : succeeds(c) =>
              LET a == call[c]
                  p == task'[a.t]
              IN  /\ a.arg # Keep => p.policy = a.arg
                  /\ rt_policy(p.policy) => p.rt_priority = a.prio
         /\ \A c \in Caller : succeeds(c) =>
              LET a == call[c]
                  old == task[a.t]
                  p == task'[a.t]
              IN  p.policy = "WRR" =>
                    IF old.policy = "WRR"
                    THEN p.weight = old.weight /\ p.custom_weight = old.custom_weight
                    ELSE p.custom_weight = (a.prio # 0) /\ (a.prio # 0 => p.weight = a.prio)
BY Zenon DEF Checked

\* However the system calls of any callers race, the policy, priority, nice
\* level and weight of a task go together and sched_setparam() changes no
\* policy: what __sched_setscheduler() checked before it took the lock is what
\* it sets, or it looks again.
THEOREM ParametersCorrect == Spec => ParametersChecked
<1>1. Spec => []SetSchedInv
  <2>1. SetSchedInv /\ [Next]_vars => SetSchedInv'
    BY SetSchedStep
  <2> QED BY <2>1, SetSchedInit, PTL DEF Spec
<1>2. SetSchedInv => NiceInRange /\ ParametersConsistent
  BY DEF SetSchedInv, ParamsRight, NiceInRange, ParametersConsistent
<1>3. SetSchedInv /\ [Next]_vars =>
        \A c \in Caller :
          call[c].pc = "checked" /\ call'[c].pc # "checked" /\ call[c].arg = Keep
          => \A t \in Target : task'[t].policy = task[t].policy
  BY SetSchedStep, CheckedProperties
<1> QED BY <1>1, <1>2, <1>3, PTL DEF Spec, ParametersChecked, SetparamKeepsPolicy

\* A call of __sched_setscheduler() that returns 0 leaves the task with the
\* policy and priority asked for, and one that brings a task into WRR with the
\* weight asked for; the weight of a task already there stays as it was.
THEOREM SuccessCorrect == Spec => SuccessSets
<1>1. Spec => []SetSchedInv
  <2>1. SetSchedInv /\ [Next]_vars => SetSchedInv'
    BY SetSchedStep
  <2> QED BY <2>1, SetSchedInit, PTL DEF Spec
<1>2. SetSchedInv /\ [Next]_vars =>
        /\ \A c \in Caller : succeeds(c) =>
             LET a == call[c]
                 p == task'[a.t]
             IN  /\ a.arg # Keep => p.policy = a.arg
                 /\ rt_policy(p.policy) => p.rt_priority = a.prio
        /\ \A c \in Caller : succeeds(c) =>
             LET a == call[c]
                 old == task[a.t]
                 p == task'[a.t]
             IN  p.policy = "WRR" =>
                   IF old.policy = "WRR"
                   THEN p.weight = old.weight /\ p.custom_weight = old.custom_weight
                   ELSE p.custom_weight = (a.prio # 0) /\ (a.prio # 0 => p.weight = a.prio)
  BY SetSchedStep, CheckedProperties
<1> QED BY <1>1, <1>2, PTL DEF Spec, SuccessSets, SuccessMeansSet, WeightSetOnEntry

-----------------------------------------------------------------------------
(* ContextSwitch: counting *)

-----------------------------------------------------------------------------
(* Counting *)

Count(D, f, m) == Cardinality({x \in D : f[x] = m})

one(b) == IF b THEN 1 ELSE 0

LEMMA CountType ==
  ASSUME NEW D, IsFiniteSet(D), NEW f, NEW m
  PROVE  /\ Count(D, f, m) \in Nat
         /\ \A x \in D : f[x] = m => Count(D, f, m) > 0
         /\ (\A x \in D : f[x] # m) => Count(D, f, m) = 0
<1> DEFINE S == {x \in D : f[x] = m}
<1>1. IsFiniteSet(S)
  BY FS_Subset
<1>2. Cardinality(S) \in Nat /\ (Cardinality(S) = 0 <=> S = {})
  BY <1>1, FS_CardinalityType, FS_EmptySet
<1> QED BY <1>2 DEF Count

LEMMA CountSame ==
  ASSUME NEW D, NEW f, NEW g, \A x \in D : g[x] = f[x], NEW m
  PROVE  Count(D, g, m) = Count(D, f, m)
<1>1. {x \in D : g[x] = m} = {x \in D : f[x] = m}
  OBVIOUS
<1> QED BY <1>1 DEF Count

\* One element changes.
LEMMA CountUpdate ==
  ASSUME NEW D, IsFiniteSet(D), NEW f, NEW g, NEW a \in D, \A x \in D \ {a} : g[x] = f[x], NEW m
  PROVE  Count(D, g, m) = Count(D, f, m) - one(f[a] = m) + one(g[a] = m)
<1> DEFINE S == {x \in D \ {a} : f[x] = m}
<1>1. IsFiniteSet(S) /\ a \notin S /\ Cardinality(S) \in Nat
  <2>1. S \subseteq D
    OBVIOUS
  <2>2. IsFiniteSet(S)
    BY <2>1, FS_Subset
  <2> QED BY <2>2, FS_CardinalityType
<1>2. Cardinality(S \cup {a}) = Cardinality(S) + 1
  BY <1>1, FS_AddElement
<1>3. {x \in D : f[x] = m} = IF f[a] = m THEN S \cup {a} ELSE S
  OBVIOUS
<1>4. {x \in D : g[x] = m} = IF g[a] = m THEN S \cup {a} ELSE S
  OBVIOUS
<1> HIDE DEF S
<1>5. Count(D, f, m) = Cardinality(S) + one(f[a] = m)
  BY <1>1, <1>2, <1>3 DEF Count, one
<1>6. Count(D, g, m) = Cardinality(S) + one(g[a] = m)
  BY <1>1, <1>2, <1>4 DEF Count, one
<1> QED BY <1>1, <1>5, <1>6 DEF one

-----------------------------------------------------------------------------
(* The inductive invariant *)

AnyMm == Mm \cup {InitMm}

\* The address space a thread without one of its own has borrowed.
lent == [t \in Thread |-> IF mm[t] = None THEN active_mm[t] ELSE None]

\* The mmdrop() that is due on a CPU after the lock was released.
dropping == [c \in Cpu |-> finish[c].mm]

own(m) == IF m = InitMm \/ mm_users[m] > 0 THEN 1 ELSE 0

Types ==
  /\ curr \in [Cpu -> Thread] /\ online \subseteq Cpu
  /\ on_cpu \subseteq Thread
  /\ state \in [Thread -> {"run", "sleep", "dead", "gone"}]
  /\ mm \in [Thread -> Mm \cup {None}]
  /\ active_mm \in [Thread -> AnyMm \cup {None}]
  /\ mm_users \in [Mm -> Int] /\ mm_count \in [AnyMm -> Int]
  /\ prev_mm \in [Cpu -> AnyMm \cup {None}]
  /\ finish \in [Cpu -> [at : {"done", "locked", "unlocked"}, prev : Thread,
                         mm : AnyMm \cup {None}, dead : BOOLEAN]]
  /\ refs \in [Thread -> Int] /\ reaped \subseteq Task

\* A CPU has the thread it runs and the one it has not finished switching from,
\* and no other CPU has them.
has(c) == {curr[c]} \cup (IF finish[c].at = "locked" THEN {finish[c].prev} ELSE {})

CpusOK ==
  /\ \A c \in Cpu : \A t \in has(c) : t \in on_cpu /\ (t \in Task \/ t = idle(c))
  /\ \A c \in Cpu, d \in Cpu : c # d => has(c) \cap has(d) = {}
  /\ \A c \in Cpu : finish[c].at = "locked" => finish[c].prev # curr[c]
  /\ \A c \in Cpu \ online : curr[c] = idle(c) /\ finish[c].at = "done"

\* What a CPU has still to do: while the lock is held it is in rq->prev_mm,
\* then in the local variables of finish_task_switch().
FinishOK ==
  \A c \in Cpu :
    /\ finish[c].at # "locked" => prev_mm[c] = None
    /\ finish[c].at # "unlocked" => finish[c].mm = None /\ ~finish[c].dead
    /\ finish[c].dead =>
         /\ finish[c].prev \in Task \ on_cpu /\ state[finish[c].prev] = "dead"
         /\ \A d \in Cpu : finish[d].dead /\ finish[d].prev = finish[c].prev => d = c

\* A thread uses its own address space or has none, and borrows one only while
\* it runs; a dead task has given up its own and one that is freed is on no CPU.
ThreadsOK ==
  /\ \A c \in Cpu : mm[idle(c)] = None /\ state[idle(c)] = "run"
  /\ \A t \in Thread : mm[t] # None => active_mm[t] = mm[t] /\ state[t] \notin {"dead", "gone"}
  /\ \A t \in Thread :
       mm[t] = None /\ active_mm[t] # None => \E c \in online : curr[c] = t
  /\ \A c \in online : active_mm[curr[c]] # None
  /\ \A t \in on_cpu : state[t] # "gone"

CountsOK ==
  /\ \A m \in Mm : mm_users[m] = Count(Thread, mm, m)
  /\ \A m \in AnyMm : mm_count[m] = own(m) + Count(Thread, lent, m) + Count(Cpu, prev_mm, m)
                                    + Count(Cpu, dropping, m)

\* A task still has its own reference, or is about to put it.
holds_itself(t) ==
  state[t] # "dead" \/ t \in on_cpu \/ \E c \in Cpu : finish[c].dead /\ finish[c].prev = t

RefsOK ==
  \A t \in Task : state[t] # "gone" =>
    refs[t] = (IF t \in reaped THEN 0 ELSE 1) + (IF holds_itself(t) THEN 1 ELSE 0)

IndInv == Types /\ CpusOK /\ FinishOK /\ ThreadsOK /\ CountsOK /\ RefsOK

LEMMA Finite ==
  ASSUME SwitchAssumption
  PROVE  /\ IsFiniteSet(Cpu) /\ IsFiniteSet(Thread)
         /\ Cardinality({idle(c) : c \in Cpu}) = NrCpus
<1> DEFINE I == {idle(c) : c \in Cpu}
<1>1. IsFiniteSet(Cpu) /\ Cardinality(Cpu) = NrCpus
  BY FS_Interval DEF SwitchAssumption, Cpu
<1>2. [c \in Cpu |-> idle(c)] \in Bijection(Cpu, I)
  BY DEF Bijection, Injection, Surjection, IsInjective, idle
<1>3. ExistsBijection(Cpu, I)
  BY <1>2 DEF ExistsBijection
<1>4. IsFiniteSet(I) /\ Cardinality(I) = Cardinality(Cpu)
  BY <1>1, <1>3, FS_Bijection
<1> QED BY <1>1, <1>4, FS_Union DEF SwitchAssumption, Thread

\* What the assumption says of names.
LEMMA Names ==
  ASSUME SwitchAssumption
  PROVE  /\ None \notin AnyMm /\ InitMm \notin Mm /\ Mm \subseteq AnyMm /\ InitMm \in AnyMm
         /\ Task \subseteq Thread /\ \A c \in Cpu : idle(c) \in Thread /\ idle(c) \notin Task
         /\ \A c \in Cpu, d \in Cpu : idle(c) = idle(d) => c = d
<1>1. None # InitMm
  BY DEF None, InitMm
<1> QED BY <1>1 DEF SwitchAssumption, AnyMm, Thread, idle

LEMMA LentIs ==
  ASSUME NEW t \in Thread
  PROVE  lent[t] = (IF mm[t] = None THEN active_mm[t] ELSE None)
         /\ lent'[t] = (IF mm'[t] = None THEN active_mm'[t] ELSE None)
BY DEF lent

LEMMA DroppingIs ==
  ASSUME NEW c \in Cpu
  PROVE  dropping[c] = finish[c].mm /\ dropping'[c] = finish'[c].mm
BY DEF dropping

\* Where the threads are and what they use, of one CPU that is not switching.
LEMMA Elsewhere ==
  ASSUME SwitchAssumption, IndInv, NEW t \in Thread, \A c \in Cpu : t \notin has(c), mm[t] = None
  PROVE  active_mm[t] = None
BY DEF IndInv, ThreadsOK, has, Types

LEMMA CurrIs ==
  ASSUME SwitchAssumption, IndInv, NEW c \in Cpu
  PROVE  /\ curr[c] \in Thread /\ curr[c] \in on_cpu /\ curr[c] \in has(c)
         /\ curr[c] \in Task \/ curr[c] = idle(c)
         /\ \A d \in Cpu : d # c => curr[d] # curr[c] /\ curr[c] \notin has(d)
BY DEF IndInv, CpusOK, has, Types

\* A CPU that has finished its last switch.
LEMMA FinishedIs ==
  ASSUME SwitchAssumption, IndInv, NEW c \in Cpu, finish[c].at = "done"
  PROVE  has(c) = {curr[c]} /\ prev_mm[c] = None /\ finish[c].mm = None /\ ~finish[c].dead
BY DEF IndInv, FinishOK, has, Types

-----------------------------------------------------------------------------
(* The switch *)

\* The thread a CPU switches to is on no CPU and has borrowed nothing.
LEMMA NextIs ==
  ASSUME SwitchAssumption, IndInv, NEW c \in Cpu, NEW n \in Thread, Switch(c, n)
  PROVE  /\ \A d \in Cpu : n \notin has(d)
         /\ n \in Task \/ n = idle(c)
         /\ n # curr[c] /\ state[n] = "run"
         /\ mm[n] = None => active_mm[n] = None
         /\ mm[n] # None => active_mm[n] = mm[n]
         /\ c \in online /\ finish[c].at = "done"
<1>1. c \in online /\ finish[c].at = "done" /\ n # curr[c]
  BY DEF Switch
<1>2. n = idle(c) \/ (n \in Task /\ state[n] = "run" /\ n \notin on_cpu)
  BY DEF Switch
<1>3. \A d \in Cpu : n \notin has(d)
  <2> SUFFICES ASSUME NEW d \in Cpu PROVE n \notin has(d)
    OBVIOUS
  <2>1. CASE d = c
    BY <1>1, <2>1, FinishedIs
  <2>2. CASE d # c
    BY <1>2, <2>2, Names DEF IndInv, CpusOK
  <2> QED BY <2>1, <2>2
<1>4. state[n] = "run"
  BY <1>2 DEF IndInv, ThreadsOK
<1>5. mm[n] # None => active_mm[n] = mm[n]
  BY DEF IndInv, ThreadsOK
<1> QED BY <1>1, <1>2, <1>3, <1>4, <1>5, Elsewhere

\* What a switch does, one component at a time.
Switched(c, n) ==
  LET prev == curr[c]
      old == active_mm[prev]
  IN /\ curr'[c] = n /\ \A d \in Cpu \ {c} : curr'[d] = curr[d]
     /\ on_cpu' = on_cpu \cup {n}
     /\ active_mm'[n] = (IF mm[n] = None THEN old ELSE active_mm[n])
     /\ active_mm'[prev] = (IF mm[prev] = None THEN None ELSE active_mm[prev])
     /\ \A t \in Thread \ {n, prev} : active_mm'[t] = active_mm[t]
     /\ \A m \in AnyMm : mm_count'[m] = mm_count[m] + one(mm[n] = None /\ m = old)
     /\ prev_mm'[c] = (IF mm[prev] = None THEN old ELSE None)
     /\ \A d \in Cpu \ {c} : prev_mm'[d] = prev_mm[d]
     /\ finish'[c] = [at |-> "locked", prev |-> prev, mm |-> None, dead |-> FALSE]
     /\ \A d \in Cpu \ {c} : finish'[d] = finish[d]
     /\ mm' = mm /\ mm_users' = mm_users
     /\ prev \in Thread /\ old \in AnyMm
     /\ Types'

LEMMA SwitchEffect ==
  ASSUME SwitchAssumption, IndInv, NEW c \in Cpu, NEW n \in Thread, Switch(c, n)
  PROVE  Switched(c, n)
<1> DEFINE prev == curr[c]
           old == active_mm[prev]
<1>1. Types /\ prev \in Thread /\ c \in online
  BY DEF IndInv, Types, Switch
<1>2. old \in AnyMm
  BY <1>1 DEF IndInv, ThreadsOK, Types
<1>3. /\ curr' = [curr EXCEPT ![c] = n] /\ on_cpu' = on_cpu \cup {n}
      /\ active_mm' = [t \in Thread |-> CASE t = n /\ mm[n] = None -> old
                                          [] t = prev /\ mm[prev] = None -> None
                                          [] OTHER -> active_mm[t]]
      /\ mm_count' = (IF mm[n] = None THEN [mm_count EXCEPT ![old] = @ + 1] ELSE mm_count)
      /\ prev_mm' = (IF mm[prev] = None THEN [prev_mm EXCEPT ![c] = old] ELSE prev_mm)
      /\ finish' = [finish EXCEPT ![c] = [at |-> "locked", prev |-> prev, mm |-> None, dead |-> FALSE]]
      /\ UNCHANGED <<online, state, mm, mm_users, refs, reaped>>
  BY DEF Switch, put_lazily
<1>4. n # prev /\ prev_mm[c] = None
  BY NextIs, FinishedIs
<1>6. \A m \in AnyMm : mm_count[m] \in Int
  BY <1>1 DEF Types
<1> HIDE DEF prev, old
<1>7. /\ curr'[c] = n /\ (\A d \in Cpu \ {c} : curr'[d] = curr[d]) /\ curr' \in [Cpu -> Thread]
  BY <1>1, <1>3 DEF Types
<1>8. /\ active_mm'[n] = (IF mm[n] = None THEN old ELSE active_mm[n])
      /\ active_mm'[prev] = (IF mm[prev] = None THEN None ELSE active_mm[prev])
      /\ \A t \in Thread \ {n, prev} : active_mm'[t] = active_mm[t]
  BY <1>1, <1>3, <1>4
<1>9. active_mm' \in [Thread -> AnyMm \cup {None}]
  <2>1. \A t \in Thread : active_mm'[t] \in AnyMm \cup {None}
    BY <1>1, <1>2, <1>8 DEF Types
  <2> QED BY <1>3, <2>1
<1>10. /\ \A m \in AnyMm : mm_count'[m] = mm_count[m] + one(mm[n] = None /\ m = old)
       /\ mm_count' \in [AnyMm -> Int]
  BY <1>1, <1>2, <1>3, <1>6 DEF one, Types
<1>11. /\ prev_mm'[c] = (IF mm[prev] = None THEN old ELSE None)
       /\ \A d \in Cpu \ {c} : prev_mm'[d] = prev_mm[d]
       /\ prev_mm' \in [Cpu -> AnyMm \cup {None}]
  BY <1>1, <1>2, <1>3, <1>4 DEF Types
<1>12. /\ finish'[c] = [at |-> "locked", prev |-> prev, mm |-> None, dead |-> FALSE]
       /\ \A d \in Cpu \ {c} : finish'[d] = finish[d]
       /\ finish' \in [Cpu -> [at : {"done", "locked", "unlocked"}, prev : Thread,
                               mm : AnyMm \cup {None}, dead : BOOLEAN]]
  BY <1>1, <1>3 DEF Types
<1>13. Types'
  BY <1>1, <1>3, <1>7, <1>9, <1>10, <1>11, <1>12 DEF Types
<1> QED BY <1>1, <1>2, <1>3, <1>7, <1>8, <1>10, <1>11, <1>12, <1>13 DEF prev, old, Switched

LEMMA SwitchThreads ==
  ASSUME SwitchAssumption, IndInv, NEW c \in Cpu, NEW n \in Thread, Switch(c, n)
  PROVE  CpusOK' /\ FinishOK' /\ ThreadsOK' /\ RefsOK'
<1> DEFINE prev == curr[c]
           old == active_mm[prev]
<1>1. /\ curr'[c] = n /\ \A d \in Cpu \ {c} : curr'[d] = curr[d]
      /\ on_cpu' = on_cpu \cup {n}
      /\ active_mm'[n] = (IF mm[n] = None THEN old ELSE active_mm[n])
      /\ active_mm'[prev] = (IF mm[prev] = None THEN None ELSE active_mm[prev])
      /\ \A t \in Thread \ {n, prev} : active_mm'[t] = active_mm[t]
      /\ prev_mm'[c] = (IF mm[prev] = None THEN old ELSE None)
      /\ \A d \in Cpu \ {c} : prev_mm'[d] = prev_mm[d]
      /\ \A d \in Cpu \ {c} : finish'[d] = finish[d]
      /\ online' = online /\ state' = state /\ mm' = mm /\ refs' = refs /\ reaped' = reaped
      /\ prev \in Thread /\ old \in AnyMm
  <2>1. online' = online /\ state' = state /\ mm' = mm /\ refs' = refs /\ reaped' = reaped
    BY DEF Switch
  <2>2. Switched(c, n)
    BY SwitchEffect
  <2> QED BY <2>1, <2>2 DEF Switched
<1>0. Types
  BY DEF IndInv
<1>2. finish'[c].at = "locked" /\ finish'[c].prev = prev /\ finish'[c].mm = None /\ ~finish'[c].dead
  <2>1. finish'[c] = [at |-> "locked", prev |-> prev, mm |-> None, dead |-> FALSE]
    BY SwitchEffect DEF Switched
  <2> QED BY <2>1
<1>3. /\ \A d \in Cpu : n \notin has(d)
      /\ n \in Task \/ n = idle(c)
      /\ n # prev /\ state[n] = "run" /\ c \in online
      /\ mm[n] # None => active_mm[n] = mm[n]
      /\ has(c) = {prev} /\ ~finish[c].dead
  BY NextIs, FinishedIs
<1>4. has(c)' = {n, prev} /\ \A d \in Cpu \ {c} : has(d)' = has(d)
  BY <1>1, <1>2 DEF has
<1>5. CpusOK /\ FinishOK /\ ThreadsOK /\ RefsOK
  BY DEF IndInv
<1> HIDE DEF prev, old
<1>6. CpusOK'
  <2>1. \A d \in Cpu : \A t \in has(d)' : t \in on_cpu' /\ (t \in Task \/ t = idle(d))
    BY <1>1, <1>3, <1>4, <1>5 DEF CpusOK
  <2>2. \A d \in Cpu, e \in Cpu : d # e => has(d)' \cap has(e)' = {}
    <3>1. \A d \in Cpu \ {c} : has(d)' \cap has(c)' = {}
      BY <1>3, <1>4, <1>5 DEF CpusOK
    <3>2. \A d \in Cpu \ {c}, e \in Cpu \ {c} : d # e => has(d)' \cap has(e)' = {}
      BY <1>4, <1>5 DEF CpusOK
    <3> QED BY <3>1, <3>2
  <2>3. \A d \in Cpu : finish'[d].at = "locked" => finish'[d].prev # curr'[d]
    BY <1>1, <1>2, <1>3, <1>5 DEF CpusOK
  <2>4. \A d \in Cpu \ online' : curr'[d] = idle(d) /\ finish'[d].at = "done"
    BY <1>1, <1>3, <1>5 DEF CpusOK
  <2> QED BY <2>1, <2>2, <2>3, <2>4 DEF CpusOK
<1>7. FinishOK'
  <2> SUFFICES ASSUME NEW d \in Cpu
               PROVE  /\ finish'[d].at # "locked" => prev_mm'[d] = None
                      /\ finish'[d].at # "unlocked" => finish'[d].mm = None /\ ~finish'[d].dead
                      /\ finish'[d].dead =>
                           /\ finish'[d].prev \in Task \ on_cpu' /\ state'[finish'[d].prev] = "dead"
                           /\ \A e \in Cpu : finish'[e].dead /\ finish'[e].prev = finish'[d].prev => e = d
    BY DEF FinishOK
  <2>1. CASE d = c
    BY <1>2, <2>1
  <2>2. CASE d # c
    <3>1. finish'[d] = finish[d] /\ prev_mm'[d] = prev_mm[d]
      BY <1>1, <2>2
    <3>2. \A e \in Cpu : finish'[e].dead => finish[e].dead /\ finish'[e].prev = finish[e].prev
      BY <1>1, <1>2
    <3>3. finish[d].dead => finish[d].prev # n
      BY <1>3, <1>5 DEF FinishOK
    <3> QED BY <1>1, <1>5, <3>1, <3>2, <3>3 DEF FinishOK
  <2> QED BY <2>1, <2>2
<1>8. ThreadsOK'
  <2>1. \A d \in Cpu : mm'[idle(d)] = None /\ state'[idle(d)] = "run"
    BY <1>1, <1>5 DEF ThreadsOK
  <2>2. \A t \in Thread : mm'[t] # None => active_mm'[t] = mm'[t] /\ state'[t] \notin {"dead", "gone"}
    BY <1>1, <1>3, <1>5 DEF ThreadsOK
  <2>3. ASSUME NEW t \in Thread, mm'[t] = None, active_mm'[t] # None
        PROVE  \E d \in online' : curr'[d] = t
    <3>1. CASE t = n
      BY <1>1, <1>3, <3>1
    <3>2. CASE t # n
      <4>1. t # prev
        BY <1>1, <2>3, <3>2
      <4>2. PICK d \in online : curr[d] = t
        BY <1>1, <1>5, <2>3, <3>2, <4>1 DEF ThreadsOK
      <4>3. d # c /\ d \in Cpu
        BY <1>0, <1>1, <4>1, <4>2 DEF prev, Types
      <4> QED BY <1>1, <4>2, <4>3
    <3> QED BY <3>1, <3>2
  <2>4. ASSUME NEW d \in online'
        PROVE  active_mm'[curr'[d]] # None
    <3>0. d \in Cpu /\ d \in online
      BY <1>0, <1>1 DEF Types
    <3>1. CASE d = c
      BY <1>1, <1>3, <3>1, Names
    <3>2. CASE d # c
      <4>1. curr[d] # n /\ curr[d] # prev /\ curr[d] \in Thread
        BY <1>3, <3>0, <3>2, CurrIs DEF prev
      <4> QED BY <1>1, <1>5, <3>0, <3>2, <4>1 DEF ThreadsOK
    <3> QED BY <3>1, <3>2
  <2>5. \A t \in on_cpu' : state'[t] # "gone"
    BY <1>1, <1>3, <1>5 DEF ThreadsOK
  <2> QED BY <2>1, <2>2, <2>3, <2>4, <2>5 DEF ThreadsOK
<1>9. RefsOK'
  <2>1. \A t \in Task : holds_itself(t)' <=> holds_itself(t)
    <3>1. \A t \in Task : \A d \in Cpu : finish'[d].dead /\ finish'[d].prev = t
                                          <=> finish[d].dead /\ finish[d].prev = t
      BY <1>1, <1>2, <1>3
    <3> QED BY <1>1, <1>3, <3>1 DEF holds_itself
  <2> QED BY <1>1, <1>5, <2>1 DEF RefsOK
<1> QED BY <1>6, <1>7, <1>8, <1>9

LEMMA SwitchCounts ==
  ASSUME SwitchAssumption, IndInv, NEW c \in Cpu, NEW n \in Thread, Switch(c, n)
  PROVE  CountsOK'
<1> DEFINE prev == curr[c]
           old == active_mm[prev]
<1>1. /\ active_mm'[n] = (IF mm[n] = None THEN old ELSE active_mm[n])
      /\ active_mm'[prev] = (IF mm[prev] = None THEN None ELSE active_mm[prev])
      /\ \A t \in Thread \ {n, prev} : active_mm'[t] = active_mm[t]
      /\ \A m \in AnyMm : mm_count'[m] = mm_count[m] + one(mm[n] = None /\ m = old)
      /\ prev_mm'[c] = (IF mm[prev] = None THEN old ELSE None)
      /\ \A d \in Cpu \ {c} : prev_mm'[d] = prev_mm[d]
      /\ finish'[c] = [at |-> "locked", prev |-> prev, mm |-> None, dead |-> FALSE]
      /\ \A d \in Cpu \ {c} : finish'[d] = finish[d]
      /\ mm' = mm /\ mm_users' = mm_users
      /\ prev \in Thread /\ old \in AnyMm
  <2>1. Switched(c, n)
    BY SwitchEffect
  <2> QED BY <2>1 DEF Switched
<1>2. /\ n # prev /\ (mm[n] = None => active_mm[n] = None)
      /\ prev_mm[c] = None /\ finish[c].mm = None
  BY NextIs, FinishedIs
<1>3. CountsOK
  BY DEF IndInv
<1> HIDE DEF prev, old
<1>4. /\ lent[n] = None /\ lent'[n] = (IF mm[n] = None THEN old ELSE None)
      /\ lent[prev] = (IF mm[prev] = None THEN active_mm[prev] ELSE None) /\ lent'[prev] = None
      /\ \A t \in Thread \ {n, prev} : lent'[t] = lent[t]
  BY <1>1, <1>2, LentIs
<1>5. \A d \in Cpu : dropping'[d] = dropping[d]
  BY <1>1, <1>2, DroppingIs
<1>6. ASSUME NEW m \in AnyMm
      PROVE  mm_count'[m] = own(m)' + Count(Thread, lent', m) + Count(Cpu, prev_mm', m)
                            + Count(Cpu, dropping', m)
  <2>0. IsFiniteSet(Thread) /\ IsFiniteSet(Cpu) /\ m # None
    BY Finite, Names
  <2> DEFINE k == [lent EXCEPT ![n] = lent'[n]]
  <2>1. /\ k[n] = lent'[n] /\ k[prev] = lent[prev]
        /\ \A t \in Thread \ {n} : k[t] = lent[t]
        /\ \A t \in Thread \ {prev} : lent'[t] = k[t]
    BY <1>1, <1>2, <1>4 DEF lent
  <2> HIDE DEF k
  <2>2. Count(Thread, k, m) = Count(Thread, lent, m) - one(lent[n] = m) + one(k[n] = m)
    BY <2>0, <2>1, CountUpdate DEF one
  <2>3. Count(Thread, lent', m) = Count(Thread, k, m) - one(k[prev] = m) + one(lent'[prev] = m)
    <3>1. prev \in Thread
      BY <1>1
    <3> QED BY <2>0, <2>1, <3>1, CountUpdate DEF one
  <2>4. Count(Cpu, prev_mm', m) = Count(Cpu, prev_mm, m) - one(prev_mm[c] = m) + one(prev_mm'[c] = m)
    <3>1. \A d \in Cpu \ {c} : prev_mm'[d] = prev_mm[d]
      BY <1>1
    <3> QED BY <2>0, <3>1, CountUpdate DEF one
  <2>5. Count(Cpu, dropping', m) = Count(Cpu, dropping, m)
    BY <1>5, CountSame
  <2>6. own(m)' = own(m) /\ own(m) \in Int
    BY <1>1 DEF own
  <2>7. mm_count[m] = own(m) + Count(Thread, lent, m) + Count(Cpu, prev_mm, m)
                      + Count(Cpu, dropping, m)
    BY <1>3 DEF CountsOK
  <2>8. /\ Count(Thread, lent, m) \in Int /\ Count(Cpu, prev_mm, m) \in Int
        /\ Count(Cpu, dropping, m) \in Int
    BY <2>0, CountType
  <2>9. active_mm[prev] = old
    BY DEF old
  <2>10. /\ one(lent[n] = m) = 0 /\ one(k[n] = m) = one(mm[n] = None /\ m = old)
         /\ one(k[prev] = m) = one(mm[prev] = None /\ m = old) /\ one(lent'[prev] = m) = 0
         /\ one(prev_mm[c] = m) = 0 /\ one(prev_mm'[c] = m) = one(mm[prev] = None /\ m = old)
    BY <1>1, <1>2, <1>4, <2>0, <2>1, <2>9 DEF one
  <2>11. mm_count'[m] = mm_count[m] + one(mm[n] = None /\ m = old)
    BY <1>1
  <2>12. one(mm[n] = None /\ m = old) \in Int /\ one(mm[prev] = None /\ m = old) \in Int
    BY DEF one
  <2> QED BY ONLY <2>2, <2>3, <2>4, <2>5, <2>6, <2>7, <2>8, <2>10, <2>11, <2>12
<1> QED BY <1>1, <1>3, <1>6 DEF CountsOK

LEMMA StepSwitch ==
  ASSUME SwitchAssumption, IndInv, NEW c \in Cpu, NEW n \in Thread, Switch(c, n)
  PROVE  IndInv'
BY SwitchEffect, SwitchThreads, SwitchCounts DEF IndInv, Switched

-----------------------------------------------------------------------------
(* The other steps *)

\* The counts after a step that changes at most one thread and one CPU.
LEMMA CountsFollow ==
  ASSUME SwitchAssumption, IndInv, NEW a \in Thread, NEW c \in Cpu,
         \A t \in Thread \ {a} : mm'[t] = mm[t] /\ active_mm'[t] = active_mm[t],
         \A d \in Cpu \ {c} : prev_mm'[d] = prev_mm[d] /\ finish'[d].mm = finish[d].mm,
         \A m \in Mm : mm_users'[m] = mm_users[m] - one(mm[a] = m) + one(mm'[a] = m),
         \A m \in AnyMm :
           mm_count'[m] = mm_count[m] - own(m) + own(m)' - one(lent[a] = m) + one(lent'[a] = m)
                          - one(prev_mm[c] = m) + one(prev_mm'[c] = m)
                          - one(finish[c].mm = m) + one(finish'[c].mm = m)
  PROVE  CountsOK'
<1>1. IsFiniteSet(Thread) /\ IsFiniteSet(Cpu) /\ CountsOK
  BY Finite DEF IndInv
<1>2. \A t \in Thread \ {a} : lent'[t] = lent[t]
  BY LentIs
<1>3. /\ dropping[c] = finish[c].mm /\ dropping'[c] = finish'[c].mm
      /\ \A d \in Cpu \ {c} : dropping'[d] = dropping[d]
  BY DroppingIs
<1>4. ASSUME NEW m \in Mm PROVE mm_users'[m] = Count(Thread, mm', m)
  <2>1. Count(Thread, mm', m) = Count(Thread, mm, m) - one(mm[a] = m) + one(mm'[a] = m)
    <3>1. a \in Thread /\ \A t \in Thread \ {a} : mm'[t] = mm[t]
      OBVIOUS
    <3> QED BY ONLY <1>1, <3>1, CountUpdate DEF one
  <2> QED BY <1>1, <2>1 DEF CountsOK
<1>5. ASSUME NEW m \in AnyMm
      PROVE  mm_count'[m] = own(m)' + Count(Thread, lent', m) + Count(Cpu, prev_mm', m)
                            + Count(Cpu, dropping', m)
  <2>1. Count(Thread, lent', m) = Count(Thread, lent, m) - one(lent[a] = m) + one(lent'[a] = m)
    <3>1. IsFiniteSet(Thread) /\ a \in Thread /\ \A t \in Thread \ {a} : lent'[t] = lent[t]
      BY <1>1, <1>2
    <3> QED BY ONLY <3>1, CountUpdate DEF one
  <2>2. Count(Cpu, prev_mm', m) = Count(Cpu, prev_mm, m) - one(prev_mm[c] = m) + one(prev_mm'[c] = m)
    <3>1. c \in Cpu /\ \A d \in Cpu \ {c} : prev_mm'[d] = prev_mm[d]
      OBVIOUS
    <3> QED BY ONLY <1>1, <3>1, CountUpdate DEF one
  <2>3. Count(Cpu, dropping', m) = Count(Cpu, dropping, m) - one(dropping[c] = m) + one(dropping'[c] = m)
    <3>1. c \in Cpu /\ \A d \in Cpu \ {c} : dropping'[d] = dropping[d]
      BY <1>3
    <3> QED BY ONLY <1>1, <3>1, CountUpdate DEF one
  <2>4. mm_count[m] = own(m) + Count(Thread, lent, m) + Count(Cpu, prev_mm, m)
                      + Count(Cpu, dropping, m)
    BY <1>1 DEF CountsOK
  <2>5. /\ Count(Thread, lent, m) \in Int /\ Count(Cpu, prev_mm, m) \in Int
        /\ Count(Cpu, dropping, m) \in Int
    BY <1>1, CountType
  <2>6. own(m) \in Int /\ own(m)' \in Int
    BY DEF own
  <2>7. /\ one(lent[a] = m) \in Int /\ one(lent'[a] = m) \in Int
        /\ one(prev_mm[c] = m) \in Int /\ one(prev_mm'[c] = m) \in Int
        /\ one(finish[c].mm = m) \in Int /\ one(finish'[c].mm = m) \in Int
    BY DEF one
  <2>8. mm_count'[m] = mm_count[m] - own(m) + own(m)' - one(lent[a] = m) + one(lent'[a] = m)
                       - one(prev_mm[c] = m) + one(prev_mm'[c] = m)
                       - one(finish[c].mm = m) + one(finish'[c].mm = m)
    OBVIOUS
  <2> QED BY ONLY <1>3, <2>1, <2>2, <2>3, <2>4, <2>5, <2>6, <2>7, <2>8
<1> QED BY <1>4, <1>5 DEF CountsOK

LEMMA StepFinishLocked ==
  ASSUME SwitchAssumption, IndInv, NEW c \in Cpu, FinishLocked(c)
  PROVE  IndInv'
<1> DEFINE prev == finish[c].prev
           new == [at |-> "unlocked", prev |-> prev, mm |-> prev_mm[c], dead |-> state[prev] = "dead"]
<1>1. /\ finish[c].at = "locked" /\ finish' = [finish EXCEPT ![c] = new]
      /\ prev_mm' = [prev_mm EXCEPT ![c] = None] /\ on_cpu' = on_cpu \ {prev}
      /\ UNCHANGED <<curr, online, state, mm, active_mm, mm_users, mm_count, refs, reaped>>
  BY DEF FinishLocked
<1>2. Types /\ CpusOK /\ FinishOK /\ ThreadsOK /\ RefsOK
  BY DEF IndInv
<1>3. /\ prev \in has(c) /\ prev \in on_cpu /\ prev \in Thread /\ prev # curr[c]
      /\ prev \in Task \/ prev = idle(c)
      /\ finish[c].mm = None /\ ~finish[c].dead
  BY <1>1, <1>2 DEF CpusOK, FinishOK, has, Types
<1>4. /\ finish'[c].at = "unlocked" /\ finish'[c].prev = prev /\ finish'[c].mm = prev_mm[c]
      /\ finish'[c].dead <=> state[prev] = "dead"
  <2>1. finish'[c] = new
    BY <1>1, <1>2 DEF Types
  <2>2. finish'[c] = [at |-> "unlocked", prev |-> prev, mm |-> prev_mm[c], dead |-> state[prev] = "dead"]
    BY <2>1
  <2> HIDE DEF new, prev
  <2>3. finish'[c].dead = (state[prev] = "dead")
    BY ONLY <2>2
  <2>4. finish'[c].at = "unlocked" /\ finish'[c].prev = prev /\ finish'[c].mm = prev_mm[c]
    BY ONLY <2>2
  <2> QED BY ONLY <2>3, <2>4
<1>5. /\ \A d \in Cpu \ {c} : finish'[d] = finish[d] /\ prev_mm'[d] = prev_mm[d]
      /\ prev_mm'[c] = None
  BY <1>1, <1>2 DEF Types
<1>6. Types'
  <2>1. new \in [at : {"done", "locked", "unlocked"}, prev : Thread,
                 mm : AnyMm \cup {None}, dead : BOOLEAN]
    BY <1>2, <1>3 DEF Types
  <2> HIDE DEF new, prev
  <2> QED BY <1>1, <1>2, <2>1 DEF Types
<1> HIDE DEF new, prev
<1>7. has(c)' = {curr[c]} /\ \A d \in Cpu \ {c} : has(d)' = has(d)
  BY <1>1, <1>4, <1>5 DEF has
<1>8. CpusOK'
  <2>1. \A d \in Cpu : has(d)' \subseteq has(d) /\ prev \notin has(d)'
    <3>1. has(c)' \subseteq has(c) /\ prev \notin has(c)'
      BY <1>3, <1>7 DEF has
    <3>2. \A d \in Cpu \ {c} : has(d)' \subseteq has(d) /\ prev \notin has(d)'
      BY <1>2, <1>3, <1>7 DEF CpusOK
    <3> QED BY <3>1, <3>2
  <2>2. \A d \in Cpu : \A t \in has(d)' : t \in on_cpu' /\ (t \in Task \/ t = idle(d))
    BY <1>1, <1>2, <2>1 DEF CpusOK
  <2>3. \A d \in Cpu, e \in Cpu : d # e => has(d)' \cap has(e)' = {}
    BY <1>2, <2>1 DEF CpusOK
  <2>4. \A d \in Cpu : finish'[d].at = "locked" => finish'[d].prev # curr'[d]
    BY <1>1, <1>2, <1>4, <1>5 DEF CpusOK
  <2>5. \A d \in Cpu \ online' : curr'[d] = idle(d) /\ finish'[d].at = "done"
    BY <1>1, <1>2, <1>5 DEF CpusOK
  <2> QED BY <2>2, <2>3, <2>4, <2>5 DEF CpusOK
<1>9. \A d \in Cpu \ {c} : finish[d].dead => finish[d].prev # prev
  BY <1>2, <1>3 DEF FinishOK
<1>10. FinishOK'
  <2> SUFFICES ASSUME NEW d \in Cpu
               PROVE  /\ finish'[d].at # "locked" => prev_mm'[d] = None
                      /\ finish'[d].at # "unlocked" => finish'[d].mm = None /\ ~finish'[d].dead
                      /\ finish'[d].dead =>
                           /\ finish'[d].prev \in Task \ on_cpu' /\ state'[finish'[d].prev] = "dead"
                           /\ \A e \in Cpu : finish'[e].dead /\ finish'[e].prev = finish'[d].prev => e = d
    BY DEF FinishOK
  <2>1. CASE d = c
    <3>1. finish'[c].dead => prev \in Task \ on_cpu' /\ state'[prev] = "dead"
      BY <1>1, <1>2, <1>3, <1>4 DEF ThreadsOK
    <3>2. \A e \in Cpu : finish'[e].dead /\ finish'[e].prev = prev => e = c
      BY <1>5, <1>9
    <3> QED BY <1>4, <1>5, <2>1, <3>1, <3>2
  <2>2. CASE d # c
    <3>1. finish'[d] = finish[d] /\ prev_mm'[d] = prev_mm[d]
      BY <1>5, <2>2
    <3>2. \A e \in Cpu : finish'[e].dead /\ finish'[e].prev = finish[d].prev /\ finish[d].dead => e = d
      BY <1>2, <1>4, <1>5, <1>9, <2>2 DEF FinishOK
    <3> QED BY <1>1, <1>2, <3>1, <3>2 DEF FinishOK
  <2> QED BY <2>1, <2>2
<1>11. ThreadsOK'
  BY <1>1, <1>2 DEF ThreadsOK
<1>12. RefsOK'
  <2>1. ASSUME NEW t \in Task PROVE holds_itself(t)' <=> holds_itself(t)
    <3>1. CASE t = prev
      BY <1>1, <1>3, <1>4, <3>1 DEF holds_itself
    <3>2. CASE t # prev
      BY <1>1, <1>3, <1>4, <1>5, <3>2 DEF holds_itself
    <3> QED BY <3>1, <3>2
  <2> QED BY <1>1, <1>2, <2>1 DEF RefsOK
<1>13. CountsOK'
  <2>1. curr[c] \in Thread
    BY CurrIs
  <2>2. ASSUME NEW m \in AnyMm
        PROVE  mm_count'[m] = mm_count[m] - own(m) + own(m)'
                 - one(lent[curr[c]] = m) + one(lent'[curr[c]] = m)
                 - one(prev_mm[c] = m) + one(prev_mm'[c] = m)
                 - one(finish[c].mm = m) + one(finish'[c].mm = m)
    <3>1. m # None /\ mm_count[m] \in Int
      BY <1>2, Names DEF Types
    <3>2. own(m)' = own(m) /\ own(m) \in Int
      BY <1>1 DEF own
    <3>3. lent'[curr[c]] = lent[curr[c]]
      BY <1>1, <2>1, LentIs
    <3> QED BY <1>1, <1>3, <1>4, <1>5, <3>1, <3>2, <3>3 DEF one
  <2>3. \A m \in Mm : mm_users'[m] = mm_users[m] - one(mm[curr[c]] = m) + one(mm'[curr[c]] = m)
    BY <1>1, <1>2 DEF Types, one
  <2>4. \A d \in Cpu \ {c} : prev_mm'[d] = prev_mm[d] /\ finish'[d].mm = finish[d].mm
    BY <1>5
  <2>5. \A t \in Thread \ {curr[c]} : mm'[t] = mm[t] /\ active_mm'[t] = active_mm[t]
    BY <1>1
  <2> QED BY <2>1, <2>2, <2>3, <2>4, <2>5, CountsFollow
<1> QED BY <1>6, <1>8, <1>10, <1>11, <1>12, <1>13 DEF IndInv

LEMMA StepFinishUnlocked ==
  ASSUME SwitchAssumption, IndInv, NEW c \in Cpu, FinishUnlocked(c)
  PROVE  IndInv'
<1> DEFINE prev == finish[c].prev
           last == finish[c].mm
           dead == finish[c].dead
<1>1. /\ finish[c].at = "unlocked" /\ finish' = [finish EXCEPT ![c] = Done]
      /\ mm_count' = IF last = None THEN mm_count ELSE [mm_count EXCEPT ![last] = @ - 1]
      /\ dead => /\ refs' = [refs EXCEPT ![prev] = @ - 1]
                 /\ state' = IF refs[prev] = 1 THEN [state EXCEPT ![prev] = "gone"] ELSE state
      /\ ~dead => UNCHANGED <<refs, state>>
      /\ UNCHANGED <<curr, online, on_cpu, mm, active_mm, mm_users, prev_mm, reaped>>
  BY DEF FinishUnlocked, mmdrop, prev_was_dead
<1>2. Types /\ CpusOK /\ FinishOK /\ ThreadsOK /\ RefsOK
  BY DEF IndInv
<1>3. /\ Done.at = "done" /\ Done.mm = None /\ Done.dead = FALSE
      /\ Done \in [at : {"done", "locked", "unlocked"}, prev : Thread,
                   mm : AnyMm \cup {None}, dead : BOOLEAN]
  <2>1. 1 \in Cpu
    BY DEF SwitchAssumption, Cpu
  <2>2. idle(1) \in Thread
    BY <2>1, Names
  <2> QED BY <2>2 DEF Done
<1>4. /\ finish'[c].at = "done" /\ finish'[c].mm = None /\ ~finish'[c].dead
      /\ \A d \in Cpu \ {c} : finish'[d] = finish[d]
  BY <1>1, <1>2, <1>3 DEF Types
<1>5. /\ prev \in Thread /\ last \in AnyMm \cup {None} /\ dead \in BOOLEAN
      /\ dead => /\ prev \in Task \ on_cpu /\ state[prev] = "dead" /\ mm[prev] = None
                 /\ \A d \in Cpu : finish[d].dead /\ finish[d].prev = prev => d = c
  BY <1>2 DEF FinishOK, ThreadsOK, Types
<1>6. Types'
  <2>1. finish' \in [Cpu -> [at : {"done", "locked", "unlocked"}, prev : Thread,
                             mm : AnyMm \cup {None}, dead : BOOLEAN]]
    BY <1>1, <1>2, <1>3 DEF Types
  <2>2. mm_count' \in [AnyMm -> Int]
    BY <1>1, <1>2, <1>5 DEF Types
  <2>3. refs' \in [Thread -> Int] /\ state' \in [Thread -> {"run", "sleep", "dead", "gone"}]
    BY <1>1, <1>2, <1>5 DEF Types
  <2> QED BY <1>1, <1>2, <2>1, <2>2, <2>3 DEF Types
<1> HIDE DEF prev, last, dead
<1>7. /\ \A t \in Thread : state'[t] # state[t] => dead /\ t = prev /\ state'[t] = "gone" /\ refs[t] = 1
      /\ \A t \in Thread : t # prev \/ ~dead => refs'[t] = refs[t]
      /\ dead => refs'[prev] = refs[prev] - 1 /\ (refs[prev] = 1 => state'[prev] = "gone")
  BY <1>1, <1>2, <1>5 DEF Types
<1>8. \A d \in Cpu : has(d)' = has(d)
  BY <1>1, <1>4 DEF has
<1>9. CpusOK'
  <2>1. \A d \in Cpu : finish'[d].at = "locked" => finish'[d].prev # curr'[d]
    BY <1>1, <1>2, <1>4 DEF CpusOK
  <2>2. \A d \in Cpu \ online' : curr'[d] = idle(d) /\ finish'[d].at = "done"
    BY <1>1, <1>2, <1>4 DEF CpusOK
  <2>3. on_cpu' = on_cpu
    BY <1>1
  <2> QED BY <1>2, <1>8, <2>1, <2>2, <2>3 DEF CpusOK
<1>10. FinishOK'
  <2> SUFFICES ASSUME NEW d \in Cpu
               PROVE  /\ finish'[d].at # "locked" => prev_mm'[d] = None
                      /\ finish'[d].at # "unlocked" => finish'[d].mm = None /\ ~finish'[d].dead
                      /\ finish'[d].dead =>
                           /\ finish'[d].prev \in Task \ on_cpu' /\ state'[finish'[d].prev] = "dead"
                           /\ \A e \in Cpu : finish'[e].dead /\ finish'[e].prev = finish'[d].prev => e = d
    BY DEF FinishOK
  <2>1. CASE d = c
    BY <1>1, <1>2, <1>4, <2>1 DEF FinishOK
  <2>2. CASE d # c
    <3>1. finish'[d] = finish[d] /\ prev_mm'[d] = prev_mm[d]
      BY <1>1, <1>4, <2>2
    <3>2. \A e \in Cpu : finish'[e].dead => finish[e].dead /\ finish'[e].prev = finish[e].prev
      BY <1>4
    <3>3. finish[d].dead => /\ finish[d].prev \in Task \ on_cpu /\ state[finish[d].prev] = "dead"
                            /\ \A e \in Cpu : finish[e].dead /\ finish[e].prev = finish[d].prev => e = d
      BY <1>2 DEF FinishOK
    <3>4. finish[d].dead => state'[finish[d].prev] = state[finish[d].prev]
      BY <1>5, <1>7, <2>2, <3>3, Names
    <3> QED BY <1>1, <1>2, <3>1, <3>2, <3>3, <3>4 DEF FinishOK
  <2> QED BY <2>1, <2>2
<1>11. ThreadsOK'
  <2>1. \A d \in Cpu : state'[idle(d)] = state[idle(d)]
    BY <1>5, <1>7, Names
  <2>2. \A t \in Thread : mm[t] # None => state'[t] = state[t]
    BY <1>5, <1>7
  <2>3. \A t \in on_cpu : state'[t] = state[t]
    BY <1>2, <1>5, <1>7 DEF Types
  <2> QED BY <1>1, <1>2, <2>1, <2>2, <2>3 DEF ThreadsOK
<1>12. RefsOK'
  <2> SUFFICES ASSUME NEW t \in Task, state'[t] # "gone"
               PROVE  refs'[t] = (IF t \in reaped' THEN 0 ELSE 1) + (IF holds_itself(t)' THEN 1 ELSE 0)
    BY DEF RefsOK
  <2>1. t \in Thread /\ state'[t] = state[t] /\ refs[t] \in Int
    BY <1>2, <1>7, Names DEF Types
  <2>2. refs[t] = (IF t \in reaped THEN 0 ELSE 1) + (IF holds_itself(t) THEN 1 ELSE 0)
    BY <1>2, <2>1 DEF RefsOK
  <2>3. CASE dead /\ t = prev
    <3>1. holds_itself(t)
      BY <2>3 DEF holds_itself, prev, dead
    <3>2. ~holds_itself(t)'
      BY <1>1, <1>4, <1>5, <2>1, <2>3 DEF holds_itself
    <3> QED BY <1>1, <1>7, <2>1, <2>2, <2>3, <3>1, <3>2
  <2>4. CASE ~(dead /\ t = prev)
    <3>1. \A d \in Cpu : finish'[d].dead /\ finish'[d].prev = t <=> finish[d].dead /\ finish[d].prev = t
      BY <1>4, <2>4 DEF prev, dead
    <3>2. holds_itself(t)' <=> holds_itself(t)
      BY <1>1, <2>1, <3>1 DEF holds_itself
    <3> QED BY <1>1, <1>7, <2>1, <2>2, <2>4, <3>2
  <2> QED BY <2>3, <2>4
<1>13. CountsOK'
  <2>1. curr[c] \in Thread
    BY CurrIs
  <2>2. ASSUME NEW m \in AnyMm
        PROVE  mm_count'[m] = mm_count[m] - own(m) + own(m)'
                 - one(lent[curr[c]] = m) + one(lent'[curr[c]] = m)
                 - one(prev_mm[c] = m) + one(prev_mm'[c] = m)
                 - one(finish[c].mm = m) + one(finish'[c].mm = m)
    <3>1. m # None /\ mm_count[m] \in Int
      BY <1>2, Names DEF Types
    <3>2. own(m)' = own(m) /\ own(m) \in Int
      BY <1>1 DEF own
    <3>3. lent'[curr[c]] = lent[curr[c]]
      BY <1>1, <2>1, LentIs
    <3>4. mm_count'[m] = mm_count[m] - one(last = m)
      BY <1>1, <1>2, <1>5, <3>1 DEF one, Types
    <3>5. prev_mm'[c] = prev_mm[c] /\ finish[c].mm = last
      BY <1>1 DEF last
    <3> QED BY <1>4, <3>1, <3>2, <3>3, <3>4, <3>5 DEF one
  <2>3. \A m \in Mm : mm_users'[m] = mm_users[m] - one(mm[curr[c]] = m) + one(mm'[curr[c]] = m)
    BY <1>1, <1>2 DEF Types, one
  <2>4. \A d \in Cpu \ {c} : prev_mm'[d] = prev_mm[d] /\ finish'[d].mm = finish[d].mm
    BY <1>1, <1>4
  <2>5. \A t \in Thread \ {curr[c]} : mm'[t] = mm[t] /\ active_mm'[t] = active_mm[t]
    BY <1>1
  <2> QED BY <2>1, <2>2, <2>3, <2>4, <2>5, CountsFollow
<1> QED BY <1>6, <1>9, <1>10, <1>11, <1>12, <1>13 DEF IndInv

\* A step that leaves the address spaces and the CPUs as they are.
LEMMA CpusKept ==
  ASSUME SwitchAssumption, IndInv,
         UNCHANGED <<curr, online, on_cpu, mm, active_mm, mm_users, mm_count, prev_mm, finish>>
  PROVE  CpusOK' /\ CountsOK'
<1>1. CpusOK /\ CountsOK
  BY DEF IndInv
<1>2. \A c \in Cpu : has(c)' = has(c)
  BY DEF has
<1>3. CpusOK'
  BY <1>1, <1>2 DEF CpusOK
<1>4. lent' = lent /\ dropping' = dropping /\ \A m \in AnyMm : own(m)' = own(m)
  BY DEF lent, dropping, own
<1>5. CountsOK'
  BY <1>1, <1>4 DEF CountsOK
<1> QED BY <1>3, <1>5

\* The task goes to sleep or is woken.
LEMMA StepState ==
  ASSUME SwitchAssumption, IndInv, NEW t \in Task, NEW s \in {"run", "sleep"},
         state[t] \in {"run", "sleep"}, state' = [state EXCEPT ![t] = s],
         UNCHANGED <<curr, online, on_cpu, mm, active_mm, mm_users, mm_count, prev_mm, finish,
                     refs, reaped>>
  PROVE  IndInv'
<1>1. Types /\ FinishOK /\ ThreadsOK /\ RefsOK
  BY DEF IndInv
<1>2. /\ t \in Thread /\ state'[t] = s /\ \A u \in Thread \ {t} : state'[u] = state[u]
      /\ state' \in [Thread -> {"run", "sleep", "dead", "gone"}]
  BY <1>1, Names DEF Types
<1>3. Types'
  BY <1>1, <1>2 DEF Types
<1>4. FinishOK'
  <2>1. \A d \in Cpu : finish[d].dead => finish[d].prev # t /\ finish[d].prev \in Thread
    BY <1>1, Names DEF FinishOK
  <2>2. \A d \in Cpu : finish[d].dead => state'[finish[d].prev] = state[finish[d].prev]
    BY <1>2, <2>1
  <2> QED BY <1>1, <2>2 DEF FinishOK
<1>5. ThreadsOK'
  <2>1. \A c \in Cpu : state'[idle(c)] = state[idle(c)]
    BY <1>2, Names
  <2>2. \A u \in Thread : state[u] \notin {"dead", "gone"} => state'[u] \notin {"dead", "gone"}
    BY <1>2
  <2>3. \A u \in on_cpu : state'[u] # "gone"
    BY <1>1, <1>2 DEF ThreadsOK, Types
  <2> QED BY <1>1, <2>1, <2>2, <2>3 DEF ThreadsOK
<1>6. RefsOK'
  <2>1. \A u \in Task : holds_itself(u)' <=> holds_itself(u)
    BY <1>2, Names DEF holds_itself
  <2>2. \A u \in Task : state'[u] # "gone" => state[u] # "gone"
    BY <1>2, Names
  <2> QED BY <1>1, <2>1, <2>2 DEF RefsOK
<1> QED BY <1>3, <1>4, <1>5, <1>6, CpusKept DEF IndInv

LEMMA StepSleep ==
  ASSUME SwitchAssumption, IndInv, NEW c \in Cpu, Sleep(c)
  PROVE  IndInv'
BY StepState DEF Sleep, running

LEMMA StepWake ==
  ASSUME SwitchAssumption, IndInv, NEW t \in Task, Wake(t)
  PROVE  IndInv'
BY StepState DEF Wake

LEMMA StepReap ==
  ASSUME SwitchAssumption, IndInv, NEW t \in Task, Reap(t)
  PROVE  IndInv'
<1>1. /\ state[t] = "dead" /\ t \notin reaped /\ reaped' = reaped \cup {t}
      /\ refs' = [refs EXCEPT ![t] = @ - 1]
      /\ state' = IF refs[t] = 1 THEN [state EXCEPT ![t] = "gone"] ELSE state
      /\ UNCHANGED <<curr, online, on_cpu, mm, active_mm, mm_users, mm_count, prev_mm, finish>>
  BY DEF Reap
<1>2. Types /\ FinishOK /\ ThreadsOK /\ RefsOK
  BY DEF IndInv
<1>3. t \in Thread /\ refs[t] \in Int /\ refs[t] = 1 + (IF holds_itself(t) THEN 1 ELSE 0)
  BY <1>1, <1>2, Names DEF Types, RefsOK
<1>4. /\ refs'[t] = refs[t] - 1 /\ \A u \in Thread \ {t} : refs'[u] = refs[u] /\ state'[u] = state[u]
      /\ state'[t] = IF refs[t] = 1 THEN "gone" ELSE "dead"
  BY <1>1, <1>2, <1>3 DEF Types
\* The last reference goes only when no CPU is still to put the task's own.
<1>5. refs[t] = 1 => t \notin on_cpu /\ \A d \in Cpu : ~(finish[d].dead /\ finish[d].prev = t)
  BY <1>3 DEF holds_itself
<1>6. Types'
  <2>1. refs' \in [Thread -> Int] /\ state' \in [Thread -> {"run", "sleep", "dead", "gone"}]
    BY <1>1, <1>2, <1>3 DEF Types
  <2> QED BY <1>1, <1>2, <2>1 DEF Types
<1>7. FinishOK'
  <2>1. \A d \in Cpu : finish[d].dead => finish[d].prev \in Thread /\ state[finish[d].prev] = "dead"
    BY <1>2, Names DEF FinishOK
  <2>2. \A d \in Cpu : finish[d].dead => state'[finish[d].prev] = "dead"
    BY <1>4, <1>5, <2>1
  <2> QED BY <1>1, <1>2, <2>2 DEF FinishOK
<1>8. ThreadsOK'
  <2>1. \A c \in Cpu : state'[idle(c)] = state[idle(c)]
    BY <1>4, Names
  <2>2. \A u \in Thread : mm[u] # None => state'[u] = state[u]
    BY <1>1, <1>2, <1>4 DEF ThreadsOK
  <2>3. \A u \in on_cpu : state'[u] # "gone"
    BY <1>2, <1>4, <1>5 DEF ThreadsOK, Types
  <2> QED BY <1>1, <1>2, <2>1, <2>2, <2>3 DEF ThreadsOK
<1>9. RefsOK'
  <2> SUFFICES ASSUME NEW u \in Task, state'[u] # "gone"
               PROVE  refs'[u] = (IF u \in reaped' THEN 0 ELSE 1) + (IF holds_itself(u)' THEN 1 ELSE 0)
    BY DEF RefsOK
  <2>1. u \in Thread /\ state'[u] = state[u]
    BY <1>1, <1>4, Names
  <2>2. holds_itself(u)' <=> holds_itself(u)
    BY <1>1, <2>1 DEF holds_itself
  <2>3. CASE u = t
    BY <1>1, <1>3, <1>4, <2>2, <2>3
  <2>4. CASE u # t
    BY <1>1, <1>2, <1>4, <2>1, <2>2, <2>4 DEF RefsOK
  <2> QED BY <2>3, <2>4
<1> QED BY <1>1, <1>6, <1>7, <1>8, <1>9, CpusKept DEF IndInv

LEMMA StepExit ==
  ASSUME SwitchAssumption, IndInv, NEW c \in Cpu, Exit(c)
  PROVE  IndInv'
<1> DEFINE t == curr[c]
           m == mm[t]
<1>1. /\ c \in online /\ finish[c].at = "done" /\ t \in Task /\ state[t] = "run"
      /\ state' = [state EXCEPT ![t] = "dead"] /\ mm' = [mm EXCEPT ![t] = None]
      /\ m = None => UNCHANGED <<mm_users, mm_count>>
      /\ m # None =>
           /\ mm_users' = [mm_users EXCEPT ![m] = @ - 1]
           /\ mm_count' = [mm_count EXCEPT ![m] = IF mm_users[m] = 1 THEN @ ELSE @ + 1]
      /\ UNCHANGED <<curr, online, on_cpu, active_mm, prev_mm, finish, refs, reaped>>
  BY DEF Exit, running
<1>2. Types /\ CpusOK /\ FinishOK /\ ThreadsOK /\ CountsOK /\ RefsOK
  BY DEF IndInv
<1>3. /\ t \in Thread /\ t \in on_cpu /\ m \in Mm \cup {None}
      /\ m # None => active_mm[t] = m /\ m \in Mm /\ m \in AnyMm
  BY <1>1, <1>2, CurrIs, Names DEF Types, ThreadsOK
<1>4. /\ state'[t] = "dead" /\ mm'[t] = None
      /\ \A u \in Thread \ {t} : state'[u] = state[u] /\ mm'[u] = mm[u]
  BY <1>1, <1>2, <1>3 DEF Types
<1>5. curr[c] = t /\ mm[t] = m
  OBVIOUS
<1> HIDE DEF t, m
<1>6. Types'
  <2>1. mm' \in [Thread -> Mm \cup {None}] /\ state' \in [Thread -> {"run", "sleep", "dead", "gone"}]
    BY <1>1, <1>2, <1>3 DEF Types
  <2>2. mm_users' \in [Mm -> Int] /\ mm_count' \in [AnyMm -> Int]
    <3>1. CASE m = None
      BY <1>1, <1>2, <3>1 DEF Types
    <3>2. CASE m # None
      BY <1>1, <1>2, <1>3, <3>2 DEF Types
    <3> QED BY <3>1, <3>2
  <2> QED BY <1>1, <1>2, <2>1, <2>2 DEF Types
<1>7. CpusOK'
  <2>1. \A d \in Cpu : has(d)' = has(d)
    BY <1>1 DEF has
  <2> QED BY <1>1, <1>2, <2>1 DEF CpusOK
<1>8. FinishOK'
  <2>1. \A d \in Cpu : finish[d].dead => finish[d].prev \in Thread /\ state[finish[d].prev] = "dead"
    BY <1>2, Names DEF FinishOK
  <2>2. \A d \in Cpu : finish[d].dead => state'[finish[d].prev] = "dead"
    BY <1>4, <2>1
  <2> QED BY <1>1, <1>2, <2>2 DEF FinishOK
<1>9. ThreadsOK'
  <2>1. \A d \in Cpu : mm'[idle(d)] = None /\ state'[idle(d)] = "run"
    BY <1>1, <1>2, <1>4, Names DEF ThreadsOK
  <2>2. \A u \in Thread : mm'[u] # None => active_mm'[u] = mm'[u] /\ state'[u] \notin {"dead", "gone"}
    BY <1>1, <1>2, <1>4 DEF ThreadsOK
  <2>3. \A u \in Thread : mm'[u] = None /\ active_mm'[u] # None => \E d \in online' : curr'[d] = u
    BY <1>1, <1>2, <1>4, <1>5 DEF ThreadsOK
  <2>4. \A d \in online' : active_mm'[curr'[d]] # None
    BY <1>1, <1>2 DEF ThreadsOK
  <2>5. \A u \in on_cpu' : state'[u] # "gone"
    BY <1>1, <1>2, <1>4 DEF ThreadsOK, Types
  <2> QED BY <2>1, <2>2, <2>3, <2>4, <2>5 DEF ThreadsOK
<1>10. RefsOK'
  <2>1. \A u \in Task : holds_itself(u)' <=> holds_itself(u)
    BY <1>1, <1>3, <1>4, Names DEF holds_itself
  <2>2. \A u \in Task : state'[u] # "gone" => state[u] # "gone"
    BY <1>1, <1>4, Names
  <2> QED BY <1>1, <1>2, <2>1, <2>2 DEF RefsOK
<1>11. CountsOK'
  <2>1. ASSUME NEW x \in AnyMm, m # None, x = m
        PROVE  own(x) = 1 /\ own(x)' = (IF mm_users[x] = 1 THEN 0 ELSE 1)
    <3>1. Count(Thread, mm, x) > 0
      BY <1>3, <1>5, <2>1, Finite, CountType
    <3>2. mm_users[x] > 0 /\ mm_users[x] \in Int /\ x # InitMm /\ x \in Mm
      BY <1>2, <1>3, <2>1, <3>1, Names DEF CountsOK, Types
    <3>3. mm_users'[x] = mm_users[x] - 1
      BY <1>1, <1>2, <2>1, <3>2 DEF Types
    <3> QED BY <3>2, <3>3 DEF own
  <2>2. ASSUME NEW x \in Mm
        PROVE  mm_users'[x] = mm_users[x] - one(mm[t] = x) + one(mm'[t] = x)
    <3>1. x # None /\ mm_users[x] \in Int
      BY <1>2, Names DEF Types
    <3>2. one(mm'[t] = x) = 0
      BY <1>4, <3>1 DEF one
    <3>3. mm_users'[x] = mm_users[x] - one(m = x)
      BY <1>1, <1>2, <1>3, <3>1 DEF one, Types
    <3> QED BY <1>5, <3>1, <3>2, <3>3 DEF one
  <2>3. ASSUME NEW x \in AnyMm
        PROVE  mm_count'[x] = mm_count[x] - own(x) + own(x)' - one(lent[t] = x) + one(lent'[t] = x)
                 - one(prev_mm[c] = x) + one(prev_mm'[c] = x)
                 - one(finish[c].mm = x) + one(finish'[c].mm = x)
    <3>1. x # None /\ mm_count[x] \in Int
      BY <1>2, Names DEF Types
    <3>2. prev_mm'[c] = prev_mm[c] /\ finish'[c].mm = finish[c].mm
      BY <1>1
    <3>3. lent[t] = (IF m = None THEN active_mm[t] ELSE None) /\ lent'[t] = active_mm[t]
      BY <1>1, <1>3, <1>4, <1>5, LentIs
    <3>4. own(x) \in Int
      BY DEF own
    <3>5. CASE m # None /\ x = m
      <4>1. mm_count'[m] = IF mm_users[m] = 1 THEN mm_count[m] ELSE mm_count[m] + 1
        BY <1>1, <1>2, <1>3, <3>5 DEF Types
      <4>2. one(lent[t] = x) = 0 /\ one(lent'[t] = x) = 1
        BY <1>3, <3>1, <3>3, <3>5 DEF one
      <4>3. /\ one(prev_mm[c] = x) \in Int /\ one(prev_mm'[c] = x) = one(prev_mm[c] = x)
            /\ one(finish[c].mm = x) \in Int /\ one(finish'[c].mm = x) = one(finish[c].mm = x)
        BY <3>2 DEF one
      <4>4. own(x) = 1 /\ own(x)' = (IF mm_users[m] = 1 THEN 0 ELSE 1)
        BY <2>1, <3>5
      <4> QED BY ONLY <3>1, <3>5, <4>1, <4>2, <4>3, <4>4
    <3>6. CASE ~(m # None /\ x = m)
      <4>1. mm_count'[x] = mm_count[x]
        BY <1>1, <1>2, <1>3, <3>6 DEF Types
      <4>2. own(x)' = own(x)
        BY <1>1, <1>2, <1>3, <3>6, Names DEF own, Types, AnyMm
      <4>3. one(lent'[t] = x) = one(lent[t] = x)
        BY <1>3, <3>1, <3>3, <3>6 DEF one
      <4> QED BY <3>1, <3>2, <3>4, <4>1, <4>2, <4>3 DEF one
    <3> QED BY <3>5, <3>6
  <2>4. \A u \in Thread \ {t} : mm'[u] = mm[u] /\ active_mm'[u] = active_mm[u]
    BY <1>1, <1>4
  <2>5. \A d \in Cpu \ {c} : prev_mm'[d] = prev_mm[d] /\ finish'[d].mm = finish[d].mm
    BY <1>1
  <2> QED BY <1>3, <2>2, <2>3, <2>4, <2>5, CountsFollow
<1> QED BY <1>6, <1>7, <1>8, <1>9, <1>10, <1>11 DEF IndInv

LEMMA StepFork ==
  ASSUME SwitchAssumption, IndInv, NEW c \in Cpu, NEW t \in Task, Fork(c, t)
  PROVE  IndInv'
<1>0. PICK x \in {None} \cup Mm :
        /\ mm[curr[c]] = None => x = None
        /\ x # None => x = mm[curr[c]] \/ mm_count[x] = 0
        /\ mm' = [mm EXCEPT ![t] = x] /\ active_mm' = [active_mm EXCEPT ![t] = x]
        /\ x = None => UNCHANGED <<mm_users, mm_count>>
        /\ x # None =>
             /\ mm_users' = [mm_users EXCEPT ![x] = @ + 1]
             /\ mm_count' = [mm_count EXCEPT ![x] = IF x = mm[curr[c]] THEN @ ELSE 1]
  <2>1. IndInv => mm[curr[c]] \in Mm \cup {None}
    BY CurrIs DEF IndInv, Types
  <2> QED BY <2>1 DEF Fork
<1>1. /\ state[t] = "gone" /\ state[curr[c]] = "run"
      /\ state' = [state EXCEPT ![t] = "run"] /\ refs' = [refs EXCEPT ![t] = 2]
      /\ reaped' = reaped \ {t}
      /\ UNCHANGED <<curr, online, on_cpu, prev_mm, finish>>
  BY DEF Fork, running
<1>2. Types /\ CpusOK /\ FinishOK /\ ThreadsOK /\ CountsOK /\ RefsOK
  BY DEF IndInv
\* The task_struct is new: it is on no CPU and has no address space.
<1>3. /\ t \in Thread /\ t \notin on_cpu /\ mm[t] = None /\ active_mm[t] = None
      /\ \A d \in Cpu : curr[d] # t /\ t \notin has(d)
  <2>1. t \in Thread /\ t \notin on_cpu /\ mm[t] = None
    BY <1>1, <1>2, Names DEF ThreadsOK
  <2>2. \A d \in Cpu : curr[d] # t /\ t \notin has(d)
    BY <1>2, <2>1 DEF CpusOK, has
  <2> QED BY <2>1, <2>2, Elsewhere
<1>4. /\ state'[t] = "run" /\ mm'[t] = x /\ active_mm'[t] = x /\ refs'[t] = 2
      /\ \A u \in Thread \ {t} : /\ state'[u] = state[u] /\ mm'[u] = mm[u]
                                 /\ active_mm'[u] = active_mm[u] /\ refs'[u] = refs[u]
  BY <1>0, <1>1, <1>2, <1>3 DEF Types
<1>5. Types'
  <2>1. /\ mm' \in [Thread -> Mm \cup {None}] /\ active_mm' \in [Thread -> AnyMm \cup {None}]
        /\ state' \in [Thread -> {"run", "sleep", "dead", "gone"}] /\ refs' \in [Thread -> Int]
    BY <1>0, <1>1, <1>2, <1>3, Names DEF Types
  <2>2. mm_users' \in [Mm -> Int] /\ mm_count' \in [AnyMm -> Int]
    <3>1. CASE x = None
      BY <1>0, <1>2, <3>1 DEF Types
    <3>2. CASE x # None
      BY <1>0, <1>2, <3>2, Names DEF Types
    <3> QED BY <3>1, <3>2
  <2> QED BY <1>1, <1>2, <2>1, <2>2 DEF Types
<1>6. CpusOK'
  <2>1. \A d \in Cpu : has(d)' = has(d)
    BY <1>1 DEF has
  <2> QED BY <1>1, <1>2, <2>1 DEF CpusOK
<1>7. FinishOK'
  <2>1. \A d \in Cpu : finish[d].dead => finish[d].prev \in Thread /\ state[finish[d].prev] = "dead"
    BY <1>2, Names DEF FinishOK
  <2>2. \A d \in Cpu : finish[d].dead => state'[finish[d].prev] = "dead"
    BY <1>1, <1>4, <2>1
  <2> QED BY <1>1, <1>2, <2>2 DEF FinishOK
<1>8. ThreadsOK'
  <2>1. \A d \in Cpu : mm'[idle(d)] = None /\ state'[idle(d)] = "run"
    BY <1>2, <1>4, Names DEF ThreadsOK
  <2>2. \A u \in Thread : mm'[u] # None => active_mm'[u] = mm'[u] /\ state'[u] \notin {"dead", "gone"}
    BY <1>2, <1>4 DEF ThreadsOK
  <2>3. \A u \in Thread : mm'[u] = None /\ active_mm'[u] # None => \E d \in online' : curr'[d] = u
    BY <1>1, <1>2, <1>4 DEF ThreadsOK
  <2>4. \A d \in online' : active_mm'[curr'[d]] # None
    <3>1. \A d \in online : curr[d] \in Thread \ {t}
      BY <1>2, <1>3 DEF Types
    <3> QED BY <1>1, <1>2, <1>4, <3>1 DEF ThreadsOK
  <2>5. \A u \in on_cpu' : state'[u] # "gone"
    BY <1>1, <1>2, <1>3, <1>4 DEF ThreadsOK, Types
  <2> QED BY <2>1, <2>2, <2>3, <2>4, <2>5 DEF ThreadsOK
<1>9. RefsOK'
  <2> SUFFICES ASSUME NEW u \in Task, state'[u] # "gone"
               PROVE  refs'[u] = (IF u \in reaped' THEN 0 ELSE 1) + (IF holds_itself(u)' THEN 1 ELSE 0)
    BY DEF RefsOK
  <2>1. CASE u = t
    <3>1. holds_itself(u)'
      BY <1>4, <2>1 DEF holds_itself
    <3> QED BY <1>1, <1>4, <2>1, <3>1
  <2>2. CASE u # t
    <3>1. state'[u] = state[u] /\ refs'[u] = refs[u]
      BY <1>4, <2>2, Names
    <3>2. holds_itself(u)' <=> holds_itself(u)
      BY <1>1, <3>1 DEF holds_itself
    <3> QED BY <1>1, <1>2, <2>2, <3>1, <3>2 DEF RefsOK
  <2> QED BY <2>1, <2>2
<1>10. CountsOK'
  <2>1. ASSUME NEW m \in Mm PROVE mm_users[m] \in Nat /\ mm_count[m] \in Int /\ m # None /\ m # InitMm
    <3>1. Count(Thread, mm, m) \in Nat
      BY Finite, CountType
    <3> QED BY <1>2, <3>1, Names DEF CountsOK, Types
  <2>2. ASSUME NEW m \in Mm
        PROVE  mm_users'[m] = mm_users[m] - one(mm[t] = m) + one(mm'[t] = m)
    <3>1. one(mm[t] = m) = 0 /\ one(mm'[t] = m) = one(x = m)
      BY <1>3, <1>4, <2>1 DEF one
    <3>2. mm_users'[m] = mm_users[m] + one(x = m)
      BY <1>0, <1>2, <2>1 DEF one, Types
    <3> QED BY <2>1, <3>1, <3>2 DEF one
  <2>3. ASSUME NEW m \in AnyMm
        PROVE  mm_count'[m] = mm_count[m] - own(m) + own(m)' - one(lent[t] = m) + one(lent'[t] = m)
                 - one(prev_mm[c] = m) + one(prev_mm'[c] = m)
                 - one(finish[c].mm = m) + one(finish'[c].mm = m)
    <3>1. m # None /\ mm_count[m] \in Int
      BY <1>2, Names DEF Types
    <3>2. prev_mm'[c] = prev_mm[c] /\ finish'[c].mm = finish[c].mm
      BY <1>1
    <3>3. lent[t] = None /\ lent'[t] = None
      BY <1>3, <1>4, LentIs
    <3>4. mm_count'[m] = mm_count[m] - own(m) + own(m)'
      <4>1. CASE x # m
        <5>1. mm_count'[m] = mm_count[m]
          BY <1>0, <1>2, <4>1 DEF Types
        <5>2. own(m)' = own(m)
          BY <1>0, <1>2, <4>1, Names DEF own, Types, AnyMm
        <5> QED BY <3>1, <5>1, <5>2 DEF own
      <4>2. CASE x = m /\ x = mm[curr[c]]
        <5>1. x # None /\ m \in Mm /\ m # InitMm
          BY <3>1, <4>2, Names
        <5>2. Count(Thread, mm, m) > 0
          BY <4>2, Finite, CountType, CurrIs
        <5>3. mm_users[m] > 0 /\ mm_users[m] \in Nat
          BY <1>2, <2>1, <5>1, <5>2 DEF CountsOK
        <5>4. mm_users'[m] = mm_users[m] + 1 /\ mm_count'[m] = mm_count[m]
          BY <1>0, <1>2, <4>2, <5>1 DEF Types
        <5> QED BY <3>1, <5>1, <5>3, <5>4 DEF own
      <4>3. CASE x = m /\ x # mm[curr[c]]
        <5>1. x # None /\ m \in Mm /\ m # InitMm /\ mm_count[m] = 0
          BY <1>0, <3>1, <4>3, Names
        <5>2. /\ Count(Thread, lent, m) \in Nat /\ Count(Cpu, prev_mm, m) \in Nat
              /\ Count(Cpu, dropping, m) \in Nat
          BY Finite, CountType
        <5>3. own(m) \in {0, 1}
          BY DEF own
        <5>4. mm_count[m] = own(m) + Count(Thread, lent, m) + Count(Cpu, prev_mm, m)
                            + Count(Cpu, dropping, m)
          BY <1>2 DEF CountsOK
        <5>5. own(m) = 0
          BY ONLY <5>1, <5>2, <5>3, <5>4
        <5>6. mm_users'[m] = mm_users[m] + 1 /\ mm_count'[m] = 1
          BY <1>0, <1>2, <4>3, <5>1 DEF Types
        <5>7. own(m)' = 1
          BY <2>1, <5>1, <5>6 DEF own
        <5> QED BY <5>1, <5>5, <5>6, <5>7
      <4> QED BY <4>1, <4>2, <4>3
    <3>5. own(m) \in Int /\ own(m)' \in Int
      BY DEF own
    <3> QED BY <3>1, <3>2, <3>3, <3>4, <3>5 DEF one
  <2>4. \A u \in Thread \ {t} : mm'[u] = mm[u] /\ active_mm'[u] = active_mm[u]
    BY <1>4
  <2>5. \A d \in Cpu \ {c} : prev_mm'[d] = prev_mm[d] /\ finish'[d].mm = finish[d].mm
    BY <1>1
  <2> QED BY <1>3, <2>2, <2>3, <2>4, <2>5, CountsFollow
<1> QED BY <1>5, <1>6, <1>7, <1>8, <1>9, <1>10 DEF IndInv

\* A CPU that goes offline or comes back changes what its idle task has borrowed.
LEMMA StepHotplug ==
  ASSUME SwitchAssumption, IndInv, NEW c \in Cpu, IdleTaskExit(c) \/ StartCpu(c)
  PROVE  IndInv'
<1> DEFINE i == idle(c)
<1>0. /\ IdleTaskExit(c) => curr[c] = i /\ finish[c].at = "done" /\ c \in online
      /\ StartCpu(c) => c \notin online
      /\ UNCHANGED <<curr, on_cpu, state, mm, mm_users, prev_mm, finish, refs, reaped>>
  BY DEF IdleTaskExit, StartCpu
<1>1. Types /\ CpusOK /\ FinishOK /\ ThreadsOK /\ RefsOK
  BY DEF IndInv
<1>2. i \in Thread /\ i \notin Task /\ mm[i] = None /\ curr[c] = i
  BY <1>0, <1>1, Names DEF CpusOK, ThreadsOK
<1>3. \A d \in Cpu \ {c} : curr[d] # i
  BY <1>2, CurrIs
<1>4. /\ IdleTaskExit(c) => active_mm[i] \in AnyMm
      /\ StartCpu(c) => active_mm[i] = None
  <2>1. ASSUME IdleTaskExit(c) PROVE active_mm[i] \in AnyMm
    <3>1. active_mm[curr[c]] # None /\ active_mm[i] \in AnyMm \cup {None}
      BY <1>0, <1>1, <1>2, <2>1 DEF ThreadsOK, Types
    <3> QED BY <1>2, <3>1
  <2>2. ASSUME StartCpu(c) PROVE active_mm[i] = None
    <3>1. \A d \in online : curr[d] # i
      BY <1>0, <1>1, <1>3, <2>2 DEF Types
    <3> QED BY <1>1, <1>2, <3>1 DEF ThreadsOK
  <2> QED BY <2>1, <2>2
<1>5. /\ active_mm'[i] = (IF IdleTaskExit(c) THEN None ELSE InitMm)
      /\ \A u \in Thread \ {i} : active_mm'[u] = active_mm[u]
      /\ active_mm' \in [Thread -> AnyMm \cup {None}]
      /\ online' = IF IdleTaskExit(c) THEN online \ {c} ELSE online \cup {c}
  <2>1. CASE IdleTaskExit(c)
    <3>1. active_mm' = [active_mm EXCEPT ![i] = None] /\ online' = online \ {c}
      BY <2>1 DEF IdleTaskExit
    <3> QED BY <1>1, <1>2, <2>1, <3>1 DEF Types
  <2>2. CASE ~IdleTaskExit(c)
    <3>1. active_mm' = [active_mm EXCEPT ![i] = InitMm] /\ online' = online \cup {c}
      BY <2>2 DEF StartCpu
    <3> QED BY <1>1, <1>2, <2>2, <3>1, Names DEF Types
  <2> QED BY <2>1, <2>2
<1>6. /\ \A m \in AnyMm : mm_count'[m] = mm_count[m] - one(IdleTaskExit(c) /\ m = active_mm[i])
                                         + one(~IdleTaskExit(c) /\ m = InitMm)
      /\ mm_count' \in [AnyMm -> Int]
  <2>1. CASE IdleTaskExit(c)
    <3>1. active_mm[i] # None
      BY <1>4, <2>1, Names
    <3>2. mm_count' = [mm_count EXCEPT ![active_mm[i]] = @ - 1]
      BY <2>1, <3>1 DEF IdleTaskExit, mmdrop
    <3> QED BY <1>1, <1>4, <2>1, <3>2 DEF one, Types
  <2>2. CASE ~IdleTaskExit(c)
    <3>1. mm_count' = [mm_count EXCEPT ![InitMm] = @ + 1]
      BY <2>2 DEF StartCpu
    <3> QED BY <1>1, <2>2, <3>1, Names DEF one, Types
  <2> QED BY <2>1, <2>2
<1>7. IdleTaskExit(c) \/ (StartCpu(c) /\ ~IdleTaskExit(c))
  OBVIOUS
<1> HIDE DEF i
<1>8. Types'
  <2>1. online' \subseteq Cpu
    BY <1>1, <1>5 DEF Types
  <2> QED BY <1>0, <1>1, <1>5, <1>6, <2>1 DEF Types
<1>9. CpusOK'
  <2>1. \A d \in Cpu : has(d)' = has(d)
    BY <1>0 DEF has
  <2>2. \A d \in Cpu \ online' : curr[d] = idle(d) /\ finish[d].at = "done"
    BY <1>0, <1>1, <1>2, <1>5 DEF CpusOK, i
  <2> QED BY <1>0, <1>1, <2>1, <2>2 DEF CpusOK
<1>10. FinishOK'
  BY <1>0, <1>1 DEF FinishOK
<1>11. ThreadsOK'
  <2>1. \A u \in Thread : mm[u] # None => active_mm'[u] = mm[u] /\ state[u] \notin {"dead", "gone"}
    BY <1>1, <1>2, <1>5 DEF ThreadsOK
  <2>2. \A u \in Thread : mm[u] = None /\ active_mm'[u] # None => \E d \in online' : curr[d] = u
    <3> SUFFICES ASSUME NEW u \in Thread, mm[u] = None, active_mm'[u] # None
                 PROVE  \E d \in online' : curr[d] = u
      OBVIOUS
    <3>1. CASE u = i
      BY <1>2, <1>5, <3>1
    <3>2. CASE u # i
      <4>1. PICK d \in online : curr[d] = u
        BY <1>1, <1>5, <3>2 DEF ThreadsOK
      <4> QED BY <1>2, <1>5, <3>2, <4>1
    <3> QED BY <3>1, <3>2
  <2>3. \A d \in online' : active_mm'[curr[d]] # None
    <3> SUFFICES ASSUME NEW d \in online' PROVE active_mm'[curr[d]] # None
      OBVIOUS
    <3>1. CASE d = c
      BY <1>2, <1>5, <3>1, Names
    <3>2. CASE d # c
      <4>1. d \in online /\ d \in Cpu
        BY <1>1, <1>5, <3>2 DEF Types
      <4>2. curr[d] \in Thread \ {i}
        BY <1>1, <1>3, <3>2, <4>1 DEF Types
      <4> QED BY <1>1, <1>5, <4>1, <4>2 DEF ThreadsOK
    <3> QED BY <3>1, <3>2
  <2> QED BY <1>0, <1>1, <2>1, <2>2, <2>3 DEF ThreadsOK
<1>12. RefsOK'
  BY <1>0, <1>1 DEF RefsOK, holds_itself
<1>13. CountsOK'
  <2>1. ASSUME NEW m \in AnyMm
        PROVE  mm_count'[m] = mm_count[m] - own(m) + own(m)' - one(lent[i] = m) + one(lent'[i] = m)
                 - one(prev_mm[c] = m) + one(prev_mm'[c] = m)
                 - one(finish[c].mm = m) + one(finish'[c].mm = m)
    <3>1. m # None /\ mm_count[m] \in Int
      BY <1>1, Names DEF Types
    <3>2. prev_mm'[c] = prev_mm[c] /\ finish'[c].mm = finish[c].mm
      BY <1>0
    <3>3. lent[i] = active_mm[i] /\ lent'[i] = active_mm'[i]
      BY <1>0, <1>2, LentIs
    <3>4. own(m)' = own(m) /\ own(m) \in Int
      BY <1>0 DEF own
    <3>5. /\ one(lent[i] = m) = one(IdleTaskExit(c) /\ m = active_mm[i])
          /\ one(lent'[i] = m) = one(~IdleTaskExit(c) /\ m = InitMm)
      BY <1>4, <1>5, <1>7, <3>1, <3>3 DEF one
    <3>6. mm_count'[m] = mm_count[m] - one(IdleTaskExit(c) /\ m = active_mm[i])
                         + one(~IdleTaskExit(c) /\ m = InitMm)
      BY <1>6
    <3> QED BY <3>1, <3>2, <3>4, <3>5, <3>6 DEF one
  <2>2. \A m \in Mm : mm_users'[m] = mm_users[m] - one(mm[i] = m) + one(mm'[i] = m)
    BY <1>0, <1>1 DEF Types, one
  <2>3. \A u \in Thread \ {i} : mm'[u] = mm[u] /\ active_mm'[u] = active_mm[u]
    BY <1>0, <1>5
  <2>4. \A d \in Cpu \ {c} : prev_mm'[d] = prev_mm[d] /\ finish'[d].mm = finish[d].mm
    BY <1>0
  <2> QED BY <1>2, <2>1, <2>2, <2>3, <2>4, CountsFollow
<1> QED BY <1>8, <1>9, <1>10, <1>11, <1>12, <1>13 DEF IndInv

-----------------------------------------------------------------------------
(* The theorem *)

LEMMA InitialState ==
  ASSUME SwitchAssumption, SwitchInit
  PROVE  IndInv
<1> DEFINE first == CHOOSE t \in Task : TRUE
           space == CHOOSE m \in Mm : TRUE
<1>1. /\ curr = [c \in Cpu |-> idle(c)] /\ online = Cpu /\ on_cpu = {idle(c) : c \in Cpu}
      /\ state = [t \in Thread |-> "run"]
      /\ mm = [t \in Thread |-> IF t = first THEN space ELSE None]
      /\ active_mm = [t \in Thread |-> CASE t = first -> space [] t \in Task \ {first} -> None
                                         [] OTHER -> InitMm]
      /\ mm_users = [m \in Mm |-> IF m = space THEN 1 ELSE 0]
      /\ mm_count = [m \in Mm \cup {InitMm} |->
                       CASE m = InitMm -> 1 + NrCpus [] m = space -> 1 [] OTHER -> 0]
      /\ prev_mm = [c \in Cpu |-> None] /\ finish = [c \in Cpu |-> Done]
      /\ refs = [t \in Thread |-> 2] /\ reaped = {}
  BY DEF SwitchInit
<1>2. first \in Task /\ first \in Thread /\ space \in Mm /\ space # None /\ space # InitMm
  BY Names DEF SwitchAssumption
<1> HIDE DEF first, space
<1>3. NrCpus \in Nat /\ \A c \in Cpu : idle(c) \in Thread /\ idle(c) \notin Task /\ idle(c) # first
  BY <1>2, Names DEF SwitchAssumption
<1>4. /\ Done.at = "done" /\ Done.mm = None /\ Done.dead = FALSE
      /\ Done \in [at : {"done", "locked", "unlocked"}, prev : Thread,
                   mm : AnyMm \cup {None}, dead : BOOLEAN]
  <2>1. 1 \in Cpu
    BY DEF SwitchAssumption, Cpu
  <2>2. idle(1) \in Thread
    BY <2>1, Names
  <2> QED BY <2>2 DEF Done
<1>5. /\ \A c \in Cpu : active_mm[idle(c)] = InitMm /\ mm[idle(c)] = None
      /\ mm[first] = space /\ active_mm[first] = space
      /\ \A t \in Task \ {first} : mm[t] = None /\ active_mm[t] = None
  BY <1>1, <1>2, <1>3, Names
<1>6. \A t \in Thread : t = first \/ t \in Task \ {first} \/ \E c \in Cpu : t = idle(c)
  BY DEF Thread
<1>7. Types
  <2>1. curr \in [Cpu -> Thread] /\ online \subseteq Cpu /\ on_cpu \subseteq Thread
    BY <1>1, <1>3
  <2>2. mm \in [Thread -> Mm \cup {None}]
    BY <1>1, <1>2
  <2>3. active_mm \in [Thread -> AnyMm \cup {None}]
    <3>1. \A t \in Thread : active_mm[t] \in AnyMm \cup {None}
      BY <1>2, <1>5, <1>6, Names
    <3> QED BY <1>1, <3>1
  <2>4. mm_users \in [Mm -> Int] /\ mm_count \in [AnyMm -> Int]
    BY <1>1, <1>3 DEF AnyMm
  <2> QED BY <1>1, <1>4, <2>1, <2>2, <2>3, <2>4 DEF Types
<1>8. CpusOK
  <2>1. \A c \in Cpu : has(c) = {idle(c)} /\ curr[c] = idle(c) /\ finish[c].at = "done"
    BY <1>1, <1>4 DEF has
  <2> QED BY <1>1, <2>1, Names DEF CpusOK
<1>9. FinishOK
  BY <1>1, <1>4 DEF FinishOK
<1>10. ThreadsOK
  <2>1. \A t \in Thread : mm[t] # None => active_mm[t] = mm[t]
    BY <1>5, <1>6
  <2>2. \A t \in Thread : mm[t] = None /\ active_mm[t] # None => \E c \in online : curr[c] = t
    BY <1>1, <1>2, <1>5, <1>6
  <2>3. \A c \in online : active_mm[curr[c]] # None
    BY <1>1, <1>5, Names
  <2>4. \A t \in on_cpu : state[t] # "gone"
    BY <1>1, <1>3
  <2> QED BY <1>1, <1>3, <1>5, <2>1, <2>2, <2>3, <2>4 DEF ThreadsOK
<1>11. RefsOK
  <2>1. \A t \in Task : holds_itself(t) /\ refs[t] = 2 /\ t \notin reaped
    BY <1>1, Names DEF holds_itself
  <2> QED BY <2>1 DEF RefsOK
<1>12. CountsOK
  <2>1. ASSUME NEW m \in Mm PROVE mm_users[m] = Count(Thread, mm, m)
    <3>1. m # None
      BY Names
    <3>2. {t \in Thread : mm[t] = m} = IF m = space THEN {first} ELSE {}
      BY <1>1, <1>2, <3>1
    <3> QED BY <1>1, <3>2, FS_EmptySet, FS_Singleton DEF Count
  <2>2. ASSUME NEW m \in AnyMm
        PROVE  mm_count[m] = own(m) + Count(Thread, lent, m) + Count(Cpu, prev_mm, m)
                             + Count(Cpu, dropping, m)
    <3>1. m # None
      BY Names
    <3>2. Count(Cpu, prev_mm, m) = 0
      BY <1>1, <3>1, Finite, CountType
    <3>3. Count(Cpu, dropping, m) = 0
      <4>1. \A c \in Cpu : dropping[c] # m
        BY <1>1, <1>4, <3>1, DroppingIs
      <4> QED BY <4>1, Finite, CountType
    <3>4. \A t \in Thread : lent[t] = InitMm <=> \E c \in Cpu : t = idle(c)
      BY <1>2, <1>3, <1>5, <1>6, Names, LentIs
    <3>5. CASE m = InitMm
      <4>1. {t \in Thread : lent[t] = m} = {idle(c) : c \in Cpu}
        BY <1>3, <3>4, <3>5
      <4>2. Count(Thread, lent, m) = NrCpus
        BY <4>1, Finite DEF Count
      <4>3. own(m) = 1 /\ mm_count[m] = 1 + NrCpus
        BY <1>1, <1>2, <3>5 DEF own
      <4> QED BY <1>3, <3>2, <3>3, <4>2, <4>3
    <3>6. CASE m # InitMm
      <4>1. \A t \in Thread : lent[t] # m
        BY <1>2, <1>5, <1>6, <3>1, <3>6, LentIs
      <4>2. Count(Thread, lent, m) = 0
        BY <4>1, Finite, CountType
      <4>3. m \in Mm
        BY <3>6 DEF AnyMm
      <4>4. mm_count[m] = own(m) /\ own(m) \in Int
        BY <1>1, <1>2, <3>6, <4>3 DEF own
      <4> QED BY <3>2, <3>3, <4>2, <4>4
    <3> QED BY <3>5, <3>6
  <2> QED BY <2>1, <2>2 DEF CountsOK
<1> QED BY <1>7, <1>8, <1>9, <1>10, <1>11, <1>12 DEF IndInv

LEMMA Step ==
  ASSUME SwitchAssumption, IndInv, [SwitchNext]_switch_vars
  PROVE  IndInv'
<1>1. ASSUME NEW c \in Cpu, NEW n \in Thread, Switch(c, n) PROVE IndInv'
  BY <1>1, StepSwitch
<1>2. ASSUME NEW c \in Cpu, FinishLocked(c) PROVE IndInv'
  BY <1>2, StepFinishLocked
<1>3. ASSUME NEW c \in Cpu, FinishUnlocked(c) PROVE IndInv'
  BY <1>3, StepFinishUnlocked
<1>4. ASSUME NEW c \in Cpu, Sleep(c) PROVE IndInv'
  BY <1>4, StepSleep
<1>5. ASSUME NEW c \in Cpu, Exit(c) PROVE IndInv'
  BY <1>5, StepExit
<1>6. ASSUME NEW c \in Cpu, NEW t \in Task, Fork(c, t) PROVE IndInv'
  BY <1>6, StepFork
<1>7. ASSUME NEW c \in Cpu, IdleTaskExit(c) \/ StartCpu(c) PROVE IndInv'
  BY <1>7, StepHotplug
<1>8. ASSUME NEW t \in Task, Wake(t) PROVE IndInv'
  BY <1>8, StepWake
<1>9. ASSUME NEW t \in Task, Reap(t) PROVE IndInv'
  BY <1>9, StepReap
<1>10. CASE UNCHANGED switch_vars
  <2>1. UNCHANGED <<curr, online, on_cpu, state, mm, active_mm, mm_users, mm_count, prev_mm,
                    finish, refs, reaped>>
    BY <1>10 DEF switch_vars
  <2>2. CpusOK' /\ CountsOK'
    BY <2>1, CpusKept
  <2>3. Types' /\ FinishOK' /\ ThreadsOK' /\ RefsOK'
    BY <2>1 DEF IndInv, Types, FinishOK, ThreadsOK, RefsOK, holds_itself
  <2> QED BY <2>2, <2>3 DEF IndInv
<1> QED BY <1>1, <1>2, <1>3, <1>4, <1>5, <1>6, <1>7, <1>8, <1>9, <1>10 DEF SwitchNext

\* An address space that a CPU uses is counted, by its processes or by the
\* thread that borrows it.
LEMMA CountedInUse ==
  ASSUME SwitchAssumption, IndInv, NEW c \in online
  PROVE  mm_count[active_mm[curr[c]]] > 0
<1> DEFINE t == curr[c]
           a == active_mm[t]
<1>1. Types /\ ThreadsOK /\ CountsOK /\ c \in Cpu
  BY DEF IndInv, Types
<1>2. t \in Thread /\ a \in AnyMm
  BY <1>1 DEF Types, ThreadsOK
<1>3. mm[t] # None => a = mm[t] /\ a \in Mm
  BY <1>1, <1>2 DEF Types, ThreadsOK
<1>4. lent[t] = (IF mm[t] = None THEN a ELSE None)
  BY <1>2, LentIs
<1>5. mm_count[a] = own(a) + Count(Thread, lent, a) + Count(Cpu, prev_mm, a)
                    + Count(Cpu, dropping, a)
  BY <1>1, <1>2 DEF CountsOK
<1> HIDE DEF t, a
<1>6. /\ Count(Thread, lent, a) \in Nat /\ Count(Cpu, prev_mm, a) \in Nat
      /\ Count(Cpu, dropping, a) \in Nat /\ own(a) \in {0, 1}
  BY Finite, CountType DEF own
<1>7. own(a) = 1 \/ Count(Thread, lent, a) > 0
  <2>1. CASE mm[t] = None
    BY <1>2, <1>4, <2>1, Finite, CountType
  <2>2. CASE mm[t] # None
    <3>1. Count(Thread, mm, a) > 0
      BY <1>2, <1>3, <2>2, Finite, CountType
    <3> QED BY <1>1, <1>3, <2>2, <3>1 DEF CountsOK, own
  <2> QED BY <2>1, <2>2
<1>8. mm_count[a] > 0
  BY ONLY <1>5, <1>6, <1>7
<1> QED BY <1>8 DEF a, t

LEMMA CountsAreExact ==
  ASSUME SwitchAssumption, IndInv
  PROVE  MmCountExact
<1>1. ASSUME NEW m \in Mm \cup {InitMm}
      PROVE  mm_count[m] = (IF m = InitMm \/ mm_users[m] > 0 THEN 1 ELSE 0)
                           + Cardinality({t \in Thread : mm[t] = None /\ active_mm[t] = m})
                           + Cardinality({c \in Cpu : prev_mm[c] = m})
                           + Cardinality({c \in Cpu : finish[c].mm = m})
  <2>1. m \in AnyMm /\ m # None
    BY Names DEF AnyMm
  <2>2. {t \in Thread : mm[t] = None /\ active_mm[t] = m} = {t \in Thread : lent[t] = m}
    BY <2>1, LentIs
  <2>3. {c \in Cpu : finish[c].mm = m} = {c \in Cpu : dropping[c] = m}
    BY DroppingIs
  <2>4. mm_count[m] = own(m) + Count(Thread, lent, m) + Count(Cpu, prev_mm, m)
                      + Count(Cpu, dropping, m)
    BY <2>1 DEF IndInv, CountsOK
  <2> QED BY <2>2, <2>3, <2>4 DEF Count, own
<1> QED BY <1>1, CountedInUse DEF MmCountExact

LEMMA TasksPutOnce ==
  ASSUME SwitchAssumption, IndInv
  PROVE  TaskPutOnce
<1>1. ASSUME NEW c \in Cpu, NEW t \in has(c) PROVE state[t] # "gone"
  BY DEF IndInv, CpusOK, ThreadsOK
<1>2. \A c \in Cpu : /\ state[curr[c]] # "gone"
                     /\ finish[c].at = "locked" => state[finish[c].prev] # "gone"
  BY <1>1 DEF has
<1> QED BY <1>2 DEF TaskPutOnce, IndInv, RefsOK, holds_itself

\* context_switch() and finish_task_switch(): whatever the number of tasks,
\* address spaces and CPUs, and wherever they are between taking over an
\* address space and the delayed mmdrop(), or between the death of a task and
\* put_task_struct(), every reference is counted once and dropped once.
THEOREM CountsCorrect ==
  ASSUME SwitchAssumption
  PROVE  SwitchSpec => []ReferencesExact
<1>1. SwitchInit => IndInv
  BY InitialState
<1>2. IndInv /\ [SwitchNext]_switch_vars => IndInv'
  BY Step
<1>3. IndInv => ReferencesExact
  BY CountsAreExact, TasksPutOnce DEF ReferencesExact
<1> QED BY <1>1, <1>2, <1>3, PTL DEF SwitchSpec

-----------------------------------------------------------------------------
(* SchedDomains *)

Dom == [rd : [DomCpu -> RootDomain], sd : [DomCpu -> SUBSET DomCpu],
        span : [RootDomain -> SUBSET DomCpu], online : [RootDomain -> SUBSET DomCpu],
        ref : [RootDomain -> Int]]

\* RootDomainExact, of d.
Exact(d) ==
  \A r \in RootDomain :
    /\ d.span[r] = {c \in DomCpu : d.rd[c] = r}
    /\ d.ref[r] = Cardinality(d.span[r]) + (IF r = Def THEN 1 ELSE 0)
    /\ d.online[r] \subseteq d.span[r]

\* The CPUs m have a root domain to themselves, and the domain they need.
Built(d, m) ==
  \A c \in m :
    /\ d.rd[c] # Def /\ \A x \in DomCpu : (d.rd[x] = d.rd[c]) <=> x \in m
    /\ d.sd[c] = IF Cardinality(m) > 1 THEN m ELSE {}

\* Of the parts, those without a CPU in bad are built; the CPUs of the others,
\* and those outside, are in def_root_domain.
Divided(d, parts, bad) ==
  /\ \A m \in parts : \/ m \cap bad = {} /\ Built(d, m)
                      \/ m \subseteq bad /\ \A c \in m : d.rd[c] = Def
  /\ \A c \in DomCpu \ UNION parts : d.rd[c] = Def
  /\ bad \subseteq UNION parts

\* doms_cur is what the cpusets ask for, unless CPUs are frozen.
AsAsked ==
  /\ phase = "boot" => cpu_active = DomCpu /\ config = {DomCpu \ Isolated}
                       /\ \A c \in DomCpu : status[c] = "up"
  /\ phase # "boot" /\ num_cpus_frozen = 0 => doms_cur \ {{}} = wanted(config, cpu_active)
  /\ suspending /\ (\E c \in DomCpu : status[c] = "going") => num_cpus_frozen > 0

DomainTypes ==
  /\ dom \in Dom /\ cpu_active \subseteq DomCpu
  /\ status \in [DomCpu -> {"up", "going", "down", "frozen"}]
  /\ doms_cur \subseteq SUBSET DomCpu /\ Disjoint(doms_cur)
  /\ num_cpus_frozen \in Nat /\ phase \in {"boot", "run", "suspend"}
  /\ Disjoint(config)

DomInv == DomainTypes /\ Exact(dom) /\ Divided(dom, doms_cur, failed) /\ AsAsked

\* Induction along the choice of Pick(): what holds of the empty set, and of a
\* set when it holds without the element picked, holds of every subset.
LEMMA PickInduction ==
  ASSUME NEW T, IsFiniteSet(T), NEW P, {} \in P,
         \A s \in SUBSET T : s # {} /\ s \ {Pick(s)} \in P => s \in P
  PROVE  SUBSET T \subseteq P
<1> DEFINE Q == {n \in Nat : \A s \in SUBSET T : Cardinality(s) <= n => s \in P}
<1>0. \A s \in SUBSET T : IsFiniteSet(s) /\ Cardinality(s) \in Nat /\ (Cardinality(s) = 0 <=> s = {})
  BY FS_Subset, FS_CardinalityType, FS_EmptySet
<1>1. 0 \in Q
  <2>1. ASSUME NEW s \in SUBSET T, Cardinality(s) <= 0 PROVE s \in P
    <3>1. s = {}
      BY <1>0, <2>1
    <3> QED BY <3>1
  <2> QED BY <2>1
<1>2. ASSUME NEW n \in Nat, n \in Q PROVE n + 1 \in Q
  <2> SUFFICES ASSUME NEW s \in SUBSET T, Cardinality(s) <= n + 1, s # {}
               PROVE  s \in P
    OBVIOUS
  <2>1. Pick(s) \in s
    BY DEF Pick
  <2>2. Cardinality(s \ {Pick(s)}) <= n
    <3>1. Cardinality(s \ {Pick(s)}) = Cardinality(s) - 1 /\ Cardinality(s) \in Nat
      BY <1>0, <2>1, FS_RemoveElement
    <3> QED BY <3>1
  <2>3. s \ {Pick(s)} \in P
    BY <1>2, <2>2
  <2> QED BY <2>3
<1>3. Nat \subseteq Q
  <2> HIDE DEF Q
  <2> QED BY <1>1, <1>2, SetInduction
<1> QED BY <1>0, <1>3

\* a has the outcome of a fold for every subset of S.
IsFold(a, S, base, step) ==
  a = [s \in SUBSET S |-> IF s = {} THEN base ELSE step[<<Pick(s), a[s \ {Pick(s)}]>>]]

\* The recursion behind FoldSet has a solution when every turn leads from V to
\* V.
LEMMA FoldExists ==
  ASSUME NEW S, IsFiniteSet(S), NEW V, NEW base \in V, NEW step \in [S \X V -> V]
  PROVE  \E a : IsFold(a, S, base, step) /\ \A s \in SUBSET S : a[s] \in V
<1> DEFINE Turn(a, s) == IF s = {} THEN base ELSE step[<<Pick(s), a[s \ {Pick(s)}]>>]
           Solves(a, n) == \A s \in SUBSET S : Cardinality(s) <= n => a[s] = Turn(a, s)
           P == {n \in Nat : \E a \in [SUBSET S -> V] : Solves(a, n)}
<1>0. \A s \in SUBSET S : IsFiniteSet(s) /\ Cardinality(s) \in Nat /\ (Cardinality(s) = 0 <=> s = {})
  BY FS_Subset, FS_CardinalityType, FS_EmptySet
<1>1. \A s \in SUBSET S : s # {} =>
         /\ Pick(s) \in S /\ s \ {Pick(s)} \in SUBSET S
         /\ Cardinality(s \ {Pick(s)}) = Cardinality(s) - 1
  BY <1>0, FS_RemoveElement DEF Pick
<1>2. 0 \in P
  <2> DEFINE a == [s \in SUBSET S |-> base]
  <2>1. Solves(a, 0)
    BY <1>0
  <2>2. a \in [SUBSET S -> V]
    OBVIOUS
  <2> HIDE DEF a
  <2> QED BY <2>1, <2>2
<1>3. ASSUME NEW n \in Nat, n \in P PROVE n + 1 \in P
  <2>1. PICK a \in [SUBSET S -> V] : Solves(a, n)
    BY <1>3
  <2> DEFINE b == [s \in SUBSET S |-> Turn(a, s)]
  <2>2. b \in [SUBSET S -> V]
    BY <1>1
  <2>3. ASSUME NEW s \in SUBSET S, Cardinality(s) <= n + 1 PROVE b[s] = Turn(b, s)
    <3>1. CASE s = {}
      BY <3>1
    <3>2. CASE s # {}
      <4>1. Cardinality(s \ {Pick(s)}) <= n /\ s \ {Pick(s)} \in SUBSET S
        BY <2>3, <3>2, <1>0, <1>1
      <4>2. b[s \ {Pick(s)}] = a[s \ {Pick(s)}]
        BY <2>1, <4>1
      <4> QED BY <3>2, <4>2
    <3> QED BY <3>1, <3>2
  <2>4. Solves(b, n + 1)
    BY <2>3
  <2> HIDE DEF b, Solves
  <2> QED BY <2>2, <2>4
<1>4. Cardinality(S) \in P
  <2> HIDE DEF P
  <2>1. Nat \subseteq P
    BY <1>2, <1>3, SetInduction
  <2> QED BY <1>0, <2>1
<1>5. PICK a \in [SUBSET S -> V] : Solves(a, Cardinality(S))
  BY <1>4
<1>6. ASSUME NEW s \in SUBSET S PROVE a[s] = Turn(a, s)
  <2>1. Cardinality(s) <= Cardinality(S)
    BY FS_Subset
  <2> QED BY <1>5, <2>1
<1>7. a = [s \in SUBSET S |-> Turn(a, s)]
  BY <1>6
<1> QED BY <1>5, <1>7 DEF IsFold

LEMMA CpusFinite ==
  ASSUME NEW m, m \subseteq DomCpu
  PROVE  IsFiniteSet(m) /\ Cardinality(m) \in Nat
<1>1. IsFiniteSet(m)
  BY DomainsAssumption, FS_Subset
<1> QED BY <1>1, FS_CardinalityType

\* The domain a CPU gets when it is attached to m.
kept(m) == IF Cardinality(m) > 1 THEN m ELSE {}

\* One CPU changes its root domain.
LEMMA AttachOne ==
  ASSUME NEW d \in Dom, Exact(d), NEW c \in DomCpu, NEW m, m \subseteq DomCpu, NEW r \in RootDomain
  PROVE  LET e == cpu_attach_domain(d, c, m, r)
         IN  /\ e \in Dom /\ Exact(e)
             /\ e.rd = [d.rd EXCEPT ![c] = r]
             /\ e.sd = [d.sd EXCEPT ![c] = kept(m)]
<1> DEFINE o == d.rd[c]
           l == leave(d, c)
           e == cpu_attach_domain(d, c, m, r)
<1>0. o \in RootDomain
  BY DEF Dom
<1> DEFINE ls == [d.span EXCEPT ![o] = @ \ {c}]
           lo == [d.online EXCEPT ![o] = @ \ {c}]
           lr == [d.ref EXCEPT ![o] = @ - 1]
           rd == [d.rd EXCEPT ![c] = r]
           sd == [d.sd EXCEPT ![c] = kept(m)]
           span == [ls EXCEPT ![r] = @ \cup {c}]
           onl == [lo EXCEPT ![r] = IF c \in cpu_active' THEN @ \cup {c} ELSE @]
           ref == [lr EXCEPT ![r] = @ + 1]
<1>1. /\ l.rd = d.rd /\ l.sd = d.sd /\ l.span = ls /\ l.online = lo /\ l.ref = lr
      /\ l = [rd |-> l.rd, sd |-> l.sd, span |-> l.span, online |-> l.online, ref |-> l.ref]
  <2>1. l.rd = d.rd /\ l.sd = d.sd /\ l.span = ls
    BY DEF leave, Dom
  <2>2. l.online = lo /\ l.ref = lr
    BY DEF leave, Dom
  <2>3. l = [rd |-> l.rd, sd |-> l.sd, span |-> l.span, online |-> l.online, ref |-> l.ref]
    <3> DEFINE k == leave(d, c)
    <3>1. ASSUME NEW x, x = k
          PROVE  x = [rd |-> x.rd, sd |-> x.sd, span |-> x.span, online |-> x.online, ref |-> x.ref]
      BY <3>1 DEF leave, Dom
    <3> HIDE DEF k
    <3> QED BY <3>1 DEF k
  <2> QED BY <2>1, <2>2, <2>3
<1>6. /\ d.rd \in [DomCpu -> RootDomain] /\ d.sd \in [DomCpu -> SUBSET DomCpu]
      /\ d.span \in [RootDomain -> SUBSET DomCpu] /\ d.online \in [RootDomain -> SUBSET DomCpu]
      /\ d.ref \in [RootDomain -> Int]
  BY DEF Dom
<1>7. /\ ls \in [RootDomain -> SUBSET DomCpu] /\ lo \in [RootDomain -> SUBSET DomCpu]
      /\ lr \in [RootDomain -> Int]
  BY <1>0, <1>6
<1>2. ASSUME NEW a, a = rq_attach_root(d, c, r)
      PROVE  a = [rd |-> rd, sd |-> d.sd, span |-> span, online |-> onl, ref |-> ref]
  <2>1. l \in Dom
    BY <1>1, <1>6, <1>7 DEF Dom
  <2>2. a = [l EXCEPT !.rd[c] = r, !.ref[r] = @ + 1, !.span[r] = @ \cup {c},
                      !.online[r] = IF c \in cpu_active' THEN @ \cup {c} ELSE @]
    BY <1>2 DEF rq_attach_root
  <2> HIDE DEF l
  <2>3. /\ a.rd = [l.rd EXCEPT ![c] = r] /\ a.sd = l.sd
        /\ a.span = [l.span EXCEPT ![r] = @ \cup {c}]
        /\ a.online = [l.online EXCEPT ![r] = IF c \in cpu_active' THEN @ \cup {c} ELSE @]
        /\ a.ref = [l.ref EXCEPT ![r] = @ + 1]
    BY <2>1, <2>2 DEF Dom
  <2>4. a = [rd |-> a.rd, sd |-> a.sd, span |-> a.span, online |-> a.online, ref |-> a.ref]
    BY <2>1, <2>2 DEF Dom
  <2> QED BY <1>1, <2>3, <2>4
<1>3. (IF sd_degenerate(m) THEN {} ELSE m) = kept(m)
  BY CpusFinite DEF sd_degenerate, kept
<1>4. e = [rd |-> rd, sd |-> sd, span |-> span, online |-> onl, ref |-> ref]
  <2> DEFINE a == rq_attach_root(d, c, r)
  <2>1. a = [rd |-> rd, sd |-> d.sd, span |-> span, online |-> onl, ref |-> ref]
    BY <1>2
  <2>2. e = [a EXCEPT !.sd[c] = kept(m)]
    BY <1>3 DEF cpu_attach_domain
  <2> HIDE DEF a, e, rd, span, onl, ref
  <2> QED BY <2>1, <2>2
<1>5. kept(m) \in SUBSET DomCpu
  BY DEF kept
<1>8. /\ rd \in [DomCpu -> RootDomain] /\ sd \in [DomCpu -> SUBSET DomCpu]
      /\ span \in [RootDomain -> SUBSET DomCpu] /\ onl \in [RootDomain -> SUBSET DomCpu]
      /\ ref \in [RootDomain -> Int]
  BY <1>5, <1>6, <1>7
<1>9. e \in Dom
  <2> HIDE DEF e, rd, sd, span, onl, ref
  <2> QED BY <1>4, <1>8 DEF Dom
<1>10. ASSUME NEW q \in RootDomain
       PROVE  /\ span[q] = {x \in DomCpu : rd[x] = q}
              /\ ref[q] = Cardinality(span[q]) + (IF q = Def THEN 1 ELSE 0)
              /\ onl[q] \subseteq span[q]
  <2>1. /\ d.span[q] = {x \in DomCpu : d.rd[x] = q}
        /\ d.ref[q] = Cardinality(d.span[q]) + (IF q = Def THEN 1 ELSE 0)
        /\ d.online[q] \subseteq d.span[q]
    BY DEF Exact
  <2>2. /\ ls[q] = d.span[q] \ {c} /\ lo[q] = d.online[q] \ {c}
        /\ lr[q] = Cardinality(d.span[q] \ {c}) + (IF q = Def THEN 1 ELSE 0)
    <3>1. IsFiniteSet(d.span[q]) /\ Cardinality(d.span[q]) \in Nat
      BY <1>6, CpusFinite
    <3>2. Cardinality(d.span[q] \ {c}) = IF c \in d.span[q] THEN Cardinality(d.span[q]) - 1
                                         ELSE Cardinality(d.span[q])
      BY <3>1, FS_RemoveElement
    <3>3. c \in d.span[q] <=> q = o
      BY <2>1
    <3>4. q # o => d.span[q] \ {c} = d.span[q] /\ d.online[q] \ {c} = d.online[q]
      BY <2>1, <3>3
    <3> QED BY <1>0, <1>6, <2>1, <3>1, <3>2, <3>3, <3>4
  <2>3. /\ span[q] = IF q = r THEN (d.span[q] \ {c}) \cup {c} ELSE d.span[q] \ {c}
        /\ ref[q] = IF q = r THEN lr[q] + 1 ELSE lr[q]
        /\ onl[q] \subseteq IF q = r THEN (d.online[q] \ {c}) \cup {c} ELSE d.online[q] \ {c}
    BY <1>7, <2>2
  <2>4. span[q] = {x \in DomCpu : rd[x] = q}
    BY <1>6, <2>1, <2>3
  <2>5. ref[q] = Cardinality(span[q]) + (IF q = Def THEN 1 ELSE 0)
    <3> DEFINE t == d.span[q] \ {c}
    <3>1. IsFiniteSet(t) /\ Cardinality(t) \in Nat
      BY <1>6, CpusFinite
    <3>2. Cardinality(t \cup {c}) = Cardinality(t) + 1
      BY <3>1, FS_AddElement
    <3> QED BY <2>2, <2>3, <3>1, <3>2
  <2>6. onl[q] \subseteq span[q]
    <3> HIDE DEF onl, span
    <3> QED BY <2>1, <2>3
  <2> QED BY <2>4, <2>5, <2>6
<1>11. Exact(e)
  <2> HIDE DEF span, rd, ref, onl, sd, e
  <2> QED BY <1>4, <1>10 DEF Exact
<1>12. e.rd = rd /\ e.sd = sd
  <2> HIDE DEF span, rd, ref, onl, sd, e
  <2> QED BY <1>4
<1> HIDE DEF e
<1> QED BY <1>9, <1>11, <1>12 DEF e

LEMMA AttachAllIs ==
  ASSUME NEW d \in Dom, Exact(d), NEW s, s \subseteq DomCpu, NEW m, m \subseteq DomCpu,
         NEW r, s # {} => r \in RootDomain
  PROVE  LET e == attach_all(d, s, m, r)
         IN  /\ e \in Dom /\ Exact(e)
             /\ e.rd = [c \in DomCpu |-> IF c \in s THEN r ELSE d.rd[c]]
             /\ e.sd = [c \in DomCpu |-> IF c \in s THEN kept(m) ELSE d.sd[c]]
<1> DEFINE V == {e \in Dom : Exact(e)}
           Turns(a) == a = [t \in SUBSET s |-> IF t = {} THEN d
                               ELSE cpu_attach_domain(a[t \ {Pick(t)}], Pick(t), m, r)]
           step == [p \in s \X V |-> cpu_attach_domain(p[2], p[1], m, r)]
           Right(e, t) ==
             /\ e \in Dom /\ Exact(e)
             /\ e.rd = [c \in DomCpu |-> IF c \in t THEN r ELSE d.rd[c]]
             /\ e.sd = [c \in DomCpu |-> IF c \in t THEN kept(m) ELSE d.sd[c]]
<1>1. attach_all(d, s, m, r) = (CHOOSE a : Turns(a))[s]
  BY Zenon DEF attach_all, FoldSet, MapThenFoldSet, Pick
<1>2. IsFiniteSet(s)
  BY CpusFinite
<1>3. \E a : Turns(a)
  <2>1. step \in [s \X V -> V]
    <3>1. ASSUME NEW c \in s, NEW e \in V PROVE cpu_attach_domain(e, c, m, r) \in V
      BY AttachOne
    <3> QED BY <3>1
  <2>2. d \in V
    OBVIOUS
  <2> HIDE DEF V, step
  <2>3. PICK a : IsFold(a, s, d, step) /\ \A t \in SUBSET s : a[t] \in V
    BY <1>2, <2>1, <2>2, FoldExists
  <2>4. ASSUME NEW t \in SUBSET s, t # {}
        PROVE  step[<<Pick(t), a[t \ {Pick(t)}]>>] = cpu_attach_domain(a[t \ {Pick(t)}], Pick(t), m, r)
    <3>1. Pick(t) \in s /\ a[t \ {Pick(t)}] \in V
      BY <2>3, <2>4 DEF Pick
    <3> QED BY <3>1 DEF step
  <2>5. a = [t \in SUBSET s |-> IF t = {} THEN d
                               ELSE cpu_attach_domain(a[t \ {Pick(t)}], Pick(t), m, r)]
    BY <2>3, <2>4 DEF IsFold
  <2> QED BY <2>5
<1>4. PICK a : a = (CHOOSE b : Turns(b)) /\ Turns(a)
  <2> HIDE DEF Turns
  <2> QED BY <1>3
<1> DEFINE P == {t \in SUBSET s : Right(a[t], t)}
<1>5. {} \in P
  <2>1. a[{}] = d
    BY <1>4
  <2>2. d.rd = [c \in DomCpu |-> d.rd[c]] /\ d.sd = [c \in DomCpu |-> d.sd[c]]
    BY DEF Dom
  <2>3. Right(d, {})
    BY <2>2
  <2> HIDE DEF Right
  <2> QED BY <2>1, <2>3
<1>6. ASSUME NEW t \in SUBSET s, t # {}, t \ {Pick(t)} \in P PROVE t \in P
  <2> DEFINE c == Pick(t)
             b == a[t \ {c}]
  <2>1. c \in t /\ c \in DomCpu /\ r \in RootDomain
    BY <1>6 DEF Pick
  <2>2. Right(b, t \ {c})
    BY <1>6
  <2>3. a[t] = cpu_attach_domain(b, c, m, r)
    BY <1>4, <1>6
  <2> HIDE DEF c, b
  <2>4. /\ a[t] \in Dom /\ Exact(a[t])
        /\ a[t].rd = [b.rd EXCEPT ![c] = r] /\ a[t].sd = [b.sd EXCEPT ![c] = kept(m)]
    <3>1. b \in Dom /\ Exact(b)
      BY <2>2
    <3> QED BY <2>1, <2>3, <3>1, AttachOne
  <2>5. /\ a[t].rd = [x \in DomCpu |-> IF x \in t THEN r ELSE d.rd[x]]
        /\ a[t].sd = [x \in DomCpu |-> IF x \in t THEN kept(m) ELSE d.sd[x]]
    <3>1. /\ b.rd = [x \in DomCpu |-> IF x \in t \ {c} THEN r ELSE d.rd[x]]
          /\ b.sd = [x \in DomCpu |-> IF x \in t \ {c} THEN kept(m) ELSE d.sd[x]]
      BY <2>2
    <3> HIDE DEF Right
    <3>2. \A x \in DomCpu : x = c \/ (x \in t \ {c} <=> x \in t)
      OBVIOUS
    <3>3. a[t].rd = [x \in DomCpu |-> IF x \in t THEN r ELSE d.rd[x]]
      <4>1. [b.rd EXCEPT ![c] = r] = [x \in DomCpu |-> IF x = c THEN r ELSE b.rd[x]]
        BY <3>1
      <4>2. \A x \in DomCpu : (IF x = c THEN r ELSE b.rd[x]) = IF x \in t THEN r ELSE d.rd[x]
        BY <2>1, <3>1, <3>2
      <4> QED BY <2>4, <4>1, <4>2
    <3>4. a[t].sd = [x \in DomCpu |-> IF x \in t THEN kept(m) ELSE d.sd[x]]
      <4>1. [b.sd EXCEPT ![c] = kept(m)] = [x \in DomCpu |-> IF x = c THEN kept(m) ELSE b.sd[x]]
        BY <3>1
      <4>2. \A x \in DomCpu :
              (IF x = c THEN kept(m) ELSE b.sd[x]) = IF x \in t THEN kept(m) ELSE d.sd[x]
        BY <2>1, <3>1, <3>2
      <4> QED BY <2>4, <4>1, <4>2
    <3> QED BY <3>3, <3>4
  <2> QED BY <2>4, <2>5
<1>7. s \in P
  <2> HIDE DEF P
  <2> QED BY <1>2, <1>5, <1>6, PickInduction
<1> QED BY <1>1, <1>4, <1>7

LEMMA PartsFinite ==
  ASSUME NEW parts, parts \subseteq SUBSET DomCpu
  PROVE  IsFiniteSet(parts)
<1>1. IsFiniteSet(SUBSET DomCpu)
  BY DomainsAssumption, FS_SUBSET
<1> QED BY <1>1, FS_Subset

\* The CPUs of the parts go back to def_root_domain.
LEMMA DestroyAllIs ==
  ASSUME NEW d \in Dom, Exact(d), NEW parts, parts \subseteq SUBSET DomCpu
  PROVE  LET e == destroy_all(d, parts)
         IN  /\ e \in Dom /\ Exact(e)
             /\ e.rd = [c \in DomCpu |-> IF c \in UNION parts THEN Def ELSE d.rd[c]]
             /\ e.sd = [c \in DomCpu |-> IF c \in UNION parts THEN {} ELSE d.sd[c]]
<1> DEFINE V == {e \in Dom : Exact(e)}
           Turns(a) == a = [t \in SUBSET parts |-> IF t = {} THEN d
                               ELSE detach_destroy_domains(a[t \ {Pick(t)}], Pick(t))]
           step == [p \in parts \X V |-> detach_destroy_domains(p[2], p[1])]
           Right(e, t) ==
             /\ e \in Dom /\ Exact(e)
             /\ e.rd = [c \in DomCpu |-> IF c \in UNION t THEN Def ELSE d.rd[c]]
             /\ e.sd = [c \in DomCpu |-> IF c \in UNION t THEN {} ELSE d.sd[c]]
<1>0. ASSUME NEW e \in Dom, Exact(e), NEW m, m \subseteq DomCpu
      PROVE  LET f == detach_destroy_domains(e, m)
             IN  /\ f \in Dom /\ Exact(f)
                 /\ f.rd = [c \in DomCpu |-> IF c \in m THEN Def ELSE e.rd[c]]
                 /\ f.sd = [c \in DomCpu |-> IF c \in m THEN {} ELSE e.sd[c]]
  <2>1. kept({}) = {}
    BY DEF kept
  <2>2. Def \in RootDomain /\ {} \subseteq DomCpu
    BY DomainsAssumption
  <2> DEFINE f == attach_all(e, m, {}, Def)
  <2>3. /\ f \in Dom /\ Exact(f)
        /\ f.rd = [c \in DomCpu |-> IF c \in m THEN Def ELSE e.rd[c]]
        /\ f.sd = [c \in DomCpu |-> IF c \in m THEN kept({}) ELSE e.sd[c]]
    BY <1>0, <2>2, AttachAllIs
  <2> HIDE DEF f
  <2>4. detach_destroy_domains(e, m) = f
    BY DEF detach_destroy_domains, f
  <2> QED BY <2>1, <2>3, <2>4
<1>1. destroy_all(d, parts) = (CHOOSE a : Turns(a))[parts]
  BY Zenon DEF destroy_all, FoldSet, MapThenFoldSet, Pick
<1>2. IsFiniteSet(parts)
  BY PartsFinite
<1>3. \E a : Turns(a)
  <2>1. step \in [parts \X V -> V]
    <3>1. ASSUME NEW m \in parts, NEW e \in V PROVE detach_destroy_domains(e, m) \in V
      <4>1. m \subseteq DomCpu
        OBVIOUS
      <4> QED BY <1>0, <4>1
    <3> QED BY <3>1
  <2>2. d \in V
    OBVIOUS
  <2> HIDE DEF V, step
  <2>3. PICK a : IsFold(a, parts, d, step) /\ \A t \in SUBSET parts : a[t] \in V
    BY <1>2, <2>1, <2>2, FoldExists
  <2>4. ASSUME NEW t \in SUBSET parts, t # {}
        PROVE  step[<<Pick(t), a[t \ {Pick(t)}]>>] = detach_destroy_domains(a[t \ {Pick(t)}], Pick(t))
    <3>1. Pick(t) \in parts /\ a[t \ {Pick(t)}] \in V
      BY <2>3, <2>4 DEF Pick
    <3> QED BY <3>1 DEF step
  <2>5. a = [t \in SUBSET parts |-> IF t = {} THEN d
                               ELSE detach_destroy_domains(a[t \ {Pick(t)}], Pick(t))]
    BY <2>3, <2>4 DEF IsFold
  <2> QED BY <2>5
<1>4. PICK a : a = (CHOOSE b : Turns(b)) /\ Turns(a)
  <2> HIDE DEF Turns
  <2> QED BY <1>3
<1> DEFINE P == {t \in SUBSET parts : Right(a[t], t)}
<1>5. {} \in P
  <2>1. a[{}] = d
    BY <1>4
  <2>2. d.rd = [c \in DomCpu |-> d.rd[c]] /\ d.sd = [c \in DomCpu |-> d.sd[c]]
    BY DEF Dom
  <2>3. Right(d, {})
    BY <2>2
  <2> HIDE DEF Right
  <2> QED BY <2>1, <2>3
<1>6. ASSUME NEW t \in SUBSET parts, t # {}, t \ {Pick(t)} \in P PROVE t \in P
  <2> DEFINE m == Pick(t)
             b == a[t \ {m}]
  <2>1. m \in t /\ m \subseteq DomCpu
    <3>1. m \in t
      BY <1>6 DEF Pick
    <3> QED BY <3>1
  <2>2. Right(b, t \ {m})
    BY <1>6
  <2>3. a[t] = detach_destroy_domains(b, m)
    BY <1>4, <1>6
  <2> HIDE DEF m, b
  <2>4. /\ a[t] \in Dom /\ Exact(a[t])
        /\ a[t].rd = [c \in DomCpu |-> IF c \in m THEN Def ELSE b.rd[c]]
        /\ a[t].sd = [c \in DomCpu |-> IF c \in m THEN {} ELSE b.sd[c]]
    <3>1. b \in Dom /\ Exact(b)
      BY <2>2
    <3> QED BY <1>0, <2>1, <2>3, <3>1
  <2>5. /\ a[t].rd = [c \in DomCpu |-> IF c \in UNION t THEN Def ELSE d.rd[c]]
        /\ a[t].sd = [c \in DomCpu |-> IF c \in UNION t THEN {} ELSE d.sd[c]]
    <3>1. /\ b.rd = [c \in DomCpu |-> IF c \in UNION (t \ {m}) THEN Def ELSE d.rd[c]]
          /\ b.sd = [c \in DomCpu |-> IF c \in UNION (t \ {m}) THEN {} ELSE d.sd[c]]
      BY <2>2
    <3>2. \A c \in DomCpu : c \in UNION t <=> c \in m \/ c \in UNION (t \ {m})
      BY <2>1
    <3> HIDE DEF Right
    <3>3. a[t].rd = [c \in DomCpu |-> IF c \in UNION t THEN Def ELSE d.rd[c]]
      BY <2>4, <3>1, <3>2
    <3>4. a[t].sd = [c \in DomCpu |-> IF c \in UNION t THEN {} ELSE d.sd[c]]
      BY <2>4, <3>1, <3>2
    <3> QED BY <3>3, <3>4
  <2> QED BY <2>4, <2>5
<1>7. parts \in P
  <2> HIDE DEF P
  <2> QED BY <1>2, <1>5, <1>6, PickInduction
<1> QED BY <1>1, <1>4, <1>7

\* While a CPU is in def_root_domain there is a root domain without one.
LEMMA FreeRootDomain ==
  ASSUME NEW d \in Dom, Exact(d), NEW c \in DomCpu, d.rd[c] = Def
  PROVE  LET r == CHOOSE x \in RootDomain : d.ref[x] = 0
         IN  r \in RootDomain /\ r # Def /\ \A x \in DomCpu : d.rd[x] # r
<1>1. ASSUME NEW r \in RootDomain
      PROVE  d.ref[r] = 0 <=> r # Def /\ \A x \in DomCpu : d.rd[x] # r
  <2>1. /\ d.span[r] = {x \in DomCpu : d.rd[x] = r}
        /\ d.ref[r] = Cardinality(d.span[r]) + (IF r = Def THEN 1 ELSE 0)
    BY DEF Exact
  <2>2. IsFiniteSet(d.span[r]) /\ Cardinality(d.span[r]) \in Nat
    BY <2>1, CpusFinite
  <2>3. Cardinality(d.span[r]) = 0 <=> d.span[r] = {}
    BY <2>2, FS_EmptySet
  <2>4. d.span[r] = {} <=> \A x \in DomCpu : d.rd[x] # r
    BY <2>1
  <2> QED BY <2>1, <2>2, <2>3, <2>4
<1>2. \E r \in RootDomain : d.ref[r] = 0
  <2> SUFFICES ASSUME \A r \in RootDomain : d.ref[r] # 0 PROVE FALSE
    OBVIOUS
  <2>1. \A r \in RootDomain : \E x \in DomCpu : d.rd[x] = r
    BY <1>1
  <2> DEFINE f == [r \in RootDomain |-> CHOOSE x \in DomCpu : d.rd[x] = r]
  <2>2. \A r \in RootDomain : f[r] \in DomCpu /\ d.rd[f[r]] = r
    BY <2>1
  <2>3. f \in [RootDomain -> DomCpu]
    BY <2>2
  <2> HIDE DEF f
  <2>4. PICK x, y \in RootDomain : x # y /\ f[x] = f[y]
    BY <2>3, DomainsAssumption, FS_PigeonHole
  <2> QED BY <2>2, <2>4
<1> QED BY <1>1, <1>2

\* The parts of s are built, and CPUs outside are where they were in d.
Progress(d, e, s) ==
  /\ e \in Dom /\ Exact(e)
  /\ \A m \in s : Built(e, m)
  /\ \A c \in DomCpu \ UNION s : e.rd[c] = d.rd[c] /\ e.sd[c] = d.sd[c]

LEMMA BuildOne ==
  ASSUME NEW d, NEW e, NEW s, s \subseteq SUBSET DomCpu, Progress(d, e, s),
         NEW m, m \subseteq DomCpu, \A n \in s : n \cap m = {}, \A c \in m : d.rd[c] = Def
  PROVE  Progress(d, build_sched_domains(e, m), s \cup {m})
<1> DEFINE r == CHOOSE x \in RootDomain : e.ref[x] = 0
           f == build_sched_domains(e, m)
<1>0. e \in Dom /\ Exact(e)
  BY DEF Progress
<1>1. \A c \in m : c \in DomCpu /\ c \notin UNION s
  OBVIOUS
<1>2. \A c \in m : e.rd[c] = Def
  BY <1>1 DEF Progress
<1>3. m # {} => r \in RootDomain /\ r # Def /\ \A x \in DomCpu : e.rd[x] # r
  <2> SUFFICES ASSUME NEW c \in m PROVE r \in RootDomain /\ r # Def /\ \A x \in DomCpu : e.rd[x] # r
    OBVIOUS
  <2>1. c \in DomCpu /\ e.rd[c] = Def
    BY <1>1, <1>2
  <2> QED BY <1>0, <2>1, FreeRootDomain
<1> HIDE DEF r
<1>4. /\ f \in Dom /\ Exact(f)
      /\ f.rd = [c \in DomCpu |-> IF c \in m THEN r ELSE e.rd[c]]
      /\ f.sd = [c \in DomCpu |-> IF c \in m THEN kept(m) ELSE e.sd[c]]
  <2>1. f = attach_all(e, m, m, r)
    BY DEF build_sched_domains, r
  <2> HIDE DEF f
  <2> QED BY <1>0, <1>3, <2>1, AttachAllIs
<1> HIDE DEF f
<1>5. ASSUME NEW n \in s PROVE Built(f, n)
  <2> SUFFICES ASSUME NEW c \in n
               PROVE  /\ f.rd[c] # Def /\ \A x \in DomCpu : (f.rd[x] = f.rd[c]) <=> x \in n
                      /\ f.sd[c] = IF Cardinality(n) > 1 THEN n ELSE {}
    BY DEF Built
  <2>1. /\ e.rd[c] # Def /\ \A x \in DomCpu : (e.rd[x] = e.rd[c]) <=> x \in n
        /\ e.sd[c] = IF Cardinality(n) > 1 THEN n ELSE {}
    BY DEF Progress, Built
  <2>2. c \in DomCpu /\ c \notin m /\ n \cap m = {}
    OBVIOUS
  <2>3. f.rd[c] = e.rd[c] /\ f.sd[c] = e.sd[c]
    BY <1>4, <2>2
  <2>4. ASSUME NEW x \in DomCpu PROVE (f.rd[x] = f.rd[c]) <=> x \in n
    <3>1. CASE x \in m
      <4>1. f.rd[x] = r /\ e.rd[c] # r /\ x \notin n
        BY <1>3, <1>4, <2>2, <3>1
      <4> QED BY <2>3, <4>1
    <3>2. CASE x \notin m
      BY <1>4, <2>1, <2>3, <3>2
    <3> QED BY <3>1, <3>2
  <2> QED BY <2>1, <2>3, <2>4
<1>6. Built(f, m)
  <2> SUFFICES ASSUME NEW c \in m
               PROVE  /\ f.rd[c] # Def /\ \A x \in DomCpu : (f.rd[x] = f.rd[c]) <=> x \in m
                      /\ f.sd[c] = IF Cardinality(m) > 1 THEN m ELSE {}
    BY DEF Built
  <2> QED BY <1>1, <1>3, <1>4 DEF kept
<1>7. ASSUME NEW c \in DomCpu \ UNION (s \cup {m}) PROVE f.rd[c] = d.rd[c] /\ f.sd[c] = d.sd[c]
  <2>1. c \notin m /\ c \in DomCpu \ UNION s
    OBVIOUS
  <2> QED BY <1>4, <2>1 DEF Progress
<1>8. \A n \in s \cup {m} : Built(f, n)
  BY <1>5, <1>6
<1>9. Progress(d, f, s \cup {m})
  BY <1>4, <1>7, <1>8 DEF Progress
<1> QED BY <1>9 DEF f

\* All parts are built that are disjoint and in def_root_domain before.
LEMMA BuildAllIs ==
  ASSUME NEW d \in Dom, Exact(d), NEW parts, parts \subseteq SUBSET DomCpu, Disjoint(parts),
         \A m \in parts : \A c \in m : d.rd[c] = Def
  PROVE  Progress(d, build_all(d, parts), parts)
<1> DEFINE V == Dom
           Turns(a) == a = [t \in SUBSET parts |-> IF t = {} THEN d
                               ELSE build_sched_domains(a[t \ {Pick(t)}], Pick(t))]
           turn(e, m) == build_sched_domains(e, m)
           step == [p \in parts \X Dom |-> IF build_sched_domains(p[2], p[1]) \in Dom
                                           THEN build_sched_domains(p[2], p[1]) ELSE p[2]]
<1>0. build_all(d, parts) = (CHOOSE a : Turns(a))[parts]
  BY Zenon DEF build_all, FoldSet, MapThenFoldSet, Pick
<1>1. IsFiniteSet(parts)
  BY PartsFinite
<1>2. Progress(d, d, {})
  BY DEF Progress
<1>3. ASSUME NEW t \in SUBSET parts, t # {}, NEW e, Progress(d, e, t \ {Pick(t)})
      PROVE  Progress(d, build_sched_domains(e, Pick(t)), t)
  <2> DEFINE m == Pick(t)
  <2>1. m \in t
    BY <1>3 DEF Pick
  <2> HIDE DEF m
  <2>2. m \subseteq DomCpu /\ t \ {m} \subseteq SUBSET DomCpu /\ (t \ {m}) \cup {m} = t
    BY <2>1
  <2>3. \A n \in t \ {m} : n \cap m = {}
    BY <2>1 DEF Disjoint
  <2>4. \A c \in m : d.rd[c] = Def
    BY <2>1
  <2>5. Progress(d, build_sched_domains(e, m), (t \ {m}) \cup {m})
    BY <1>3, <2>2, <2>3, <2>4, BuildOne DEF m
  <2> QED BY <2>2, <2>5 DEF m
<1>4. \E a : Turns(a)
  <2>1. step \in [parts \X Dom -> Dom]
    OBVIOUS
  <2> HIDE DEF step
  <2>3. PICK a : IsFold(a, parts, d, step) /\ \A t \in SUBSET parts : a[t] \in Dom
    BY <1>1, <2>1, FoldExists
  <2> DEFINE P == {t \in SUBSET parts : Progress(d, a[t], t)}
  <2>4. a[{}] = d
    BY <2>3 DEF IsFold
  <2>5. ASSUME NEW t \in SUBSET parts, t # {}, t \ {Pick(t)} \in P
        PROVE  a[t] = build_sched_domains(a[t \ {Pick(t)}], Pick(t)) /\ t \in P
    <3> DEFINE m == Pick(t)
               b == a[t \ {m}]
    <3>1. Progress(d, build_sched_domains(b, m), t)
      BY <1>3, <2>5
    <3>2. build_sched_domains(b, m) \in Dom
      BY <3>1 DEF Progress
    <3>3. m \in parts /\ b \in Dom
      BY <2>3, <2>5 DEF Pick
    <3>4. step[<<m, b>>] = build_sched_domains(b, m)
      BY <3>2, <3>3 DEF step
    <3>5. a[t] = step[<<m, b>>]
      BY <2>3, <2>5 DEF IsFold
    <3> QED BY <3>1, <3>4, <3>5
  <2>6. SUBSET parts \subseteq P
    <3>1. {} \in P
      BY <1>2, <2>4
    <3> HIDE DEF P
    <3> QED BY <1>1, <2>5, <3>1, PickInduction
  <2>7. ASSUME NEW t \in SUBSET parts, t # {}
        PROVE  a[t] = build_sched_domains(a[t \ {Pick(t)}], Pick(t))
    <3>1. t \ {Pick(t)} \in P
      BY <2>6
    <3> QED BY <2>5, <2>7, <3>1
  <2>8. a = [t \in SUBSET parts |-> a[t]]
    BY <2>3 DEF IsFold
  <2>9. a = [t \in SUBSET parts |-> IF t = {} THEN d
                                    ELSE build_sched_domains(a[t \ {Pick(t)}], Pick(t))]
    BY <2>4, <2>7, <2>8
  <2> QED BY <2>9
<1>5. PICK a : a = (CHOOSE b : Turns(b)) /\ Turns(a)
  <2> HIDE DEF Turns
  <2> QED BY <1>4
<1> DEFINE P == {t \in SUBSET parts : Progress(d, a[t], t)}
<1>6. {} \in P
  BY <1>2, <1>5
<1>7. ASSUME NEW t \in SUBSET parts, t # {}, t \ {Pick(t)} \in P PROVE t \in P
  <2>1. a[t] = build_sched_domains(a[t \ {Pick(t)}], Pick(t))
    BY <1>5, <1>7
  <2> QED BY <1>3, <1>7, <2>1
<1>8. parts \in P
  <2> HIDE DEF P
  <2> QED BY <1>1, <1>6, <1>7, PickInduction
<1> QED BY <1>0, <1>5, <1>8

LEMMA DomainsInitial == DomainsInit => DomInv
<1> SUFFICES ASSUME DomainsInit PROVE DomInv
  OBVIOUS
<1>1. Def \in RootDomain /\ Cardinality(DomCpu) \in Nat
  BY CpusFinite, DomainsAssumption
<1>2. DomainTypes
  BY <1>1 DEF DomainsInit, DomainTypes, Dom, Disjoint
<1>3. Exact(dom)
  <2> SUFFICES ASSUME NEW r \in RootDomain
               PROVE  /\ dom.span[r] = {c \in DomCpu : dom.rd[c] = r}
                      /\ dom.ref[r] = Cardinality(dom.span[r]) + (IF r = Def THEN 1 ELSE 0)
                      /\ dom.online[r] \subseteq dom.span[r]
    BY DEF Exact
  <2>1. /\ dom.span[r] = (IF r = Def THEN DomCpu ELSE {}) /\ dom.online[r] = dom.span[r]
        /\ dom.ref[r] = (IF r = Def THEN Cardinality(DomCpu) + 1 ELSE 0)
        /\ \A c \in DomCpu : dom.rd[c] = Def
    BY DEF DomainsInit
  <2> QED BY <1>1, <2>1, FS_EmptySet
<1>4. Divided(dom, doms_cur, failed)
  BY DEF DomainsInit, Divided
<1>5. AsAsked
  BY DEF DomainsInit, AsAsked, suspending
<1> QED BY <1>2, <1>3, <1>4, <1>5 DEF DomInv

\* What cpusets pass are disjoint sets of CPUs.
LEMMA WantedType ==
  ASSUME NEW cf, Disjoint(cf), NEW act, act \subseteq DomCpu
  PROVE  /\ wanted(cf, act) \subseteq SUBSET DomCpu /\ Disjoint(wanted(cf, act))
         /\ wanted(cf, act) \ {{}} = wanted(cf, act)
<1>1. wanted(cf, act) \subseteq SUBSET DomCpu
  BY DEF wanted
<1>2. {} \notin wanted(cf, act)
  BY DEF wanted
<1>3. ASSUME NEW m \in wanted(cf, act), NEW n \in wanted(cf, act), m # n PROVE m \cap n = {}
  <2>1. PICK k \in cf, l \in cf : m = k \cap act /\ n = l \cap act
    BY DEF wanted
  <2>2. k # l
    BY <1>3, <2>1
  <2>3. k \cap l = {}
    BY <2>2 DEF Disjoint
  <2> QED BY <2>1, <2>3
<1>4. Disjoint(wanted(cf, act))
  BY <1>3 DEF Disjoint
<1>5. wanted(cf, act) \ {{}} = wanted(cf, act)
  BY <1>2
<1> QED BY <1>1, <1>4, <1>5

\* partition_sched_domains() divides the CPUs as new asks, whatever fails.
LEMMA PartitionDivides ==
  ASSUME DomainTypes, Divided(dom, doms_cur, failed),
         NEW d \in Dom, Exact(d), d.rd = dom.rd, d.sd = dom.sd,
         NEW new, new \subseteq SUBSET DomCpu, Disjoint(new), NEW fail, partition(d, new, fail)
  PROVE  /\ dom' \in Dom /\ Exact(dom') /\ Divided(dom', new, failed')
         /\ doms_cur' = new
<1> DEFINE old == doms_cur \ new
           todo == new \ doms_cur
           parts == todo \ fail
           g == destroy_all(d, old)
           e == build_all(g, parts)
<1>1. /\ dom' = e /\ doms_cur' = new
      /\ failed' = (failed \ UNION old) \cup UNION (todo \cap fail)
  BY DEF partition
<1>2. /\ doms_cur \subseteq SUBSET DomCpu /\ Disjoint(doms_cur) /\ old \subseteq SUBSET DomCpu
      /\ parts \subseteq SUBSET DomCpu /\ Disjoint(parts)
  BY DEF DomainTypes, Disjoint
<1>3. /\ g \in Dom /\ Exact(g)
      /\ g.rd = [c \in DomCpu |-> IF c \in UNION old THEN Def ELSE dom.rd[c]]
      /\ g.sd = [c \in DomCpu |-> IF c \in UNION old THEN {} ELSE dom.sd[c]]
  <2>1. /\ g \in Dom /\ Exact(g)
        /\ g.rd = [c \in DomCpu |-> IF c \in UNION old THEN Def ELSE d.rd[c]]
        /\ g.sd = [c \in DomCpu |-> IF c \in UNION old THEN {} ELSE d.sd[c]]
    <3> HIDE DEF old
    <3> QED BY <1>2, DestroyAllIs
  <2> HIDE DEF g, old
  <2> QED BY <2>1
<1> HIDE DEF g
\* The CPUs of a part that is new were in none, or in one that is gone.
<1>4. ASSUME NEW m \in todo, NEW c \in m
      PROVE  /\ g.rd[c] = Def /\ c \in DomCpu /\ (c \in UNION old \/ c \notin UNION doms_cur)
             /\ \A n \in new : n # m => c \notin n
  <2>1. c \in DomCpu /\ \A n \in new : n # m => c \notin n
    BY <1>4 DEF Disjoint
  <2>2. ASSUME c \in UNION doms_cur PROVE c \in UNION old
    <3>1. PICK n \in doms_cur : c \in n
      BY <2>2
    <3>2. n \notin new
      BY <2>1, <3>1
    <3> QED BY <3>1, <3>2
  <2>3. c \notin UNION doms_cur => dom.rd[c] = Def
    BY <2>1 DEF Divided
  <2> QED BY <1>3, <2>1, <2>2, <2>3
<1>5. Progress(g, e, parts)
  <2>1. \A m \in parts : \A c \in m : g.rd[c] = Def
    BY <1>4
  <2> HIDE DEF e, parts
  <2> QED BY <1>2, <1>3, <2>1, BuildAllIs DEF e
<1> HIDE DEF e
<1>6. ASSUME NEW m \in new
      PROVE  \/ m \cap failed' = {} /\ Built(e, m)
             \/ m \subseteq failed' /\ \A c \in m : e.rd[c] = Def
  <2>1. CASE m \in parts
    <3>1. Built(e, m)
      BY <1>5, <2>1 DEF Progress
    <3>2. ASSUME NEW c \in m PROVE c \notin failed'
      <4>1. c \notin failed \ UNION old
        BY <1>4, <2>1 DEF Divided
      <4>2. c \notin UNION (todo \cap fail)
        BY <1>4, <2>1
      <4> QED BY <1>1, <4>1, <4>2
    <3> QED BY <3>1, <3>2
  <2>2. CASE m \in todo \cap fail
    <3>1. m \subseteq failed'
      BY <1>1, <2>2
    <3>2. ASSUME NEW c \in m PROVE e.rd[c] = Def
      <4>1. g.rd[c] = Def /\ c \in DomCpu \ UNION parts
        BY <1>4, <2>2
      <4> QED BY <1>5, <4>1 DEF Progress
    <3> QED BY <3>1, <3>2
  <2>3. CASE m \in doms_cur
    <3>1. ASSUME NEW c \in m
          PROVE  /\ c \in DomCpu /\ c \notin UNION old /\ c \notin UNION parts
                 /\ c \notin UNION (todo \cap fail)
      <4>1. c \in DomCpu
        BY <1>2, <2>3
      <4>2. c \notin UNION old
        BY <1>2, <2>3 DEF Disjoint
      <4>3. c \notin UNION todo
        BY <2>3 DEF Disjoint
      <4> QED BY <4>1, <4>2, <4>3
    <3>2. ASSUME NEW c \in m PROVE e.rd[c] = dom.rd[c] /\ e.sd[c] = dom.sd[c]
      <4>1. e.rd[c] = g.rd[c] /\ e.sd[c] = g.sd[c]
        BY <1>5, <3>1 DEF Progress
      <4> QED BY <1>3, <3>1, <4>1
    <3>3. CASE m \cap failed = {} /\ Built(dom, m)
      <4>1. m \cap failed' = {}
        BY <1>1, <3>1, <3>3
      <4>2. ASSUME NEW c \in m
            PROVE  /\ e.rd[c] # Def /\ \A x \in DomCpu : (e.rd[x] = e.rd[c]) <=> x \in m
                   /\ e.sd[c] = IF Cardinality(m) > 1 THEN m ELSE {}
        <5>1. /\ dom.rd[c] # Def /\ \A x \in DomCpu : (dom.rd[x] = dom.rd[c]) <=> x \in m
              /\ dom.sd[c] = IF Cardinality(m) > 1 THEN m ELSE {}
          BY <3>3 DEF Built
        <5>2. ASSUME NEW x \in DomCpu PROVE (e.rd[x] = e.rd[c]) <=> x \in m
          <6>1. CASE x \in UNION parts
            <7>1. PICK n \in parts : x \in n
              BY <6>1
            <7>2. c \in DomCpu /\ c \notin n
              BY <3>1
            <7>3. e.rd[c] # e.rd[x]
              BY <1>5, <7>1, <7>2 DEF Progress, Built
            <7>4. x \notin m
              BY <3>1, <6>1
            <7> QED BY <7>3, <7>4
          <6>2. CASE x \notin UNION parts
            <7>1. e.rd[x] = IF x \in UNION old THEN Def ELSE dom.rd[x]
              BY <1>3, <1>5, <6>2 DEF Progress
            <7>2. x \in m => x \notin UNION old
              BY <3>1
            <7> QED BY <3>2, <5>1, <7>1, <7>2
          <6> QED BY <6>1, <6>2
        <5> QED BY <3>2, <5>1, <5>2
      <4> QED BY <4>1, <4>2 DEF Built
    <3>4. CASE m \subseteq failed /\ \A c \in m : dom.rd[c] = Def
      BY <1>1, <3>1, <3>2, <3>4
    <3> QED BY <2>3, <3>3, <3>4 DEF Divided
  <2> QED BY <2>1, <2>2, <2>3
<1>7. ASSUME NEW c \in DomCpu \ UNION new PROVE e.rd[c] = Def
  <2>1. e.rd[c] = g.rd[c]
    BY <1>5, <1>7 DEF Progress
  <2>2. c \in UNION doms_cur => c \in UNION old
    BY <1>7
  <2>3. c \notin UNION doms_cur => dom.rd[c] = Def
    BY <1>7 DEF Divided
  <2> QED BY <1>3, <2>1, <2>2, <2>3
<1>8. failed' \subseteq UNION new
  <2>1. failed \subseteq UNION doms_cur
    BY DEF Divided
  <2> QED BY <1>1, <2>1
<1> HIDE DEF old, todo, parts
<1>9. e \in Dom /\ Exact(e)
  BY <1>5 DEF Progress
<1>10. Divided(e, new, failed')
  BY <1>6, <1>7, <1>8 DEF Divided
<1> QED BY <1>1, <1>9, <1>10

\* So does the fallback, whose one part is what is active and not isolated.
LEMMA FallbackDivides ==
  ASSUME DomainTypes, Divided(dom, doms_cur, failed), cpu_active' \subseteq DomCpu,
         NEW d \in Dom, Exact(d), d.rd = dom.rd, d.sd = dom.sd,
         NEW fail, partition_fallback(d, fail)
  PROVE  /\ dom' \in Dom /\ Exact(dom') /\ Divided(dom', doms_cur', failed')
         /\ doms_cur' \subseteq SUBSET DomCpu /\ Disjoint(doms_cur')
<1> DEFINE all == cpu_active' \ Isolated
           g == destroy_all(d, doms_cur)
           e == build_sched_domains(g, all)
<1>1. /\ dom' = (IF fail THEN g ELSE e) /\ failed' = (IF fail THEN all ELSE {})
      /\ doms_cur' = {all}
  BY DEF partition_fallback
<1>2. doms_cur \subseteq SUBSET DomCpu /\ all \subseteq DomCpu
  BY DEF DomainTypes
<1>3. /\ g \in Dom /\ Exact(g)
      /\ g.rd = [c \in DomCpu |-> IF c \in UNION doms_cur THEN Def ELSE d.rd[c]]
  BY <1>2, DestroyAllIs
<1> HIDE DEF g
<1>4. \A c \in DomCpu : g.rd[c] = Def
  BY <1>3 DEF Divided
<1>5. Progress(g, e, {all})
  <2>1. Progress(g, g, {})
    BY <1>3 DEF Progress
  <2>2. \A c \in all : g.rd[c] = Def
    BY <1>2, <1>4
  <2> HIDE DEF all
  <2>3. Progress(g, build_sched_domains(g, all), {} \cup {all})
    BY <1>2, <2>1, <2>2, BuildOne
  <2>4. {} \cup {all} = {all}
    OBVIOUS
  <2> QED BY <2>3, <2>4
<1> HIDE DEF all, e
<1>6. Divided(g, {all}, all)
  BY <1>2, <1>4 DEF Divided
<1>7. Divided(e, {all}, {})
  <2>1. Built(e, all)
    BY <1>5 DEF Progress
  <2>2. \A c \in DomCpu \ all : e.rd[c] = Def
    BY <1>4, <1>5 DEF Progress
  <2> QED BY <2>1, <2>2 DEF Divided
<1>8. e \in Dom /\ Exact(e)
  BY <1>5 DEF Progress
<1> QED BY <1>1, <1>2, <1>3, <1>6, <1>7, <1>8 DEF Disjoint

\* A call for the cpusets: the CPUs are divided as they ask.
LEMMA CpusetsDivide ==
  ASSUME DomInv, cpu_active' \subseteq DomCpu, Disjoint(config'),
         NEW d \in Dom, Exact(d), d.rd = dom.rd, d.sd = dom.sd,
         NEW fail, partition(d, wanted(config', cpu_active'), fail)
  PROVE  /\ dom' \in Dom /\ Exact(dom') /\ Divided(dom', doms_cur', failed')
         /\ doms_cur' \subseteq SUBSET DomCpu /\ Disjoint(doms_cur')
         /\ doms_cur' \ {{}} = wanted(config', cpu_active')
<1> DEFINE new == wanted(config', cpu_active')
<1>1. new \subseteq SUBSET DomCpu /\ Disjoint(new) /\ new \ {{}} = new
  BY WantedType
<1>2. DomainTypes /\ Divided(dom, doms_cur, failed)
  BY DEF DomInv
<1> HIDE DEF new
<1>3. /\ dom' \in Dom /\ Exact(dom') /\ Divided(dom', new, failed') /\ doms_cur' = new
  BY <1>1, <1>2, PartitionDivides DEF new
<1> QED BY <1>1, <1>3 DEF new

\* Only rd->online of a CPU changes: its own root domain's.
LEMMA OnlineOnly ==
  ASSUME NEW d \in Dom, Exact(d), NEW c \in DomCpu, NEW s, s \subseteq d.span[d.rd[c]],
         NEW e, e = [d EXCEPT !.online[d.rd[c]] = s]
  PROVE  e \in Dom /\ Exact(e) /\ e.rd = d.rd /\ e.sd = d.sd
<1> DEFINE o == d.rd[c]
<1>1. o \in RootDomain /\ s \in SUBSET DomCpu
  BY DEF Dom
<1>2. /\ e.rd = d.rd /\ e.sd = d.sd /\ e.span = d.span /\ e.ref = d.ref
      /\ e.online = [d.online EXCEPT ![o] = s]
      /\ e = [rd |-> e.rd, sd |-> e.sd, span |-> e.span, online |-> e.online, ref |-> e.ref]
  BY DEF Dom
<1>3. e.online \in [RootDomain -> SUBSET DomCpu]
  BY <1>1, <1>2 DEF Dom
<1>4. e \in Dom
  BY <1>2, <1>3 DEF Dom
<1>5. \A r \in RootDomain : e.online[r] \subseteq d.span[r]
  BY <1>1, <1>2 DEF Dom, Exact
<1> QED BY <1>2, <1>4, <1>5 DEF Exact

\* What is left to show of a step that gives the CPUs new domains.
LEMMA DomInvFrom ==
  ASSUME /\ dom' \in Dom /\ Exact(dom') /\ Divided(dom', doms_cur', failed')
         /\ doms_cur' \subseteq SUBSET DomCpu /\ Disjoint(doms_cur'),
         /\ cpu_active' \subseteq DomCpu /\ status' \in [DomCpu -> {"up", "going", "down", "frozen"}]
         /\ num_cpus_frozen' \in Nat /\ phase' \in {"boot", "run", "suspend"}
         /\ Disjoint(config'),
         AsAsked'
  PROVE  DomInv'
BY DEF DomInv, DomainTypes, Dom, Exact, Divided, Built, Disjoint

LEMMA StepInitSchedDomains ==
  ASSUME DomInv, NEW fail, InitSchedDomains(fail)
  PROVE  DomInv'
<1> DEFINE new == {cpu_active \ Isolated}
<1>1. /\ phase = "boot" /\ phase' = "run" /\ partition(dom, new, fail)
      /\ UNCHANGED <<cpu_active, status, num_cpus_frozen, config>>
  BY DEF InitSchedDomains
<1>2. DomainTypes /\ Exact(dom) /\ Divided(dom, doms_cur, failed) /\ AsAsked
  BY DEF DomInv
<1>3. new \subseteq SUBSET DomCpu /\ Disjoint(new)
  BY <1>2 DEF DomainTypes, Disjoint
<1>4. /\ dom' \in Dom /\ Exact(dom') /\ Divided(dom', new, failed') /\ doms_cur' = new
  <2>1. dom \in Dom
    BY <1>2 DEF DomainTypes
  <2> HIDE DEF new
  <2> QED BY <1>1, <1>2, <1>3, <2>1, PartitionDivides
<1>5. cpu_active = DomCpu /\ config = {DomCpu \ Isolated}
  BY <1>1, <1>2 DEF AsAsked
<1>6. wanted(config', cpu_active') = new \ {{}}
  <2>1. (DomCpu \ Isolated) \cap DomCpu = DomCpu \ Isolated
    OBVIOUS
  <2> QED BY <1>1, <1>5, <2>1 DEF wanted
<1>7. AsAsked'
  BY <1>1, <1>4, <1>6 DEF AsAsked, suspending
<1> HIDE DEF new
<1> QED BY <1>1, <1>2, <1>3, <1>4, <1>7, DomInvFrom DEF DomainTypes

LEMMA StepChangeCpusets ==
  ASSUME DomInv, NEW fail, ChangeCpusets(fail)
  PROVE  DomInv'
<1>1. /\ settled /\ config' \in Config /\ UNCHANGED <<cpu_active, status, num_cpus_frozen, phase>>
      /\ partition(dom, wanted(config', cpu_active'), fail)
  BY DEF ChangeCpusets
<1>2. DomainTypes /\ Exact(dom) /\ dom \in Dom /\ AsAsked
  BY DEF DomInv, DomainTypes
<1>3. Disjoint(config') /\ cpu_active' \subseteq DomCpu
  BY <1>1, <1>2, DomainsAssumption DEF DomainTypes
<1>4. /\ dom' \in Dom /\ Exact(dom') /\ Divided(dom', doms_cur', failed')
      /\ doms_cur' \subseteq SUBSET DomCpu /\ Disjoint(doms_cur')
      /\ doms_cur' \ {{}} = wanted(config', cpu_active')
  BY <1>1, <1>2, <1>3, CpusetsDivide
<1>5. AsAsked'
  BY <1>1, <1>4 DEF AsAsked, settled, suspending
<1> QED BY <1>1, <1>2, <1>3, <1>4, <1>5, DomInvFrom DEF DomainTypes

LEMMA StepReinitSchedDomains ==
  ASSUME DomInv, NEW fail, ReinitSchedDomains(fail)
  PROVE  DomInv'
<1> DEFINE new == wanted(config, cpu_active)
           g == destroy_all(dom, doms_cur)
           parts == new \ fail
           e == build_all(g, parts)
<1>1. /\ settled /\ UNCHANGED <<cpu_active, status, num_cpus_frozen, phase, config>>
      /\ dom' = e /\ failed' = UNION (new \cap fail) /\ doms_cur' = new
  BY DEF ReinitSchedDomains
<1>2. DomainTypes /\ Exact(dom) /\ dom \in Dom /\ Divided(dom, doms_cur, failed) /\ AsAsked
  BY DEF DomInv, DomainTypes
<1>3. new \subseteq SUBSET DomCpu /\ Disjoint(new) /\ new \ {{}} = new
  BY <1>2, WantedType DEF DomainTypes
<1>4. /\ g \in Dom /\ Exact(g)
      /\ g.rd = [c \in DomCpu |-> IF c \in UNION doms_cur THEN Def ELSE dom.rd[c]]
  BY <1>2, DestroyAllIs DEF DomainTypes
<1> HIDE DEF g, new
<1>5. \A c \in DomCpu : g.rd[c] = Def
  BY <1>2, <1>4 DEF Divided
<1>6. Progress(g, e, parts)
  <2>1. parts \subseteq SUBSET DomCpu /\ Disjoint(parts) /\ \A m \in parts : \A c \in m : g.rd[c] = Def
    BY <1>3, <1>5 DEF Disjoint
  <2> HIDE DEF parts
  <2> QED BY <1>4, <2>1, BuildAllIs
<1> HIDE DEF e
<1>7. ASSUME NEW m \in new
      PROVE  \/ m \cap failed' = {} /\ Built(e, m)
             \/ m \subseteq failed' /\ \A c \in m : e.rd[c] = Def
  <2>1. CASE m \in parts
    <3>1. Built(e, m)
      BY <1>6, <2>1 DEF Progress
    <3>2. m \cap failed' = {}
      BY <1>1, <1>3, <2>1 DEF Disjoint
    <3> QED BY <3>1, <3>2
  <2>2. CASE m \in new \cap fail
    <3>1. m \subseteq failed'
      BY <1>1, <2>2
    <3>2. \A c \in m : c \in DomCpu \ UNION parts
      BY <1>3, <2>2 DEF Disjoint
    <3>3. \A c \in m : e.rd[c] = Def
      BY <1>5, <1>6, <3>2 DEF Progress
    <3> QED BY <3>1, <3>3
  <2> QED BY <2>1, <2>2
<1>8. \A c \in DomCpu \ UNION new : e.rd[c] = Def
  <2>1. \A c \in DomCpu \ UNION new : c \in DomCpu \ UNION parts
    OBVIOUS
  <2> QED BY <1>5, <1>6, <2>1 DEF Progress
<1>9. Divided(e, new, failed')
  <2>1. failed' \subseteq UNION new
    BY <1>1
  <2> QED BY <1>7, <1>8, <2>1 DEF Divided
<1>10. e \in Dom /\ Exact(e)
  BY <1>6 DEF Progress
<1>11. AsAsked'
  <2>1. doms_cur' \ {{}} = wanted(config', cpu_active')
    BY <1>1, <1>3 DEF new
  <2> QED BY <1>1, <2>1 DEF AsAsked, settled, suspending
<1> QED BY <1>1, <1>2, <1>3, <1>9, <1>10, <1>11, DomInvFrom DEF DomainTypes

\* What a step of the CPUs may assume, and what of the types it keeps.
LEMMA DomInvParts ==
  DomInv => /\ DomainTypes /\ dom \in Dom /\ Exact(dom) /\ Divided(dom, doms_cur, failed)
            /\ cpu_active \subseteq DomCpu /\ num_cpus_frozen \in Nat
            /\ status \in [DomCpu -> {"up", "going", "down", "frozen"}]
            /\ phase \in {"boot", "run", "suspend"} /\ Disjoint(config) /\ AsAsked
BY DEF DomInv, DomainTypes

LEMMA StepDownPrepare ==
  ASSUME DomInv, NEW c \in DomCpu, NEW fail, DownPrepare(c, fail)
  PROVE  DomInv'
<1>1. /\ suspending \/ settled
      /\ status' = [status EXCEPT ![c] = "going"] /\ cpu_active' = cpu_active \ {c}
      /\ UNCHANGED <<phase, config>>
  BY DEF DownPrepare
<1>2. /\ cpu_active' \subseteq DomCpu /\ Disjoint(config')
      /\ status' \in [DomCpu -> {"up", "going", "down", "frozen"}]
      /\ phase' \in {"boot", "run", "suspend"}
  BY <1>1, DomInvParts
<1>3. CASE suspending
  <2>1. num_cpus_frozen' = num_cpus_frozen + 1 /\ partition_fallback(dom, fail # {})
    BY <1>3 DEF DownPrepare
  <2>2. num_cpus_frozen' \in Nat /\ num_cpus_frozen' > 0
    BY <2>1, DomInvParts
  <2>3. /\ dom' \in Dom /\ Exact(dom') /\ Divided(dom', doms_cur', failed')
        /\ doms_cur' \subseteq SUBSET DomCpu /\ Disjoint(doms_cur')
    BY <1>2, <2>1, DomInvParts, FallbackDivides
  <2>4. AsAsked'
    BY <1>1, <1>3, <2>2 DEF AsAsked, suspending
  <2> QED BY <1>2, <2>2, <2>3, <2>4, DomInvFrom
<1>4. CASE ~suspending
  <2>1. UNCHANGED num_cpus_frozen /\ partition(dom, wanted(config', cpu_active'), fail)
    BY <1>1, <1>4 DEF DownPrepare, cpuset_update_active_cpus
  <2>2. num_cpus_frozen' \in Nat
    BY <2>1, DomInvParts
  <2>3. /\ dom' \in Dom /\ Exact(dom') /\ Divided(dom', doms_cur', failed')
        /\ doms_cur' \subseteq SUBSET DomCpu /\ Disjoint(doms_cur')
        /\ doms_cur' \ {{}} = wanted(config', cpu_active')
    BY <1>2, <2>1, DomInvParts, CpusetsDivide
  <2>4. AsAsked'
    BY <1>1, <1>4, <2>3 DEF AsAsked, suspending, settled
  <2> QED BY <1>2, <2>2, <2>3, <2>4, DomInvFrom
<1> QED BY <1>3, <1>4

\* cpuset_cpu_active() leaves the CPUs divided, and as the cpusets ask with the
\* last of those that were frozen.
LEMMA CpusetCpuActive ==
  ASSUME DomInv, cpu_active' \subseteq DomCpu, config' = config,
         NEW d \in Dom, Exact(d), d.rd = dom.rd, d.sd = dom.sd,
         NEW frozen \in BOOLEAN, frozen => num_cpus_frozen > 0,
         NEW fail, cpuset_cpu_active(d, frozen, fail)
  PROVE  /\ dom' \in Dom /\ Exact(dom') /\ Divided(dom', doms_cur', failed')
         /\ doms_cur' \subseteq SUBSET DomCpu /\ Disjoint(doms_cur')
         /\ num_cpus_frozen' \in Nat
         /\ num_cpus_frozen' = 0 => doms_cur' \ {{}} = wanted(config', cpu_active')
<1>1. /\ num_cpus_frozen' = (IF frozen THEN num_cpus_frozen - 1 ELSE num_cpus_frozen)
      /\ num_cpus_frozen \in Nat /\ num_cpus_frozen' \in Nat
  BY DomInvParts DEF cpuset_cpu_active
<1>2. CASE frozen /\ others_frozen
  <2>1. partition_fallback(d, fail # {})
    BY <1>2 DEF cpuset_cpu_active
  <2>2. num_cpus_frozen' # 0
    BY <1>1, <1>2 DEF others_frozen
  <2>3. /\ dom' \in Dom /\ Exact(dom') /\ Divided(dom', doms_cur', failed')
        /\ doms_cur' \subseteq SUBSET DomCpu /\ Disjoint(doms_cur')
    BY <2>1, DomInvParts, FallbackDivides
  <2> QED BY <1>1, <2>2, <2>3
<1>3. CASE ~(frozen /\ others_frozen)
  <2>1. partition(d, wanted(config', cpu_active'), fail)
    BY <1>3 DEF cpuset_cpu_active, cpuset_update_active_cpus
  <2>2. Disjoint(config')
    BY DomInvParts
  <2>3. /\ dom' \in Dom /\ Exact(dom') /\ Divided(dom', doms_cur', failed')
        /\ doms_cur' \subseteq SUBSET DomCpu /\ Disjoint(doms_cur')
        /\ doms_cur' \ {{}} = wanted(config', cpu_active')
    BY <2>1, <2>2, DomInvParts, CpusetsDivide
  <2> QED BY <1>1, <2>3
<1> QED BY <1>2, <1>3

LEMMA StepDownFailed ==
  ASSUME DomInv, NEW c \in DomCpu, NEW fail, DownFailed(c, fail)
  PROVE  DomInv'
<1>1. /\ status[c] = "going" /\ status' = [status EXCEPT ![c] = "up"]
      /\ cpu_active' = cpu_active \cup {c} /\ cpuset_cpu_active(dom, suspending, fail)
      /\ phase' = "run" /\ config' = config
  BY DEF DownFailed
<1>2. /\ cpu_active' \subseteq DomCpu /\ Disjoint(config')
      /\ status' \in [DomCpu -> {"up", "going", "down", "frozen"}]
      /\ phase' \in {"boot", "run", "suspend"}
  BY <1>1, DomInvParts
<1>3. suspending \in BOOLEAN /\ (suspending => num_cpus_frozen > 0)
  BY <1>1, DomInvParts DEF AsAsked, suspending
<1>4. /\ dom' \in Dom /\ Exact(dom') /\ Divided(dom', doms_cur', failed')
      /\ doms_cur' \subseteq SUBSET DomCpu /\ Disjoint(doms_cur')
      /\ num_cpus_frozen' \in Nat
      /\ num_cpus_frozen' = 0 => doms_cur' \ {{}} = wanted(config', cpu_active')
  BY <1>1, <1>2, <1>3, DomInvParts, CpusetCpuActive
<1>5. AsAsked'
  BY <1>1, <1>4 DEF AsAsked, suspending
<1> QED BY <1>2, <1>4, <1>5, DomInvFrom

LEMMA StepOnline ==
  ASSUME DomInv, NEW c \in DomCpu, NEW fail, Online(c, fail)
  PROVE  DomInv'
<1> DEFINE s == dom.online[dom.rd[c]] \cup {c}
           d == [dom EXCEPT !.online[dom.rd[c]] = s]
<1>1. /\ status[c] = (IF num_cpus_frozen > 0 THEN "frozen" ELSE "down") /\ ~suspending
      /\ status' = [status EXCEPT ![c] = "up"] /\ cpu_active' = cpu_active \cup {c}
      /\ cpuset_cpu_active(d, num_cpus_frozen > 0, fail)
      /\ phase' = phase /\ config' = config
  BY DEF Online
<1>2. /\ cpu_active' \subseteq DomCpu /\ Disjoint(config')
      /\ status' \in [DomCpu -> {"up", "going", "down", "frozen"}]
      /\ phase' \in {"boot", "run", "suspend"}
  BY <1>1, DomInvParts
<1>3. d \in Dom /\ Exact(d) /\ d.rd = dom.rd /\ d.sd = dom.sd
  <2>1. dom.rd[c] \in RootDomain
    BY DomInvParts DEF Dom
  <2>2. s \subseteq dom.span[dom.rd[c]]
    BY <2>1, DomInvParts DEF Exact
  <2> HIDE DEF s
  <2> QED BY <2>2, DomInvParts, OnlineOnly
<1> HIDE DEF d
<1>4. phase # "boot"
  BY <1>1, DomInvParts DEF AsAsked
<1>5. /\ dom' \in Dom /\ Exact(dom') /\ Divided(dom', doms_cur', failed')
      /\ doms_cur' \subseteq SUBSET DomCpu /\ Disjoint(doms_cur')
      /\ num_cpus_frozen' \in Nat
      /\ num_cpus_frozen' = 0 => doms_cur' \ {{}} = wanted(config', cpu_active')
  <2> DEFINE frozen == num_cpus_frozen > 0
  <2>1. frozen \in BOOLEAN /\ (frozen => num_cpus_frozen > 0) /\ cpuset_cpu_active(d, frozen, fail)
    BY <1>1, DomInvParts
  <2> HIDE DEF frozen
  <2> QED BY <1>1, <1>2, <1>3, <2>1, CpusetCpuActive
<1>6. AsAsked'
  BY <1>1, <1>4, <1>5 DEF AsAsked, suspending
<1> QED BY <1>2, <1>5, <1>6, DomInvFrom

LEMMA StepDying ==
  ASSUME DomInv, NEW c \in DomCpu, Dying(c)
  PROVE  DomInv'
<1> DEFINE s == dom.online[dom.rd[c]] \ {c}
           d == [dom EXCEPT !.online[dom.rd[c]] = s]
<1>1. /\ status[c] = "going"
      /\ status' = [status EXCEPT ![c] = IF suspending THEN "frozen" ELSE "down"]
      /\ dom' = d
      /\ UNCHANGED <<cpu_active, doms_cur, num_cpus_frozen, phase, config, failed>>
  BY DEF Dying
<1>2. dom' \in Dom /\ Exact(dom') /\ dom'.rd = dom.rd /\ dom'.sd = dom.sd
  <2>1. dom.rd[c] \in RootDomain
    BY DomInvParts DEF Dom
  <2>2. s \subseteq dom.span[dom.rd[c]]
    BY <2>1, DomInvParts DEF Exact
  <2>3. d \in Dom /\ Exact(d) /\ d.rd = dom.rd /\ d.sd = dom.sd
    <3> HIDE DEF s
    <3>1. d = [dom EXCEPT !.online[dom.rd[c]] = s]
      OBVIOUS
    <3> HIDE DEF d
    <3>2. dom \in Dom /\ Exact(dom)
      BY DomInvParts
    <3> QED BY <2>2, <3>1, <3>2, OnlineOnly
  <2> HIDE DEF d
  <2> QED BY <1>1, <2>3
<1>3. Divided(dom', doms_cur', failed')
  BY <1>1, <1>2, DomInvParts DEF Divided, Built
<1>4. doms_cur' \subseteq SUBSET DomCpu /\ Disjoint(doms_cur')
  BY <1>1, DomInvParts DEF DomainTypes
<1>5. status' \in [DomCpu -> {"up", "going", "down", "frozen"}]
  BY <1>1, DomInvParts
<1>6. AsAsked'
  BY <1>1, DomInvParts DEF AsAsked, suspending
<1> QED BY <1>1, <1>2, <1>3, <1>4, <1>5, <1>6, DomInvParts, DomInvFrom

\* A suspend begins, or ends.
LEMMA StepSuspendResume ==
  ASSUME DomInv, Suspend \/ Resume
  PROVE  DomInv'
<1>1. /\ UNCHANGED <<dom, cpu_active, status, doms_cur, num_cpus_frozen, config, failed>>
      /\ phase # "boot" /\ phase' \in {"run", "suspend"}
      /\ phase' = "suspend" => \A c \in DomCpu : status[c] # "going"
  BY DEF Suspend, Resume, settled, suspending
<1>2. AsAsked'
  BY <1>1, DomInvParts DEF AsAsked, suspending
<1>3. DomainTypes'
  BY <1>1, DomInvParts DEF DomainTypes
<1>4. Exact(dom') /\ Divided(dom', doms_cur', failed')
  BY <1>1, DomInvParts
<1> QED BY <1>2, <1>3, <1>4 DEF DomInv, Exact, Divided, Built

LEMMA DomainsStep == DomInv /\ [DomainsNext]_dom_vars => DomInv'
<1> SUFFICES ASSUME DomInv, [DomainsNext]_dom_vars PROVE DomInv'
  OBVIOUS
<1>1. ASSUME NEW fail, InitSchedDomains(fail) PROVE DomInv'
  BY <1>1, StepInitSchedDomains
<1>2. ASSUME NEW fail, ChangeCpusets(fail) PROVE DomInv'
  BY <1>2, StepChangeCpusets
<1>3. ASSUME NEW fail, ReinitSchedDomains(fail) PROVE DomInv'
  BY <1>3, StepReinitSchedDomains
<1>4. ASSUME NEW fail, NEW c \in DomCpu, DownPrepare(c, fail) PROVE DomInv'
  BY <1>4, StepDownPrepare
<1>5. ASSUME NEW fail, NEW c \in DomCpu, DownFailed(c, fail) PROVE DomInv'
  BY <1>5, StepDownFailed
<1>6. ASSUME NEW fail, NEW c \in DomCpu, Online(c, fail) PROVE DomInv'
  BY <1>6, StepOnline
<1>7. ASSUME NEW c \in DomCpu, Dying(c) PROVE DomInv'
  BY <1>7, StepDying
<1>8. CASE Suspend \/ Resume
  BY <1>8, StepSuspendResume
<1>9. CASE UNCHANGED dom_vars
  BY <1>9 DEF dom_vars, DomInv, DomainTypes, Dom, Exact, Divided, Built, AsAsked, suspending
<1> QED BY <1>1, <1>2, <1>3, <1>4, <1>5, <1>6, <1>7, <1>8, <1>9 DEF DomainsNext

\* While nothing is going or frozen, the invariant is what the cpusets ask for.
LEMMA DomInvDivides == DomInv => PartitionRestored
<1> SUFFICES ASSUME DomInv PROVE PartitionRestored
  OBVIOUS
<1>1. RootDomainExact
  BY DomInvParts DEF Exact, RootDomainExact
<1>2. ASSUME settled PROVE doms_cur \ {{}} = wanted(config, cpu_active)
  BY <1>2, DomInvParts DEF AsAsked, settled
<1>3. ASSUME NEW m \in doms_cur, m \cap failed = {}, NEW c \in m, NEW x \in cpu_active
      PROVE  (dom.rd[x] = dom.rd[c]) <=> x \in m
  <2>1. Built(dom, m)
    BY <1>3, DomInvParts DEF Divided
  <2> QED BY <2>1, DomInvParts DEF Built
<1>4. ASSUME NEW c \in cpu_active \ failed, NEW m \in doms_cur, c \in m
      PROVE  dom.sd[c] = IF Cardinality(m) > 1 THEN m ELSE {}
  <2>1. Built(dom, m)
    BY <1>4, DomInvParts DEF Divided
  <2> QED BY <1>4, <2>1 DEF Built
<1> QED BY <1>1, <1>2, <1>3, <1>4 DEF PartitionRestored, DividedAsAsked

\* Whatever sequence of cpuset changes, CPUs that go and come one by one, failed
\* and given-up suspends and builds without memory partition_sched_domains() is
\* called for, the CPUs are in the end divided as the cpusets ask, and a root
\* domain is referenced, spanned and freed with exactly the CPUs attached to it.
THEOREM PartitionCorrect == DomainsSpec => []PartitionRestored
<1>1. DomainsInit => DomInv
  BY DomainsInitial
<1>2. DomInv /\ [DomainsNext]_dom_vars => DomInv'
  BY DomainsStep
<1>3. DomInv => PartitionRestored
  BY DomInvDivides
<1> QED BY <1>1, <1>2, <1>3, PTL DEF DomainsSpec

=============================================================================
