---------------------------- MODULE GroupProofs -----------------------------
(***************************************************************************)
(* Proofs about what is accounted to tasks and groups and what groups are  *)
(* limited to, for any tree of groups, and about the runtime that the run  *)
(* queues of a group lend each other, for any number of CPUs.              *)
(***************************************************************************)
EXTENDS Accounts, Limits, RtRuntime, DataProofs

-----------------------------------------------------------------------------
(* The tree of groups *)

\* What holds of Root, and of a group when it holds of its parent, holds of
\* every group.
LEMMA TreeInduction ==
  ASSUME NEW P, Root \in P, \A g \in Group \ {Root} : Parent[g] \in P => g \in P
  PROVE  Group \subseteq P
<1> DEFINE S == Group \ P
<1> SUFFICES ASSUME S # {} PROVE FALSE
  OBVIOUS
<1>1. PICK g \in S : Parent[g] \notin S
  <2>1. S \in SUBSET (Group \ {Root}) /\ S # {}
    OBVIOUS
  <2> HIDE DEF S
  <2> QED BY <2>1, GroupsAssumption
<1>2. g \in Group \ {Root} /\ Parent[g] \in Group
  BY GroupsAssumption
<1> QED BY <1>1, <1>2

\* The least set of groups that has x and the parents of those in it.
Above(x) == {y \in Group : \A S \in SUBSET Group :
               x \in S /\ (\A z \in S \ {Root} : Parent[z] \in S) => y \in S}

LEMMA AboveIs ==
  ASSUME NEW x \in Group
  PROVE  Above(x) = {x} \cup (IF x = Root THEN {} ELSE Above(Parent[x]))
<1>1. CASE x = Root
  <2>1. Root \in Group /\ {Root} \in SUBSET Group
    BY GroupsAssumption
  <2> QED BY <1>1, <2>1 DEF Above
<1>2. CASE x # Root
  <2> DEFINE p == Parent[x]
             T == {x} \cup Above(p)
  <2>1. p \in Group /\ \A z \in Group \ {Root} : Parent[z] \in Group
    BY <1>2, GroupsAssumption
  <2>2. T \in SUBSET Group /\ p \in Above(p)
    BY <2>1 DEF Above
  <2>3. \A z \in Above(p) \ {Root} : Parent[z] \in Above(p)
    BY <2>1 DEF Above
  <2>4. \A z \in T \ {Root} : Parent[z] \in T
    BY <2>2, <2>3
  <2>5. Above(x) \subseteq T
    <3> HIDE DEF T
    <3>1. x \in T
      BY DEF T
    <3> QED BY <2>2, <2>4, <3>1 DEF Above
  <2>6. x \in Above(x) /\ Above(p) \subseteq Above(x)
    BY <1>2, <2>1 DEF Above
  <2> QED BY <1>2, <2>5, <2>6
<1> QED BY <1>1, <1>2

\* The recursion of upwards() has a solution, so that the operator unfolds.
LEMMA UpwardsIs ==
  ASSUME NEW g \in Group
  PROVE  upwards(g) = {g} \cup (IF g = Root THEN {} ELSE upwards(Parent[g]))
<1> DEFINE Solves(f) == f = [x \in Group |-> {x} \cup (IF x = Root THEN {} ELSE f[Parent[x]])]
           a == [x \in Group |-> Above(x)]
           up == CHOOSE f : Solves(f)
<1>1. Solves(a)
  <2>1. \A x \in Group \ {Root} : Parent[x] \in Group
    BY GroupsAssumption
  <2>2. \A x \in Group : a[x] = {x} \cup (IF x = Root THEN {} ELSE a[Parent[x]])
    BY <2>1, AboveIs
  <2> QED BY <2>2
<1>2. Solves(up)
  <2> HIDE DEF a, Solves
  <2> QED BY <1>1
<1>3. \A x : upwards(x) = up[x]
  BY DEF upwards
<1> HIDE DEF up
<1>4. up[g] = {g} \cup (IF g = Root THEN {} ELSE up[Parent[g]])
  BY <1>2
<1> QED BY <1>3, <1>4

LEMMA UpwardsClosed ==
  ASSUME NEW g \in Group
  PROVE  /\ upwards(g) \in SUBSET Group /\ g \in upwards(g)
         /\ \A y \in upwards(g) \ {Root} : Parent[y] \in upwards(g)
<1> DEFINE P == {h \in Group : /\ upwards(h) \in SUBSET Group /\ h \in upwards(h)
                               /\ \A y \in upwards(h) \ {Root} : Parent[y] \in upwards(h)}
<1>1. Root \in P
  <2>1. Root \in Group /\ upwards(Root) = {Root}
    BY UpwardsIs, GroupsAssumption
  <2> QED BY <2>1
<1>2. ASSUME NEW h \in Group \ {Root}, Parent[h] \in P PROVE h \in P
  <2>1. upwards(h) = {h} \cup upwards(Parent[h])
    BY UpwardsIs
  <2> QED BY <1>2, <2>1
<1> HIDE DEF P
<1>3. g \in P
  BY <1>1, <1>2, TreeInduction
<1> QED BY <1>3 DEF P

\* No group is above itself.
LEMMA NotAboveItself ==
  ASSUME NEW g \in Group \ {Root}
  PROVE  g \notin upwards(Parent[g])
<1> DEFINE S == {y \in Group \ {Root} : y \in upwards(Parent[y])}
<1> SUFFICES ASSUME S # {} PROVE FALSE
  OBVIOUS
<1>1. PICK y \in S : Parent[y] \notin S
  BY GroupsAssumption
<1> DEFINE q == Parent[y]
<1>2. y \in Group \ {Root} /\ y \in upwards(q) /\ q \in Group
  BY <1>1, GroupsAssumption
<1>3. q # Root
  <2>1. q = Root => upwards(q) = {Root}
    BY <1>2, UpwardsIs
  <2> QED BY <1>2, <2>1
<1>4. q \notin upwards(Parent[q]) /\ Parent[q] \in Group
  BY <1>1, <1>2, <1>3, GroupsAssumption
<1>5. upwards(q) = {q} \cup upwards(Parent[q])
  BY <1>2, <1>3, UpwardsIs
<1>6. y # q
  BY <1>1
<1>7. y \in upwards(Parent[q])
  BY <1>2, <1>5, <1>6
<1>8. q \in upwards(Parent[q])
  BY <1>2, <1>4, <1>7, UpwardsClosed
<1> QED BY <1>4, <1>8

\* Of the groups above a group no two have the same parent.
LEMMA UpwardsOneChild ==
  ASSUME NEW g \in Group, NEW y \in upwards(g) \ {Root}, NEW z \in upwards(g) \ {Root},
         Parent[y] = Parent[z]
  PROVE  y = z
<1> DEFINE One(h) == \A a, b \in upwards(h) \ {Root} : Parent[a] = Parent[b] => a = b
           P == {h \in Group : One(h)}
<1>1. Root \in P
  <2>1. Root \in Group /\ upwards(Root) = {Root}
    BY UpwardsIs, GroupsAssumption
  <2> QED BY <2>1
<1>2. ASSUME NEW h \in Group \ {Root}, Parent[h] \in P PROVE h \in P
  <2> DEFINE p == Parent[h]
  <2>1. upwards(h) = {h} \cup upwards(p) /\ p \in Group
    BY UpwardsIs, GroupsAssumption
  <2>2. ASSUME NEW a \in upwards(p) \ {Root} PROVE Parent[a] # p
    <3>1. p # Root
      <4>1. p = Root => upwards(p) = {Root}
        BY <2>1, UpwardsIs
      <4> QED BY <2>2, <4>1
    <3>2. upwards(p) = {p} \cup upwards(Parent[p]) /\ Parent[p] \in Group
      BY <2>1, <3>1, UpwardsIs, GroupsAssumption
    <3>3. p \notin upwards(Parent[p])
      BY <2>1, <3>1, NotAboveItself
    <3>4. CASE a = p
      <4>1. Parent[p] \in upwards(Parent[p])
        BY <3>2, UpwardsClosed
      <4> QED BY <3>3, <3>4, <4>1
    <3>5. CASE a \in upwards(Parent[p])
      <4>1. Parent[a] \in upwards(Parent[p])
        BY <2>2, <3>2, <3>5, UpwardsClosed
      <4> QED BY <3>3, <4>1
    <3> QED BY <3>2, <3>4, <3>5
  <2>3. One(p)
    BY <1>2
  <2>4. One(h)
    BY <2>1, <2>2, <2>3
  <2> QED BY <2>4
<1>3. Group \subseteq P
  <2> HIDE DEF P
  <2> QED BY <1>1, <1>2, TreeInduction
<1> QED BY <1>3

\* Above a group is also what is above the groups above it.
LEMMA UpwardsTransitive ==
  ASSUME NEW x \in Group, NEW y \in upwards(x)
  PROVE  upwards(y) \subseteq upwards(x)
<1> DEFINE P == {h \in Group : \A z \in upwards(h) : upwards(z) \subseteq upwards(h)}
<1>1. Root \in P
  <2>1. Root \in Group /\ upwards(Root) = {Root}
    BY UpwardsIs, GroupsAssumption
  <2> QED BY <2>1
<1>2. ASSUME NEW h \in Group \ {Root}, Parent[h] \in P PROVE h \in P
  <2>1. upwards(h) = {h} \cup upwards(Parent[h])
    BY UpwardsIs
  <2> QED BY <1>2, <2>1
<1> HIDE DEF P
<1>3. x \in P
  BY <1>1, <1>2, TreeInduction
<1> QED BY <1>3 DEF P

-----------------------------------------------------------------------------
(* CpuTime *)

Times == [Field -> Nat]

TimeTypes ==
  /\ stat \in Times /\ group_stat \in [Group \ {Root} -> Times]
  /\ utime \in [Accounted -> Nat] /\ stime \in [Accounted -> Nat] /\ gtime \in [Accounted -> Nat]
  /\ group \in [Accounted -> Group] /\ irqtime \in BOOLEAN
  /\ irq_clock \in [hard : Nat, soft : Nat] /\ ticks \in Nat

TimeInv == TimeTypes /\ TicksAccountedOnce /\ GroupCoversChildren /\ IrqTicksEarned

\* The CPU's ticks, field by field.
LEMMA FieldSum ==
  ASSUME NEW u \in Times
  PROVE  SumFunctionOnSet(u, Field \ {"guest", "guest_nice"})
           = u["user"] + u["nice"] + u["system"] + u["softirq"] + u["irq"] + u["idle"] + u["iowait"]
<1> DEFINE A == {"user"}
           B == {"user", "nice"}
           C == {"user", "nice", "system"}
           D == {"user", "nice", "system", "softirq"}
           E == {"user", "nice", "system", "softirq", "irq"}
           F == {"user", "nice", "system", "softirq", "irq", "idle"}
           G == {"user", "nice", "system", "softirq", "irq", "idle", "iowait"}
<1>1. /\ A = {} \cup {"user"} /\ B = A \cup {"nice"} /\ C = B \cup {"system"}
      /\ D = C \cup {"softirq"} /\ E = D \cup {"irq"} /\ F = E \cup {"idle"} /\ G = F \cup {"iowait"}
      /\ G = Field \ {"guest", "guest_nice"}
  BY DEF Field
<1>2. /\ "nice" \notin A /\ "system" \notin B /\ "softirq" \notin C /\ "irq" \notin D
      /\ "idle" \notin E /\ "iowait" \notin F
  OBVIOUS
<1>3. \A f \in G : u[f] \in Int
  BY DEF Times, Field
<1>4. IsFiniteSet(G)
  <2>1. IsFiniteSet({}) /\ \A S, x : IsFiniteSet(S) => IsFiniteSet(S \cup {x})
    BY FS_EmptySet, FS_AddElement
  <2> HIDE DEF A, B, C, D, E, F, G
  <2>2. IsFiniteSet(A) /\ IsFiniteSet(B) /\ IsFiniteSet(C) /\ IsFiniteSet(D)
    BY <1>1, <2>1
  <2> QED BY <1>1, <2>1, <2>2
<1>5. A \in SUBSET G /\ B \in SUBSET G /\ C \in SUBSET G /\ D \in SUBSET G /\ E \in SUBSET G /\ F \in SUBSET G /\ {} \in SUBSET G
  OBVIOUS
<1>6. "user" \in G /\ "nice" \in G /\ "system" \in G /\ "softirq" \in G /\ "irq" \in G /\ "idle" \in G /\ "iowait" \in G
  OBVIOUS
<1> HIDE DEF A, B, C, D, E, F, G
<1>7. \A U \in SUBSET G, a \in G : a \notin U => SumFunctionOnSet(u, U \cup {a}) = SumFunctionOnSet(u, U) + u[a]
  BY <1>3, <1>4, SumGrow
<1>8. SumFunctionOnSet(u, A) = u["user"]
  <2>1. SumFunctionOnSet(u, {}) = 0
    BY SumEmpty
  <2>2. SumFunctionOnSet(u, {} \cup {"user"}) = SumFunctionOnSet(u, {}) + u["user"]
    BY <1>5, <1>6, <1>7
  <2> QED BY <1>1, <1>3, <1>6, <2>1, <2>2
<1>9. /\ SumFunctionOnSet(u, B) = SumFunctionOnSet(u, A) + u["nice"]
      /\ SumFunctionOnSet(u, C) = SumFunctionOnSet(u, B) + u["system"]
      /\ SumFunctionOnSet(u, D) = SumFunctionOnSet(u, C) + u["softirq"]
  BY <1>1, <1>2, <1>5, <1>6, <1>7
<1>10. SumFunctionOnSet(u, E) = SumFunctionOnSet(u, D) + u["irq"]
  BY <1>1, <1>2, <1>5, <1>6, <1>7
<1>11. SumFunctionOnSet(u, F) = SumFunctionOnSet(u, E) + u["idle"]
  <2>1. E \in SUBSET G /\ "idle" \in G /\ "idle" \notin E /\ F = E \cup {"idle"}
    BY <1>1, <1>2, <1>5, <1>6
  <2> QED BY ONLY <2>1, <1>7
<1>12. SumFunctionOnSet(u, G) = SumFunctionOnSet(u, F) + u["iowait"]
  <2>1. F \in SUBSET G /\ "iowait" \in G /\ "iowait" \notin F /\ G = F \cup {"iowait"}
    BY <1>1, <1>2, <1>5, <1>6
  <2>2. SumFunctionOnSet(u, F \cup {"iowait"}) = SumFunctionOnSet(u, F) + u["iowait"]
    BY ONLY <2>1, <1>7, Zenon
  <2> QED BY <2>1, <2>2, Zenon
<1>13. /\ u["user"] \in Int /\ u["nice"] \in Int /\ u["system"] \in Int /\ u["softirq"] \in Int
       /\ u["irq"] \in Int /\ u["idle"] \in Int /\ u["iowait"] \in Int
  BY <1>3, <1>6
<1>14. SumFunctionOnSet(u, G)
         = u["user"] + u["nice"] + u["system"] + u["softirq"] + u["irq"] + u["idle"] + u["iowait"]
  BY ONLY <1>8, <1>9, <1>10, <1>11, <1>12, <1>13
<1> QED BY <1>1, <1>14

\* The sums of one field over the children of a group.
ChildrenOf(p) == {g \in Group \ {Root} : Parent[g] = p}
Column(s, f) == [g \in Group \ {Root} |-> s[g][f]]
Bound(p, f) == IF p = Root THEN stat[f] ELSE group_stat[p][f]

LEMMA ChildrenFinite == \A p : IsFiniteSet(ChildrenOf(p)) /\ ChildrenOf(p) \subseteq Group \ {Root}
<1>1. \A p : ChildrenOf(p) \subseteq Group
  BY DEF ChildrenOf
<1> QED BY <1>1, FS_Subset, GroupsAssumption DEF ChildrenOf

LEMMA CoversIs ==
  GroupCoversChildren <=>
    \A f \in Field, p \in Group : SumFunctionOnSet(Column(group_stat, f), ChildrenOf(p)) <= Bound(p, f)
BY DEF GroupCoversChildren, Column, ChildrenOf, Bound

\* Time of the CPU that no group has keeps what the groups have.
LEMMA CpuTimeCovered ==
  ASSUME TimeTypes, GroupCoversChildren, stat' \in Times, \A f \in Field : stat[f] <= stat'[f],
         UNCHANGED group_stat
  PROVE  GroupCoversChildren'
<1> SUFFICES ASSUME NEW f \in Field, NEW p \in Group
             PROVE  SumFunctionOnSet(Column(group_stat, f), ChildrenOf(p))
                      <= IF p = Root THEN stat'[f] ELSE group_stat[p][f]
  BY DEF GroupCoversChildren, Column, ChildrenOf
<1>1. SumFunctionOnSet(Column(group_stat, f), ChildrenOf(p)) <= Bound(p, f)
  BY CoversIs
<1>2. SumFunctionOnSet(Column(group_stat, f), ChildrenOf(p)) \in Int
  <2> DEFINE c == Column(group_stat, f)
             S == ChildrenOf(p)
  <2>1. \A g \in S : c[g] \in Int
    BY ChildrenFinite DEF TimeTypes, Times, Column
  <2>2. IsFiniteSet(S)
    BY ChildrenFinite
  <2> HIDE DEF c, S
  <2>3. SumFunctionOnSet(c, S) \in Int
    BY <2>1, <2>2, SumType
  <2> QED BY <2>3 DEF c, S
<1>3. stat[f] \in Nat /\ stat'[f] \in Nat /\ stat[f] <= stat'[f]
  BY DEF TimeTypes, Times
<1> QED BY <1>1, <1>2, <1>3 DEF Bound

\* A tick of a task is given to every group above it, and of the children of a
\* group only to one.
LEMMA TaskTimeCovered ==
  ASSUME TimeTypes, GroupCoversChildren, NEW t \in Accounted, NEW f \in Field,
         task_group_account_field(t, f)
  PROVE  /\ stat' \in Times /\ group_stat' \in [Group \ {Root} -> Times]
         /\ GroupCoversChildren'
<1> DEFINE up == upwards(group[t])
<1>1. group[t] \in Group
  BY DEF TimeTypes
<1>2. /\ stat' = [stat EXCEPT ![f] = @ + 1]
      /\ group_stat' = [g \in Group \ {Root} |-> IF g \in up THEN [group_stat[g] EXCEPT ![f] = @ + 1]
                                                 ELSE group_stat[g]]
  BY DEF task_group_account_field, charged_groups
<1> HIDE DEF up
<1>3. /\ \A y \in up \ {Root} : y \in Group /\ Parent[y] \in up
      /\ \A y, z \in up \ {Root} : Parent[y] = Parent[z] => y = z
  BY <1>1, UpwardsClosed, UpwardsOneChild DEF up
<1>4. stat' \in Times /\ group_stat' \in [Group \ {Root} -> Times]
  BY <1>2 DEF TimeTypes, Times
<1>5. ASSUME NEW h \in Field, NEW p \in Group
      PROVE  SumFunctionOnSet(Column(group_stat', h), ChildrenOf(p))
               <= IF p = Root THEN stat'[h] ELSE group_stat'[p][h]
  <2> DEFINE c == Column(group_stat, h)
             d == Column(group_stat', h)
             S == ChildrenOf(p)
             b == IF p = Root THEN stat'[h] ELSE group_stat'[p][h]
  <2>1. IsFiniteSet(S) /\ S \subseteq Group \ {Root} /\ \A g \in S : Parent[g] = p
    BY ChildrenFinite DEF ChildrenOf
  <2>2. /\ \A g \in S : c[g] \in Nat /\ d[g] \in Nat
        /\ \A g \in S : d[g] = IF g \in up /\ h = f THEN c[g] + 1 ELSE c[g]
    BY <1>2, <1>4, <2>1 DEF TimeTypes, Times, Column
  <2>3. SumFunctionOnSet(c, S) <= Bound(p, h) /\ Bound(p, h) \in Nat
    BY CoversIs DEF Bound, TimeTypes, Times
  <2>4. /\ b \in Nat /\ b >= Bound(p, h)
        /\ h = f /\ (p = Root \/ p \in up) => b = Bound(p, h) + 1
    BY <1>2, <1>4 DEF Bound, TimeTypes, Times
  <2> HIDE DEF c, d, S, b
  <2>5. SumFunctionOnSet(c, S) \in Int
    <3>1. \A g \in S : c[g] \in Int
      BY <2>2
    <3> QED BY <2>1, <3>1, SumType
  <2>6. CASE h = f /\ \E a \in S : a \in up
    <3>1. PICK a \in S : a \in up
      BY <2>6
    <3>2. a \in up \ {Root} /\ Parent[a] = p /\ p \in up
      BY <1>3, <2>1, <3>1
    <3>3. \A g \in S \ {a} : g \notin up
      BY <1>3, <2>1, <3>1, <3>2
    <3>4. (\A g \in S : c[g] \in Int) /\ d[a] \in Int /\ \A g \in S \ {a} : d[g] = c[g]
      BY <2>2, <3>1, <3>3
    <3>5. SumFunctionOnSet(d, S) = SumFunctionOnSet(c, S) - c[a] + d[a]
      BY <2>1, <3>1, <3>4, SumUpdate
    <3>6. d[a] = c[a] + 1 /\ c[a] \in Int
      BY <2>2, <2>6, <3>1
    <3>7. b = Bound(p, h) + 1
      BY <2>4, <2>6, <3>2
    <3>8. SumFunctionOnSet(d, S) <= b
      BY <2>3, <2>5, <3>5, <3>6, <3>7
    <3> QED BY <3>8 DEF d, S, b
  <2>7. CASE h # f \/ \A a \in S : a \notin up
    <3>1. \A g \in S : d[g] \in Int /\ d[g] = c[g]
      BY <2>2, <2>7
    <3>2. SumFunctionOnSet(d, S) = SumFunctionOnSet(c, S)
      BY <2>1, <3>1, SumSame
    <3>3. SumFunctionOnSet(d, S) <= b
      BY <2>3, <2>4, <2>5, <3>2
    <3> QED BY <3>3 DEF d, S, b
  <2> QED BY <2>6, <2>7
<1> QED BY <1>4, <1>5 DEF GroupCoversChildren, Column, ChildrenOf
\* The fields add up to the ticks, and the tasks' times to the CPU's.
SevenFields(s) == s["user"] + s["nice"] + s["system"] + s["softirq"] + s["irq"] + s["idle"] + s["iowait"]

LEMMA OnceIs ==
  ASSUME TimeTypes
  PROVE  TicksAccountedOnce <=> /\ SevenFields(stat) = ticks
                                /\ sum(utime) = stat["user"] + stat["nice"]
                                /\ sum(gtime) = stat["guest"] + stat["guest_nice"]
BY FieldSum DEF TimeTypes, TicksAccountedOnce, SevenFields

LEMMA TaskTick ==
  ASSUME NEW u \in [Accounted -> Nat], NEW t \in Accounted, NEW v, v = [u EXCEPT ![t] = @ + 1]
  PROVE  v \in [Accounted -> Nat] /\ sum(u) \in Nat /\ sum(v) = sum(u) + 1
<1>1. /\ v \in [Accounted -> Nat] /\ v[t] = u[t] + 1 /\ v[t] \in Int
      /\ \A x \in Accounted : u[x] \in Int /\ u[x] \in Nat
      /\ \A x \in Accounted \ {t} : v[x] = u[x]
  OBVIOUS
<1>2. IsFiniteSet(Accounted)
  BY TicksAssumption
<1>3. SumFunctionOnSet(v, Accounted) = SumFunctionOnSet(u, Accounted) - u[t] + v[t]
  BY ONLY <1>1, <1>2, t \in Accounted, SumUpdate
<1>4. SumFunctionOnSet(u, Accounted) \in Nat
  BY ONLY <1>1, <1>2, SumNat
<1> QED BY <1>1, <1>3, <1>4 DEF sum

LEMMA TaskSums ==
  ASSUME TimeTypes
  PROVE  sum(utime) \in Nat /\ sum(gtime) \in Nat
<1>1. (\A x \in Accounted : utime[x] \in Nat) /\ (\A x \in Accounted : gtime[x] \in Nat)
  BY DEF TimeTypes
<1> QED BY <1>1, TicksAssumption, SumNat DEF sum

\* What is not written by a tick of a task or of the CPU.
Else == UNCHANGED <<group, irqtime, irq_clock>>

LEMMA UserTick ==
  ASSUME TimeInv, NEW t \in Accounted, account_user_time(t), ticks' = ticks + 1, Else
  PROVE  TimeInv'
<1> DEFINE f == IF t \in nice THEN "nice" ELSE "user"
<1>1. /\ f \in {"nice", "user"} /\ f \in Field /\ task_group_account_field(t, f)
      /\ stat' = [stat EXCEPT ![f] = @ + 1]
      /\ utime' = [utime EXCEPT ![t] = @ + 1] /\ UNCHANGED <<stime, gtime>>
  BY DEF account_user_time, Field, task_group_account_field
<1> HIDE DEF f
<1>2. stat' \in Times /\ group_stat' \in [Group \ {Root} -> Times] /\ GroupCoversChildren'
  BY <1>1, TaskTimeCovered DEF TimeInv
<1>3. utime' \in [Accounted -> Nat] /\ sum(utime) \in Nat /\ sum(utime') = sum(utime) + 1
  BY <1>1, TaskTick DEF TimeInv, TimeTypes
<1>4. TimeTypes'
  BY <1>1, <1>2, <1>3 DEF TimeInv, TimeTypes, Else
<1>5. SevenFields(stat') = SevenFields(stat) + 1 /\ stat'["user"] + stat'["nice"] = stat["user"] + stat["nice"] + 1
      /\ stat'["guest"] = stat["guest"] /\ stat'["guest_nice"] = stat["guest_nice"]
      /\ stat'["irq"] = stat["irq"]
  BY <1>1 DEF TimeInv, TimeTypes, Times, Field, SevenFields
<1>6. TicksAccountedOnce'
  <2>1. /\ SevenFields(stat) = ticks /\ sum(utime) = stat["user"] + stat["nice"]
        /\ sum(gtime) = stat["guest"] + stat["guest_nice"]
    BY OnceIs DEF TimeInv
  <2>2. gtime' = gtime
    BY <1>1
  <2>3. SevenFields(stat') = ticks' /\ sum(utime') = stat'["user"] + stat'["nice"]
        /\ sum(gtime') = stat'["guest"] + stat'["guest_nice"]
    BY <1>3, <1>5, <2>1, <2>2
  <2>4. stat' \in Times
    BY <1>2
  <2> QED BY <2>3, <2>4, FieldSum DEF TicksAccountedOnce, SevenFields, sum
<1>7. IrqTicksEarned'
  BY <1>5 DEF IrqTicksEarned, TimeInv, Else
<1> QED BY <1>2, <1>4, <1>6, <1>7 DEF TimeInv
LEMMA GuestTick ==
  ASSUME TimeInv, NEW t \in Accounted, account_guest_time(t), ticks' = ticks + 1, Else
  PROVE  TimeInv'
<1> DEFINE F == guest_fields(t)
<1>1. /\ F = {"nice", "guest_nice"} \/ F = {"user", "guest"}
      /\ stat' = [f \in Field |-> IF f \in F THEN stat[f] + 1 ELSE stat[f]]
      /\ utime' = [utime EXCEPT ![t] = @ + 1] /\ gtime' = [gtime EXCEPT ![t] = @ + 1]
      /\ UNCHANGED <<stime, group_stat>>
  BY DEF account_guest_time, guest_fields, account_cpu
<1> HIDE DEF F
<1>2. stat' \in Times /\ \A f \in Field : stat[f] <= stat'[f]
  BY <1>1 DEF TimeInv, TimeTypes, Times
<1>3. GroupCoversChildren'
  BY <1>1, <1>2, CpuTimeCovered DEF TimeInv
<1>4. /\ utime' \in [Accounted -> Nat] /\ sum(utime) \in Nat /\ sum(utime') = sum(utime) + 1
      /\ gtime' \in [Accounted -> Nat] /\ sum(gtime) \in Nat /\ sum(gtime') = sum(gtime) + 1
  BY <1>1, TaskTick DEF TimeInv, TimeTypes
<1>5. TimeTypes'
  BY <1>1, <1>2, <1>4 DEF TimeInv, TimeTypes, Else
<1>6. /\ SevenFields(stat') = SevenFields(stat) + 1
      /\ stat'["user"] + stat'["nice"] = stat["user"] + stat["nice"] + 1
      /\ stat'["guest"] + stat'["guest_nice"] = stat["guest"] + stat["guest_nice"] + 1
      /\ stat'["irq"] = stat["irq"]
  BY <1>1 DEF TimeInv, TimeTypes, Times, Field, SevenFields
<1>7. TicksAccountedOnce'
  <2>1. /\ SevenFields(stat) = ticks /\ sum(utime) = stat["user"] + stat["nice"]
        /\ sum(gtime) = stat["guest"] + stat["guest_nice"]
    BY OnceIs DEF TimeInv
  <2>2. SevenFields(stat') = ticks' /\ sum(utime') = stat'["user"] + stat'["nice"]
        /\ sum(gtime') = stat'["guest"] + stat'["guest_nice"]
    BY <1>4, <1>6, <2>1
  <2> QED BY <1>2, <2>2, FieldSum DEF TicksAccountedOnce, SevenFields, sum
<1>8. IrqTicksEarned'
  BY <1>6 DEF IrqTicksEarned, TimeInv, Else
<1> QED BY <1>3, <1>5, <1>7, <1>8 DEF TimeInv

LEMMA SystemTick ==
  ASSUME TimeInv, NEW t \in Accounted, NEW f \in {"system", "softirq", "irq"},
         irqtime => f # "irq", __account_system_time(t, f), ticks' = ticks + 1, Else
  PROVE  TimeInv'
<1>1. /\ task_group_account_field(t, f) /\ f \in Field
      /\ stat' = [stat EXCEPT ![f] = @ + 1]
      /\ stime' = [stime EXCEPT ![t] = @ + 1] /\ UNCHANGED <<utime, gtime>>
  BY DEF __account_system_time, Field, task_group_account_field
<1>2. stat' \in Times /\ group_stat' \in [Group \ {Root} -> Times] /\ GroupCoversChildren'
  BY <1>1, TaskTimeCovered DEF TimeInv
<1>3. TimeTypes'
  BY <1>1, <1>2 DEF TimeInv, TimeTypes, Else
<1>4. /\ SevenFields(stat') = SevenFields(stat) + 1
      /\ stat'["user"] = stat["user"] /\ stat'["nice"] = stat["nice"]
      /\ stat'["guest"] = stat["guest"] /\ stat'["guest_nice"] = stat["guest_nice"]
      /\ f # "irq" => stat'["irq"] = stat["irq"]
  BY <1>1 DEF TimeInv, TimeTypes, Times, Field, SevenFields
<1>5. TicksAccountedOnce'
  <2>1. /\ SevenFields(stat) = ticks /\ sum(utime) = stat["user"] + stat["nice"]
        /\ sum(gtime) = stat["guest"] + stat["guest_nice"]
    BY OnceIs DEF TimeInv
  <2>2. SevenFields(stat') = ticks' /\ sum(utime') = stat'["user"] + stat'["nice"]
        /\ sum(gtime') = stat'["guest"] + stat'["guest_nice"]
    <3>1. utime' = utime /\ gtime' = gtime
      BY <1>1
    <3> QED BY <1>4, <2>1, <3>1
  <2> QED BY <1>2, <2>2, FieldSum DEF TicksAccountedOnce, SevenFields, sum
<1>6. IrqTicksEarned'
  BY <1>4 DEF IrqTicksEarned, TimeInv, Else
<1> QED BY <1>2, <1>3, <1>5, <1>6 DEF TimeInv

\* Time of the CPU alone: interrupts, iowait and idle.
LEMMA CpuTick ==
  ASSUME TimeInv, NEW add \in [{"softirq", "irq", "idle", "iowait"} -> Nat],
         stat' = [f \in Field |-> IF f \in {"softirq", "irq", "idle", "iowait"}
                                  THEN stat[f] + add[f] ELSE stat[f]],
         ticks' = ticks + add["softirq"] + add["irq"] + add["idle"] + add["iowait"],
         irqtime /\ add["irq"] # 0 => stat["irq"] + add["irq"] <= irq_clock.hard,
         UNCHANGED <<utime, stime, gtime, group_stat>>, Else
  PROVE  TimeInv'
<1>1. stat' \in Times /\ \A f \in Field : stat[f] <= stat'[f]
  BY DEF TimeInv, TimeTypes, Times
<1>2. GroupCoversChildren'
  BY <1>1, CpuTimeCovered DEF TimeInv
<1>3. TimeTypes'
  BY <1>1 DEF TimeInv, TimeTypes, Else
<1>4. /\ SevenFields(stat') = SevenFields(stat) + add["softirq"] + add["irq"] + add["idle"] + add["iowait"]
      /\ stat'["user"] = stat["user"] /\ stat'["nice"] = stat["nice"]
      /\ stat'["guest"] = stat["guest"] /\ stat'["guest_nice"] = stat["guest_nice"]
      /\ stat'["irq"] = stat["irq"] + add["irq"]
  BY DEF TimeInv, TimeTypes, Times, Field, SevenFields
<1>5. TicksAccountedOnce'
  <2>1. /\ SevenFields(stat) = ticks /\ sum(utime) = stat["user"] + stat["nice"]
        /\ sum(gtime) = stat["guest"] + stat["guest_nice"]
    BY OnceIs DEF TimeInv
  <2>2. SevenFields(stat') = ticks' /\ sum(utime') = stat'["user"] + stat'["nice"]
        /\ sum(gtime') = stat'["guest"] + stat'["guest_nice"]
    BY <1>4, <2>1
  <2> QED BY <1>1, <2>2, FieldSum DEF TicksAccountedOnce, SevenFields, sum
<1>6. IrqTicksEarned'
  <2>1. stat["irq"] \in Nat /\ add["irq"] \in Nat
    BY DEF TimeInv, TimeTypes, Times, Field
  <2> QED BY <1>4, <2>1 DEF IrqTicksEarned, TimeInv, Else
<1> QED BY <1>2, <1>3, <1>5, <1>6 DEF TimeInv

LEMMA IrqTick ==
  ASSUME TimeInv, NEW f \in {"softirq", "irq", "idle", "iowait"}, account_cpu({f}, 1),
         UNCHANGED <<utime, stime, gtime>>, ticks' = ticks + 1, Else,
         irqtime /\ f = "irq" => irqtime_account_hi_update
  PROVE  TimeInv'
<1> DEFINE add == [h \in {"softirq", "irq", "idle", "iowait"} |-> IF h = f THEN 1 ELSE 0]
<1>1. add \in [{"softirq", "irq", "idle", "iowait"} -> Nat]
  OBVIOUS
<1>2. stat' = [h \in Field |-> IF h \in {"softirq", "irq", "idle", "iowait"}
                               THEN stat[h] + add[h] ELSE stat[h]]
  <2>1. \A h \in Field : stat[h] \in Nat
    BY DEF TimeInv, TimeTypes, Times
  <2> QED BY <2>1 DEF account_cpu
<1>3. add["softirq"] + add["irq"] + add["idle"] + add["iowait"] = 1
  OBVIOUS
<1>4. ticks' = ticks + add["softirq"] + add["irq"] + add["idle"] + add["iowait"]
  BY DEF TimeInv, TimeTypes
<1>5. irqtime /\ add["irq"] # 0 => stat["irq"] + add["irq"] <= irq_clock.hard
  <2>1. stat["irq"] \in Nat /\ irq_clock.hard \in Nat
    BY DEF TimeInv, TimeTypes, Times, Field
  <2> QED BY <2>1 DEF irqtime_account_hi_update
<1>6. group_stat' = group_stat
  BY DEF account_cpu
<1> HIDE DEF add
<1> QED BY <1>1, <1>2, <1>4, <1>5, <1>6, CpuTick

LEMMA IdleTicksStep ==
  ASSUME TimeInv, NEW n \in IdleTicks, NEW iowait \in BOOLEAN, AccountIdleTicks(n, iowait)
  PROVE  TimeInv'
<1> DEFINE hard == IF irqtime THEN due(irq_clock.hard, "irq", n) ELSE 0
           soft == IF irqtime THEN due(irq_clock.soft, "softirq", n - hard) ELSE 0
           all == [f \in Field |-> CASE f = "irq" -> hard [] f = "softirq" -> soft
                                     [] f = "iowait" -> IF iowait THEN n - hard - soft ELSE 0
                                     [] f = "idle" -> IF iowait THEN 0 ELSE n - hard - soft
                                     [] OTHER -> 0]
           add == [f \in {"softirq", "irq", "idle", "iowait"} |-> all[f]]
<1>1. /\ ticks' = ticks + n /\ stat' = [f \in Field |-> stat[f] + all[f]]
      /\ UNCHANGED <<group_stat, utime, stime, gtime, nice, group, irqtime, irq_clock>>
  BY DEF AccountIdleTicks
<1>2. n \in Nat /\ ticks \in Nat /\ stat["irq"] \in Nat /\ stat["softirq"] \in Nat
      /\ irq_clock.hard \in Nat /\ irq_clock.soft \in Nat
  BY TicksAssumption DEF TimeInv, TimeTypes, Times, Field
<1>3. hard \in Nat /\ hard <= n /\ (irqtime /\ hard # 0 => stat["irq"] + hard <= irq_clock.hard)
  BY <1>2 DEF due
<1> HIDE DEF hard
<1>4. soft \in Nat /\ soft <= n - hard
  BY <1>2, <1>3 DEF due
<1> HIDE DEF soft
<1>5. /\ add["irq"] = hard /\ add["softirq"] = soft
      /\ add["iowait"] = IF iowait THEN n - hard - soft ELSE 0
      /\ add["idle"] = IF iowait THEN 0 ELSE n - hard - soft
  BY DEF Field
<1>6. /\ \A f \in {"softirq", "irq", "idle", "iowait"} : add[f] = all[f]
      /\ \A f \in Field \ {"softirq", "irq", "idle", "iowait"} : all[f] = 0
  OBVIOUS
<1>7. DOMAIN add = {"softirq", "irq", "idle", "iowait"} /\ add = [f \in DOMAIN add |-> add[f]]
  OBVIOUS
<1> HIDE DEF all, add
<1>8. add \in [{"softirq", "irq", "idle", "iowait"} -> Nat]
  <2>1. \A f \in {"softirq", "irq", "idle", "iowait"} : add[f] \in Nat
    BY <1>2, <1>3, <1>4, <1>5
  <2> QED BY <1>7, <2>1
<1>9. stat' = [f \in Field |-> IF f \in {"softirq", "irq", "idle", "iowait"}
                               THEN stat[f] + add[f] ELSE stat[f]]
  <2>1. \A f \in Field : stat[f] \in Nat
    BY DEF TimeInv, TimeTypes, Times
  <2>2. \A f \in Field : stat[f] + all[f] = IF f \in {"softirq", "irq", "idle", "iowait"}
                                            THEN stat[f] + add[f] ELSE stat[f]
    BY <1>6, <2>1
  <2> QED BY <1>1, <2>2
<1>10. ticks' = ticks + add["softirq"] + add["irq"] + add["idle"] + add["iowait"]
  BY <1>1, <1>2, <1>3, <1>4, <1>5
<1>11. irqtime /\ add["irq"] # 0 => stat["irq"] + add["irq"] <= irq_clock.hard
  BY <1>3, <1>5
<1> QED BY <1>1, <1>8, <1>9, <1>10, <1>11, CpuTick DEF Else
LEMMA ProcessTickStep ==
  ASSUME TimeInv, NEW t \in Accounted \cup {Idle}, NEW user \in BOOLEAN, NEW vcpu \in BOOLEAN,
         NEW iowait \in BOOLEAN, NEW in \in {"task", "softirq", "hardirq"},
         AccountProcessTick(t, user, vcpu, in, iowait)
  PROVE  TimeInv'
<1>1. ticks' = ticks + 1 /\ Else /\ (t = Idle => ~user /\ ~vcpu) /\ irqtime \in BOOLEAN
  BY DEF AccountProcessTick, Else, TimeInv, TimeTypes
<1>2. ASSUME account_idle_time(iowait, 1) PROVE TimeInv'
  <2> DEFINE f == IF iowait THEN "iowait" ELSE "idle"
  <2>1. f \in {"iowait", "idle"} /\ account_cpu({f}, 1) /\ UNCHANGED <<utime, stime, gtime>>
    BY <1>2 DEF account_idle_time
  <2> HIDE DEF f
  <2> QED BY <1>1, <2>1, IrqTick
<1>3. ASSUME NEW f \in {"softirq", "irq"}, account_irq(f), irqtime /\ f = "irq" => irqtime_account_hi_update
      PROVE  TimeInv'
  BY <1>1, <1>3, IrqTick DEF account_irq
<1>4. CASE irqtime
  <2>1. irqtime_account_process_tick(t, user, vcpu, iowait)
    BY <1>4 DEF AccountProcessTick
  <2>2. CASE irqtime_account_hi_update
    BY <1>3, <2>1, <2>2 DEF irqtime_account_process_tick
  <2>3. CASE ~irqtime_account_hi_update /\ irqtime_account_si_update
    <3>1. account_irq("softirq")
      BY <2>1, <2>3 DEF irqtime_account_process_tick
    <3> QED BY <1>3, <3>1
  <2>4. CASE ~irqtime_account_hi_update /\ ~irqtime_account_si_update
    <3>1. \/ t \in Accounted /\ __account_system_time(t, "softirq")
          \/ account_idle_time(iowait, 1)
          \/ t \in Accounted /\ account_user_time(t)
          \/ t \in Accounted /\ account_guest_time(t)
          \/ t \in Accounted /\ __account_system_time(t, "system")
      <4>1. CASE t = Ksoftirqd
        BY <2>1, <2>4, <4>1, TicksAssumption DEF irqtime_account_process_tick
      <4>2. CASE t # Ksoftirqd /\ t = Idle
        BY <1>1, <2>1, <2>4, <4>2 DEF irqtime_account_process_tick
      <4>3. CASE t # Ksoftirqd /\ t # Idle
        <5>1. t \in Accounted \ {Ksoftirqd}
          BY <4>3
        <5>2. CASE user
          BY <2>1, <2>4, <4>3, <5>1, <5>2 DEF irqtime_account_process_tick
        <5>3. CASE ~user /\ vcpu
          BY <2>1, <2>4, <4>3, <5>1, <5>3 DEF irqtime_account_process_tick
        <5>4. CASE ~user /\ ~vcpu
          BY <2>1, <2>4, <4>3, <5>1, <5>4 DEF irqtime_account_process_tick
        <5> QED BY <5>2, <5>3, <5>4
      <4> QED BY <4>1, <4>2, <4>3
    <3> QED BY <1>1, <1>2, <3>1, UserTick, GuestTick, SystemTick
  <2> QED BY <2>2, <2>3, <2>4
<1>5. CASE ~irqtime
  <2>1. CASE user
    <3>1. account_user_time(t) /\ t \in Accounted
      BY <1>1, <1>5, <2>1 DEF AccountProcessTick
    <3> QED BY <1>1, <3>1, UserTick
  <2>2. CASE ~user /\ t # Idle
    <3>1. account_system_time(t, vcpu, in) /\ t \in Accounted
      BY <1>5, <2>2 DEF AccountProcessTick
    <3>2. account_guest_time(t) \/ \E f \in {"system", "softirq", "irq"} : __account_system_time(t, f)
      BY <3>1 DEF account_system_time
    <3> QED BY <1>1, <1>5, <3>1, <3>2, GuestTick, SystemTick
  <2>3. CASE ~user /\ t = Idle /\ in # "task"
    <3> DEFINE f == IF in = "hardirq" THEN "irq" ELSE "softirq"
    <3>1. account_irq(f) /\ f \in {"softirq", "irq"}
      BY <1>5, <2>3 DEF AccountProcessTick
    <3> HIDE DEF f
    <3> QED BY <1>3, <1>5, <3>1
  <2>4. CASE ~user /\ t = Idle /\ in = "task"
    <3>1. account_idle_time(iowait, 1)
      BY <1>5, <2>4 DEF AccountProcessTick
    <3> QED BY <1>2, <3>1
  <2> QED BY <2>1, <2>2, <2>3, <2>4
<1> QED BY <1>1, <1>4, <1>5

LEMMA TimeStep ==
  ASSUME TimeInv, [TimeNext]_time_vars
  PROVE  TimeInv'
<1>1. ASSUME others, group' \in [Accounted -> Group], irqtime' \in BOOLEAN, irqtime' => irqtime,
             irq_clock' \in [hard : Nat, soft : Nat], irq_clock'.hard >= irq_clock.hard
      PROVE  TimeInv'
  <2>1. TimeTypes'
    BY <1>1 DEF TimeInv, TimeTypes, others
  <2>2. TicksAccountedOnce'
    BY <1>1 DEF TimeInv, TicksAccountedOnce, others, sum
  <2>3. GroupCoversChildren'
    BY <1>1 DEF TimeInv, GroupCoversChildren, others
  <2>4. IrqTicksEarned'
    <3>1. stat["irq"] \in Nat /\ irq_clock.hard \in Nat /\ irq_clock'.hard \in Nat /\ stat' = stat
      BY <1>1 DEF TimeInv, TimeTypes, Times, Field, others
    <3> QED BY <1>1, <3>1 DEF TimeInv, IrqTicksEarned
  <2> QED BY <2>1, <2>2, <2>3, <2>4 DEF TimeInv
<1>2. CASE UNCHANGED time_vars
  BY <1>1, <1>2 DEF time_vars, others, TimeInv, TimeTypes
<1>3. ASSUME NEW k \in {"hard", "soft"}, IrqClock(k) PROVE TimeInv'
  <2>1. others /\ UNCHANGED <<group, irqtime>> /\ irq_clock' = [irq_clock EXCEPT ![k] = @ + 1]
    BY <1>3 DEF IrqClock
  <2>2. irq_clock' \in [hard : Nat, soft : Nat] /\ irq_clock'.hard >= irq_clock.hard
    BY <2>1 DEF TimeInv, TimeTypes
  <2> QED BY <1>1, <2>1, <2>2 DEF TimeInv, TimeTypes
<1>4. CASE DisableSchedClockIrqtime
  <2>1. others /\ UNCHANGED <<group, irq_clock>> /\ irqtime' = FALSE
    BY <1>4 DEF DisableSchedClockIrqtime
  <2>2. irqtime' \in BOOLEAN /\ (irqtime' => irqtime)
    BY ONLY <2>1, Zenon
  <2>3. /\ group' \in [Accounted -> Group] /\ irq_clock' \in [hard : Nat, soft : Nat]
        /\ irq_clock'.hard >= irq_clock.hard
    BY <2>1 DEF TimeInv, TimeTypes
  <2> QED BY <1>1, <2>1, <2>2, <2>3
<1>5. ASSUME NEW t \in Accounted, Renice(t) PROVE TimeInv'
  BY <1>1, <1>5 DEF Renice, TimeInv, TimeTypes
<1>6. ASSUME NEW t \in Accounted, NEW g \in Group, AttachTask(t, g) PROVE TimeInv'
  BY <1>1, <1>6 DEF AttachTask, TimeInv, TimeTypes
<1> QED BY <1>2, <1>3, <1>4, <1>5, <1>6, ProcessTickStep, IdleTicksStep DEF TimeNext

LEMMA TimeInitial == TimeInit => TimeInv
<1> SUFFICES ASSUME TimeInit PROVE TimeInv
  OBVIOUS
<1>1. TimeTypes
  <2>1. Root \in Group
    BY GroupsAssumption
  <2> QED BY <2>1 DEF TimeInit, TimeTypes, Times
<1>2. sum(utime) = 0 /\ sum(gtime) = 0
  <2>1. (\A t \in Accounted : utime[t] = 0) /\ (\A t \in Accounted : gtime[t] = 0)
    BY DEF TimeInit
  <2> QED BY <2>1, TicksAssumption, SumZero DEF sum
<1>3. \A f \in Field : stat[f] = 0
  BY DEF TimeInit
<1>4. TicksAccountedOnce
  BY <1>1, <1>2, <1>3, OnceIs DEF Field, SevenFields, TimeInit
<1>5. ASSUME NEW f \in Field, NEW p \in Group
      PROVE  SumFunctionOnSet(Column(group_stat, f), ChildrenOf(p)) <= Bound(p, f)
  <2> DEFINE c == Column(group_stat, f)
             S == ChildrenOf(p)
  <2>1. IsFiniteSet(S) /\ \A g \in S : c[g] = 0
    BY ChildrenFinite DEF TimeInit, Column
  <2>2. Bound(p, f) = 0
    BY DEF Bound, TimeInit
  <2> HIDE DEF c, S
  <2>3. SumFunctionOnSet(c, S) = 0
    BY <2>1, SumZero
  <2> QED BY <2>2, <2>3 DEF c, S
<1>6. GroupCoversChildren
  BY <1>5, CoversIs
<1>7. IrqTicksEarned
  BY <1>1, <1>3 DEF IrqTicksEarned, Field, TimeInit
<1> QED BY <1>1, <1>4, <1>6, <1>7 DEF TimeInv

-----------------------------------------------------------------------------
(* TaskTimes *)

TimesTypes ==
  /\ ticks_user \in Nat /\ ticks_system \in Nat /\ rtime \in Nat
  /\ prev_utime \in Nat /\ prev_stime \in Nat
  /\ reader \in [Reader -> [at : {"away", "load", "store", "stime"}, utime : Nat, rtime : Nat]]

\* Only one reader is under way; what it holds and what is stored is no more
\* than the run time it sampled.
ReadersRight ==
  /\ \A r, s \in Reader : reader[r].at # "away" /\ reader[s].at # "away" => r = s
  /\ \A r \in Reader : reader[r].at # "away" =>
       /\ reader[r].utime <= reader[r].rtime
       /\ reader[r].rtime <= rtime
       /\ prev_utime <= reader[r].rtime

TimesInv == TimesTypes /\ ReadersRight /\ TimesWithinRuntime

\* A part of the run time is not more than the run time.
LEMMA Scaled ==
  ASSUME NEW u \in Nat, NEW r \in Nat, NEW t \in Nat, u <= t, t # 0
  PROVE  scale_utime(u, r, t) \in Nat /\ scale_utime(u, r, t) <= r
<1> DEFINE p == r * u
           q == p \div t
<1>1. p \in Nat /\ p <= r * t
  <2>1. PICK d \in Nat : t = u + d
    <3>1. t - u \in Nat /\ t = u + (t - u)
      OBVIOUS
    <3> QED BY <3>1
  <2>2. r * t = r * u + r * d /\ r * d \in Nat /\ r * u \in Nat
    BY <2>1
  <2> QED BY <2>2
<1>2. q \in Nat /\ t * q <= p
  BY <1>1
<1>3. q <= r
  <2>1. SUFFICES ASSUME q > r PROVE FALSE
    BY <1>2
  <2>2. PICK e \in Nat : q = r + 1 + e
    <3>1. q - r - 1 \in Nat /\ q = r + 1 + (q - r - 1)
      BY <2>1, <1>2
    <3> QED BY <3>1
  <2>3. t * q = t * r + t + t * e /\ t * e \in Nat /\ t * r = r * t
    BY <2>2
  <2> HIDE DEF p, q
  <2> QED BY <2>3, <1>1, <1>2
<1> QED BY <1>2, <1>3 DEF scale_utime

LEMMA TimesInitial == TimesInit => TimesInv
BY DEF TimesInit, TimesInv, TimesTypes, ReadersRight, TimesWithinRuntime, Away

LEMMA TimesStep ==
  ASSUME Siglock, TimesInv, [TimesNext]_times_vars
  PROVE  TimesInv'
<1> USE DEF TimesInv
<1>1. CASE UNCHANGED times_vars
  BY <1>1 DEF times_vars, TimesTypes, ReadersRight, TimesWithinRuntime
<1>2. CASE Tick \/ UpdateCurr
  <2>1. /\ UNCHANGED <<prev_utime, prev_stime, reader>>
        /\ ticks_user' \in Nat /\ ticks_system' \in Nat /\ rtime' \in Nat /\ rtime' >= rtime
    BY <1>2 DEF Tick, UpdateCurr, TimesTypes
  <2> QED BY <2>1 DEF TimesTypes, ReadersRight, TimesWithinRuntime
<1>3. ASSUME NEW r \in Reader, Sample(r) PROVE TimesInv'
  <2> DEFINE u == IF ticks_user + ticks_system = 0 THEN rtime
                  ELSE scale_utime(ticks_user, rtime, ticks_user + ticks_system)
             n == [at |-> "load", rtime |-> rtime, utime |-> u]
  <2>1. /\ reader' = [reader EXCEPT ![r] = n]
        /\ UNCHANGED <<ticks_user, ticks_system, rtime, prev_utime, prev_stime>>
        /\ \A s \in Reader : reader[s].at = "away"
    BY <1>3 DEF Sample
  <2>2. u \in Nat /\ u <= rtime
    BY Scaled DEF TimesTypes
  <2> HIDE DEF u
  <2>3. reader'[r] = n /\ \A s \in Reader : s # r => reader'[s].at = "away"
    BY <2>1 DEF TimesTypes
  <2>4. TimesTypes'
    BY <2>1, <2>2 DEF TimesTypes
  <2>5. ReadersRight'
    BY <2>1, <2>2, <2>3 DEF TimesTypes, ReadersRight, TimesWithinRuntime
  <2> QED BY <2>1, <2>4, <2>5 DEF TimesWithinRuntime
<1>4. ASSUME NEW r \in Reader, LoadPrev(r) PROVE TimesInv'
  <2> DEFINE u == larger(prev_utime, reader[r].utime)
  <2>1. /\ reader[r].at = "load" /\ reader' = [reader EXCEPT ![r].at = "store", ![r].utime = u]
        /\ UNCHANGED <<ticks_user, ticks_system, rtime, prev_utime, prev_stime>>
    BY <1>4 DEF LoadPrev
  <2>2. u \in Nat /\ u <= reader[r].rtime
    BY <2>1 DEF TimesTypes, ReadersRight, larger
  <2> HIDE DEF u
  <2>3. /\ reader'[r].at = "store" /\ reader'[r].utime = u /\ reader'[r].rtime = reader[r].rtime
        /\ \A s \in Reader : s # r => reader'[s] = reader[s]
    BY <2>1 DEF TimesTypes
  <2>4. TimesTypes'
    BY <2>1, <2>2 DEF TimesTypes
  <2>5. ReadersRight'
    <3>1. \A s \in Reader : reader'[s].at # "away" => reader[s].at # "away"
      BY <2>1, <2>3
    <3>2. reader[r].rtime <= rtime /\ prev_utime <= reader[r].rtime
      BY <2>1 DEF ReadersRight
    <3>3. ASSUME NEW s \in Reader, reader'[s].at # "away"
          PROVE  /\ reader'[s].utime <= reader'[s].rtime
                 /\ reader'[s].rtime <= rtime'
                 /\ prev_utime' <= reader'[s].rtime
      <4>1. CASE s = r
        BY <2>1, <2>2, <2>3, <3>2, <4>1
      <4>2. CASE s # r
        BY <2>1, <2>3, <3>3, <4>2 DEF ReadersRight
      <4> QED BY <4>1, <4>2
    <3> QED BY <3>1, <3>3 DEF ReadersRight
  <2> QED BY <2>1, <2>4, <2>5 DEF TimesWithinRuntime
<1>5. ASSUME NEW r \in Reader, StoreUtime(r) PROVE TimesInv'
  <2>1. /\ reader[r].at = "store" /\ reader' = [reader EXCEPT ![r].at = "stime"]
        /\ prev_utime' = reader[r].utime
        /\ UNCHANGED <<ticks_user, ticks_system, rtime, prev_stime>>
    BY <1>5 DEF StoreUtime
  <2>2. /\ reader'[r].at = "stime" /\ reader'[r].utime = reader[r].utime
        /\ reader'[r].rtime = reader[r].rtime
        /\ \A s \in Reader : s # r => reader'[s] = reader[s]
    BY <2>1 DEF TimesTypes
  <2>3. TimesTypes'
    BY <2>1 DEF TimesTypes
  <2>4. ReadersRight'
    BY <2>1, <2>2 DEF ReadersRight
  <2>5. prev_utime' <= rtime
    BY <2>1 DEF ReadersRight, TimesTypes
  <2> QED BY <2>1, <2>3, <2>4, <2>5 DEF TimesWithinRuntime
<1>6. ASSUME NEW r \in Reader, StoreStime(r) PROVE TimesInv'
  <2> DEFINE d == reader[r].rtime - prev_utime
  <2>1. /\ reader[r].at = "stime" /\ reader' = [reader EXCEPT ![r] = Away]
        /\ prev_stime' = larger(prev_stime, d % Wrap)
        /\ UNCHANGED <<ticks_user, ticks_system, rtime, prev_utime>>
    BY <1>6 DEF StoreStime
  <2>2. d \in Nat /\ d <= rtime /\ Wrap \in Nat \ {0}
    BY <2>1, TimesAssumption DEF ReadersRight, TimesTypes
  <2> HIDE DEF d
  <2>3. d % Wrap \in Nat /\ d % Wrap <= d
    <3>1. d \div Wrap \in Nat /\ d % Wrap \in Nat /\ d = Wrap * (d \div Wrap) + (d % Wrap)
      BY <2>2
    <3>2. Wrap * (d \div Wrap) \in Nat
      BY <2>2, <3>1
    <3> QED BY <2>2, <3>1, <3>2
  <2>4. prev_stime' \in Nat /\ prev_stime' <= rtime
    BY <2>1, <2>2, <2>3 DEF larger, TimesTypes, TimesWithinRuntime
  <2>5. /\ reader'[r] = Away /\ \A s \in Reader : s # r => reader'[s] = reader[s]
    BY <2>1 DEF TimesTypes
  <2>6. TimesTypes'
    BY <2>1, <2>4 DEF TimesTypes, Away
  <2>7. ReadersRight'
    BY <2>1, <2>5 DEF ReadersRight, Away
  <2> QED BY <2>1, <2>4, <2>6, <2>7 DEF TimesWithinRuntime
<1> QED BY <1>1, <1>2, <1>3, <1>4, <1>5, <1>6 DEF TimesNext

-----------------------------------------------------------------------------
(* CpuAcct *)

\* The sums of what a walk over the CPUs has passed, and of what is to come.
passed(u, k) == SumFunctionOnSet(u, 1..(k - 1))
ahead(u, k) == SumFunctionOnSet(u, k..NrCpus)
whole(u) == SumFunctionOnSet(u, Cpu)

\* A counter of a group on every CPU.
Counters == [Cpu -> Nat]

LEMMA PartsFinite ==
  ASSUME NEW k \in 1..(NrCpus + 1)
  PROVE  /\ IsFiniteSet(1..(k - 1)) /\ IsFiniteSet(k..NrCpus) /\ IsFiniteSet(Cpu)
         /\ 1..(k - 1) \subseteq Cpu /\ k..NrCpus \subseteq Cpu
<1>1. NrCpus \in Int /\ k \in Int /\ k - 1 \in Int
  BY CpusAssumption
<1> QED BY <1>1, FS_Interval DEF Cpu

LEMMA PartNat ==
  ASSUME NEW u \in Counters, NEW S, S \subseteq Cpu, IsFiniteSet(S)
  PROVE  SumFunctionOnSet(u, S) \in Nat
<1>1. \A c \in S : u[c] \in Nat
  BY DEF Counters
<1> QED BY <1>1, SumNat

LEMMA PartAdd ==
  ASSUME NEW u \in Counters, NEW S, S \subseteq Cpu, IsFiniteSet(S), NEW a \in Cpu, a \notin S,
         NEW T, T = S \cup {a}
  PROVE  SumFunctionOnSet(u, T) = SumFunctionOnSet(u, S) + u[a]
<1>1. \A c \in S \cup {a} : u[c] \in Int
  BY DEF Counters
<1>2. SumFunctionOnSet(u, S \cup {a}) = SumFunctionOnSet(u, S) + u[a]
  BY <1>1, SumAdd
<1> QED BY <1>2

LEMMA PartChange ==
  ASSUME NEW u \in Counters, NEW v \in Counters, NEW S, S \subseteq Cpu, IsFiniteSet(S), NEW a \in S,
         \A c \in S \ {a} : v[c] = u[c]
  PROVE  SumFunctionOnSet(v, S) = SumFunctionOnSet(u, S) - u[a] + v[a]
<1>1. (\A c \in S : u[c] \in Int) /\ v[a] \in Int
  BY DEF Counters
<1> QED BY <1>1, SumUpdate

LEMMA PartLess ==
  ASSUME NEW u \in Counters, NEW v \in Counters, NEW S, S \subseteq Cpu, IsFiniteSet(S),
         \A c \in S : u[c] <= v[c]
  PROVE  SumFunctionOnSet(u, S) <= SumFunctionOnSet(v, S)
<1>1. \A c \in S : u[c] \in Int /\ v[c] \in Int /\ u[c] <= v[c]
  BY DEF Counters
<1> QED BY <1>1, SumLess

\* The walk at its ends and from one CPU to the next.
LEMMA WalkSums ==
  ASSUME NEW u \in Counters, NEW k \in 1..(NrCpus + 1)
  PROVE  /\ passed(u, k) \in Nat /\ ahead(u, k) \in Nat /\ whole(u) \in Nat
         /\ passed(u, 1) = 0 /\ ahead(u, 1) = whole(u)
         /\ passed(u, NrCpus + 1) = whole(u) /\ ahead(u, NrCpus + 1) = 0
         /\ k <= NrCpus => /\ passed(u, k + 1) = passed(u, k) + u[k]
                           /\ ahead(u, k) = u[k] + ahead(u, k + 1)
<1>1. \A c \in Cpu : u[c] \in Nat
  BY DEF Counters
<1>2. passed(u, k) \in Nat /\ ahead(u, k) \in Nat /\ whole(u) \in Nat
  BY PartsFinite, PartNat DEF passed, ahead, whole
<1>3. passed(u, 1) = 0 /\ ahead(u, NrCpus + 1) = 0
  <2>1. 1..(1 - 1) = {} /\ (NrCpus + 1)..NrCpus = {}
    BY CpusAssumption
  <2>2. SumFunctionOnSet(u, 1..(1 - 1)) = 0 /\ SumFunctionOnSet(u, (NrCpus + 1)..NrCpus) = 0
    BY <2>1, SumEmpty, Zenon
  <2> QED BY <2>2, Zenon DEF passed, ahead
<1>4. ahead(u, 1) = whole(u) /\ passed(u, NrCpus + 1) = whole(u)
  <2>1. (NrCpus + 1) - 1 = NrCpus
    BY CpusAssumption
  <2>2. ahead(u, 1) = whole(u)
    BY DEF ahead, whole, Cpu
  <2> QED BY <2>1, <2>2, Zenon DEF passed, whole, Cpu
<1>5. ASSUME k <= NrCpus
      PROVE  /\ passed(u, k + 1) = passed(u, k) + u[k]
             /\ ahead(u, k) = u[k] + ahead(u, k + 1)
  <2>1. k \in Cpu /\ k \in Int /\ k + 1 \in 1..(NrCpus + 1)
    BY <1>5, CpusAssumption DEF Cpu
  <2>2. 1..(k + 1 - 1) = (1..(k - 1)) \cup {k} /\ k \notin 1..(k - 1)
    BY <2>1 DEF Cpu
  <2>3. k..NrCpus = ((k + 1)..NrCpus) \cup {k} /\ k \notin (k + 1)..NrCpus
    BY <1>5, <2>1, CpusAssumption
  <2>6. passed(u, k + 1) = passed(u, k) + u[k]
    <3> DEFINE S == 1..(k - 1)
               T == 1..(k + 1 - 1)
    <3>1. S \subseteq Cpu /\ IsFiniteSet(S) /\ k \in Cpu /\ k \notin S /\ T = S \cup {k}
      BY <2>1, <2>2, PartsFinite
    <3> HIDE DEF S, T
    <3>2. SumFunctionOnSet(u, T) = SumFunctionOnSet(u, S) + u[k]
      BY <3>1, PartAdd
    <3> QED BY <3>2 DEF passed, S, T
  <2>7. ahead(u, k) = ahead(u, k + 1) + u[k]
    <3> DEFINE S == (k + 1)..NrCpus
               T == k..NrCpus
    <3>1. S \subseteq Cpu /\ IsFiniteSet(S) /\ k \in Cpu /\ k \notin S /\ T = S \cup {k}
      BY <2>1, <2>3, PartsFinite
    <3> HIDE DEF S, T
    <3>2. SumFunctionOnSet(u, T) = SumFunctionOnSet(u, S) + u[k]
      BY <3>1, PartAdd
    <3> QED BY <3>2 DEF ahead, S, T
  <2>8. ahead(u, k + 1) \in Nat /\ u[k] \in Nat
    BY <1>1, <2>1, PartsFinite, PartNat DEF ahead
  <2> QED BY <2>6, <2>7, <2>8
<1> QED BY <1>2, <1>3, <1>4, <1>5

\* More on every CPU is more of every sum.
LEMMA WalkMore ==
  ASSUME NEW u \in Counters, NEW v \in Counters, \A c \in Cpu : u[c] <= v[c],
         NEW k \in 1..(NrCpus + 1)
  PROVE  passed(u, k) <= passed(v, k) /\ ahead(u, k) <= ahead(v, k) /\ whole(u) <= whole(v)
<1>1. /\ \A c \in 1..(k - 1) : u[c] <= v[c]
      /\ \A c \in k..NrCpus : u[c] <= v[c]
  BY PartsFinite
<1> QED BY <1>1, PartsFinite, PartLess DEF passed, ahead, whole

\* A charge on one CPU.
LEMMA WalkCharged ==
  ASSUME NEW u \in Counters, NEW a \in Cpu, NEW v, v = [u EXCEPT ![a] = @ + 1],
         NEW k \in 1..(NrCpus + 1)
  PROVE  /\ v \in Counters
         /\ passed(u, k) <= passed(v, k) /\ passed(v, k) <= passed(u, k) + 1
         /\ ahead(u, k) <= ahead(v, k)
         /\ whole(v) = whole(u) + 1
<1>1. v \in Counters /\ \A c \in Cpu : u[c] <= v[c] /\ u[c] \in Int /\ v[c] \in Int
  BY DEF Counters
<1>2. v[a] = u[a] + 1 /\ \A c \in Cpu \ {a} : v[c] = u[c]
  BY DEF Counters
<1>3. whole(v) = whole(u) + 1
  <2>1. whole(v) = whole(u) - u[a] + v[a]
    <3> DEFINE S == Cpu
    <3>1. /\ v \in Counters /\ (\A c \in S \ {a} : v[c] = u[c])
          /\ IsFiniteSet(S) /\ S \subseteq Cpu /\ a \in S
      BY <1>1, <1>2, PartsFinite
    <3> HIDE DEF S
    <3>2. SumFunctionOnSet(v, S) = SumFunctionOnSet(u, S) - u[a] + v[a]
      BY ONLY u \in Counters, <3>1, PartChange
    <3> QED BY <3>2 DEF whole, S
  <2>2. whole(u) \in Nat
    BY WalkSums
  <2> QED BY <1>1, <1>2, <2>1, <2>2
<1>4. passed(v, k) <= passed(u, k) + 1
  <2> DEFINE S == 1..(k - 1)
  <2>1. IsFiniteSet(S) /\ S \subseteq Cpu
    BY PartsFinite
  <2>2. passed(u, k) \in Nat
    BY WalkSums
  <2>3. CASE a \in S
    <3>1. /\ \A c \in S : u[c] \in Int
          /\ v[a] \in Int /\ \A c \in S \ {a} : v[c] = u[c]
      BY <1>1, <1>2, <2>1
    <3> HIDE DEF S
    <3>2. SumFunctionOnSet(v, S) = SumFunctionOnSet(u, S) - u[a] + v[a]
      <4>1. v \in Counters /\ \A c \in S \ {a} : v[c] = u[c]
        BY <1>1, <3>1
      <4> QED BY ONLY u \in Counters, <4>1, <2>1, <2>3, PartChange
    <3>3. passed(v, k) = passed(u, k) - u[a] + v[a]
      BY <3>2 DEF passed, S
    <3> QED BY <1>1, <1>2, <2>2, <3>3
  <2>4. CASE a \notin S
    <3>1. \A c \in S : u[c] \in Int /\ u[c] = v[c]
      BY <1>1, <1>2, <2>1, <2>4
    <3> HIDE DEF S
    <3>2. SumFunctionOnSet(v, S) = SumFunctionOnSet(u, S)
      BY <2>1, <3>1, SumSame
    <3>3. passed(v, k) = passed(u, k)
      BY <3>2 DEF passed, S
    <3> QED BY <2>2, <3>3
  <2> QED BY <2>3, <2>4
<1> QED BY <1>1, <1>3, <1>4, WalkMore
\* A reset on one CPU.
LEMMA WalkReset ==
  ASSUME NEW u \in Counters, NEW a \in Cpu, NEW v, v = [u EXCEPT ![a] = 0],
         NEW k \in 1..(NrCpus + 1)
  PROVE  /\ v \in Counters /\ v[a] = 0
         /\ passed(v, k) <= passed(u, k) /\ whole(v) <= whole(u)
<1>1. v \in Counters /\ v[a] = 0 /\ \A c \in Cpu : v[c] <= u[c]
  BY DEF Counters
<1> QED BY <1>1, WalkMore

FileOf == [op : {"none", "read", "reset"}, group : Group, cpu : 1..(NrCpus + 1),
           sum : Nat, from : Nat, reset : BOOLEAN]

AcctTypes ==
  /\ exists \in SUBSET Group /\ usage \in [Group -> Counters]
  /\ file \in [File -> FileOf]
  /\ since_begin \in [Group -> Nat] /\ since_end \in [Group -> Nat]

Resetting(f, g) == file[f].op = "reset" /\ file[f].group = g

\* A read holds no more than what it passed has now, and with what is to come
\* no less than all there was; one that a reset overlaps knows of it.
ReadRight(f) ==
  file[f].op = "read" =>
    /\ ~file[f].reset =>
         /\ file[f].from <= file[f].sum + ahead(usage[file[f].group], file[f].cpu)
         /\ file[f].sum <= passed(usage[file[f].group], file[f].cpu)
    /\ (\E y \in File : Resetting(y, file[f].group)) => file[f].reset

\* The reset begun last has left no more on the CPUs behind it than what was
\* charged since it began.
ResetRight(g) ==
  /\ \/ whole(usage[g]) <= since_begin[g]
     \/ \E f \in File : Resetting(f, g) /\ passed(usage[g], file[f].cpu) <= since_begin[g]
  /\ \/ since_end[g] <= whole(usage[g])
     \/ \E f \in File : Resetting(f, g)

AcctInv == AcctTypes /\ (\A f \in File : ReadRight(f)) /\ (\A g \in Group : ResetRight(g))

LEMMA AcctMeans == AcctInv => ReadBetween /\ ResetForgetsAll
<1> SUFFICES ASSUME AcctInv PROVE ReadBetween /\ ResetForgetsAll
  OBVIOUS
<1>0. \A g \in Group : usage[g] \in Counters /\ total(g) = whole(usage[g])
  BY DEF AcctInv, AcctTypes, total, whole
<1>1. ASSUME NEW f \in File, file[f].op = "read", file[f].cpu > NrCpus, ~file[f].reset
      PROVE  file[f].from <= file[f].sum /\ file[f].sum <= total(file[f].group)
  <2> DEFINE u == usage[file[f].group]
  <2>1. /\ file[f].cpu = NrCpus + 1 /\ NrCpus + 1 \in 1..(NrCpus + 1)
        /\ file[f].group \in Group /\ file[f].sum \in Nat /\ file[f].from \in Nat
    BY <1>1, CpusAssumption DEF AcctInv, AcctTypes, FileOf
  <2>2. u \in Counters /\ total(file[f].group) = whole(u)
    BY <1>0, <2>1
  <2>3. file[f].from <= file[f].sum + ahead(u, NrCpus + 1) /\ file[f].sum <= passed(u, NrCpus + 1)
    BY <1>1, <2>1 DEF AcctInv, ReadRight
  <2> HIDE DEF u
  <2>4. ahead(u, NrCpus + 1) = 0 /\ passed(u, NrCpus + 1) = whole(u)
    BY <2>1, <2>2, WalkSums
  <2> QED BY <2>1, <2>2, <2>3, <2>4
<1>2. ReadBetween
  BY <1>1 DEF ReadBetween
<1>3. ResetForgetsAll
  <2> SUFFICES ASSUME NEW g \in exists, \A f \in File : ~Resetting(f, g)
               PROVE  since_end[g] <= total(g) /\ total(g) <= since_begin[g]
    BY DEF ResetForgetsAll, Resetting
  <2>1. g \in Group /\ ResetRight(g)
    BY DEF AcctInv, AcctTypes
  <2> QED BY <1>0, <2>1 DEF ResetRight
<1> QED BY <1>2, <1>3

LEMMA AcctInitial == AcctInit => AcctInv
<1> SUFFICES ASSUME AcctInit PROVE AcctInv
  OBVIOUS
<1> DEFINE zero == [c \in Cpu |-> 0]
<1>1. zero \in Counters
  BY DEF Counters
<1>2. usage = [g \in Group |-> zero]
  BY DEF AcctInit
<1>3. SumFunctionOnSet(zero, Cpu) = 0
  <2>1. \A c \in Cpu : zero[c] = 0
    OBVIOUS
  <2>2. IsFiniteSet(Cpu)
    BY FS_Interval, CpusAssumption DEF Cpu
  <2> HIDE DEF zero
  <2> QED BY <2>1, <2>2, SumZero
<1> HIDE DEF zero
<1>4. AcctTypes
  <2>1. Closed \in FileOf
    BY GroupsAssumption, CpusAssumption DEF Closed, FileOf
  <2> QED BY <1>1, <1>2, <2>1, GroupsAssumption DEF AcctInit, AcctTypes
<1>5. \A f \in File : file[f].op = "none"
  BY DEF AcctInit, Closed
<1>6. ASSUME NEW g \in Group PROVE ResetRight(g)
  <2>1. whole(usage[g]) = 0 /\ since_begin[g] = 0 /\ since_end[g] = 0
    BY <1>2, <1>3 DEF AcctInit, whole
  <2> QED BY <2>1 DEF ResetRight
<1> QED BY <1>4, <1>5, <1>6 DEF AcctInv, ReadRight
LEMMA ChargeKeeps ==
  ASSUME AcctInv, NEW g \in Group, NEW c \in Cpu, CpuacctCharge(g, c)
  PROVE  AcctInv'
<1>1. /\ UNCHANGED <<exists, file>>
      /\ \A x \in Group : x \in upwards(g) =>
           /\ usage'[x] = [usage[x] EXCEPT ![c] = @ + 1]
           /\ since_begin'[x] = since_begin[x] + 1 /\ since_end'[x] = since_end[x] + 1
      /\ \A x \in Group : x \notin upwards(g) =>
           /\ usage'[x] = usage[x]
           /\ since_begin'[x] = since_begin[x] /\ since_end'[x] = since_end[x]
  BY DEF CpuacctCharge, AcctInv, AcctTypes
<1>2. ASSUME NEW x \in Group
      PROVE  /\ usage'[x] \in Counters /\ since_begin'[x] \in Nat /\ since_end'[x] \in Nat
             /\ \A k \in 1..(NrCpus + 1) :
                  /\ passed(usage[x], k) <= passed(usage'[x], k)
                  /\ ahead(usage[x], k) <= ahead(usage'[x], k)
                  /\ passed(usage'[x], k) - since_begin'[x] <= passed(usage[x], k) - since_begin[x]
             /\ whole(usage'[x]) - since_begin'[x] = whole(usage[x]) - since_begin[x]
             /\ whole(usage'[x]) - since_end'[x] = whole(usage[x]) - since_end[x]
  <2>1. usage[x] \in Counters /\ since_begin[x] \in Nat /\ since_end[x] \in Nat
    BY DEF AcctInv, AcctTypes
  <2>2. \A k \in 1..(NrCpus + 1) : passed(usage[x], k) \in Nat /\ ahead(usage[x], k) \in Nat
    BY <2>1, WalkSums
  <2>3. whole(usage[x]) \in Nat
    <3>1. 1 \in 1..(NrCpus + 1)
      BY CpusAssumption
    <3> QED BY <2>1, <3>1, WalkSums
  <2>4. CASE x \in upwards(g)
    <3> DEFINE u == usage[x]
               v == [u EXCEPT ![c] = @ + 1]
    <3>1. usage'[x] = v /\ since_begin'[x] = since_begin[x] + 1 /\ since_end'[x] = since_end[x] + 1
      BY <1>1, <2>4
    <3>2. u \in Counters /\ v = [u EXCEPT ![c] = @ + 1]
      BY <2>1
    <3> HIDE DEF u, v
    <3>3. \A k \in 1..(NrCpus + 1) :
            /\ v \in Counters
            /\ passed(u, k) <= passed(v, k) /\ passed(v, k) <= passed(u, k) + 1
            /\ ahead(u, k) <= ahead(v, k)
            /\ whole(v) = whole(u) + 1
      BY <3>2, WalkCharged
    <3>4. v \in Counters /\ whole(v) = whole(u) + 1
      <4>1. 1 \in 1..(NrCpus + 1)
        BY CpusAssumption
      <4> QED BY <3>3, <4>1
    <3>5. \A k \in 1..(NrCpus + 1) : passed(v, k) \in Nat
      BY <3>4, WalkSums
    <3> QED BY <2>1, <2>2, <2>3, <3>1, <3>3, <3>4, <3>5 DEF u
  <2>5. CASE x \notin upwards(g)
    <3>1. usage'[x] = usage[x] /\ since_begin'[x] = since_begin[x] /\ since_end'[x] = since_end[x]
      BY <1>1, <2>5
    <3> QED BY <2>1, <2>2, <2>3, <3>1
  <2> QED BY <2>4, <2>5
<1>3. AcctTypes'
  <2>1. DOMAIN usage' = Group /\ DOMAIN since_begin' = Group /\ DOMAIN since_end' = Group
    BY DEF CpuacctCharge
  <2>2. /\ usage' = [x \in Group |-> usage'[x]] /\ since_begin' = [x \in Group |-> since_begin'[x]]
        /\ since_end' = [x \in Group |-> since_end'[x]]
    BY DEF CpuacctCharge
  <2> QED BY <1>1, <1>2, <2>2 DEF AcctInv, AcctTypes
<1>4. ASSUME NEW f \in File PROVE ReadRight(f)'
  <2>1. CASE file[f].op # "read"
    BY <1>1, <2>1 DEF ReadRight
  <2>2. CASE file[f].op = "read"
    <3> DEFINE x == file[f].group
               k == file[f].cpu
    <3>1. x \in Group /\ k \in 1..(NrCpus + 1) /\ file[f].sum \in Nat /\ file[f].from \in Nat
      BY DEF AcctInv, AcctTypes, FileOf
    <3>2. /\ passed(usage[x], k) <= passed(usage'[x], k) /\ ahead(usage[x], k) <= ahead(usage'[x], k)
      BY <1>2, <3>1
    <3>3. /\ passed(usage[x], k) \in Nat /\ ahead(usage[x], k) \in Nat
          /\ passed(usage'[x], k) \in Nat /\ ahead(usage'[x], k) \in Nat
      <4>1. usage[x] \in Counters /\ usage'[x] \in Counters
        BY <3>1, <1>2 DEF AcctInv, AcctTypes
      <4> QED BY <3>1, <4>1, WalkSums
    <3>4. /\ ~file[f].reset => file[f].from <= file[f].sum + ahead(usage[x], k)
                               /\ file[f].sum <= passed(usage[x], k)
          /\ (\E y \in File : Resetting(y, x)) => file[f].reset
      BY <2>2 DEF AcctInv, ReadRight
    <3>5. ~file[f].reset => file[f].from <= file[f].sum + ahead(usage'[x], k)
                            /\ file[f].sum <= passed(usage'[x], k)
      BY <3>1, <3>2, <3>3, <3>4
    <3> HIDE DEF x, k
    <3>6. x' = x /\ k' = k /\ file' = file
      BY <1>1 DEF x, k
    <3> QED BY <2>2, <3>4, <3>5, <3>6 DEF ReadRight, Resetting, x, k
  <2> QED BY <2>1, <2>2
<1>5. ASSUME NEW x \in Group PROVE ResetRight(x)'
  <2>1. ResetRight(x) /\ since_begin[x] \in Nat /\ since_end[x] \in Nat /\ usage[x] \in Counters
    BY DEF AcctInv, AcctTypes
  <2>2. /\ \A k \in 1..(NrCpus + 1) : passed(usage[x], k) \in Nat /\ passed(usage'[x], k) \in Nat
        /\ whole(usage[x]) \in Nat /\ whole(usage'[x]) \in Nat
    <3>1. 1 \in 1..(NrCpus + 1)
      BY CpusAssumption
    <3> QED BY <1>2, <2>1, <3>1, WalkSums
  <2>3. \A f \in File : file[f].cpu \in 1..(NrCpus + 1)
    BY DEF AcctInv, AcctTypes, FileOf
  <2>4. \A f \in File : passed(usage[x], file[f].cpu) <= since_begin[x]
                          => passed(usage'[x], file[f].cpu) <= since_begin'[x]
    BY <1>2, <2>1, <2>2, <2>3
  <2>5. /\ whole(usage[x]) <= since_begin[x] => whole(usage'[x]) <= since_begin'[x]
        /\ since_end[x] <= whole(usage[x]) => since_end'[x] <= whole(usage'[x])
    BY <1>2, <2>1, <2>2
  <2>6. file' = file
    BY <1>1
  <2> QED BY <2>1, <2>4, <2>5, <2>6 DEF ResetRight, Resetting
<1> QED BY <1>3, <1>4, <1>5 DEF AcctInv
\* What the CPU numbers and the sums over them are.
LEMMA AcctSums ==
  ASSUME AcctInv, NEW g \in Group
  PROVE  /\ usage[g] \in Counters /\ whole(usage[g]) \in Nat
         /\ \A k \in 1..(NrCpus + 1) : passed(usage[g], k) \in Nat /\ ahead(usage[g], k) \in Nat
         /\ passed(usage[g], 1) = 0 /\ ahead(usage[g], 1) = whole(usage[g])
         /\ passed(usage[g], NrCpus + 1) = whole(usage[g])
         /\ 1 \in 1..(NrCpus + 1)
<1>1. usage[g] \in Counters
  BY DEF AcctInv, AcctTypes
<1>2. 1 \in 1..(NrCpus + 1) /\ NrCpus + 1 \in 1..(NrCpus + 1)
  BY CpusAssumption
<1> QED BY <1>1, <1>2, WalkSums

LEMMA BeginKeeps ==
  ASSUME AcctInv, NEW f \in File, NEW op \in {"read", "reset"}, NEW g \in Group, Begin(f, op, g)
  PROVE  AcctInv'
<1> DEFINE n == [Closed EXCEPT !.op = op, !.group = g,
                               !.from = IF op = "read" THEN total(g) ELSE 0,
                               !.reset = \E y \in File : file[y].op = "reset" /\ file[y].group = g]
           told(x) == op = "reset" /\ file[x].op = "read" /\ file[x].group = g
<1>1. /\ file[f].op = "none" /\ UNCHANGED <<exists, usage, since_end>>
      /\ file' = [x \in File |-> CASE x = f -> n
                                   [] x # f /\ told(x) -> [file[x] EXCEPT !.reset = TRUE]
                                   [] OTHER -> file[x]]
      /\ since_begin' = IF op = "reset" THEN [since_begin EXCEPT ![g] = 0] ELSE since_begin
  BY DEF Begin
<1>2. /\ n.op = op /\ n.group = g /\ n.cpu = 1 /\ n.sum = 0
      /\ op = "read" => n.from = total(g)
      /\ n.reset = \E y \in File : Resetting(y, g)
  BY DEF Closed, Resetting
<1>3. /\ file'[f] = n
      /\ \A x \in File : x # f => file'[x] = IF told(x) THEN [file[x] EXCEPT !.reset = TRUE] ELSE file[x]
  BY <1>1
<1>4. total(g) = whole(usage[g])
  BY DEF total, whole
<1>5. n \in FileOf
  <2>1. total(g) \in Nat /\ 1 \in 1..(NrCpus + 1)
    BY <1>4, AcctSums
  <2> QED BY <2>1 DEF Closed, FileOf
<1>6. ASSUME NEW x \in File, x # f
      PROVE  /\ file'[x] \in FileOf
             /\ file'[x].op = file[x].op /\ file'[x].group = file[x].group /\ file'[x].cpu = file[x].cpu
             /\ file'[x].sum = file[x].sum /\ file'[x].from = file[x].from
             /\ told(x) => file'[x].reset
             /\ ~told(x) => file'[x].reset = file[x].reset
  <2>1. file[x] \in FileOf
    BY DEF AcctInv, AcctTypes
  <2>2. CASE told(x)
    <3> DEFINE e == file[x]
    <3>1. file'[x] = [e EXCEPT !.reset = TRUE]
      BY <1>3, <1>6, <2>2
    <3> HIDE DEF e
    <3>2. e \in FileOf
      BY <2>1 DEF e
    <3>3. /\ file'[x] \in FileOf /\ file'[x].reset = TRUE
          /\ file'[x].op = e.op /\ file'[x].group = e.group /\ file'[x].cpu = e.cpu
          /\ file'[x].sum = e.sum /\ file'[x].from = e.from
      BY ONLY <3>1, <3>2 DEF FileOf
    <3> QED BY <2>2, <3>3 DEF e
  <2>3. CASE ~told(x)
    BY <1>3, <1>6, <2>1, <2>3
  <2> QED BY <2>2, <2>3
<1> HIDE DEF n
<1>7. AcctTypes'
  <2>1. file' \in [File -> FileOf]
    <3>1. \A x \in File : file'[x] \in FileOf
      BY <1>3, <1>5, <1>6
    <3>2. file' = [x \in File |-> file'[x]]
      BY <1>1
    <3> QED BY <3>1, <3>2
  <2> QED BY <1>1, <2>1 DEF AcctInv, AcctTypes
<1>8. ASSUME NEW x \in File, NEW h \in Group
      PROVE  (file'[x].op = "reset" /\ file'[x].group = h)
               <=> (x # f /\ Resetting(x, h)) \/ (x = f /\ op = "reset" /\ h = g)
  BY <1>2, <1>3, <1>6 DEF Resetting
<1>9. ASSUME NEW x \in File PROVE ReadRight(x)'
  <2>1. CASE x = f
    <3>1. whole(usage[g]) \in Nat /\ passed(usage[g], 1) = 0 /\ ahead(usage[g], 1) = whole(usage[g])
      BY AcctSums
    <3>2. ASSUME op = "read", NEW y \in File, file'[y].op = "reset" /\ file'[y].group = g
          PROVE  n.reset
      BY <1>2, <1>8, <3>2
    <3>3. usage' = usage /\ file'[x] = n
      BY <1>1, <1>3, <2>1
    <3>4. op = "read" => /\ n.from <= n.sum + ahead(usage[n.group], n.cpu)
                         /\ n.sum <= passed(usage[n.group], n.cpu)
      BY <1>2, <1>4, <3>1
    <3>5. ASSUME file'[x].op = "read", NEW y \in File,
                 file'[y].op = "reset" /\ file'[y].group = file'[x].group
          PROVE  file'[x].reset
      BY <1>2, <3>2, <3>3, <3>5
    <3>6. file'[x].op = "read" => /\ file'[x].from <= file'[x].sum + ahead(usage'[file'[x].group], file'[x].cpu)
                                  /\ file'[x].sum <= passed(usage'[file'[x].group], file'[x].cpu)
      BY <1>2, <3>3, <3>4
    <3> QED BY <3>5, <3>6 DEF ReadRight, Resetting
  <2>2. CASE x # f
    <3>1. ReadRight(x) /\ file[x].group \in Group
      BY DEF AcctInv, AcctTypes, FileOf
    <3>2. ASSUME file'[x].op = "read", NEW y \in File,
                 file'[y].op = "reset" /\ file'[y].group = file'[x].group
          PROVE  file'[x].reset
      <4>1. file'[y].op = "reset" /\ file'[y].group = file[x].group
        BY <3>2, <1>6, <2>2
      <4>2. \/ Resetting(y, file[x].group)
            \/ op = "reset" /\ file[x].group = g
        BY <1>8, <3>1, <4>1
      <4> QED BY <1>6, <2>2, <3>1, <3>2, <4>2 DEF ReadRight
    <3>3. ASSUME file'[x].op = "read", ~file'[x].reset
          PROVE  /\ file'[x].from <= file'[x].sum + ahead(usage'[file'[x].group], file'[x].cpu)
                 /\ file'[x].sum <= passed(usage'[file'[x].group], file'[x].cpu)
      <4>1. file[x].op = "read" /\ ~file[x].reset
        BY <1>6, <2>2, <3>3
      <4>2. usage' = usage
        BY <1>1
      <4> QED BY <1>6, <2>2, <3>1, <4>1, <4>2 DEF ReadRight
    <3> QED BY <3>2, <3>3 DEF ReadRight, Resetting
  <2> QED BY <2>1, <2>2
<1>10. ASSUME NEW x \in Group PROVE ResetRight(x)'
  <2>1. /\ ResetRight(x) /\ since_begin[x] \in Nat /\ usage[x] \in Counters
        /\ usage' = usage /\ since_end' = since_end
    BY <1>1 DEF AcctInv, AcctTypes
  <2>2. CASE op = "reset" /\ x = g
    <3>1. file'[f].op = "reset" /\ file'[f].group = x /\ since_begin'[x] = 0 /\ file'[f].cpu = 1
      BY <1>1, <1>2, <1>3, <1>8, <2>2 DEF AcctInv, AcctTypes
    <3>2. passed(usage[x], 1) = 0
      BY AcctSums
    <3>3. passed(usage'[x], file'[f].cpu) <= since_begin'[x]
      BY <2>1, <3>1, <3>2
    <3> QED BY <3>1, <3>3 DEF ResetRight, Resetting
  <2>3. CASE ~(op = "reset" /\ x = g)
    <3>1. since_begin'[x] = since_begin[x]
      BY <1>1, <2>3 DEF AcctInv, AcctTypes
    <3>2. ASSUME NEW y \in File, Resetting(y, x)
          PROVE  file'[y].op = "reset" /\ file'[y].group = x /\ file'[y].cpu = file[y].cpu
      BY <1>1, <1>6, <3>2 DEF Resetting
    <3> QED BY <2>1, <3>1, <3>2 DEF ResetRight, Resetting
  <2> QED BY <2>2, <2>3
<1> QED BY <1>7, <1>9, <1>10 DEF AcctInv
LEMMA ReadCpuKeeps ==
  ASSUME AcctInv, NEW f \in File, ReadCpu(f)
  PROVE  AcctInv'
<1> DEFINE g == file[f].group
           c == file[f].cpu
           n == [file[f] EXCEPT !.sum = added(@, usage[g][c]), !.cpu = c + 1]
<1>1. /\ file[f].op = "read" /\ c <= NrCpus
      /\ file' = [file EXCEPT ![f] = n]
      /\ UNCHANGED <<exists, usage, since_begin, since_end>>
  BY DEF ReadCpu
<1>2. file \in [File -> FileOf] /\ file[f] \in FileOf
  BY DEF AcctInv, AcctTypes
<1>3. /\ g \in Group /\ c \in 1..(NrCpus + 1) /\ c \in Cpu /\ c + 1 \in 1..(NrCpus + 1)
      /\ file[f].sum \in Nat /\ file[f].from \in Nat
  BY <1>1, <1>2, CpusAssumption DEF FileOf, Cpu
<1>4. usage[g] \in Counters /\ usage[g][c] \in Nat
  BY <1>3 DEF AcctInv, AcctTypes, Counters
<1>5. /\ passed(usage[g], c + 1) = passed(usage[g], c) + usage[g][c]
      /\ ahead(usage[g], c) = usage[g][c] + ahead(usage[g], c + 1)
      /\ passed(usage[g], c) \in Nat /\ ahead(usage[g], c) \in Nat
      /\ passed(usage[g], c + 1) \in Nat /\ ahead(usage[g], c + 1) \in Nat
  BY <1>1, <1>3, <1>4, WalkSums
<1>6. /\ n \in FileOf /\ n.op = "read" /\ n.group = g /\ n.cpu = c + 1
      /\ n.sum = file[f].sum + usage[g][c] /\ n.from = file[f].from /\ n.reset = file[f].reset
  <2>1. PICK s, d : /\ s = file[f].sum + usage[g][c] /\ d = c + 1
                    /\ n = [file[f] EXCEPT !.sum = s, !.cpu = d]
    BY DEF added
  <2>2. s \in Nat /\ d \in 1..(NrCpus + 1)
    BY <1>3, <1>4, <2>1
  <2> HIDE DEF n
  <2>3. /\ n.op = file[f].op /\ n.group = g /\ n.cpu = d /\ n.sum = s
        /\ n.from = file[f].from /\ n.reset = file[f].reset
    BY <1>2, <2>1 DEF FileOf
  <2>4. n \in FileOf
    BY <1>2, <2>1, <2>2, ZenonT(60) DEF FileOf
  <2> QED BY <1>1, <2>1, <2>3, <2>4
<1>7. file'[f] = n /\ \A x \in File : x # f => file'[x] = file[x]
  BY <1>1, <1>2
<1> HIDE DEF n
<1>8. AcctTypes'
  BY <1>1, <1>2, <1>6 DEF AcctInv, AcctTypes
<1>9. \A x \in File : /\ (file'[x].op = "reset") <=> (file[x].op = "reset")
                      /\ file'[x].group = file[x].group
                      /\ file[x].op = "reset" => file'[x] = file[x]
  BY <1>1, <1>6, <1>7
<1>10. ASSUME NEW x \in File PROVE ReadRight(x)'
  <2>1. ReadRight(x) /\ usage' = usage
    BY <1>1 DEF AcctInv
  <2>2. CASE x = f
    <3>1. ~n.reset => /\ n.from <= n.sum + ahead(usage[g], c + 1)
                      /\ n.sum <= passed(usage[g], c + 1)
      <4>1. ~file[f].reset => /\ file[f].from <= file[f].sum + ahead(usage[g], c)
                              /\ file[f].sum <= passed(usage[g], c)
        BY <1>1, <2>1, <2>2 DEF ReadRight
      <4> QED BY <1>3, <1>4, <1>5, <1>6, <4>1
    <3>2. (\E y \in File : file'[y].op = "reset" /\ file'[y].group = g) => n.reset
      BY <1>1, <1>6, <1>9, <2>1, <2>2 DEF ReadRight, Resetting
    <3>3. file'[x] = n
      BY <1>7, <2>2
    <3> HIDE DEF g, c
    <3> QED BY <1>6, <2>1, <3>1, <3>2, <3>3 DEF ReadRight, Resetting
  <2>3. CASE x # f
    BY <1>7, <1>9, <2>1, <2>3 DEF ReadRight, Resetting
  <2> QED BY <2>2, <2>3
<1>11. ASSUME NEW x \in Group PROVE ResetRight(x)'
  <2>1. ResetRight(x) /\ UNCHANGED <<usage, since_begin, since_end>>
    BY <1>1 DEF AcctInv
  <2> QED BY <1>9, <2>1 DEF ResetRight, Resetting
<1> QED BY <1>8, <1>10, <1>11 DEF AcctInv

LEMMA ResetCpuKeeps ==
  ASSUME AcctInv, NEW f \in File, ResetCpu(f)
  PROVE  AcctInv'
<1> DEFINE g == file[f].group
           c == file[f].cpu
           n == [file[f] EXCEPT !.cpu = c + 1]
           v == [usage[g] EXCEPT ![c] = 0]
<1>1. /\ file[f].op = "reset" /\ c <= NrCpus
      /\ file' = [file EXCEPT ![f] = n] /\ usage' = [usage EXCEPT ![g] = v]
      /\ UNCHANGED <<exists, since_begin, since_end>>
  BY DEF ResetCpu, reset_upto
<1>2. file \in [File -> FileOf] /\ file[f] \in FileOf
  BY DEF AcctInv, AcctTypes
<1>3. g \in Group /\ c \in 1..(NrCpus + 1) /\ c \in Cpu /\ c + 1 \in 1..(NrCpus + 1)
  BY <1>1, <1>2, CpusAssumption DEF FileOf, Cpu
<1>4. usage \in [Group -> Counters] /\ usage[g] \in Counters
  BY <1>3 DEF AcctInv, AcctTypes
<1>5. n \in FileOf /\ n.op = "reset" /\ n.group = g /\ n.cpu = c + 1
  BY <1>1, <1>2, <1>3 DEF FileOf
<1>6. file'[f] = n /\ \A x \in File : x # f => file'[x] = file[x]
  BY <1>1, <1>2
<1>7. usage'[g] = v /\ \A x \in Group : x # g => usage'[x] = usage[x]
  BY <1>1, <1>3, <1>4
<1>8. /\ v \in Counters /\ v[c] = 0
      /\ \A k \in 1..(NrCpus + 1) : passed(v, k) <= passed(usage[g], k)
      /\ whole(v) <= whole(usage[g])
  <2>1. v = [usage[g] EXCEPT ![c] = 0]
    OBVIOUS
  <2> HIDE DEF v
  <2>2. v \in Counters /\ v[c] = 0 /\ whole(v) <= whole(usage[g])
    BY <1>3, <1>4, <2>1, WalkReset
  <2>3. \A k \in 1..(NrCpus + 1) : passed(v, k) <= passed(usage[g], k)
    BY <1>3, <1>4, <2>1, WalkReset
  <2> QED BY <2>2, <2>3
<1> HIDE DEF n, v
<1>9. /\ passed(v, c + 1) = passed(v, c)
      /\ \A k \in 1..(NrCpus + 1) : passed(v, k) \in Nat /\ passed(usage[g], k) \in Nat
      /\ whole(v) \in Nat /\ whole(usage[g]) \in Nat
  <2>1. /\ passed(v, c + 1) = passed(v, c) + v[c] /\ passed(v, c) \in Nat
        /\ whole(v) \in Nat /\ whole(usage[g]) \in Nat
    BY <1>1, <1>3, <1>4, <1>8, WalkSums
  <2>2. \A k \in 1..(NrCpus + 1) : passed(v, k) \in Nat /\ passed(usage[g], k) \in Nat
    BY <1>4, <1>8, WalkSums
  <2> QED BY <1>8, <2>1, <2>2
<1>10. AcctTypes'
  BY <1>1, <1>2, <1>3, <1>4, <1>5, <1>8 DEF AcctInv, AcctTypes
<1>11. \A x \in File : file'[x].op = file[x].op /\ file'[x].group = file[x].group
  BY <1>1, <1>5, <1>6
<1>12. ASSUME NEW x \in File PROVE ReadRight(x)'
  <2>1. ReadRight(x) /\ file[x].group \in Group
    BY <1>2 DEF AcctInv, FileOf
  <2>2. CASE file[x].op # "read"
    BY <1>11, <2>2 DEF ReadRight
  <2>3. CASE file[x].op = "read" /\ file[x].group = g
    <3>1. file[x].reset /\ file'[x] = file[x]
      BY <1>1, <1>6, <2>1, <2>3 DEF ReadRight, Resetting
    <3> QED BY <3>1 DEF ReadRight
  <2>4. CASE file[x].op = "read" /\ file[x].group # g
    <3>1. file'[x] = file[x] /\ usage'[file[x].group] = usage[file[x].group]
      BY <1>1, <1>6, <1>7, <2>1, <2>4
    <3> QED BY <1>11, <2>1, <3>1 DEF ReadRight, Resetting
  <2> QED BY <2>2, <2>3, <2>4
<1>13. ASSUME NEW x \in Group PROVE ResetRight(x)'
  <2>1. /\ ResetRight(x) /\ since_begin'[x] = since_begin[x] /\ since_end'[x] = since_end[x]
        /\ since_begin[x] \in Nat
    BY <1>1 DEF AcctInv, AcctTypes
  <2>2. CASE x = g
    <3>1. usage'[x] = v /\ file'[f].op = "reset" /\ file'[f].group = x
      BY <1>1, <1>7, <1>11, <2>2
    <3>2. whole(usage[g]) <= since_begin[x] => whole(v) <= since_begin[x]
      BY <1>8, <1>9, <2>1
    <3>3. ASSUME NEW y \in File, Resetting(y, x), passed(usage[g], file[y].cpu) <= since_begin[x]
          PROVE  passed(v, file'[y].cpu) <= since_begin[x]
      <4>1. CASE y = f
        <5>1. passed(v, c + 1) <= passed(usage[g], c)
          BY <1>3, <1>8, <1>9
        <5>2. file'[y].cpu = c + 1 /\ passed(usage[g], c) <= since_begin[x]
          BY <1>5, <1>6, <3>3, <4>1
        <5> QED BY <1>3, <1>9, <2>1, <5>1, <5>2
      <4>2. CASE y # f
        <5>1. file'[y].cpu = file[y].cpu /\ file[y].cpu \in 1..(NrCpus + 1)
          BY <1>2, <1>6, <4>2 DEF FileOf
        <5> QED BY <1>8, <1>9, <2>1, <3>3, <5>1
      <4> QED BY <4>1, <4>2
    <3>4. \/ whole(usage'[x]) <= since_begin'[x]
          \/ \E y \in File : /\ file'[y].op = "reset" /\ file'[y].group = x
                             /\ passed(usage'[x], file'[y].cpu) <= since_begin'[x]
      BY <1>11, <2>1, <2>2, <3>1, <3>2, <3>3 DEF ResetRight, Resetting
    <3> QED BY <3>1, <3>4 DEF ResetRight, Resetting
  <2>3. CASE x # g
    <3>1. usage'[x] = usage[x] /\ \A y \in File : file[y].group = x => file'[y] = file[y]
      BY <1>6, <1>7, <2>3
    <3> QED BY <1>11, <2>1, <3>1 DEF ResetRight, Resetting
  <2> QED BY <2>2, <2>3
<1> QED BY <1>10, <1>12, <1>13 DEF AcctInv
LEMMA EndKeeps ==
  ASSUME AcctInv, NEW f \in File, End(f)
  PROVE  AcctInv'
<1> DEFINE g == file[f].group
<1>1. /\ file[f].op # "none" /\ file' = [file EXCEPT ![f] = Closed]
      /\ file[f].op = "reset" => file[f].cpu > NrCpus
      /\ since_end' = IF file[f].op = "reset" THEN [since_end EXCEPT ![g] = 0] ELSE since_end
      /\ UNCHANGED <<exists, usage, since_begin>>
  BY DEF End, reset_upto
<1>2. file \in [File -> FileOf] /\ file[f] \in FileOf /\ g \in Group /\ Closed \in FileOf
  BY GroupsAssumption, CpusAssumption DEF AcctInv, AcctTypes, FileOf, Closed
<1>3. file'[f] = Closed /\ \A x \in File : x # f => file'[x] = file[x]
  BY <1>1, <1>2
<1>4. Closed.op = "none"
  BY DEF Closed
<1>5. AcctTypes'
  BY <1>1, <1>2 DEF AcctInv, AcctTypes
<1>6. ASSUME NEW x \in File PROVE ReadRight(x)'
  <2>1. ReadRight(x) /\ usage' = usage
    BY <1>1 DEF AcctInv
  <2>2. CASE x = f
    BY <1>3, <1>4, <2>2 DEF ReadRight
  <2>3. CASE x # f
    <3>1. file'[x] = file[x]
          /\ \A y \in File : file'[y].op = "reset" => file'[y] = file[y]
      BY <1>3, <1>4, <2>3
    <3> QED BY <2>1, <3>1 DEF ReadRight, Resetting
  <2> QED BY <2>2, <2>3
<1>7. ASSUME NEW x \in Group PROVE ResetRight(x)'
  <2>1. /\ ResetRight(x) /\ usage' = usage /\ since_begin' = since_begin
        /\ since_begin[x] \in Nat /\ whole(usage[x]) \in Nat
    BY <1>1, AcctSums DEF AcctInv, AcctTypes
  <2>2. CASE Resetting(f, x)
    <3>1. file[f].cpu = NrCpus + 1 /\ g = x
      BY <1>1, <1>2, <2>2, CpusAssumption DEF FileOf, Resetting
    <3>2. passed(usage[x], file[f].cpu) = whole(usage[x])
      BY <3>1, AcctSums
    <3>3. since_end'[x] = 0
      BY <1>1, <2>2, <3>1 DEF AcctInv, AcctTypes, Resetting
    <3>4. ASSUME NEW y \in File, y # f, Resetting(y, x)
          PROVE  file'[y].op = "reset" /\ file'[y].group = x /\ file'[y].cpu = file[y].cpu
      BY <1>3, <3>4 DEF Resetting
    <3>5. \/ whole(usage[x]) <= since_begin[x]
          \/ \E y \in File : /\ file'[y].op = "reset" /\ file'[y].group = x
                             /\ passed(usage[x], file'[y].cpu) <= since_begin[x]
      BY <2>1, <3>2, <3>4 DEF ResetRight
    <3> QED BY <2>1, <3>3, <3>5 DEF ResetRight, Resetting
  <2>3. CASE ~Resetting(f, x)
    <3>1. since_end'[x] = since_end[x]
      BY <1>1, <1>2, <2>3 DEF AcctInv, AcctTypes, Resetting
    <3>2. ASSUME NEW y \in File, Resetting(y, x)
          PROVE  file'[y] = file[y]
      BY <1>3, <2>3, <3>2
    <3> QED BY <2>1, <3>1, <3>2 DEF ResetRight, Resetting
  <2> QED BY <2>2, <2>3
<1> QED BY <1>5, <1>6, <1>7 DEF AcctInv

LEMMA DestroyKeeps ==
  ASSUME AcctInv, NEW g \in Group, CpuacctDestroy(g)
  PROVE  AcctInv'
<1> DEFINE v == [c \in Cpu |-> 0]
<1>1. /\ exists' = exists \ {g} /\ usage' = [usage EXCEPT ![g] = v]
      /\ since_begin' = [since_begin EXCEPT ![g] = 0] /\ since_end' = [since_end EXCEPT ![g] = 0]
      /\ file' = file
      /\ \A f \in File : file[f].op = "none" \/ file[f].group # g
  BY DEF CpuacctDestroy
<1>2. /\ usage \in [Group -> Counters] /\ file \in [File -> FileOf] /\ exists \in SUBSET Group
      /\ since_begin \in [Group -> Nat] /\ since_end \in [Group -> Nat]
  BY DEF AcctInv, AcctTypes
<1>3. v \in Counters
  BY DEF Counters
<1>4. SumFunctionOnSet(v, Cpu) = 0
  <2>1. (\A c \in Cpu : v[c] = 0) /\ IsFiniteSet(Cpu)
    BY FS_Interval, CpusAssumption DEF Cpu
  <2> HIDE DEF v
  <2> QED BY <2>1, SumZero
<1> HIDE DEF v
<1>5. AcctTypes'
  BY <1>1, <1>2, <1>3 DEF AcctTypes
<1>6. \A x \in Group : x # g => usage'[x] = usage[x]
  BY <1>1, <1>2
<1>7. ASSUME NEW f \in File PROVE ReadRight(f)'
  <2>1. ReadRight(f) /\ file[f].group \in Group
    BY <1>2 DEF AcctInv, FileOf
  <2>2. CASE file[f].op # "read"
    BY <1>1, <2>2 DEF ReadRight
  <2>3. CASE file[f].op = "read"
    <3>1. usage'[file[f].group] = usage[file[f].group]
      BY <1>1, <1>6, <2>1, <2>3
    <3> QED BY <1>1, <2>1, <3>1 DEF ReadRight, Resetting
  <2> QED BY <2>2, <2>3
<1>8. ASSUME NEW x \in Group PROVE ResetRight(x)'
  <2>1. CASE x = g
    <3>1. usage'[x] = v /\ since_begin'[x] = 0 /\ since_end'[x] = 0
      BY <1>1, <1>2, <2>1
    <3>2. whole(usage'[x]) = 0
      BY <1>4, <3>1 DEF whole
    <3> QED BY <3>1, <3>2 DEF ResetRight
  <2>2. CASE x # g
    <3>1. /\ usage'[x] = usage[x] /\ since_begin'[x] = since_begin[x] /\ since_end'[x] = since_end[x]
          /\ ResetRight(x)
      BY <1>1, <1>2, <1>6, <2>2 DEF AcctInv
    <3> QED BY <1>1, <3>1 DEF ResetRight, Resetting
  <2> QED BY <2>1, <2>2
<1> QED BY <1>5, <1>7, <1>8 DEF AcctInv

LEMMA AcctStep ==
  ASSUME AcctInv, [AcctNext]_acct_vars
  PROVE  AcctInv'
<1>1. CASE UNCHANGED <<usage, file, since_begin, since_end>> /\ exists' \in SUBSET Group
  <2>1. AcctTypes'
    BY <1>1 DEF AcctInv, AcctTypes
  <2>2. \A f \in File : ReadRight(f)'
    BY <1>1 DEF AcctInv, ReadRight, Resetting
  <2>3. \A g \in Group : ResetRight(g)'
    BY <1>1 DEF AcctInv, ResetRight, Resetting
  <2> QED BY <2>1, <2>2, <2>3 DEF AcctInv
<1>2. ASSUME UNCHANGED acct_vars PROVE AcctInv'
  BY <1>1, <1>2 DEF acct_vars, AcctInv, AcctTypes
<1>3. ASSUME NEW g \in Group, CpuacctCreate(g) PROVE AcctInv'
  BY <1>1, <1>3 DEF CpuacctCreate, AcctInv, AcctTypes
<1>4. ASSUME NEW g \in Group, NEW c \in Cpu, CpuacctCharge(g, c) PROVE AcctInv'
  BY <1>4, ChargeKeeps
<1>5. ASSUME NEW f \in File, NEW op \in {"read", "reset"}, NEW g \in Group, Begin(f, op, g)
      PROVE  AcctInv'
  BY <1>5, BeginKeeps
<1>6. ASSUME NEW f \in File, ReadCpu(f) \/ ResetCpu(f) \/ End(f) PROVE AcctInv'
  BY <1>6, ReadCpuKeeps, ResetCpuKeeps, EndKeeps
<1>7. ASSUME NEW g \in Group, CpuacctDestroy(g) PROVE AcctInv'
  BY <1>7, DestroyKeeps
<1> QED BY <1>2, <1>3, <1>4, <1>5, <1>6, <1>7 DEF AcctNext

-----------------------------------------------------------------------------
\* Whatever ticks come in whatever contexts, tasks change their group and nice
\* level, reads overlap charges and resets one another: no tick is lost or
\* counted twice, a group has what is in it, and a usage is what was charged.
THEOREM TimesCorrect ==
  ASSUME Siglock
  PROVE  TimeSpec /\ TimesSpec /\ AcctSpec => []TimesAccounted
<1>1. TimeSpec => []TimeInv
  BY TimeInitial, TimeStep, PTL DEF TimeSpec
<1>2. TimesSpec => []TimesInv
  BY TimesInitial, TimesStep, PTL DEF TimesSpec
<1>3. AcctSpec => []AcctInv
  BY AcctInitial, AcctStep, PTL DEF AcctSpec
<1>4. TimeInv /\ TimesInv /\ AcctInv => TimesAccounted
  BY AcctMeans DEF TimeInv, TimesInv, TimesAccounted
<1> QED BY <1>1, <1>2, <1>3, <1>4, PTL

-----------------------------------------------------------------------------
(* RtLimits *)

RtBand == [runtime : Nat \cup {RUNTIME_INF}, period : Nat]
RtNumbers == [runtime : Int, period : Nat]

RtTypes ==
  /\ rt_exists \in SUBSET Group /\ Root \in rt_exists
  /\ limit \in [Group -> RtBand]
  /\ sysctl \in RtNumbers /\ def_rt \in RtBand /\ old \in RtNumbers
  /\ rt_writer \in [RtWriter -> [tg : Group, to : RtBand, busy : BOOLEAN]]

\* A group is created under one that exists, and outlives its children.
RtParentsExist == \A g \in rt_exists \ {Root} : Parent[g] \in rt_exists

\* What the sysctls b mean.
meaning(b) == [runtime |-> IF b.runtime < 0 THEN RUNTIME_INF ELSE b.runtime, period |-> b.period]

\* What was last accepted is in the sysctls, or saved while they are checked;
\* its period is positive, so that what is saved is never taken for Nothing.
RtAccepted ==
  LET accepted == IF old = Nothing THEN sysctl ELSE old
  IN def_rt = meaning(accepted) /\ accepted.period > 0

RtInv == RtTypes /\ RtParentsExist /\ RtAccepted /\ TreeSchedulable

\* A ratio is a natural number.
LEMMA RatioType ==
  ASSUME NEW period \in Nat, NEW runtime \in Nat \cup {RUNTIME_INF}
  PROVE  /\ to_ratio(period, runtime) \in Nat
         /\ runtime = 0 => to_ratio(period, runtime) = 0
<1>1. CASE runtime = RUNTIME_INF
  BY <1>1 DEF to_ratio, UNIT, RUNTIME_INF
<1>2. CASE runtime # RUNTIME_INF /\ period = 0
  BY <1>2 DEF to_ratio, RUNTIME_INF
<1>3. CASE runtime # RUNTIME_INF /\ period # 0
  <2>1. runtime * UNIT \in Nat /\ (runtime = 0 => runtime * UNIT = 0)
    BY <1>3 DEF UNIT, RUNTIME_INF
  <2>2. ASSUME NEW n \in Nat, NEW d \in Nat \ {0} PROVE n \div d \in Nat /\ (n = 0 => n \div d = 0)
    BY <2>2
  <2>3. to_ratio(period, runtime) = (runtime * UNIT) \div period
    BY <1>3 DEF to_ratio
  <2> HIDE DEF UNIT
  <2> QED BY <1>3, <2>1, <2>2, <2>3
<1> QED BY <1>1, <1>2, <1>3

LEMMA RatiosAreNat ==
  ASSUME NEW l \in [Group -> RtBand], NEW g \in Group
  PROVE  ratio(l[g]) \in Nat /\ (l[g].runtime = 0 => ratio(l[g]) = 0)
<1>1. l[g].runtime \in Nat \cup {RUNTIME_INF} /\ l[g].period \in Nat
  BY DEF RtBand
<1> QED BY <1>1, RatioType DEF ratio

\* What a set of groups has together only depends on their limits.
RatioSum(l, S) == SumFunctionOnSet([c \in Group |-> ratio(l[c])], S)

LEMMA RatioSums ==
  ASSUME NEW l \in [Group -> RtBand], NEW S \in SUBSET Group
  PROVE  /\ IsFiniteSet(S) /\ RatioSum(l, S) \in Nat
         /\ \A k \in [Group -> RtBand] : (\A c \in S : k[c] = l[c]) => RatioSum(k, S) = RatioSum(l, S)
         /\ S = {} => RatioSum(l, S) = 0
         /\ \A g \in S : RatioSum(l, S) = ratio(l[g]) + RatioSum(l, S \ {g})
<1> DEFINE f == [c \in Group |-> ratio(l[c])]
<1>1. IsFiniteSet(S)
  BY FS_Subset, GroupsAssumption
<1>2. \A c \in S : f[c] \in Nat /\ f[c] \in Int
  BY RatiosAreNat
<1>3. SumFunctionOnSet(f, S) \in Nat
  <2> HIDE DEF f
  <2> QED BY <1>1, <1>2, SumNat
<1>4. ASSUME NEW k \in [Group -> RtBand], \A c \in S : k[c] = l[c]
      PROVE  RatioSum(k, S) = RatioSum(l, S)
  <2> DEFINE e == [c \in Group |-> ratio(k[c])]
  <2>1. \A c \in S : f[c] = e[c]
    BY <1>4
  <2>2. SumFunctionOnSet(f, S) = SumFunctionOnSet(e, S)
    <3> HIDE DEF f, e
    <3> QED BY <1>1, <1>2, <2>1, SumSame
  <2> QED BY <2>2 DEF RatioSum
<1>5. ASSUME NEW g \in S PROVE SumFunctionOnSet(f, S) = f[g] + SumFunctionOnSet(f, S \ {g})
  <2> HIDE DEF f
  <2> QED BY <1>1, <1>2, <1>5, SumRemove
<1>6. SumFunctionOnSet(f, {}) = 0
  BY SumEmpty
<1> QED BY <1>1, <1>3, <1>4, <1>5, <1>6 DEF RatioSum

LEMMA ChildrenRatioIs ==
  ASSUME NEW l, NEW g
  PROVE  children_ratio(l, g) = RatioSum(l, children(g))
BY DEF children_ratio, RatioSum

LEMMA RtInitial == LimitsInit => RtInv
<1> SUFFICES ASSUME LimitsInit PROVE RtInv
  OBVIOUS
<1>1. RtTypes
  BY RtLimitsAssumption, GroupsAssumption
     DEF LimitsInit, RtTypes, RtBand, RtNumbers, Nothing, NoRtWrite
<1>2. RtParentsExist
  BY DEF LimitsInit, RtParentsExist
<1>3. RtAccepted
  BY RtLimitsAssumption DEF LimitsInit, RtAccepted, meaning
<1>4. TreeSchedulable
  <2>1. children(Root) = {}
    BY DEF LimitsInit, children
  <2>2. RatioSum(limit, children(Root)) = 0 /\ ratio(limit[Root]) \in Nat
    BY <1>1, <2>1, RatioSums, RatiosAreNat DEF RtTypes
  <2>3. limit[Root].runtime <= limit[Root].period
    BY RtLimitsAssumption, GroupsAssumption DEF LimitsInit
  <2>4. rt_exists = {Root}
    BY DEF LimitsInit
  <2> QED BY <2>2, <2>3, <2>4, ChildrenRatioIs DEF TreeSchedulable
<1> QED BY <1>1, <1>2, <1>3, <1>4 DEF RtInv
\* A write that only reads, and the sysctls, leave the limits as they are.
LEMMA TreeUnchanged ==
  TreeSchedulable /\ rt_exists' = rt_exists /\ limit' = limit => TreeSchedulable'
BY DEF TreeSchedulable, children_ratio, children

LEMMA StepRtRead ==
  ASSUME RtInv, NEW w \in RtWriter, NEW g \in Group,
         NEW b, b \in RtBand, rt_write_read(w, g, b)
  PROVE  RtInv'
<1> USE DEF rt_write_read
<1>1. RtTypes'
  BY DEF RtInv, RtTypes
<1>2. RtParentsExist' /\ RtAccepted' /\ TreeSchedulable'
  BY TreeUnchanged DEF RtInv, RtParentsExist, RtAccepted
<1> QED BY <1>1, <1>2 DEF RtInv

LEMMA StepSetRtRuntime ==
  ASSUME RtInv, NEW w \in RtWriter, NEW g \in Group, NEW r \in RtRuntimes, SetRtRuntime(w, g, r)
  PROVE  RtInv'
<1> DEFINE b == [limit[g] EXCEPT !.runtime = IF r < 0 THEN RUNTIME_INF ELSE r]
<1>1. r \in Int
  BY RtLimitsAssumption
<1>2. b \in RtBand
  BY <1>1 DEF RtInv, RtTypes, RtBand
<1>3. rt_write_read(w, g, b)
  BY DEF SetRtRuntime
<1> HIDE DEF b
<1> QED BY <1>2, <1>3, StepRtRead

LEMMA StepSetRtPeriod ==
  ASSUME RtInv, NEW w \in RtWriter, NEW g \in Group, NEW p \in RtPeriods, SetRtPeriod(w, g, p)
  PROVE  RtInv'
<1> DEFINE b == [limit[g] EXCEPT !.period = p]
<1>1. b \in RtBand
  BY RtLimitsAssumption DEF RtInv, RtTypes, RtBand
<1>2. rt_write_read(w, g, b)
  BY DEF SetRtPeriod
<1> HIDE DEF b
<1> QED BY <1>1, <1>2, StepRtRead

LEMMA StepTgSetRtBandwidth ==
  ASSUME RtInv, NEW w \in RtWriter, TgSetRtBandwidth(w)
  PROVE  RtInv'
<1> DEFINE l == [limit EXCEPT ![rt_writer[w].tg] = rt_writer[w].to]
<1>1. l \in [Group -> RtBand]
  BY DEF RtInv, RtTypes
<1>2. /\ limit' = IF rt_schedulable(l) THEN l ELSE limit
      /\ rt_writer' = [rt_writer EXCEPT ![w] = NoRtWrite]
      /\ rt_exists' = rt_exists /\ sysctl' = sysctl /\ def_rt' = def_rt /\ old' = old
  BY DEF TgSetRtBandwidth
<1> HIDE DEF l
<1>3. NoRtWrite \in [tg : Group, to : RtBand, busy : BOOLEAN]
  BY GroupsAssumption DEF NoRtWrite, Nothing, RtBand
<1>4. RtTypes'
  BY <1>1, <1>2, <1>3 DEF RtInv, RtTypes
<1>5. RtParentsExist' /\ RtAccepted'
  BY <1>2 DEF RtInv, RtParentsExist, RtAccepted
<1>6. TreeSchedulable'
  <2>1. CASE rt_schedulable(l)
    <3>1. \A g \in rt_exists : l[g].runtime <= l[g].period /\ children_ratio(l, g) <= ratio(l[g])
      BY <2>1 DEF rt_schedulable, tg_rt_schedulable
    <3>2. limit' = l /\ rt_exists' = rt_exists
      BY <1>2, <2>1
    <3>3. \A g : children(g)' = children(g)
      BY <3>2 DEF children
    <3>4. \A g : children_ratio(limit, g)' = children_ratio(l, g)
      BY <3>2, <3>3 DEF children_ratio
    <3> QED BY <3>1, <3>2, <3>4 DEF TreeSchedulable
  <2>2. CASE ~rt_schedulable(l)
    BY <1>2, <2>2, TreeUnchanged DEF RtInv
  <2> QED BY <2>1, <2>2
<1> QED BY <1>4, <1>5, <1>6 DEF RtInv

LEMMA StepSysctlWrite ==
  ASSUME RtInv, NEW r \in RtRuntimes, NEW p \in RtPeriods,
         SysctlWrite([runtime |-> r, period |-> p])
  PROVE  RtInv'
<1> USE DEF SysctlWrite
<1>1. [runtime |-> r, period |-> p] \in RtNumbers
  BY RtLimitsAssumption DEF RtNumbers
<1>2. RtTypes'
  BY <1>1 DEF RtInv, RtTypes
<1>3. RtAccepted'
  <2>1. old' = sysctl /\ def_rt' = def_rt /\ sysctl.period > 0 /\ def_rt = meaning(sysctl)
    BY DEF RtInv, RtAccepted
  <2>2. sysctl # Nothing
    BY <2>1 DEF Nothing
  <2> QED BY <2>1, <2>2 DEF RtAccepted
<1>4. RtParentsExist' /\ TreeSchedulable'
  BY TreeUnchanged DEF RtInv, RtParentsExist
<1> QED BY <1>2, <1>3, <1>4 DEF RtInv

LEMMA StepSysctlCheck ==
  ASSUME RtInv, SysctlCheck
  PROVE  RtInv'
<1> USE DEF SysctlCheck
<1>1. global \in RtBand /\ global = meaning(sysctl)
  BY DEF RtInv, RtTypes, RtNumbers, RtBand, global, meaning
<1>2. RtTypes'
  BY <1>1 DEF RtInv, RtTypes, Nothing, RtNumbers
<1>3. RtAccepted'
  <2>1. CASE sched_rt_global_constraints
    BY <1>1, <2>1 DEF RtAccepted, sched_rt_global_constraints
  <2>2. CASE ~sched_rt_global_constraints
    BY <2>2 DEF RtInv, RtAccepted
  <2> QED BY <2>1, <2>2
<1>4. RtParentsExist' /\ TreeSchedulable'
  BY TreeUnchanged DEF RtInv, RtParentsExist
<1> QED BY <1>2, <1>3, <1>4 DEF RtInv

\* A new group takes nothing from its parent and has no children.
LEMMA StepCreateRtGroup ==
  ASSUME RtInv, NEW g \in Group \ {Root}, CreateRtGroup(g)
  PROVE  RtInv'
<1> DEFINE new == [runtime |-> 0, period |-> def_rt.period]
<1>1. /\ g \notin rt_exists /\ Parent[g] \in rt_exists /\ rt_exists' = rt_exists \cup {g}
      /\ limit' = [limit EXCEPT ![g] = new]
      /\ sysctl' = sysctl /\ def_rt' = def_rt /\ old' = old /\ rt_writer' = rt_writer
  BY DEF CreateRtGroup
<1>2. new \in RtBand /\ new.runtime = 0 /\ new.period \in Nat
  BY DEF RtInv, RtTypes, RtBand
<1> HIDE DEF new
<1>3. RtTypes'
  BY <1>1, <1>2 DEF RtInv, RtTypes
<1>4. RtParentsExist' /\ RtAccepted'
  BY <1>1 DEF RtInv, RtParentsExist, RtAccepted
<1>5. TreeSchedulable'
  <2>1. limit \in [Group -> RtBand] /\ limit' \in [Group -> RtBand] /\ rt_exists \in SUBSET Group
    BY <1>3 DEF RtInv, RtTypes
  <2>2. limit'[g] = new /\ \A h \in rt_exists : limit'[h] = limit[h]
    BY <1>1, <2>1
  <2>3. \A h : children(h)' = children(h) \cup (IF Parent[g] = h THEN {g} ELSE {})
    BY <1>1 DEF children
  <2>4. \A h : children(h) \in SUBSET rt_exists /\ children(h) \in SUBSET Group
    BY <2>1 DEF children
  <2>5. ASSUME NEW h \in rt_exists PROVE RatioSum(limit', children(h)') = RatioSum(limit, children(h))
    <3>1. RatioSum(limit', children(h)) = RatioSum(limit, children(h))
      BY <2>1, <2>2, <2>4, RatioSums
    <3>2. CASE Parent[g] = h
      <4>1. children(h)' = children(h) \cup {g} /\ g \notin children(h)
        BY <1>1, <2>3, <2>4, <3>2
      <4>2. g \in children(h)' /\ children(h)' \in SUBSET Group /\ children(h)' \ {g} = children(h)
        BY <2>4, <4>1
      <4>3. RatioSum(limit', children(h)') = ratio(limit'[g]) + RatioSum(limit', children(h)' \ {g})
        BY <2>1, <4>2, RatioSums
      <4>4. ratio(limit'[g]) = 0
        BY <1>2, <2>1, <2>2, RatiosAreNat
      <4>5. RatioSum(limit', children(h)) \in Nat
        BY <2>1, <2>4, RatioSums
      <4> QED BY <3>1, <4>2, <4>3, <4>4, <4>5
    <3>3. CASE Parent[g] # h
      BY <2>3, <3>1, <3>3
    <3> QED BY <3>2, <3>3
  <2>6. ASSUME NEW h \in rt_exists
        PROVE  limit'[h].runtime <= limit'[h].period /\ children_ratio(limit, h)' <= ratio(limit'[h])
    <3>1. limit[h].runtime <= limit[h].period /\ children_ratio(limit, h) <= ratio(limit[h])
      BY DEF RtInv, TreeSchedulable
    <3>2. children_ratio(limit, h) = RatioSum(limit, children(h))
          /\ children_ratio(limit, h)' = RatioSum(limit', children(h)')
      BY DEF children_ratio, RatioSum
    <3> QED BY <2>2, <2>5, <3>1, <3>2
  <2>7. limit'[g].runtime <= limit'[g].period /\ children_ratio(limit, g)' <= ratio(limit'[g])
    <3>1. Parent[g] # g
      BY <1>1
    <3>2. children(g) = {}
      BY <1>1 DEF children, RtInv, RtParentsExist
    <3>3. children(g)' = {}
      BY <2>3, <3>1, <3>2
    <3>4. children_ratio(limit, g)' = RatioSum(limit', {})
      BY <3>3 DEF children_ratio, RatioSum
    <3>5. RatioSum(limit', {}) = 0 /\ ratio(limit'[g]) \in Nat
      BY <2>1, RatioSums, RatiosAreNat
    <3> QED BY <1>2, <2>2, <3>4, <3>5
  <2>8. \A h \in rt_exists' : limit'[h].runtime <= limit'[h].period
                              /\ children_ratio(limit, h)' <= ratio(limit'[h])
    BY <1>1, <2>6, <2>7
  <2>9. \A b : ratio(b)' = ratio(b)
    BY DEF ratio
  <2> QED BY <2>8 DEF TreeSchedulable, ratio
<1> QED BY <1>3, <1>4, <1>5 DEF RtInv

\* What a group had is no longer taken from its parent.
LEMMA StepDestroyRtGroup ==
  ASSUME RtInv, NEW g \in Group \ {Root}, DestroyRtGroup(g)
  PROVE  RtInv'
<1>1. /\ g \in rt_exists \ {Root} /\ children(g) = {} /\ rt_exists' = rt_exists \ {g}
      /\ limit' = [limit EXCEPT ![g] = Nothing]
      /\ sysctl' = sysctl /\ def_rt' = def_rt /\ old' = old /\ rt_writer' = rt_writer
  BY DEF DestroyRtGroup
<1>2. RtTypes'
  BY <1>1 DEF RtInv, RtTypes, Nothing, RtBand
<1>3. RtAccepted'
  BY <1>1 DEF RtInv, RtAccepted
<1>4. RtParentsExist'
  BY <1>1 DEF RtInv, RtParentsExist, children
<1>5. TreeSchedulable'
  <2> SUFFICES ASSUME NEW h \in rt_exists \ {g}
               PROVE  /\ limit'[h].runtime <= limit'[h].period
                      /\ children_ratio(limit, h)' <= ratio(limit'[h])
    BY <1>1 DEF TreeSchedulable, ratio
  <2>1. limit \in [Group -> RtBand] /\ limit' \in [Group -> RtBand] /\ rt_exists \in SUBSET Group
    BY <1>2 DEF RtInv, RtTypes
  <2>2. \A x \in rt_exists \ {g} : limit'[x] = limit[x]
    BY <1>1, <2>1
  <2> DEFINE kids == children(h) \ {g}
  <2>3. children(h)' = kids /\ kids \in SUBSET (rt_exists \ {g}) /\ children(h) \in SUBSET Group
    BY <1>1, <2>1 DEF children
  <2>4. RatioSum(limit', kids) = RatioSum(limit, kids) /\ RatioSum(limit, kids) \in Nat
    <3> HIDE DEF kids
    <3>1. kids \in SUBSET Group
      BY <2>1, <2>3
    <3> QED BY <2>1, <2>2, <2>3, <3>1, RatioSums
  <2>5. RatioSum(limit, kids) <= RatioSum(limit, children(h))
    <3>1. CASE g \in children(h)
      <4>1. RatioSum(limit, children(h)) = ratio(limit[g]) + RatioSum(limit, kids)
        BY <2>1, <2>3, <3>1, RatioSums
      <4>2. ratio(limit[g]) \in Nat
        BY <2>1, RatiosAreNat
      <4> HIDE DEF kids
      <4> QED BY <2>4, <4>1, <4>2
    <3>2. CASE g \notin children(h)
      <4>1. kids = children(h)
        BY <3>2
      <4> HIDE DEF kids
      <4> QED BY <2>4, <4>1
    <3> QED BY <3>1, <3>2
  <2>6. limit[h].runtime <= limit[h].period /\ children_ratio(limit, h) <= ratio(limit[h])
    BY DEF RtInv, TreeSchedulable
  <2>7. children_ratio(limit, h) = RatioSum(limit, children(h))
        /\ children_ratio(limit, h)' = RatioSum(limit', kids)
    BY <2>3 DEF children_ratio, RatioSum
  <2>8. RatioSum(limit, children(h)) \in Nat /\ ratio(limit[h]) \in Nat /\ limit'[h] = limit[h]
    BY <2>1, <2>2, <2>3, RatioSums, RatiosAreNat
  <2> HIDE DEF kids
  <2> QED BY <2>4, <2>5, <2>6, <2>7, <2>8
<1> QED BY <1>2, <1>3, <1>4, <1>5 DEF RtInv

LEMMA RtStep == RtInv /\ [LimitsNext]_limit_vars => RtInv'
<1> SUFFICES ASSUME RtInv, [LimitsNext]_limit_vars PROVE RtInv'
  OBVIOUS
<1>1. CASE \E w \in RtWriter :
             \/ \E g \in Group, r \in RtRuntimes : SetRtRuntime(w, g, r)
             \/ \E g \in Group, p \in RtPeriods : SetRtPeriod(w, g, p)
             \/ TgSetRtBandwidth(w)
  BY <1>1, StepSetRtRuntime, StepSetRtPeriod, StepTgSetRtBandwidth
<1>2. CASE \E r \in RtRuntimes, p \in RtPeriods : SysctlWrite([runtime |-> r, period |-> p])
  BY <1>2, StepSysctlWrite
<1>3. CASE SysctlCheck
  BY <1>3, StepSysctlCheck
<1>4. CASE \E g \in Group \ {Root} : CreateRtGroup(g) \/ DestroyRtGroup(g)
  BY <1>4, StepCreateRtGroup, StepDestroyRtGroup
<1>5. CASE UNCHANGED limit_vars
  BY <1>5, TreeUnchanged DEF limit_vars, RtInv, RtTypes, RtParentsExist, RtAccepted
<1> QED BY <1>1, <1>2, <1>3, <1>4, <1>5 DEF LimitsNext

\* The sysctls are what was accepted.
LEMMA RtInvariant == LimitsSpec => [](TreeSchedulable /\ SysctlAccepted)
<1>1. RtInv => TreeSchedulable /\ SysctlAccepted
  BY DEF RtInv, RtAccepted, SysctlAccepted, meaning, global
<1> QED BY <1>1, RtInitial, RtStep, PTL DEF LimitsSpec
-----------------------------------------------------------------------------
(* CfsLimits *)

CfsBand == [quota : Nat \cup {RUNTIME_INF}, period : Nat]
CfsWrite == [tg : Group, to : CfsBand, cpu : 0..NrCpus, busy : BOOLEAN]

CfsTypes ==
  /\ cfs_exists \in SUBSET Group /\ Root \in cfs_exists
  /\ band \in [Group -> CfsBand]
  /\ enabled \in [Group -> [Cpu -> BOOLEAN]]
  /\ used \in Int
  /\ cfs_writer \in [CfsWriter -> CfsWrite]
  /\ mutex \in CfsWriter \cup {Nobody}

CfsParentsExist == \A g \in cfs_exists \ {Root} : Parent[g] \in cfs_exists

\* A write goes to a group that exists, as long as the file is open, and a
\* writer with the mutex has stored what it writes.
WritersInside ==
  /\ \A w \in CfsWriter : cfs_writer[w].busy => cfs_writer[w].tg \in cfs_exists \ {Root}
  /\ mutex # Nobody => /\ cfs_writer[mutex].busy /\ cfs_writer[mutex].cpu \in Cpu
                       /\ cfs_writer[mutex].to = band[cfs_writer[mutex].tg]

\* The CPUs a writer with the mutex still has to go to may lag behind.
EnabledBehind ==
  \A g \in cfs_exists, c \in Cpu :
    (mutex # Nobody => g # cfs_writer[mutex].tg \/ c < cfs_writer[mutex].cpu)
      => enabled[g][c] = limited(band[g])

limited_groups == {g \in cfs_exists : limited(band[g])}
UsedCovers == used >= Cardinality(limited_groups)

CfsInv ==
  /\ CfsTypes /\ CfsParentsExist /\ ~limited(band[Root])
  /\ WritersInside /\ EnabledBehind /\ UsedCovers /\ QuotaWithinAncestors

\* The first group upwards that is Root or limited: its limit is the one that
\* counts.
Stops(b, g) == g = Root \/ limited(b[g])
Nearest(b, g) ==
  {y \in upwards(g) : Stops(b, y) /\ \A z \in upwards(g) : Stops(b, z) => z \in upwards(y)}

LEMMA NearestIs ==
  ASSUME NEW b, NEW g \in Group
  PROVE  Nearest(b, g) = IF Stops(b, g) THEN {g} ELSE Nearest(b, Parent[g])
<1>1. CASE Stops(b, g)
  <2>1. g \in Nearest(b, g)
    BY <1>1, UpwardsClosed DEF Nearest
  <2>2. ASSUME NEW y \in Nearest(b, g), y # g PROVE FALSE
    <3>1. y \in upwards(g) /\ g \in upwards(y) /\ y \in Group
      BY <1>1, UpwardsClosed DEF Nearest
    <3>2. g # Root
      <4>1. g = Root => upwards(g) = {Root}
        BY UpwardsIs
      <4> QED BY <2>2, <3>1, <4>1
    <3>3. upwards(g) = {g} \cup upwards(Parent[g]) /\ Parent[g] \in Group
      BY <3>2, UpwardsIs, GroupsAssumption
    <3>4. y \in upwards(Parent[g])
      BY <2>2, <3>1, <3>3
    <3>5. g \in upwards(Parent[g])
      BY <3>1, <3>3, <3>4, UpwardsTransitive
    <3> QED BY <3>2, <3>5, NotAboveItself
  <2> QED BY <1>1, <2>1, <2>2
<1>2. CASE ~Stops(b, g)
  <2>1. upwards(g) = {g} \cup upwards(Parent[g])
    BY <1>2, UpwardsIs DEF Stops
  <2> QED BY <1>2, <2>1 DEF Nearest
<1> QED BY <1>1, <1>2

\* The limit that counts for g.
Own(b, g) == IF g = Root THEN RUNTIME_INF ELSE normalize_cfs_quota(b[g])

LEMMA HierarchalQuotaIs ==
  ASSUME NEW b, NEW g \in Group
  PROVE  hierarchal_quota(b)[g] = IF Stops(b, g) THEN Own(b, g)
                                  ELSE hierarchal_quota(b)[Parent[g]]
<1> DEFINE Solves(f) ==
             f = [x \in Group |-> CASE x = Root -> RUNTIME_INF
                                    [] x # Root /\ limited(b[x]) -> normalize_cfs_quota(b[x])
                                    [] OTHER -> f[Parent[x]]]
           a == [x \in Group |-> Own(b, CHOOSE y : y \in Nearest(b, x))]
           h == CHOOSE f : Solves(f)
<1>1. Solves(a)
  <2>1. ASSUME NEW x \in Group, Stops(b, x) PROVE a[x] = Own(b, x)
    <3>1. Nearest(b, x) = {x}
      BY <2>1, NearestIs
    <3>2. (CHOOSE y : y \in {x}) = x
      OBVIOUS
    <3> QED BY <3>1, <3>2
  <2>2. ASSUME NEW x \in Group, ~Stops(b, x) PROVE a[x] = a[Parent[x]]
    <3>1. Nearest(b, x) = Nearest(b, Parent[x]) /\ Parent[x] \in Group
      BY <2>2, NearestIs, GroupsAssumption DEF Stops
    <3> QED BY <3>1
  <2>3. \A x \in Group : a[x] = CASE x = Root -> RUNTIME_INF
                                  [] x # Root /\ limited(b[x]) -> normalize_cfs_quota(b[x])
                                  [] OTHER -> a[Parent[x]]
    <3> HIDE DEF a
    <3> QED BY <2>1, <2>2 DEF Stops, Own
  <2> QED BY <2>3
<1>2. Solves(h)
  <2> HIDE DEF a, Solves
  <2> QED BY <1>1
<1>3. hierarchal_quota(b) = h
  BY DEF hierarchal_quota
<1> HIDE DEF h
<1>4. h[g] = CASE g = Root -> RUNTIME_INF
               [] g # Root /\ limited(b[g]) -> normalize_cfs_quota(b[g])
               [] OTHER -> h[Parent[g]]
  BY <1>2
<1>5. h[g] = IF Stops(b, g) THEN Own(b, g) ELSE h[Parent[g]]
  BY <1>4 DEF Stops, Own
<1> QED BY <1>3, <1>5

LEMMA NormalizedType ==
  ASSUME NEW q \in CfsBand, limited(q)
  PROVE  normalize_cfs_quota(q) \in Nat
<1>1. q.quota \in Nat \cup {RUNTIME_INF} /\ q.period \in Nat
  BY DEF CfsBand
<1> QED BY <1>1, RatioType DEF normalize_cfs_quota

\* The check compares a group with its parent only, and that is enough: what
\* counts for the parent is at most what any limited group above it has.
LEMMA SchedulableCovers ==
  ASSUME NEW b \in [Group -> CfsBand], ~limited(b[Root]), cfs_schedulable(b),
         cfs_exists \in SUBSET Group, CfsParentsExist,
         NEW g \in cfs_exists, NEW a \in upwards(g), limited(b[g]), limited(b[a])
  PROVE  normalize_cfs_quota(b[g]) <= normalize_cfs_quota(b[a])
<1> DEFINE h == hierarchal_quota(b)
           n(x) == normalize_cfs_quota(b[x])
           P == {x \in Group : x \in cfs_exists =>
                   \A y \in upwards(x) : limited(b[y]) => h[x] # RUNTIME_INF /\ h[x] <= n(y)}
<1>0. \A x \in Group : limited(b[x]) => n(x) \in Nat /\ n(x) # RUNTIME_INF
  BY NormalizedType DEF RUNTIME_INF
<1>1. Root \in P
  <2>1. Root \in Group /\ upwards(Root) = {Root}
    BY UpwardsIs, GroupsAssumption
  <2> QED BY <2>1
<1>2. ASSUME NEW x \in Group \ {Root}, Parent[x] \in P PROVE x \in P
  <2> DEFINE p == Parent[x]
  <2> SUFFICES ASSUME x \in cfs_exists, NEW y \in upwards(x), limited(b[y])
               PROVE  h[x] # RUNTIME_INF /\ h[x] <= n(y)
    OBVIOUS
  <2>1. p \in cfs_exists /\ upwards(x) = {x} \cup upwards(p) /\ upwards(x) \subseteq Group
    BY UpwardsIs, UpwardsClosed DEF CfsParentsExist
  <2>2. \A z \in upwards(p) : limited(b[z]) => h[p] # RUNTIME_INF /\ h[p] <= n(z)
    BY <1>2, <2>1
  <2>3. CASE limited(b[x])
    <3>1. h[x] = n(x)
      <4> HIDE DEF h
      <4>1. h[x] = IF Stops(b, x) THEN Own(b, x) ELSE h[Parent[x]]
        BY HierarchalQuotaIs DEF h
      <4> QED BY <2>3, <4>1 DEF Stops, Own
    <3>2. h[p] # RUNTIME_INF => h[x] <= h[p]
      BY <2>3 DEF cfs_schedulable
    <3>3. n(x) \in Nat /\ n(x) # RUNTIME_INF /\ n(y) \in Nat
      BY <1>0, <2>1, <2>3
    <3>4. CASE y = x
      <4> HIDE DEF h, n
      <4> QED BY <3>1, <3>3, <3>4
    <3>5. CASE y \in upwards(p)
      <4>1. h[p] # RUNTIME_INF /\ h[p] <= n(y) /\ h[x] <= h[p]
        BY <2>2, <3>2, <3>5
      <4>2. h[p] \in Int
        <5>1. \A z \in Group : h[z] \in Int
          <6> DEFINE Q == {z \in Group : h[z] \in Int}
          <6>0. \A z \in Group : h[z] = IF Stops(b, z) THEN Own(b, z) ELSE h[Parent[z]]
            BY HierarchalQuotaIs
          <6> HIDE DEF h
          <6>1. \A z \in Group : Own(b, z) \in Int \/ ~Stops(b, z)
            BY <1>0 DEF Own, Stops, RUNTIME_INF
          <6>2. Root \in Q
            BY <6>0, <6>1, GroupsAssumption DEF Stops
          <6>3. \A z \in Group \ {Root} : Parent[z] \in Q => z \in Q
            BY <6>0, <6>1
          <6> HIDE DEF Q
          <6>4. Group \subseteq Q
            BY <6>2, <6>3, TreeInduction
          <6> QED BY <6>4 DEF Q
        <5> QED BY <2>1, <5>1
      <4> HIDE DEF h, n
      <4> QED BY <3>1, <3>3, <4>1, <4>2
    <3> QED BY <2>1, <3>4, <3>5
  <2>4. CASE ~limited(b[x])
    <3>1. h[x] = h[p]
      <4> HIDE DEF h
      <4>1. h[x] = IF Stops(b, x) THEN Own(b, x) ELSE h[Parent[x]]
        BY HierarchalQuotaIs DEF h
      <4> QED BY <2>4, <4>1 DEF Stops
    <3>2. y \in upwards(p)
      BY <2>1, <2>4
    <3> QED BY <2>2, <3>1, <3>2
  <2> QED BY <2>3, <2>4
<1>3. g \in P
  <2> HIDE DEF P
  <2> QED BY <1>1, <1>2, TreeInduction
<1>4. h[g] <= n(a)
  BY <1>3
<1>5. h[g] = n(g)
  <2> HIDE DEF h
  <2>1. h[g] = IF Stops(b, g) THEN Own(b, g) ELSE h[Parent[g]]
    BY HierarchalQuotaIs DEF h
  <2>2. g # Root
    OBVIOUS
  <2> QED BY <2>1, <2>2 DEF Stops, Own
<1> QED BY <1>4, <1>5
LEMMA CfsInitial == CfsInit => CfsInv
<1> SUFFICES ASSUME CfsInit PROVE CfsInv
  OBVIOUS
<1> USE DEF CfsInit
<1>1. init_cfs_bandwidth \in CfsBand /\ ~limited(init_cfs_bandwidth)
  BY CfsLimitsAssumption DEF init_cfs_bandwidth, CfsBand, limited, RUNTIME_INF
<1>2. NoCfsWrite \in CfsWrite /\ ~NoCfsWrite.busy
  BY CpusAssumption, GroupsAssumption DEF NoCfsWrite, CfsWrite, CfsBand
<1>3. CfsTypes
  BY <1>1, <1>2, GroupsAssumption DEF CfsTypes
<1>4. \A g \in Group : ~limited(band[g])
  BY <1>1
<1>5. limited_groups = {} /\ Cardinality({}) = 0
  BY <1>3, <1>4, FS_EmptySet DEF limited_groups, CfsTypes
<1>6. UsedCovers
  BY <1>5 DEF UsedCovers
<1>7. CfsParentsExist /\ WritersInside
  BY <1>2 DEF CfsParentsExist, WritersInside
<1>8. EnabledBehind
  <2>1. \A g \in cfs_exists, c \in Cpu : enabled[g][c] = FALSE /\ limited(band[g]) = FALSE
    BY <1>3, <1>4 DEF CfsTypes, limited
  <2> QED BY <2>1 DEF EnabledBehind
<1>9. QuotaWithinAncestors
  BY <1>3, <1>4 DEF QuotaWithinAncestors, CfsTypes
<1> QED BY <1>3, <1>4, <1>6, <1>7, <1>8, <1>9, GroupsAssumption DEF CfsInv

\* What only depends on groups and limits.
LEMMA LimitsKept ==
  ASSUME CfsInv, cfs_exists' = cfs_exists, band' = band
  PROVE  /\ CfsParentsExist' /\ ~limited(band[Root])' /\ QuotaWithinAncestors'
         /\ limited_groups' = limited_groups
BY DEF CfsInv, CfsParentsExist, QuotaWithinAncestors, ancestors, upwards, limited,
       normalize_cfs_quota, limited_groups

LEMMA StepCfsRead ==
  ASSUME CfsInv, NEW w \in CfsWriter, NEW g \in Group, NEW b, b \in CfsBand, cfs_write_read(w, g, b)
  PROVE  CfsInv'
<1>1. /\ ~cfs_writer[w].busy /\ g \in cfs_exists \ {Root}
      /\ cfs_writer' = [cfs_writer EXCEPT ![w] = [tg |-> g, to |-> b, cpu |-> 0, busy |-> TRUE]]
      /\ cfs_exists' = cfs_exists /\ band' = band /\ enabled' = enabled /\ used' = used
      /\ mutex' = mutex
  BY DEF cfs_write_read
<1>2. [tg |-> g, to |-> b, cpu |-> 0, busy |-> TRUE] \in CfsWrite
  BY CpusAssumption DEF CfsWrite
<1>3. CfsTypes'
  BY <1>1, <1>2 DEF CfsInv, CfsTypes
<1>4. mutex # Nobody => mutex # w /\ mutex \in CfsWriter
  BY <1>1 DEF CfsInv, CfsTypes, WritersInside
<1>5. mutex # Nobody => cfs_writer'[mutex] = cfs_writer[mutex]
  BY <1>1, <1>4 DEF CfsInv, CfsTypes
<1>6. WritersInside'
  BY <1>1, <1>2, <1>4, <1>5 DEF CfsInv, CfsTypes, WritersInside
<1>7. EnabledBehind'
  BY <1>1, <1>5 DEF CfsInv, EnabledBehind, limited
<1>8. UsedCovers'
  BY <1>1, LimitsKept DEF CfsInv, UsedCovers
<1> QED BY <1>1, <1>3, <1>6, <1>7, <1>8, LimitsKept DEF CfsInv

LEMMA StepSetQuota ==
  ASSUME CfsInv, NEW w \in CfsWriter, NEW g \in Group, NEW q \in Quotas, SetQuota(w, g, q)
  PROVE  CfsInv'
<1> DEFINE b == [band[g] EXCEPT !.quota = IF q < 0 THEN RUNTIME_INF ELSE q]
<1>1. q \in Int
  BY CfsLimitsAssumption
<1>2. b \in CfsBand
  BY <1>1 DEF CfsInv, CfsTypes, CfsBand
<1>3. cfs_write_read(w, g, b)
  BY DEF SetQuota
<1> HIDE DEF b
<1> QED BY <1>2, <1>3, StepCfsRead

LEMMA StepSetPeriod ==
  ASSUME CfsInv, NEW w \in CfsWriter, NEW g \in Group, NEW p \in QuotaPeriods, SetPeriod(w, g, p)
  PROVE  CfsInv'
<1> DEFINE b == [band[g] EXCEPT !.period = p]
<1>1. cfs_write_read(w, g, b)
  BY DEF SetPeriod
<1>2. b.period \in MinQuotaPeriod..MaxQuotaPeriod /\ band[g] \in CfsBand
  BY <1>1 DEF cfs_write_read, CfsInv, CfsTypes
<1>3. b.period = p
  BY <1>2 DEF CfsBand
<1>4. b \in CfsBand
  BY <1>2, <1>3, CfsLimitsAssumption DEF CfsBand
<1> HIDE DEF b
<1> QED BY <1>1, <1>4, StepCfsRead

\* Stored, the new limit is within those above and covers those below.
LEMMA StepCheckQuota ==
  ASSUME CfsInv, NEW w \in CfsWriter, CheckQuota(w)
  PROVE  CfsInv'
<1> DEFINE g == cfs_writer[w].tg
           b == cfs_writer[w].to
           l == [band EXCEPT ![g] = b]
<1>1. /\ cfs_writer[w].busy /\ mutex = Nobody /\ cfs_exists' = cfs_exists /\ enabled' = enabled
      /\ w # Nobody
  BY CfsLimitsAssumption DEF CheckQuota
<1>2. /\ g \in cfs_exists /\ g # Root /\ g \in Group /\ b \in CfsBand
      /\ cfs_writer[w] \in CfsWrite
  BY <1>1 DEF CfsInv, CfsTypes, WritersInside, CfsWrite
<1>3. CASE cfs_schedulable(l)
  <2>1. /\ used' = used + account_cfs_bandwidth_used(limited(b), limited(band[g]))
        /\ band' = l /\ cfs_writer' = [cfs_writer EXCEPT ![w].cpu = 1] /\ mutex' = w
    BY <1>3 DEF CheckQuota
  <2>2. band' \in [Group -> CfsBand] /\ band'[g] = b /\ \A x \in Group \ {g} : band'[x] = band[x]
    BY <1>2, <2>1 DEF CfsInv, CfsTypes
  <2>3. ~limited(band'[Root])
    BY <1>2, <2>2, GroupsAssumption DEF CfsInv
  <2>4. /\ cfs_writer'[w].tg = g /\ cfs_writer'[w].to = b /\ cfs_writer'[w].cpu = 1
        /\ cfs_writer'[w].busy /\ cfs_writer'[w] \in CfsWrite
        /\ \A v \in CfsWriter \ {w} : cfs_writer'[v] = cfs_writer[v]
        /\ cfs_writer' \in [CfsWriter -> CfsWrite]
    <3>1. 1 \in 0..NrCpus
      BY CpusAssumption
    <3> QED BY <1>1, <1>2, <2>1, <3>1 DEF CfsInv, CfsTypes, CfsWrite
  <2>5. account_cfs_bandwidth_used(limited(b), limited(band[g])) \in Int
    BY DEF account_cfs_bandwidth_used
  <2>6. CfsTypes'
    BY <1>1, <2>1, <2>2, <2>4, <2>5 DEF CfsInv, CfsTypes
  <2>7. WritersInside'
    <3>1. 1 \in Cpu
      BY CpusAssumption DEF Cpu
    <3> QED BY <1>1, <1>2, <2>1, <2>2, <2>4, <3>1 DEF CfsInv, WritersInside
  <2>8. EnabledBehind'
    <3> SUFFICES ASSUME NEW x \in cfs_exists, NEW c \in Cpu, x # g \/ c < 1
                 PROVE  enabled[x][c] = limited(band'[x])
      BY <1>1, <2>1, <2>4 DEF EnabledBehind, limited
    <3>1. x # g /\ x \in Group
      BY DEF Cpu, CfsInv, CfsTypes
    <3> QED BY <1>1, <2>2, <3>1 DEF CfsInv, EnabledBehind
  <2>9. UsedCovers'
    <3> DEFINE on == limited(b)
               was == limited(band[g])
               more == account_cfs_bandwidth_used(on, was)
    <3>1. limited_groups \in SUBSET Group /\ IsFiniteSet(limited_groups)
      BY FS_Subset, GroupsAssumption DEF limited_groups, CfsInv, CfsTypes
    <3>2. limited_groups' = (limited_groups \ {g}) \cup (IF on THEN {g} ELSE {})
      BY <1>1, <1>2, <2>2 DEF limited_groups, CfsInv, CfsTypes, limited
    <3>3. was <=> g \in limited_groups
      BY <1>2 DEF limited_groups
    <3>4. Cardinality(limited_groups') <= Cardinality(limited_groups) + more
          /\ Cardinality(limited_groups) \in Nat /\ Cardinality(limited_groups') \in Nat
      <4> HIDE DEF on, was
      <4> DEFINE S == limited_groups
      <4>0. IsFiniteSet(S) /\ Cardinality(S) \in Nat /\ S \cup {g} = (S \ {g}) \cup {g}
        BY <3>1, FS_CardinalityType
      <4>1. CASE on /\ was
        <5>1. S' = S /\ more = 0
          BY <3>2, <3>3, <4>1 DEF account_cfs_bandwidth_used
        <5> HIDE DEF S, more
        <5> QED BY <4>0, <5>1 DEF S
      <4>2. CASE on /\ ~was
        <5>1. S' = S \cup {g} /\ g \notin S /\ more = 1
          BY <3>2, <3>3, <4>2 DEF account_cfs_bandwidth_used
        <5>2. Cardinality(S \cup {g}) = Cardinality(S) + 1
          BY <4>0, <5>1, FS_AddElement
        <5> QED BY <4>0, <5>1, <5>2
      <4>3. CASE ~on /\ was
        <5>1. S' = S \ {g} /\ g \in S /\ more = -1
          BY <3>2, <3>3, <4>3 DEF account_cfs_bandwidth_used
        <5>2. Cardinality(S \ {g}) = Cardinality(S) - 1 /\ IsFiniteSet(S \ {g})
          BY <4>0, <5>1, FS_RemoveElement
        <5>3. Cardinality(S \ {g}) \in Nat
          BY <5>2, FS_CardinalityType
        <5> QED BY <4>0, <5>1, <5>2, <5>3
      <4>4. CASE ~on /\ ~was
        <5>1. S' = S /\ more = 0
          BY <3>2, <3>3, <4>4 DEF account_cfs_bandwidth_used
        <5> HIDE DEF S, more
        <5> QED BY <4>0, <5>1 DEF S
      <4> QED BY <4>1, <4>2, <4>3, <4>4
    <3>5. used' = used + more /\ more \in Int /\ used \in Int /\ used >= Cardinality(limited_groups)
      BY <2>1, <2>5 DEF CfsInv, CfsTypes, UsedCovers
    <3> HIDE DEF more
    <3> QED BY <3>4, <3>5 DEF UsedCovers
  <2>10. QuotaWithinAncestors'
    <3>1. cfs_exists \in SUBSET Group /\ CfsParentsExist /\ cfs_schedulable(band')
      BY <1>3, <2>1 DEF CfsInv, CfsTypes
    <3>2. \A x \in cfs_exists : \A a \in upwards(x) :
            limited(band'[x]) /\ limited(band'[a])
              => normalize_cfs_quota(band'[x]) <= normalize_cfs_quota(band'[a])
      <4> DEFINE k == band'
      <4>1. k \in [Group -> CfsBand] /\ ~limited(k[Root]) /\ cfs_schedulable(k)
        BY <2>2, <2>3, <3>1
      <4> HIDE DEF k
      <4>2. \A x \in cfs_exists : \A a \in upwards(x) :
              limited(k[x]) /\ limited(k[a]) => normalize_cfs_quota(k[x]) <= normalize_cfs_quota(k[a])
        BY <3>1, <4>1, SchedulableCovers
      <4> QED BY <4>2 DEF k
    <3> QED BY <1>1, <3>2 DEF QuotaWithinAncestors, ancestors, upwards, limited, normalize_cfs_quota
  <2>11. CfsParentsExist' /\ ~limited(band[Root])'
    BY <1>1, <2>3 DEF CfsInv, CfsParentsExist, limited
  <2> QED BY <2>6, <2>7, <2>8, <2>9, <2>10, <2>11 DEF CfsInv
<1>4. CASE ~cfs_schedulable(l)
  <2>1. cfs_writer' = [cfs_writer EXCEPT ![w] = NoCfsWrite] /\ band' = band /\ used' = used
        /\ mutex' = mutex
    BY <1>4 DEF CheckQuota
  <2>2. NoCfsWrite \in CfsWrite /\ ~NoCfsWrite.busy
    BY CpusAssumption, GroupsAssumption DEF NoCfsWrite, CfsWrite, CfsBand
  <2>3. CfsTypes'
    BY <1>1, <2>1, <2>2 DEF CfsInv, CfsTypes
  <2>4. WritersInside'
    BY <1>1, <2>1, <2>2 DEF CfsInv, CfsTypes, WritersInside
  <2>5. EnabledBehind'
    BY <1>1, <2>1 DEF CfsInv, EnabledBehind, limited
  <2>6. UsedCovers'
    BY <1>1, <2>1, LimitsKept DEF CfsInv, UsedCovers
  <2> QED BY <1>1, <2>1, <2>3, <2>4, <2>5, <2>6, LimitsKept DEF CfsInv
<1> QED BY <1>3, <1>4
\* One more CPU agrees with the limit; after the last all do.
LEMMA StepEnableCpu ==
  ASSUME CfsInv, NEW w \in CfsWriter, EnableCpu(w)
  PROVE  CfsInv'
<1> DEFINE g == cfs_writer[w].tg
           c == cfs_writer[w].cpu
           last == c = NrCpus
           on == limited(cfs_writer[w].to)
<1>1. /\ mutex = w /\ enabled' = [enabled EXCEPT ![g][c] = on]
      /\ cfs_writer' = [cfs_writer EXCEPT ![w] = IF last THEN NoCfsWrite ELSE [@ EXCEPT !.cpu = c + 1]]
      /\ mutex' = (IF last THEN Nobody ELSE w)
      /\ cfs_exists' = cfs_exists /\ band' = band /\ used' = used /\ w # Nobody
  BY CfsLimitsAssumption DEF EnableCpu
<1>2. /\ cfs_writer[w].busy /\ c \in Cpu /\ cfs_writer[w].to = band[g]
      /\ g \in cfs_exists /\ g # Root /\ g \in Group /\ cfs_writer[w] \in CfsWrite
  BY <1>1 DEF CfsInv, CfsTypes, WritersInside, CfsWrite
<1>3. on \in BOOLEAN /\ on = limited(band[g])
  BY <1>2 DEF limited
<1>4. /\ enabled' \in [Group -> [Cpu -> BOOLEAN]] /\ enabled'[g][c] = on
      /\ \A x \in Group, d \in Cpu : x # g \/ d # c => enabled'[x][d] = enabled[x][d]
  BY <1>1, <1>2, <1>3 DEF CfsInv, CfsTypes
<1>5. NoCfsWrite \in CfsWrite /\ ~NoCfsWrite.busy
  BY CpusAssumption, GroupsAssumption DEF NoCfsWrite, CfsWrite, CfsBand
<1>6. ~last => c + 1 \in Cpu /\ c + 1 \in 0..NrCpus
  BY <1>2, CpusAssumption DEF Cpu
<1>7. /\ ~last => /\ cfs_writer'[w] = [cfs_writer[w] EXCEPT !.cpu = c + 1]
                  /\ cfs_writer'[w] \in CfsWrite /\ cfs_writer'[w].cpu = c + 1 /\ cfs_writer'[w].busy
                  /\ cfs_writer'[w].tg = g /\ cfs_writer'[w].to = cfs_writer[w].to
      /\ last => cfs_writer'[w] = NoCfsWrite
      /\ \A v \in CfsWriter \ {w} : cfs_writer'[v] = cfs_writer[v]
      /\ cfs_writer' \in [CfsWriter -> CfsWrite]
  <2>1. ~last => /\ [cfs_writer[w] EXCEPT !.cpu = c + 1] \in CfsWrite
                 /\ [cfs_writer[w] EXCEPT !.cpu = c + 1].cpu = c + 1
                 /\ [cfs_writer[w] EXCEPT !.cpu = c + 1].busy
                 /\ [cfs_writer[w] EXCEPT !.cpu = c + 1].tg = g
                 /\ [cfs_writer[w] EXCEPT !.cpu = c + 1].to = cfs_writer[w].to
    BY <1>2, <1>6 DEF CfsWrite
  <2>2. cfs_writer \in [CfsWriter -> CfsWrite]
    BY DEF CfsInv, CfsTypes
  <2> HIDE DEF c, g, last
  <2> QED BY <1>1, <1>5, <2>1, <2>2
<1> HIDE DEF last, on
<1>8. CfsTypes'
  BY <1>1, <1>4, <1>7 DEF CfsInv, CfsTypes
<1>9. WritersInside'
  <2>1. \A v \in CfsWriter : cfs_writer'[v].busy => cfs_writer'[v].tg \in cfs_exists \ {Root}
    BY <1>2, <1>5, <1>7 DEF CfsInv, WritersInside
  <2>2. ~last => /\ cfs_writer'[w].busy /\ cfs_writer'[w].cpu \in Cpu
                 /\ cfs_writer'[w].to = band[cfs_writer'[w].tg]
    BY <1>2, <1>6, <1>7
  <2> QED BY <1>1, <2>1, <2>2 DEF WritersInside
<1>10. EnabledBehind'
  <2> SUFFICES ASSUME NEW x \in cfs_exists, NEW d \in Cpu,
                      mutex' # Nobody => x # cfs_writer'[mutex'].tg \/ d < cfs_writer'[mutex'].cpu
               PROVE  enabled'[x][d] = limited(band[x])
    BY <1>1 DEF EnabledBehind, limited
  <2>1. x \in Group
    BY DEF CfsInv, CfsTypes
  <2>2. CASE x # g
    <3>1. enabled[x][d] = limited(band[x])
      BY <1>1, <2>2 DEF CfsInv, EnabledBehind
    <3> QED BY <1>4, <2>1, <2>2, <3>1
  <2>3. CASE x = g /\ d = c
    BY <1>3, <1>4, <2>3
  <2>4. CASE x = g /\ d # c
    <3>1. d < c
      <4>1. CASE last
        BY <1>2, <2>4, <4>1, CpusAssumption DEF last, Cpu
      <4>2. CASE ~last
        <5>1. d < c + 1
          BY <1>1, <1>7, <2>4, <4>2
        <5> QED BY <1>2, <2>4, <5>1 DEF Cpu
      <4> QED BY <4>1, <4>2
    <3>2. enabled[x][d] = limited(band[x])
      BY <1>1, <2>4, <3>1 DEF CfsInv, EnabledBehind
    <3> QED BY <1>4, <2>1, <2>4, <3>2
  <2> QED BY <2>2, <2>3, <2>4
<1>11. UsedCovers'
  BY <1>1, LimitsKept DEF CfsInv, UsedCovers
<1> QED BY <1>1, <1>8, <1>9, <1>10, <1>11, LimitsKept DEF CfsInv

\* A group comes and goes without a limit; while it has none, nothing is
\* compared with it.
LEMMA CameOrWent ==
  ASSUME CfsInv, NEW g \in Group \ {Root},
         cfs_exists' \in {cfs_exists \cup {g}, cfs_exists \ {g}},
         band' = [band EXCEPT ![g] = init_cfs_bandwidth],
         enabled' = [enabled EXCEPT ![g] = [c \in Cpu |-> FALSE]],
         used' = used, cfs_writer' = cfs_writer, mutex' = mutex,
         \A w \in CfsWriter : cfs_writer[w].busy => cfs_writer[w].tg # g,
         CfsParentsExist'
  PROVE  CfsInv'
<1>1. init_cfs_bandwidth \in CfsBand /\ ~limited(init_cfs_bandwidth)
  BY CfsLimitsAssumption DEF init_cfs_bandwidth, CfsBand, limited, RUNTIME_INF
<1>2. /\ band' \in [Group -> CfsBand] /\ ~limited(band'[g])
      /\ \A x \in Group \ {g} : band'[x] = band[x]
  BY <1>1 DEF CfsInv, CfsTypes
<1>3. /\ enabled' \in [Group -> [Cpu -> BOOLEAN]] /\ \A c \in Cpu : enabled'[g][c] = FALSE
      /\ \A x \in Group \ {g} : enabled'[x] = enabled[x]
  BY DEF CfsInv, CfsTypes
<1>4. CfsTypes'
  BY <1>2, <1>3 DEF CfsInv, CfsTypes
<1>5. ~limited(band'[Root])
  BY <1>2, GroupsAssumption DEF CfsInv
<1>6. WritersInside'
  <2>1. \A w \in CfsWriter : cfs_writer[w].busy => cfs_writer[w].tg \in cfs_exists' \ {Root}
    BY DEF CfsInv, WritersInside
  <2>2. mutex # Nobody => /\ mutex \in CfsWriter /\ cfs_writer[mutex].busy
                          /\ cfs_writer[mutex].tg \in Group \ {g}
    BY DEF CfsInv, WritersInside, CfsTypes, CfsWrite
  <2>3. mutex # Nobody => cfs_writer[mutex].to = band'[cfs_writer[mutex].tg]
    BY <1>2, <2>2 DEF CfsInv, WritersInside
  <2> QED BY <2>1, <2>3 DEF CfsInv, WritersInside
<1>7. EnabledBehind'
  <2> SUFFICES ASSUME NEW x \in cfs_exists', NEW c \in Cpu,
                      mutex # Nobody => x # cfs_writer[mutex].tg \/ c < cfs_writer[mutex].cpu
               PROVE  enabled'[x][c] = limited(band'[x])
    BY DEF EnabledBehind, limited
  <2>1. CASE x = g
    <3>1. limited(band'[g]) = FALSE
      BY <1>2 DEF limited
    <3> QED BY <1>3, <2>1, <3>1
  <2>2. CASE x # g
    <3>1. x \in cfs_exists /\ x \in Group \ {g}
      BY <2>2 DEF CfsInv, CfsTypes
    <3>2. enabled[x][c] = limited(band[x])
      BY <3>1 DEF CfsInv, EnabledBehind
    <3> QED BY <1>2, <1>3, <3>1, <3>2
  <2> QED BY <2>1, <2>2
<1>8. UsedCovers'
  <2>1. limited_groups' = limited_groups \ {g}
    BY <1>2 DEF limited_groups, limited, CfsInv, CfsTypes
  <2>2. limited_groups \in SUBSET Group /\ IsFiniteSet(limited_groups)
    BY FS_Subset, GroupsAssumption DEF limited_groups, CfsInv, CfsTypes
  <2>3. Cardinality(limited_groups \ {g}) <= Cardinality(limited_groups)
        /\ Cardinality(limited_groups \ {g}) \in Nat /\ Cardinality(limited_groups) \in Nat
    BY <2>2, FS_Subset, FS_CardinalityType
  <2> QED BY <2>1, <2>3 DEF CfsInv, CfsTypes, UsedCovers
<1>9. QuotaWithinAncestors'
  <2> SUFFICES ASSUME NEW x \in cfs_exists', NEW a \in Group, a \in ancestors(x),
                      limited(band'[x]), limited(band'[a])
               PROVE  normalize_cfs_quota(band'[x]) <= normalize_cfs_quota(band'[a])
    BY DEF QuotaWithinAncestors, ancestors, upwards, limited, normalize_cfs_quota
  <2>1. x # g /\ a # g
    BY <1>2
  <2>2. x \in cfs_exists /\ band'[x] = band[x] /\ band'[a] = band[a]
    BY <1>2, <2>1 DEF CfsInv, CfsTypes
  <2> QED BY <2>2 DEF CfsInv, QuotaWithinAncestors
<1> QED BY <1>4, <1>5, <1>6, <1>7, <1>8, <1>9 DEF CfsInv, limited

LEMMA StepCreateCfsGroup ==
  ASSUME CfsInv, NEW g \in Group \ {Root}, CreateCfsGroup(g)
  PROVE  CfsInv'
<1>1. /\ cfs_exists' = cfs_exists \cup {g} /\ g \notin cfs_exists
      /\ band' = [band EXCEPT ![g] = init_cfs_bandwidth]
      /\ enabled' = [enabled EXCEPT ![g] = [c \in Cpu |-> FALSE]]
      /\ used' = used /\ cfs_writer' = cfs_writer /\ mutex' = mutex
  BY DEF CreateCfsGroup
<1>2. \A w \in CfsWriter : cfs_writer[w].busy => cfs_writer[w].tg # g
  BY <1>1 DEF CfsInv, WritersInside
<1>3. CfsParentsExist'
  BY <1>1 DEF CreateCfsGroup, CfsInv, CfsParentsExist
<1> QED BY <1>1, <1>2, <1>3, CameOrWent

LEMMA StepDestroyCfsGroup ==
  ASSUME CfsInv, NEW g \in Group \ {Root}, DestroyCfsGroup(g)
  PROVE  CfsInv'
<1>1. /\ cfs_exists' = cfs_exists \ {g} /\ \A w \in CfsWriter : cfs_writer[w].tg # g
      /\ band' = [band EXCEPT ![g] = init_cfs_bandwidth]
      /\ enabled' = [enabled EXCEPT ![g] = [c \in Cpu |-> FALSE]]
      /\ used' = used /\ cfs_writer' = cfs_writer /\ mutex' = mutex
  BY DEF DestroyCfsGroup
<1>2. CfsParentsExist'
  BY <1>1 DEF DestroyCfsGroup, CfsInv, CfsParentsExist
<1> QED BY <1>1, <1>2, CameOrWent

LEMMA CfsStep == CfsInv /\ [CfsNext]_cfs_vars => CfsInv'
<1> SUFFICES ASSUME CfsInv, [CfsNext]_cfs_vars PROVE CfsInv'
  OBVIOUS
<1>1. CASE \E w \in CfsWriter :
             \/ \E g \in Group, q \in Quotas : SetQuota(w, g, q)
             \/ \E g \in Group, p \in QuotaPeriods : SetPeriod(w, g, p)
             \/ CheckQuota(w)
             \/ EnableCpu(w)
  BY <1>1, StepSetQuota, StepSetPeriod, StepCheckQuota, StepEnableCpu
<1>2. CASE \E g \in Group \ {Root} : CreateCfsGroup(g) \/ DestroyCfsGroup(g)
  BY <1>2, StepCreateCfsGroup, StepDestroyCfsGroup
<1>3. CASE UNCHANGED cfs_vars
  <2>1. /\ cfs_exists' = cfs_exists /\ band' = band /\ enabled' = enabled /\ used' = used
        /\ cfs_writer' = cfs_writer /\ mutex' = mutex
    BY <1>3 DEF cfs_vars
  <2>2. CfsTypes' /\ WritersInside' /\ EnabledBehind'
    BY <2>1 DEF CfsInv, CfsTypes, WritersInside, EnabledBehind, limited
  <2>3. UsedCovers'
    BY <2>1, LimitsKept DEF CfsInv, UsedCovers
  <2> QED BY <2>1, <2>2, <2>3, LimitsKept DEF CfsInv
<1> QED BY <1>1, <1>2, <1>3 DEF CfsNext

LEMMA CfsInvariant == CfsSpec => [](QuotaWithinAncestors /\ EnabledWhereLimited)
<1>1. CfsInv => QuotaWithinAncestors /\ EnabledWhereLimited
  BY DEF CfsInv, EnabledBehind, UsedCovers, limited_groups, EnabledWhereLimited
<1> QED BY <1>1, CfsInitial, CfsStep, PTL DEF CfsSpec

-----------------------------------------------------------------------------
\* However writes of limits interleave with one another, with the sysctls and
\* with groups that come and go, and for any tree of groups, numbers of CPUs
\* and values written: no group gets more than the groups above it have, and
\* run queues are limited where their group is.
THEOREM LimitsCorrect == LimitsSpec /\ CfsSpec => []GroupLimitsHold
BY RtInvariant, CfsInvariant, PTL DEF GroupLimitsHold

-----------------------------------------------------------------------------
(* RtRuntime *)

\* The states of a loop over 1..n: where it starts, and what each turn makes of the last.
Runs(a, n, start, step) == a[0] = start /\ \A i \in 1..n : a[i] = step[<<a[i - 1], i>>]

\* A loop over 1..N that goes from one element of V to another has an outcome.
LEMMA LoopEnds ==
  ASSUME NEW N \in Nat, NEW V, NEW start \in V, NEW step \in [V \X (1..N) -> V]
  PROVE  \E a \in [0..N -> V] : Runs(a, N, start, step)
<1> DEFINE P == {n \in Nat : n <= N => \E a \in [0..N -> V] : Runs(a, n, start, step)}
<1> USE DEF Runs
<1>1. 0 \in P
  <2>1. [i \in 0..N |-> start] \in [0..N -> V] /\ Runs([i \in 0..N |-> start], 0, start, step)
    OBVIOUS
  <2> QED BY <2>1
<1>2. ASSUME NEW n \in Nat, n \in P PROVE n + 1 \in P
  <2> SUFFICES ASSUME n + 1 <= N PROVE \E b \in [0..N -> V] : Runs(b, n + 1, start, step)
    OBVIOUS
  <2>1. PICK a \in [0..N -> V] : Runs(a, n, start, step)
    BY <1>2
  <2> DEFINE v == step[<<a[n], n + 1>>]
             b == [a EXCEPT ![n + 1] = v]
  <2>2. n \in 0..N /\ n + 1 \in 1..N /\ v \in V
    OBVIOUS
  <2>3. b \in [0..N -> V]
    BY <2>1, <2>2
  <2>4. b[0] = start
    BY <2>1, <2>2
  <2>5. ASSUME NEW i \in 1..(n + 1) PROVE b[i] = step[<<b[i - 1], i>>]
    <3>1. CASE i = n + 1
      <4>1. b[i] = v /\ b[i - 1] = a[n]
        BY <2>1, <2>2, <3>1
      <4> QED BY <3>1, <4>1
    <3>2. CASE i # n + 1
      <4>1. i \in 1..n /\ i \in 0..N /\ i - 1 \in 0..N /\ i # n + 1 /\ i - 1 # n + 1
        BY <2>2, <3>2
      <4>2. b[i] = a[i] /\ b[i - 1] = a[i - 1]
        BY <2>1, <4>1
      <4> QED BY <2>1, <4>1, <4>2
    <3> QED BY <3>1, <3>2
  <2> HIDE DEF b
  <2> QED BY <2>3, <2>4, <2>5
<1>3. N \in P
  <2> HIDE DEF P
  <2> QED BY <1>1, <1>2, SetInduction
<1> QED BY <1>3

\* What each turn keeps, the outcome has.
LEMMA LoopKeeps ==
  ASSUME NEW N \in Nat, NEW V, NEW a, a[0] \in V,
         \A i \in 1..N : a[i - 1] \in V => a[i] \in V
  PROVE  a[N] \in V
<1> DEFINE P == {n \in Nat : n <= N => a[n] \in V}
<1>1. 0 \in P
  OBVIOUS
<1>2. ASSUME NEW n \in Nat, n \in P PROVE n + 1 \in P
  <2> SUFFICES ASSUME n + 1 <= N PROVE a[n + 1] \in V
    OBVIOUS
  <2>1. a[n] \in V /\ n + 1 \in 1..N /\ (n + 1) - 1 = n
    BY <1>2
  <2> QED BY <2>1
<1>3. N \in P
  <2> HIDE DEF P
  <2> QED BY <1>1, <1>2, SetInduction
<1> QED BY <1>3

-----------------------------------------------------------------------------
Runtime == Nat \cup {RUNTIME_INF}

\* What the run queues S own together, with the runtimes r.
Shares(r, S) == SumFunctionOnSet([c \in Cpu |-> IF r[c] = RUNTIME_INF THEN 0 ELSE r[c]], S)

\* No limit is given to all or none, so that a borrower is never without one
\* beside run queues that have one.
LimitForAll ==
  /\ rt_limit = RUNTIME_INF => \A i \in Cpu : rt_runtime[i] = RUNTIME_INF
  /\ \A c \in Cpu : balancing[c] # "no" /\ rt_runtime[c] = RUNTIME_INF => rt_limit = RUNTIME_INF

RuntimeInv == RuntimeTypes /\ LimitForAll

LEMMA SpanFinite ==
  ASSUME NEW d
  PROVE  /\ span(d) \subseteq Cpu /\ IsFiniteSet(span(d)) /\ Cardinality(span(d)) \in Nat
         /\ \A c \in span(d) : Cardinality(span(d)) # 0
<1>1. IsFiniteSet(Cpu)
  BY FS_Interval, CpusAssumption DEF Cpu
<1>2. span(d) \subseteq Cpu
  BY DEF span
<1>3. IsFiniteSet(span(d))
  BY <1>1, <1>2, FS_Subset
<1> QED BY <1>2, <1>3, FS_CardinalityType, FS_EmptySet

\* A share is no more than the whole.
LEMMA ShareType ==
  ASSUME NEW n \in Nat, NEW k \in Nat \ {0}
  PROVE  n \div k \in Nat /\ n \div k <= n
OBVIOUS

\* What a runtime counts for: no limit is nobody's.
Amount(x) == IF x = RUNTIME_INF THEN 0 ELSE x

\* What a set owns is what one of it owns and what the others own.
LEMMA SharesOf ==
  ASSUME NEW r \in [Cpu -> Runtime], NEW S, S \subseteq Cpu, IsFiniteSet(S), NEW c \in S
  PROVE  /\ Shares(r, S \ {c}) \in Int /\ Amount(r[c]) \in Int
         /\ Shares(r, S) = Shares(r, S \ {c}) + Amount(r[c])
<1> DEFINE e == [y \in Cpu |-> IF r[y] = RUNTIME_INF THEN 0 ELSE r[y]]
           T == S \ {c}
<1>1. IsFiniteSet(T) /\ T \subseteq S
  BY FS_Subset
<1>2. /\ \A y \in S : e[y] \in Int
      /\ e[c] = Amount(r[c])
  BY DEF Runtime, Amount
<1>3. Shares(r, T) = SumFunctionOnSet(e, T) /\ Shares(r, S) = SumFunctionOnSet(e, S)
  BY DEF Shares
<1> HIDE DEF e
<1>4. SumFunctionOnSet(e, S) = e[c] + SumFunctionOnSet(e, T)
  BY <1>2, SumRemove
<1>5. SumFunctionOnSet(e, T) \in Int
  BY <1>1, <1>2, SumType
<1> QED BY <1>2, <1>3, <1>4, <1>5

\* Two that agree on a set give it the same.
LEMMA SharesSame ==
  ASSUME NEW r \in [Cpu -> Runtime], NEW q \in [Cpu -> Runtime], NEW T, T \subseteq Cpu,
         IsFiniteSet(T), \A y \in T : q[y] = r[y]
  PROVE  Shares(q, T) = Shares(r, T)
<1> DEFINE e == [y \in Cpu |-> IF r[y] = RUNTIME_INF THEN 0 ELSE r[y]]
           f == [y \in Cpu |-> IF q[y] = RUNTIME_INF THEN 0 ELSE q[y]]
<1>1. \A y \in T : f[y] \in Int /\ f[y] = e[y]
  BY DEF Runtime
<1>2. Shares(r, T) = SumFunctionOnSet(e, T) /\ Shares(q, T) = SumFunctionOnSet(f, T)
  BY DEF Shares
<1> HIDE DEF e, f
<1>3. SumFunctionOnSet(f, T) = SumFunctionOnSet(e, T)
  BY <1>1, SumSame
<1> QED BY <1>2, <1>3

\* Changing what one of S owns changes the total by as much.
LEMMA OwnChanges ==
  ASSUME NEW r \in [Cpu -> Runtime], NEW S, S \subseteq Cpu, IsFiniteSet(S), NEW c \in S,
         NEW q \in [Cpu -> Runtime], \A y \in S \ {c} : q[y] = r[y]
  PROVE  /\ Shares(r, S) \in Int /\ Amount(r[c]) \in Int /\ Amount(q[c]) \in Int
         /\ Shares(q, S) = Shares(r, S) - Amount(r[c]) + Amount(q[c])
<1> DEFINE e(x) == [y \in Cpu |-> IF x[y] = RUNTIME_INF THEN 0 ELSE x[y]]
<1>1. /\ \A y \in S : e(r)[y] \in Int
      /\ \A y \in S \ {c} : e(q)[y] = e(r)[y]
      /\ e(q)[c] = Amount(q[c]) /\ e(q)[c] \in Int /\ e(r)[c] = Amount(r[c]) /\ e(r)[c] \in Int
  BY DEF Runtime, Amount
<1>2. Shares(r, S) = SumFunctionOnSet(e(r), S) /\ Shares(q, S) = SumFunctionOnSet(e(q), S)
  BY DEF Shares
<1>3. SumFunctionOnSet(e(q), S) = SumFunctionOnSet(e(r), S) - e(r)[c] + e(q)[c]
  <2> DEFINE f == e(r)
             g == e(q)
  <2>1. /\ IsFiniteSet(S) /\ c \in S /\ g[c] \in Int
        /\ (\A y \in S : f[y] \in Int) /\ \A y \in S \ {c} : g[y] = f[y]
    BY <1>1
  <2> HIDE DEF f, g
  <2>2. SumFunctionOnSet(g, S) = SumFunctionOnSet(f, S) - f[c] + g[c]
    BY ONLY <2>1, SumUpdate
  <2> QED BY <2>2 DEF f, g
<1> HIDE DEF e
<1>4. SumFunctionOnSet(e(r), S) \in Int
  BY <1>1, SumType
<1> QED BY <1>1, <1>2, <1>3, <1>4

\* Changing what two of S own by opposite amounts leaves their total.
LEMMA OwnMoves ==
  ASSUME NEW r \in [Cpu -> Runtime], NEW S, S \subseteq Cpu, IsFiniteSet(S), NEW c \in S, NEW i \in S,
         c # i, r[c] # RUNTIME_INF, r[i] # RUNTIME_INF, NEW d \in Int,
         r[c] + d \in Nat, r[i] - d \in Nat,
         NEW q \in [Cpu -> Runtime], q[i] = r[i] - d, q[c] = r[c] + d,
         \A y \in Cpu \ {i, c} : q[y] = r[y]
  PROVE  Shares(q, S) = Shares(r, S)
<1> DEFINE p == [r EXCEPT ![i] = r[i] - d]
<1>1. r[i] - d \in Runtime /\ r[c] + d \in Runtime /\ r[i] \in Nat /\ r[c] \in Nat
  BY DEF Runtime
<1>2. r[i] - d # RUNTIME_INF /\ r[c] + d # RUNTIME_INF
  BY DEF RUNTIME_INF
<1>3. /\ p \in [Cpu -> Runtime] /\ p[i] = r[i] - d /\ p[c] = r[c]
      /\ \A y \in S \ {i} : p[y] = r[y]
  BY <1>1
<1>4. /\ q \in [Cpu -> Runtime] /\ q[c] = r[c] + d
      /\ \A y \in S \ {c} : q[y] = p[y]
  BY <1>1
<1> HIDE DEF p
<1>5. /\ Shares(r, S) \in Int
      /\ Shares(p, S) = Shares(r, S) - Amount(r[i]) + Amount(p[i])
  BY <1>3, OwnChanges
<1>6. Shares(q, S) = Shares(p, S) - Amount(p[c]) + Amount(q[c])
  <2>1. /\ p \in [Cpu -> Runtime] /\ q \in [Cpu -> Runtime] /\ \A y \in S \ {c} : q[y] = p[y]
        /\ S \subseteq Cpu /\ IsFiniteSet(S) /\ c \in S
    BY <1>3, <1>4
  <2> QED BY ONLY <2>1, OwnChanges
<1>7. /\ Amount(r[i]) = r[i] /\ Amount(p[i]) = r[i] - d
      /\ Amount(p[c]) = r[c] /\ Amount(q[c]) = r[c] + d
  BY <1>2, <1>3, <1>4 DEF Amount
<1> QED BY <1>1, <1>4, <1>5, <1>6, <1>7

\* One turn of the loop in do_balance_runtime().
LEMMA LendKeeps ==
  ASSUME RuntimeTypes, NEW c \in Cpu, NEW i \in Cpu, NEW r \in [Cpu -> Runtime],
         r[c] = RUNTIME_INF => \A j \in Cpu : r[j] = RUNTIME_INF
  PROVE  LET q == lend(r, c, i)
             S == span(runtime_rd[c])
         IN  /\ q \in [Cpu -> Runtime] /\ Shares(q, S) = Shares(r, S)
             /\ \A j \in Cpu : q[j] = RUNTIME_INF <=> r[j] = RUNTIME_INF
<1> DEFINE q == lend(r, c, i)
           S == span(runtime_rd[c])
           k == Cardinality(S)
           spare == (r[i] - rt_time[i]) \div k
           diff == IF r[c] + spare > Period THEN Period - r[c] ELSE spare
           skipped == \/ i = c \/ runtime_rd[i] # runtime_rd[c]
                      \/ r[i] = RUNTIME_INF \/ r[i] <= rt_time[i] \/ r[c] = Period
<1>1. q = IF skipped THEN r ELSE [r EXCEPT ![i] = @ - diff, ![c] = @ + diff]
  BY DEF lend
<1>2. CASE skipped
  BY <1>1, <1>2
<1>3. CASE ~skipped
  <2>1. c \in S /\ i \in S /\ c # i /\ S \subseteq Cpu /\ IsFiniteSet(S) /\ k \in Nat \ {0}
    BY <1>3, SpanFinite DEF span
  <2>2. r[i] # RUNTIME_INF /\ r[c] # RUNTIME_INF /\ r[i] \in Nat /\ r[c] \in Nat
    BY <1>3 DEF Runtime
  <2>3. rt_time[i] \in Nat /\ r[i] - rt_time[i] \in Nat /\ r[i] - rt_time[i] <= r[i]
    <3>1. rt_time[i] \in Nat
      BY RuntimeAssumption DEF RuntimeTypes
    <3> QED BY <1>3, <2>2, <3>1
  <2>4. spare \in Nat /\ spare <= r[i]
    <3>1. spare \in Nat /\ spare <= r[i] - rt_time[i]
      <4> HIDE DEF k
      <4> QED BY <2>1, <2>3, ShareType
    <3> HIDE DEF spare
    <3> QED BY <2>2, <2>3, <3>1
  <2> HIDE DEF spare, k
  <2>5. diff \in Int /\ r[c] + diff \in Nat /\ r[i] - diff \in Nat
    BY <2>2, <2>4, RuntimeAssumption
  <2>6. q = [r EXCEPT ![i] = @ - diff, ![c] = @ + diff]
    BY <1>1, <1>3
  <2> HIDE DEF diff, q, S, skipped
  <2>7. q \in [Cpu -> Runtime] /\ Shares(q, S) = Shares(r, S)
    <3>1. /\ r \in [Cpu -> Runtime] /\ S \subseteq Cpu /\ IsFiniteSet(S) /\ c \in S /\ i \in S
          /\ c # i /\ r[c] # RUNTIME_INF /\ r[i] # RUNTIME_INF /\ diff \in Int
          /\ r[c] + diff \in Nat /\ r[i] - diff \in Nat
      BY <2>1, <2>2, <2>5
    <3>2. /\ q \in [Cpu -> Runtime] /\ q[i] = r[i] - diff /\ q[c] = r[c] + diff
          /\ \A y \in Cpu \ {i, c} : q[y] = r[y]
      BY <2>6, <3>1 DEF Runtime
    <3>3. Shares(q, S) = Shares(r, S)
      BY ONLY <3>1, <3>2, OwnMoves
    <3> QED BY <3>2, <3>3
  <2>8. \A j \in Cpu : q[j] = RUNTIME_INF <=> r[j] = RUNTIME_INF
    BY <2>1, <2>2, <2>5, <2>6 DEF RUNTIME_INF
  <2> QED BY <2>7, <2>8 DEF q, S
<1> QED BY <1>2, <1>3

\* Borrowing as a whole.
LEMMA BalanceKeeps ==
  ASSUME RuntimeInv, NEW c \in Cpu, balancing[c] # "no"
  PROVE  LET q == do_balance_runtime(c)
             S == span(runtime_rd[c])
         IN  /\ q \in [Cpu -> Runtime] /\ Shares(q, S) = Shares(rt_runtime, S)
             /\ \A j \in Cpu : q[j] = RUNTIME_INF <=> rt_runtime[j] = RUNTIME_INF
<1> DEFINE S == span(runtime_rd[c])
           V == {r \in [Cpu -> Runtime] :
                   /\ Shares(r, S) = Shares(rt_runtime, S)
                   /\ \A j \in Cpu : r[j] = RUNTIME_INF <=> rt_runtime[j] = RUNTIME_INF}
           step == [x \in V \X (1..NrCpus) |-> lend(x[1], c, x[2])]
           Loop(f) == f = [i \in 0..NrCpus |-> IF i = 0 THEN rt_runtime ELSE lend(f[i - 1], c, i)]
           h == CHOOSE f : Loop(f)
<1>1. rt_runtime \in V
  BY DEF RuntimeInv, RuntimeTypes, Runtime
<1>2. rt_runtime[c] = RUNTIME_INF => \A j \in Cpu : rt_runtime[j] = RUNTIME_INF
  BY DEF RuntimeInv, LimitForAll
<1>3. ASSUME NEW r \in V, NEW i \in 1..NrCpus PROVE lend(r, c, i) \in V
  <2>1. r \in [Cpu -> Runtime] /\ i \in Cpu /\ (r[c] = RUNTIME_INF => \A j \in Cpu : r[j] = RUNTIME_INF)
    BY <1>2, <1>3 DEF Cpu
  <2>2. /\ lend(r, c, i) \in [Cpu -> Runtime] /\ Shares(lend(r, c, i), S) = Shares(r, S)
        /\ \A j \in Cpu : lend(r, c, i)[j] = RUNTIME_INF <=> r[j] = RUNTIME_INF
    BY <2>1, LendKeeps DEF RuntimeInv
  <2> QED BY <1>3, <2>2
<1> HIDE DEF V
<1>4. step \in [V \X (1..NrCpus) -> V]
  BY <1>3
<1>5. \E f : Loop(f)
  <2>1. PICK a \in [0..NrCpus -> V] :
                /\ a[0] = rt_runtime
                /\ \A i \in 1..NrCpus : a[i] = step[<<a[i - 1], i>>]
    <3> DEFINE first == rt_runtime
    <3>1. NrCpus \in Nat /\ first \in V /\ step \in [V \X (1..NrCpus) -> V]
      BY <1>1, <1>4, CpusAssumption
    <3> HIDE DEF step, first
    <3>2. \E a \in [0..NrCpus -> V] : Runs(a, NrCpus, first, step)
      BY ONLY <3>1, LoopEnds
    <3> QED BY <3>2 DEF first, Runs
  <2>2. ASSUME NEW i \in 1..NrCpus PROVE a[i] = lend(a[i - 1], c, i)
    <3>1. i - 1 \in 0..NrCpus
      BY CpusAssumption
    <3>2. <<a[i - 1], i>> \in V \X (1..NrCpus)
      BY <2>1, <3>1
    <3> QED BY <2>1, <3>2
  <2>3. \A i \in 0..NrCpus : a[i] = IF i = 0 THEN rt_runtime ELSE lend(a[i - 1], c, i)
    BY <2>1, <2>2, CpusAssumption
  <2>4. a = [i \in 0..NrCpus |-> IF i = 0 THEN rt_runtime ELSE lend(a[i - 1], c, i)]
    BY <2>1, <2>3
  <2> QED BY <2>4
<1>6. Loop(h)
  <2> HIDE DEF Loop
  <2> QED BY <1>5
<1>7. do_balance_runtime(c) = h[NrCpus]
  BY DEF do_balance_runtime
<1> HIDE DEF h
<1>8. h[0] = rt_runtime /\ \A i \in 1..NrCpus : h[i] = lend(h[i - 1], c, i)
  BY <1>6, CpusAssumption
<1>9. h[NrCpus] \in V
  <2>1. \A i \in 1..NrCpus : h[i - 1] \in V => h[i] \in V
    BY <1>3, <1>8
  <2> QED BY <1>1, <1>8, <2>1, CpusAssumption, LoopKeeps
<1> QED BY <1>7, <1>9 DEF V

\* One turn of the greedy loop in __disable_runtime(): what is taken from i is
\* wanted less.
LEMMA ReclaimKeeps ==
  ASSUME NEW c \in Cpu, NEW i \in Cpu, NEW r \in [Cpu -> Runtime], NEW n \in Int,
         NEW s, s = [r |-> r, want |-> n], NEW S, S = span(runtime_rd[c]) \ {c}
  PROVE  LET e == reclaim(s, c, i)
         IN  /\ e = [r |-> e.r, want |-> e.want]
             /\ e.r \in [Cpu -> Runtime] /\ e.want \in Int
             /\ Shares(e.r, S) - e.want = Shares(r, S) - n
             /\ \A j \in Cpu : e.r[j] = RUNTIME_INF <=> r[j] = RUNTIME_INF
             /\ e.r[c] = r[c]
<1> DEFINE e == reclaim(s, c, i)
           taken == IF n > 0 /\ r[i] < n THEN r[i] ELSE n
           skipped == i = c \/ runtime_rd[i] # runtime_rd[c] \/ r[i] = RUNTIME_INF \/ n = 0
           q == [r EXCEPT ![i] = r[i] - taken]
<1>1. s.r = r /\ s.want = n
  OBVIOUS
<1>2. CASE skipped
  <2>1. e = s
    BY <1>1, <1>2 DEF reclaim
  <2> QED BY <1>1, <2>1
<1>3. CASE ~skipped
  <2>1. e = [r |-> q, want |-> n - taken]
    BY <1>1, <1>3 DEF reclaim
  <2>2. i \in S /\ S \subseteq Cpu /\ IsFiniteSet(S) /\ r[i] \in Nat /\ r[i] # RUNTIME_INF /\ i # c
    <3>1. IsFiniteSet(span(runtime_rd[c])) /\ span(runtime_rd[c]) \subseteq Cpu
      BY SpanFinite
    <3>2. IsFiniteSet(S)
      BY <3>1, FS_Subset
    <3> QED BY <1>3, <3>1, <3>2 DEF span, Runtime
  <2>3. taken \in Int /\ r[i] - taken \in Nat
    BY <2>2
  <2>4. r[i] - taken \in Runtime /\ r[i] - taken # RUNTIME_INF
    BY <2>3 DEF Runtime, RUNTIME_INF
  <2> HIDE DEF taken
  <2>5. q \in [Cpu -> Runtime] /\ Shares(r, S) \in Int /\ Shares(q, S) = Shares(r, S) - r[i] + (r[i] - taken)
    <3>1. /\ q \in [Cpu -> Runtime] /\ q[i] = r[i] - taken
          /\ \A y \in S \ {i} : q[y] = r[y]
      BY <2>2, <2>4
    <3> HIDE DEF q
    <3>2. Shares(r, S) \in Int /\ Shares(q, S) = Shares(r, S) - Amount(r[i]) + Amount(q[i])
      BY <2>2, <3>1, OwnChanges
    <3>3. Amount(r[i]) = r[i] /\ Amount(q[i]) = r[i] - taken
      BY <2>2, <2>4, <3>1 DEF Amount
    <3> QED BY <3>1, <3>2, <3>3
  <2>6. (\A j \in Cpu : q[j] = RUNTIME_INF <=> r[j] = RUNTIME_INF) /\ q[c] = r[c]
    BY <2>2, <2>4
  <2> HIDE DEF q, e
  <2>7. Shares(q, S) - (n - taken) = Shares(r, S) - n
    BY <2>2, <2>3, <2>5
  <2>8. e.r = q /\ e.want = n - taken
    BY <2>1
  <2> QED BY <2>1, <2>3, <2>5, <2>6, <2>7, <2>8 DEF e
<1> QED BY <1>2, <1>3

\* A run queue that goes offline takes its limit out of the domain, less what it
\* is left wanting.
LEMMA DisableTakes ==
  ASSUME RuntimeInv, NEW c \in Cpu
  PROVE  LET e == disable_runtime(c)
             S == span(runtime_rd[c])
         IN  /\ e.r \in [Cpu -> Runtime] /\ e.want \in Int /\ e.r[c] = RUNTIME_INF
             /\ \A j \in Cpu \ {c} : e.r[j] = RUNTIME_INF <=> rt_runtime[j] = RUNTIME_INF
             /\ rt_runtime[c] # RUNTIME_INF =>
                  Shares(e.r, S) = Shares(rt_runtime, S) - rt_limit + e.want
<1> DEFINE S == span(runtime_rd[c])
           T == S \ {c}
           n == IF rt_runtime[c] = RUNTIME_INF \/ rt_limit = RUNTIME_INF THEN 0
                ELSE rt_limit - rt_runtime[c]
           start == [r |-> rt_runtime, want |-> n]
           V == {s \in [r : [Cpu -> Runtime], want : Int] :
                   /\ Shares(s.r, T) - s.want = Shares(rt_runtime, T) - n
                   /\ \A j \in Cpu : s.r[j] = RUNTIME_INF <=> rt_runtime[j] = RUNTIME_INF
                   /\ s.r[c] = rt_runtime[c]}
           step == [x \in V \X (1..NrCpus) |-> reclaim(x[1], c, x[2])]
           Loop(f) == f = [i \in 0..NrCpus |-> IF i = 0 THEN start ELSE reclaim(f[i - 1], c, i)]
           h == CHOOSE f : Loop(f)
           end == h[NrCpus]
<1>0. /\ rt_runtime \in [Cpu -> Runtime] /\ rt_limit \in Runtime
      /\ rt_limit = RUNTIME_INF => \A i \in Cpu : rt_runtime[i] = RUNTIME_INF
  BY RuntimeAssumption DEF RuntimeInv, RuntimeTypes, LimitForAll, Runtime
<1>1. n \in Int
  BY <1>0 DEF Runtime, RUNTIME_INF
<1>2. /\ S \subseteq Cpu /\ IsFiniteSet(S) /\ c \in S
      /\ T \subseteq Cpu /\ IsFiniteSet(T)
  <2>1. S \subseteq Cpu /\ IsFiniteSet(S) /\ c \in S
    BY SpanFinite DEF span
  <2> QED BY <2>1, FS_Subset
<1>3. start \in V
  BY <1>0, <1>1
<1>4. ASSUME NEW s \in V, NEW i \in 1..NrCpus PROVE reclaim(s, c, i) \in V
  <2> DEFINE e == reclaim(s, c, i)
  <2>1. i \in Cpu /\ s.r \in [Cpu -> Runtime] /\ s.want \in Int /\ s = [r |-> s.r, want |-> s.want]
    BY <1>4 DEF Cpu
  <2> HIDE DEF n
  <2>2. /\ e = [r |-> e.r, want |-> e.want]
        /\ e.r \in [Cpu -> Runtime] /\ e.want \in Int
        /\ Shares(e.r, T) - e.want = Shares(s.r, T) - s.want
        /\ \A j \in Cpu : e.r[j] = RUNTIME_INF <=> s.r[j] = RUNTIME_INF
        /\ e.r[c] = s.r[c]
    BY <2>1, ReclaimKeeps
  <2> HIDE DEF e
  <2>3. e \in [r : [Cpu -> Runtime], want : Int]
    BY <2>2
  <2>4. e \in V
    BY <1>4, <2>2, <2>3
  <2> QED BY <2>4 DEF e
<1> HIDE DEF V, start
<1>5. step \in [V \X (1..NrCpus) -> V]
  BY <1>4
<1>6. \E f : Loop(f)
  <2>1. PICK a \in [0..NrCpus -> V] :
                /\ a[0] = start
                /\ \A i \in 1..NrCpus : a[i] = step[<<a[i - 1], i>>]
    <3> DEFINE first == start
    <3>1. NrCpus \in Nat /\ first \in V /\ step \in [V \X (1..NrCpus) -> V]
      BY <1>3, <1>5, CpusAssumption
    <3> HIDE DEF step, first
    <3>2. \E a \in [0..NrCpus -> V] : Runs(a, NrCpus, first, step)
      BY ONLY <3>1, LoopEnds
    <3> QED BY <3>2 DEF first, Runs
  <2>2. ASSUME NEW i \in 1..NrCpus PROVE a[i] = reclaim(a[i - 1], c, i)
    <3>1. i - 1 \in 0..NrCpus
      BY CpusAssumption
    <3>2. <<a[i - 1], i>> \in V \X (1..NrCpus)
      BY <2>1, <3>1
    <3> QED BY <2>1, <3>2
  <2>3. \A i \in 0..NrCpus : a[i] = IF i = 0 THEN start ELSE reclaim(a[i - 1], c, i)
    BY <2>1, <2>2, CpusAssumption
  <2>4. a = [i \in 0..NrCpus |-> IF i = 0 THEN start ELSE reclaim(a[i - 1], c, i)]
    BY <2>1, <2>3
  <2> QED BY <2>4
<1>7. Loop(h)
  <2> HIDE DEF Loop
  <2> QED BY <1>6
<1>8. disable_runtime(c) = [end EXCEPT !.r[c] = RUNTIME_INF]
  BY DEF disable_runtime, start
<1> HIDE DEF h
<1>9. h[0] = start /\ \A i \in 1..NrCpus : h[i] = reclaim(h[i - 1], c, i)
  BY <1>7, CpusAssumption
<1>10. end \in V
  <2>1. \A i \in 1..NrCpus : h[i - 1] \in V => h[i] \in V
    BY <1>4, <1>9
  <2> QED BY <1>3, <1>9, <2>1, CpusAssumption, LoopKeeps
<1> HIDE DEF end
<1>11. /\ end.r \in [Cpu -> Runtime] /\ end.want \in Int
       /\ end = [r |-> end.r, want |-> end.want]
       /\ Shares(end.r, T) - end.want = Shares(rt_runtime, T) - n
       /\ \A j \in Cpu : end.r[j] = RUNTIME_INF <=> rt_runtime[j] = RUNTIME_INF
       /\ end.r[c] = rt_runtime[c]
  BY <1>10 DEF V
<1> DEFINE q == [end.r EXCEPT ![c] = RUNTIME_INF]
<1>12. disable_runtime(c).r = q /\ disable_runtime(c).want = end.want
  BY <1>8, <1>11
<1>13. q \in [Cpu -> Runtime] /\ q[c] = RUNTIME_INF /\ \A j \in Cpu \ {c} : q[j] = end.r[j]
  BY <1>11 DEF Runtime
<1>14. ASSUME rt_runtime[c] # RUNTIME_INF
       PROVE  Shares(q, S) = Shares(rt_runtime, S) - rt_limit + end.want
  <2>1. n = rt_limit - rt_runtime[c] /\ rt_limit \in Nat /\ rt_runtime[c] \in Nat
    BY <1>0, <1>14 DEF Runtime
  <2>2. Shares(q, S) = Shares(q, T) /\ Shares(q, T) = Shares(end.r, T) /\ Shares(end.r, T) \in Int
    <3> DEFINE e == end.r
    <3>1. /\ e \in [Cpu -> Runtime] /\ q \in [Cpu -> Runtime] /\ S \subseteq Cpu
          /\ IsFiniteSet(S) /\ c \in S /\ \A j \in T : q[j] = e[j]
      BY <1>2, <1>11, <1>13
    <3>2. Amount(q[c]) = 0
      BY <1>13 DEF Amount
    <3>3. T \subseteq Cpu /\ IsFiniteSet(T)
      BY <3>1, FS_Subset
    <3> HIDE DEF q, e, S
    <3>4. /\ Shares(q, T) \in Int /\ Amount(q[c]) \in Int /\ Shares(q, S) = Shares(q, T) + Amount(q[c])
      BY <3>1, SharesOf
    <3> HIDE DEF T
    <3>5. Shares(q, T) = Shares(e, T)
      BY ONLY <3>1, <3>3, SharesSame
    <3> QED BY <3>2, <3>4, <3>5 DEF e
  <2>3. /\ Shares(rt_runtime, S) = Shares(rt_runtime, T) + rt_runtime[c]
        /\ Shares(rt_runtime, T) \in Int
    BY <1>0, <1>2, <1>14, SharesOf DEF Amount
  <2> HIDE DEF n, q, T, S
  <2> QED BY <1>11, <2>1, <2>2, <2>3
<1> QED BY <1>11, <1>12, <1>13, <1>14

-----------------------------------------------------------------------------
LEMMA RuntimeInitial == RuntimeInit => RuntimeInv
BY RuntimeAssumption DEF RuntimeInit, RuntimeInv, RuntimeTypes, LimitForAll, RUNTIME_INF

\* What a step has to keep when runtimes are lent, reclaimed or given: who has no
\* limit stays so, or is not borrowing.
LEMMA RuntimesKeep ==
  ASSUME RuntimeInv, rt_limit' = rt_limit, NEW c \in Cpu,
         rt_runtime' \in [Cpu -> Runtime],
         \A j \in Cpu \ {c} : rt_runtime'[j] = RUNTIME_INF <=> rt_runtime[j] = RUNTIME_INF,
         \/ rt_runtime'[c] = RUNTIME_INF <=> rt_runtime[c] = RUNTIME_INF
         \/ rt_runtime'[c] = rt_limit
         \/ rt_runtime'[c] = RUNTIME_INF /\ balancing'[c] = "no",
         \A j \in Cpu : balancing'[j] = balancing[j] \/ balancing'[j] = "no"
  PROVE  LimitForAll'
BY DEF RuntimeInv, LimitForAll

\* Paying back leaves a time that is not negative.
LEMMA PayBackType ==
  ASSUME RuntimeInv, NEW c \in Cpu, NEW r \in [Cpu -> Runtime], pay_back(c, r)
  PROVE  rt_time' \in [Cpu -> 0..MaxRtTime] /\ rt_throttled' \in [Cpu -> BOOLEAN]
<1> DEFINE paid == IF r[c] = RUNTIME_INF \/ rt_time[c] < r[c] THEN rt_time[c] ELSE r[c]
           left == rt_time[c] - paid
<1>1. rt_time \in [Cpu -> 0..MaxRtTime] /\ rt_throttled \in [Cpu -> BOOLEAN]
  BY DEF RuntimeInv, RuntimeTypes
<1>2. left \in 0..MaxRtTime
  <2>1. rt_time[c] \in 0..MaxRtTime /\ r[c] \in Runtime
    BY <1>1
  <2> QED BY <2>1, RuntimeAssumption DEF Runtime
<1>3. /\ rt_time' = [rt_time EXCEPT ![c] = left]
      /\ rt_throttled' = [rt_throttled EXCEPT
                            ![c] = rt_throttled[c] /\ ~(r[c] = RUNTIME_INF \/ left < r[c])]
  BY DEF pay_back
<1> HIDE DEF left
<1> QED BY <1>1, <1>2, <1>3

LEMMA StepUpdateCurrRt ==
  ASSUME RuntimeInv, NEW c \in Cpu, UpdateCurrRt(c)
  PROVE  RuntimeInv'
<1>1. /\ rt_runtime \in [Cpu -> Runtime] /\ rt_time \in [Cpu -> 0..MaxRtTime]
      /\ balancing \in [Cpu -> {"no", "tick", "timer"}]
  BY DEF RuntimeInv, RuntimeTypes, Runtime
<1>2. rt_time[c] + 1 \in 0..MaxRtTime
  <2>1. rt_time[c] \in 0..MaxRtTime /\ rt_time[c] < MaxRtTime
    BY <1>1 DEF UpdateCurrRt
  <2> QED BY <2>1, RuntimeAssumption
<1>3. rt_time' \in [Cpu -> 0..MaxRtTime]
  BY <1>1, <1>2 DEF UpdateCurrRt
<1>4. /\ balancing' \in [Cpu -> {"no", "tick", "timer"}]
      /\ \A j \in Cpu : balancing'[j] = balancing[j] \/ (j = c /\ rt_runtime[c] # RUNTIME_INF)
  BY <1>1 DEF UpdateCurrRt
<1>5. UNCHANGED <<rt_limit, rt_runtime, rt_throttled, runtime_rd, rq_online, active, want>>
  BY DEF UpdateCurrRt
<1> QED BY <1>3, <1>4, <1>5 DEF RuntimeInv, RuntimeTypes, LimitForAll

LEMMA StepPeriodTimer ==
  ASSUME RuntimeInv, NEW c \in Cpu, PeriodTimer(c)
  PROVE  RuntimeInv'
<1>1. rt_runtime \in [Cpu -> Runtime] /\ balancing \in [Cpu -> {"no", "tick", "timer"}]
  BY DEF RuntimeInv, RuntimeTypes, Runtime
<1>2. rt_time' \in [Cpu -> 0..MaxRtTime] /\ rt_throttled' \in [Cpu -> BOOLEAN]
  BY <1>1, PayBackType DEF PeriodTimer, RuntimeInv, RuntimeTypes
<1>3. /\ balancing' \in [Cpu -> {"no", "tick", "timer"}]
      /\ \A j \in Cpu : balancing'[j] = balancing[j] \/ (j = c /\ rt_runtime[c] # RUNTIME_INF)
  BY <1>1 DEF PeriodTimer, exceeded
<1>4. UNCHANGED <<rt_limit, rt_runtime, runtime_rd, rq_online, active, want>>
  BY DEF PeriodTimer
<1> QED BY <1>2, <1>3, <1>4 DEF RuntimeInv, RuntimeTypes, LimitForAll

LEMMA StepBalance ==
  ASSUME RuntimeInv, NEW c \in Cpu, Balance(c)
  PROVE  RuntimeInv'
<1> DEFINE r == do_balance_runtime(c)
<1>1. balancing[c] # "no" /\ rt_runtime' = r
  BY DEF Balance
<1>2. r \in [Cpu -> Runtime] /\ \A j \in Cpu : r[j] = RUNTIME_INF <=> rt_runtime[j] = RUNTIME_INF
  BY <1>1, BalanceKeeps
<1>3. throttle(c, r, rt_time[c]) \/ pay_back(c, r)
  BY DEF Balance
<1> HIDE DEF r
<1>4. rt_time' \in [Cpu -> 0..MaxRtTime] /\ rt_throttled' \in [Cpu -> BOOLEAN]
  <2>1. /\ rt_time \in [Cpu -> 0..MaxRtTime] /\ rt_time[c] \in 0..MaxRtTime /\ 0 \in 0..MaxRtTime
        /\ rt_throttled \in [Cpu -> BOOLEAN]
    BY RuntimeAssumption DEF RuntimeInv, RuntimeTypes
  <2>2. CASE throttle(c, r, rt_time[c])
    BY <2>1, <2>2 DEF throttle
  <2>3. CASE pay_back(c, r)
    BY <1>2, <2>3, PayBackType
  <2> QED BY <1>3, <2>2, <2>3
<1>5. /\ balancing' = [balancing EXCEPT ![c] = "no"]
      /\ UNCHANGED <<rt_limit, runtime_rd, rq_online, active, want>>
  BY DEF Balance
<1>6. /\ balancing' \in [Cpu -> {"no", "tick", "timer"}]
      /\ \A j \in Cpu : balancing'[j] = balancing[j] \/ balancing'[j] = "no"
  BY <1>5 DEF RuntimeInv, RuntimeTypes
<1>7. LimitForAll'
  BY <1>1, <1>2, <1>5, <1>6, RuntimesKeep
<1>8. RuntimeTypes'
  BY <1>1, <1>2, <1>4, <1>5, <1>6 DEF RuntimeInv, RuntimeTypes, Runtime
<1> QED BY <1>7, <1>8 DEF RuntimeInv

LEMMA StepSetBandwidth ==
  ASSUME RuntimeInv, NEW runtime \in Limit, SetBandwidth(runtime)
  PROVE  RuntimeInv'
<1>1. /\ rt_limit' = runtime /\ rt_runtime' = [c \in Cpu |-> runtime]
      /\ UNCHANGED <<rt_time, rt_throttled, balancing, runtime_rd, rq_online, active, want>>
  BY DEF SetBandwidth
<1> QED BY <1>1, RuntimeAssumption DEF RuntimeInv, RuntimeTypes, LimitForAll

\* A run queue is given the limit, or its runtime is taken out, when its lock is
\* free.
LEMMA StepEnabled ==
  ASSUME RuntimeInv, NEW c \in Cpu, lock(c),
         UNCHANGED <<rt_limit, balancing>>,
         \/ enable_runtime(c) /\ want' = want
         \/ take_out(c)
         \/ keep_runtime /\ want' = want
         \/ /\ want' = disable_runtime(c).want
            /\ rt_runtime' = [disable_runtime(c).r EXCEPT ![c] = rt_limit]
            /\ rt_time' = [rt_time EXCEPT ![c] = 0]
            /\ rt_throttled' = [rt_throttled EXCEPT ![c] = FALSE],
         runtime_rd' \in [Cpu -> Domain], rq_online' \in [Cpu -> BOOLEAN], active' \subseteq Cpu
  PROVE  RuntimeInv'
<1> DEFINE e == disable_runtime(c)
<1>0. /\ rt_runtime \in [Cpu -> Runtime] /\ rt_limit \in Runtime
      /\ rt_time \in [Cpu -> 0..MaxRtTime] /\ 0 \in 0..MaxRtTime
      /\ rt_throttled \in [Cpu -> BOOLEAN] /\ want \in Int
  BY RuntimeAssumption DEF RuntimeInv, RuntimeTypes, Runtime
<1>1. /\ e.r \in [Cpu -> Runtime] /\ e.want \in Int /\ e.r[c] = RUNTIME_INF
      /\ \A j \in Cpu \ {c} : e.r[j] = RUNTIME_INF <=> rt_runtime[j] = RUNTIME_INF
  BY DisableTakes
<1>2. /\ rt_runtime' \in [Cpu -> Runtime] /\ want' \in Int
      /\ rt_time' \in [Cpu -> 0..MaxRtTime] /\ rt_throttled' \in [Cpu -> BOOLEAN]
      /\ \A j \in Cpu \ {c} : rt_runtime'[j] = RUNTIME_INF <=> rt_runtime[j] = RUNTIME_INF
      /\ \/ rt_runtime'[c] = rt_runtime[c]
         \/ rt_runtime'[c] = rt_limit
         \/ rt_runtime'[c] = RUNTIME_INF
  <2> HIDE DEF e
  <2>1. CASE enable_runtime(c) /\ want' = want
    BY <1>0, <2>1 DEF enable_runtime
  <2>2. CASE take_out(c)
    <3>1. rt_runtime' = e.r /\ want' = e.want /\ UNCHANGED <<rt_time, rt_throttled>>
      BY <2>2 DEF take_out, e
    <3> QED BY <1>0, <1>1, <3>1
  <2>3. CASE keep_runtime /\ want' = want
    BY <1>0, <2>3 DEF keep_runtime
  <2>4. CASE /\ want' = disable_runtime(c).want
             /\ rt_runtime' = [disable_runtime(c).r EXCEPT ![c] = rt_limit]
             /\ rt_time' = [rt_time EXCEPT ![c] = 0]
             /\ rt_throttled' = [rt_throttled EXCEPT ![c] = FALSE]
    <3>1. rt_runtime' = [e.r EXCEPT ![c] = rt_limit] /\ want' = e.want
      BY <2>4 DEF e
    <3>2. rt_time' \in [Cpu -> 0..MaxRtTime] /\ rt_throttled' \in [Cpu -> BOOLEAN]
      BY <1>0, <2>4
    <3>3. /\ rt_runtime' \in [Cpu -> Runtime] /\ rt_runtime'[c] = rt_limit
          /\ \A j \in Cpu \ {c} : rt_runtime'[j] = e.r[j]
      BY <1>0, <1>1, <3>1
    <3> QED BY <1>1, <3>1, <3>2, <3>3
  <2> QED BY <2>1, <2>2, <2>3, <2>4
<1>3. balancing[c] = "no" /\ balancing' = balancing /\ rt_limit' = rt_limit
  BY DEF lock
<1>4. LimitForAll'
  BY <1>2, <1>3, RuntimesKeep
<1>5. RuntimeTypes'
  BY <1>2, <1>3 DEF RuntimeInv, RuntimeTypes, Runtime
<1> QED BY <1>4, <1>5 DEF RuntimeInv

\* A step that leaves runtimes and time as they are.
LEMMA StepKept ==
  ASSUME RuntimeInv, UNCHANGED <<rt_limit, rt_runtime, rt_time, rt_throttled, balancing, want>>,
         runtime_rd' \in [Cpu -> Domain], rq_online' \in [Cpu -> BOOLEAN], active' \subseteq Cpu
  PROVE  RuntimeInv'
BY DEF RuntimeInv, RuntimeTypes, LimitForAll

LEMMA StepDomain ==
  ASSUME RuntimeInv, NEW c \in Cpu,
         Detach(c) \/ \E d \in Domain : Reattach(c, d) \/ Attach(c, d)
  PROVE  RuntimeInv'
<1>1. /\ runtime_rd \in [Cpu -> Domain] /\ rq_online \in [Cpu -> BOOLEAN] /\ active \subseteq Cpu
  BY DEF RuntimeInv, RuntimeTypes
<1>2. CASE Detach(c)
  <2>1. runtime_rd' \in [Cpu -> Domain] /\ rq_online' \in [Cpu -> BOOLEAN] /\ active' \subseteq Cpu
    BY <1>1, <1>2, RuntimeAssumption DEF Detach
  <2>2. /\ lock(c) /\ UNCHANGED <<rt_limit, balancing>>
        /\ take_out(c) \/ (keep_runtime /\ want' = want)
    BY <1>2 DEF Detach
  <2> QED BY <2>1, <2>2, StepEnabled
<1>3. ASSUME NEW d \in Domain, Reattach(c, d) PROVE RuntimeInv'
  <2>1. runtime_rd' \in [Cpu -> Domain] /\ rq_online' \in [Cpu -> BOOLEAN] /\ active' \subseteq Cpu
    BY <1>1, <1>3 DEF Reattach
  <2>2. /\ lock(c) /\ UNCHANGED <<rt_limit, balancing>>
        /\ want' = disable_runtime(c).want
        /\ rt_runtime' = [disable_runtime(c).r EXCEPT ![c] = rt_limit]
        /\ rt_time' = [rt_time EXCEPT ![c] = 0]
        /\ rt_throttled' = [rt_throttled EXCEPT ![c] = FALSE]
    BY <1>3 DEF Reattach
  <2> QED BY <2>1, <2>2, StepEnabled
<1>4. ASSUME NEW d \in Domain, Attach(c, d) PROVE RuntimeInv'
  <2>1. runtime_rd' \in [Cpu -> Domain] /\ rq_online' \in [Cpu -> BOOLEAN] /\ active' \subseteq Cpu
    BY <1>1, <1>4 DEF Attach
  <2>2. lock(c) /\ UNCHANGED <<rt_limit, balancing, want>> /\ enable_runtime(c)
    BY <1>4 DEF Attach
  <2> QED BY <2>1, <2>2, StepEnabled
<1> QED BY <1>2, <1>3, <1>4

LEMMA StepHotplug ==
  ASSUME RuntimeInv, NEW c \in Cpu,
         \/ DownPrepare(c) \/ SchedCpuInactive(c) \/ DownFailed(c) \/ Dying(c)
         \/ Starting(c) \/ Online(c) \/ UpdateRuntime(c)
  PROVE  RuntimeInv'
<1>1. runtime_rd \in [Cpu -> Domain] /\ rq_online \in [Cpu -> BOOLEAN] /\ active \subseteq Cpu
  BY DEF RuntimeInv, RuntimeTypes
<1>2. CASE DownPrepare(c)
  BY <1>1, <1>2, StepEnabled DEF DownPrepare
<1>3. CASE SchedCpuInactive(c) \/ DownFailed(c) \/ Starting(c)
  <2>1. active' \subseteq Cpu /\ UNCHANGED <<rt_limit, balancing, runtime_rd, rq_online, want>> /\ keep_runtime
    BY <1>1, <1>3 DEF SchedCpuInactive, DownFailed, Starting
  <2> QED BY <1>1, <2>1, StepKept DEF keep_runtime
<1>4. CASE Dying(c)
  <2>1. /\ rq_online' \in [Cpu -> BOOLEAN] /\ UNCHANGED <<rt_limit, balancing, runtime_rd, active>> /\ lock(c)
        /\ take_out(c) \/ (keep_runtime /\ want' = want)
    BY <1>1, <1>4 DEF Dying
  <2> QED BY <1>1, <2>1, StepEnabled
<1>5. CASE Online(c)
  <2>1. /\ rq_online' \in [Cpu -> BOOLEAN] /\ UNCHANGED <<rt_limit, balancing, runtime_rd, active, want>>
        /\ lock(c) /\ (enable_runtime(c) \/ keep_runtime)
    BY <1>1, <1>5 DEF Online
  <2>2. lock(c)
    BY <1>5 DEF Online
  <2> QED BY <1>1, <2>1, <2>2, StepEnabled
<1>6. CASE UpdateRuntime(c)
  <2>1. /\ UNCHANGED <<rt_limit, balancing, runtime_rd, rq_online, active, want>>
        /\ lock(c) /\ enable_runtime(c)
    BY <1>6 DEF UpdateRuntime
  <2> QED BY <1>1, <2>1, StepEnabled
<1> QED BY <1>2, <1>3, <1>4, <1>5, <1>6

LEMMA RuntimeStep == RuntimeInv /\ [RuntimeNext]_rt_vars => RuntimeInv'
<1> SUFFICES ASSUME RuntimeInv, [RuntimeNext]_rt_vars PROVE RuntimeInv'
  OBVIOUS
<1>1. CASE UNCHANGED rt_vars
  BY <1>1, StepKept DEF rt_vars, RuntimeInv, RuntimeTypes
<1>2. CASE Bug
  BY <1>1, <1>2 DEF Bug
<1>3. CASE \E runtime \in Limit : SetBandwidth(runtime)
  BY <1>3, StepSetBandwidth
<1>4. ASSUME NEW c \in Cpu, UpdateCurrRt(c) \/ PeriodTimer(c) \/ Balance(c) PROVE RuntimeInv'
  BY <1>4, StepUpdateCurrRt, StepPeriodTimer, StepBalance
<1>5. ASSUME NEW c \in Cpu, Detach(c) \/ \E d \in Domain : Reattach(c, d) \/ Attach(c, d)
      PROVE  RuntimeInv'
  BY <1>5, StepDomain
<1>6. ASSUME NEW c \in Cpu,
             \/ DownPrepare(c) \/ SchedCpuInactive(c) \/ DownFailed(c) \/ Dying(c)
             \/ Starting(c) \/ Online(c) \/ UpdateRuntime(c)
      PROVE  RuntimeInv'
  BY <1>6, StepHotplug
<1> QED BY <1>1, <1>2, <1>3, <1>4, <1>5, <1>6 DEF RuntimeNext

LEMMA RuntimeConserves ==
  ASSUME RuntimeInv, NEW c \in Cpu
  PROVE  Conserves(c)
<1> DEFINE S == span(runtime_rd[c])
<1>1. owned(S) = Shares(rt_runtime, S)
  BY DEF owned, Shares
<1>2. ASSUME UNCHANGED runtime_rd PROVE owned(S)' = Shares(rt_runtime', S)
  <2>1. S' = S
    BY <1>2 DEF span
  <2> QED BY <2>1 DEF owned, Shares
<1>3. ASSUME Balance(c) PROVE owned(S)' = owned(S)
  <2>1. balancing[c] # "no" /\ rt_runtime' = do_balance_runtime(c) /\ UNCHANGED runtime_rd
    BY <1>3 DEF Balance
  <2>2. Shares(do_balance_runtime(c), S) = Shares(rt_runtime, S)
    BY <2>1, BalanceKeeps
  <2> QED BY <1>1, <1>2, <2>1, <2>2
<1>4. ASSUME DownPrepare(c), rt_runtime[c] # RUNTIME_INF
      PROVE  owned(S)' = owned(S) - rt_limit + want'
  <2>1. /\ rt_runtime' = disable_runtime(c).r /\ want' = disable_runtime(c).want
        /\ UNCHANGED runtime_rd
    BY <1>4 DEF DownPrepare, take_out
  <2>2. Shares(disable_runtime(c).r, S)
          = Shares(rt_runtime, S) - rt_limit + disable_runtime(c).want
    BY <1>4, DisableTakes
  <2> QED BY <1>1, <1>2, <2>1, <2>2
<1> QED BY <1>3, <1>4 DEF Conserves

\* Whoever borrows, is given a new limit, goes offline or changes its domain in
\* whatever order, on any number of CPUs: borrowing moves runtime and makes none,
\* and no runtime or time is ever negative.
THEOREM RuntimeCorrect == RuntimeSpec => RuntimeConserved
<1>1. RuntimeSpec => []RuntimeInv
  BY RuntimeInitial, RuntimeStep, PTL DEF RuntimeSpec
<1>2. RuntimeInv => RuntimeTypes
  BY DEF RuntimeInv
<1>3. RuntimeInv => \A c \in Cpu : Conserves(c)
  BY RuntimeConserves
<1>4. RuntimeInv => [\A c \in Cpu : Conserves(c)]_rt_vars
  BY <1>3
<1> QED BY <1>1, <1>2, <1>4, PTL DEF RuntimeConserved
=============================================================================
