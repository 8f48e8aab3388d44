------------------------- MODULE RtBandwidthProofs --------------------------
(***************************************************************************)
(* Proofs about the hierarchy of RT run queues (RtBandwidth), for any tree *)
(* of groups and any tasks: its queues and counters agree with what is     *)
(* below them, and the pick is a highest task that may run.                *)
(***************************************************************************)
EXTENDS RtBandwidth, DataProofs

-----------------------------------------------------------------------------
(* The tree *)

\* What holds of Root, and of a group when it holds of its parent, holds of
\* every group.
LEMMA TreeInduction ==
  ASSUME NEW P, Root \in P, \A g \in Group \ {Root} : Parent[g] \in P => g \in P
  PROVE  Group \subseteq P
<1> DEFINE S == Group \ P
<1> SUFFICES ASSUME S # {} PROVE FALSE
  OBVIOUS
<1>1. PICK g \in S : Parent[g] \notin S
  <2>1. S \in SUBSET (Group \ {Root}) /\ S # {}
    OBVIOUS
  <2> HIDE DEF S
  <2> QED BY <2>1, GroupsAssumption
<1>2. g \in Group \ {Root} /\ Parent[g] \in Group
  BY GroupsAssumption
<1> QED BY <1>1, <1>2

\* The recursion of ancestors for one group.
AncestorsStep(f, g) == IF g = Root THEN << >> ELSE <<g>> \o f[Parent[g]]

\* f solves it for a set of groups that has their parents.
Solves(f, A) ==
  /\ A \subseteq Group
  /\ \A g \in A : f[g] = AncestorsStep(f, g) /\ (g # Root => Parent[g] \in A)

LEMMA SolutionsExist ==
  ASSUME NEW g \in Group
  PROVE  \E A : \E f : g \in A /\ Solves(f, A)
<1> DEFINE P == {h \in Group : \E A : \E f : h \in A /\ Solves(f, A)}
<1>1. Root \in P
  <2> DEFINE f == [h \in Group |-> << >>]
  <2>1. Root \in {Root} /\ Solves(f, {Root})
    BY GroupsAssumption DEF Solves, AncestorsStep
  <2> HIDE DEF f
  <2> QED BY <2>1, GroupsAssumption
<1>2. ASSUME NEW h \in Group \ {Root}, Parent[h] \in P PROVE h \in P
  <2>1. PICK A, f : Parent[h] \in A /\ Solves(f, A)
    BY <1>2
  <2>2. CASE h \in A
    BY <2>1, <2>2
  <2>3. CASE h \notin A
    <3> DEFINE B == A \cup {h}
               e == [x \in Group |-> IF x = h THEN <<h>> \o f[Parent[h]] ELSE f[x]]
    <3>1. /\ e[h] = <<h>> \o f[Parent[h]] /\ \A x \in A : e[x] = f[x]
          /\ A \subseteq Group /\ \A x \in A \ {Root} : Parent[x] \in A
      BY <2>1, <2>3 DEF Solves
    <3> HIDE DEF e
    <3>2. \A x \in A : e[x] = AncestorsStep(e, x)
      BY <2>1, <3>1 DEF Solves, AncestorsStep
    <3>3. e[h] = AncestorsStep(e, h)
      BY <2>1, <3>1 DEF AncestorsStep
    <3>4. Solves(e, B)
      BY <2>1, <3>1, <3>2, <3>3 DEF Solves
    <3> HIDE DEF B
    <3>5. h \in B
      BY DEF B
    <3> QED BY <3>4, <3>5
  <2> QED BY <2>2, <2>3
<1> HIDE DEF P
<1>3. g \in P
  BY <1>1, <1>2, TreeInduction
<1> QED BY <1>3 DEF P

LEMMA SolutionsAgreeOn ==
  ASSUME NEW f, NEW A, Solves(f, A), NEW e, NEW B, Solves(e, B)
  PROVE  \A g \in A \cap B : f[g] = e[g]
<1> DEFINE P == {h \in Group : h \in A \cap B => f[h] = e[h]}
<1>1. Root \in P
  BY GroupsAssumption DEF Solves, AncestorsStep
<1>2. ASSUME NEW h \in Group \ {Root}, Parent[h] \in P PROVE h \in P
  <2> SUFFICES ASSUME h \in A \cap B PROVE f[h] = e[h]
    OBVIOUS
  <2>1. f[Parent[h]] = e[Parent[h]]
    BY <1>2 DEF Solves
  <2> QED BY <2>1 DEF Solves, AncestorsStep
<1>3. Group \subseteq P
  <2> HIDE DEF P
  <2> QED BY <1>1, <1>2, TreeInduction
<1> QED BY <1>3 DEF Solves

\* The recursion has a solution, so that ancestors unfolds.
LEMMA AncestorsIs ==
  ASSUME NEW g \in Group
  PROVE  ancestors[g] = IF g = Root THEN << >> ELSE <<g>> \o ancestors[Parent[g]]
<1> DEFINE Solution(f) == f = [h \in Group |-> IF h = Root THEN << >> ELSE <<h>> \o f[Parent[h]]]
           Good(f, h) == \E A : h \in A /\ Solves(f, A)
           a == [h \in Group |-> (CHOOSE f : Good(f, h))[h]]
<1>1. \A h \in Group : Good(CHOOSE f : Good(f, h), h)
  <2> TAKE h \in Group
  <2>1. \E f : Good(f, h)
    BY SolutionsExist
  <2> HIDE DEF Good
  <2> QED BY <2>1
<1>2. ASSUME NEW h \in Group, NEW f, Good(f, h) PROVE a[h] = f[h]
  <2> DEFINE e == CHOOSE x : Good(x, h)
  <2>1. Good(e, h)
    BY <1>1
  <2>2. a[h] = e[h]
    OBVIOUS
  <2> HIDE DEF e, a
  <2>3. PICK A, B : h \in A /\ Solves(f, A) /\ h \in B /\ Solves(e, B)
    BY <1>2, <2>1
  <2>4. f[h] = e[h]
    BY <2>3, SolutionsAgreeOn
  <2> QED BY <2>2, <2>4
<1>3. Solution(a)
  <2>1. ASSUME NEW h \in Group PROVE a[h] = AncestorsStep(a, h)
    <3>1. PICK f, A : h \in A /\ Solves(f, A)
      BY SolutionsExist
    <3>2. a[h] = f[h]
      <4> HIDE DEF a
      <4> QED BY <1>2, <3>1
    <3>3. h # Root => a[Parent[h]] = f[Parent[h]]
      <4>1. h # Root => Parent[h] \in A /\ Parent[h] \in Group
        BY <3>1 DEF Solves
      <4> HIDE DEF a
      <4> QED BY <1>2, <3>1, <4>1
    <3> HIDE DEF a
    <3>4. f[h] = AncestorsStep(f, h)
      BY <3>1 DEF Solves
    <3> QED BY <3>2, <3>3, <3>4 DEF AncestorsStep
  <2>2. \A h \in Group : a[h] = IF h = Root THEN << >> ELSE <<h>> \o a[Parent[h]]
    <3> HIDE DEF a
    <3> QED BY <2>1 DEF AncestorsStep
  <2>3. a = [h \in Group |-> a[h]]
    OBVIOUS
  <2> HIDE DEF a
  <2> QED BY <2>2, <2>3
<1>4. ancestors = CHOOSE f : Solution(f)
  BY Zenon DEF ancestors
<1>5. Solution(ancestors)
  <2> HIDE DEF a, Solution
  <2> QED BY <1>3, <1>4
<1> QED BY <1>5

\* What the sequence of groups up to the root is like.
ChainUp(g, q) ==
  /\ q \in Seq(Group \ {Root})
  /\ g = Root => q = << >>
  /\ g # Root => Len(q) >= 1 /\ q[1] = g
  /\ \A i \in 1..Len(q) : /\ Parent[q[i]] = IF i = Len(q) THEN Root ELSE q[i + 1]
                          /\ Len(ancestors[q[i]]) = Len(q) - i + 1

LEMMA AncestorsType ==
  ASSUME NEW g \in Group
  PROVE  ChainUp(g, ancestors[g])
<1> DEFINE P == {h \in Group : ChainUp(h, ancestors[h])}
<1>1. Root \in P
  <2>1. Root \in Group /\ ancestors[Root] = << >>
    BY AncestorsIs, GroupsAssumption
  <2>2. << >> \in Seq(Group \ {Root}) /\ Len(<< >>) = 0 /\ 1..0 = {}
    OBVIOUS
  <2>3. ChainUp(Root, << >>)
    BY <2>2 DEF ChainUp
  <2> QED BY <2>1, <2>3
<1>2. ASSUME NEW h \in Group \ {Root}, Parent[h] \in P PROVE h \in P
  <2> DEFINE p == Parent[h]
             q == ancestors[p]
             r == ancestors[h]
  <2>1. r = <<h>> \o q
    BY AncestorsIs
  <2>2. q \in Seq(Group \ {Root}) /\ Len(q) \in Nat /\ ChainUp(p, q) /\ p \in Group
    <3>1. ChainUp(p, q) /\ p \in Group
      BY <1>2
    <3> HIDE DEF p, q
    <3>2. q \in Seq(Group \ {Root})
      BY <3>1 DEF ChainUp
    <3> QED BY <3>1, <3>2
  <2>3. r \in Seq(Group \ {Root}) /\ Len(r) = Len(q) + 1 /\ r[1] = h
        /\ \A i \in 2..Len(r) : r[i] = q[i - 1] /\ i - 1 \in 1..Len(q)
    <3> HIDE DEF q, r
    <3> QED BY <2>1, <2>2
  <2> HIDE DEF q, r
  <2>4. Parent[r[1]] = IF Len(r) = 1 THEN Root ELSE r[2]
    <3>1. CASE p = Root
      BY <2>2, <2>3, <3>1 DEF ChainUp
    <3>2. CASE p # Root
      <4>1. Len(q) >= 1 /\ q[1] = p
        BY <2>2, <3>2 DEF ChainUp
      <4>2. 2 \in 2..Len(r) /\ Len(r) # 1
        BY <2>2, <2>3, <4>1
      <4> QED BY <2>3, <4>1, <4>2
    <3> QED BY <3>1, <3>2
  <2>5. ASSUME NEW i \in 2..Len(r)
        PROVE  /\ Parent[r[i]] = IF i = Len(r) THEN Root ELSE r[i + 1]
               /\ Len(ancestors[r[i]]) = Len(r) - i + 1
    <3>1. r[i] = q[i - 1] /\ i - 1 \in 1..Len(q)
      BY <2>3
    <3>2. /\ Parent[q[i - 1]] = IF i - 1 = Len(q) THEN Root ELSE q[(i - 1) + 1]
          /\ Len(ancestors[q[i - 1]]) = Len(q) - (i - 1) + 1
      BY <2>2, <3>1 DEF ChainUp
    <3>3. i # Len(r) => r[i + 1] = q[i]
      <4> SUFFICES ASSUME i # Len(r) PROVE r[i + 1] = q[i]
        OBVIOUS
      <4>1. i + 1 \in 2..Len(r) /\ (i + 1) - 1 = i
        BY <2>2, <2>3
      <4> QED BY <2>3, <4>1
    <3> QED BY <2>2, <2>3, <3>1, <3>2, <3>3
  <2>6. \A i \in 1..Len(r) : i = 1 \/ i \in 2..Len(r)
    BY <2>2, <2>3
  <2>7. Len(ancestors[r[1]]) = Len(r) - 1 + 1
    BY <2>2, <2>3 DEF r
  <2>8. ChainUp(h, r)
    <3>1. ASSUME NEW i \in 1..Len(r)
          PROVE  /\ Parent[r[i]] = IF i = Len(r) THEN Root ELSE r[i + 1]
                 /\ Len(ancestors[r[i]]) = Len(r) - i + 1
      <4>1. CASE i = 1
        BY <2>4, <2>7, <4>1
      <4>2. CASE i \in 2..Len(r)
        BY <2>5, <4>2
      <4> QED BY <2>6, <4>1, <4>2
    <3>2. Len(r) >= 1 /\ h # Root
      BY <1>2, <2>2, <2>3
    <3> QED BY <2>3, <3>1, <3>2 DEF ChainUp
  <2> QED BY <2>8 DEF r
<1> HIDE DEF P
<1>3. g \in P
  BY <1>1, <1>2, TreeInduction
<1> QED BY <1>3 DEF P

\* No group comes twice.
LEMMA AncestorsDiffer ==
  ASSUME NEW g \in Group, NEW i \in 1..Len(ancestors[g]), NEW j \in 1..Len(ancestors[g]),
         ancestors[g][i] = ancestors[g][j]
  PROVE  i = j
<1>1. ChainUp(g, ancestors[g])
  BY AncestorsType
<1>2. Len(ancestors[g]) \in Nat
  BY <1>1 DEF ChainUp
<1>3. Len(ancestors[g]) - i + 1 = Len(ancestors[g]) - j + 1
  BY <1>1 DEF ChainUp
<1> QED BY <1>2, <1>3

\* A group, and the groups its parent is in.
LEMMA GroupsOf ==
  ASSUME NEW g \in Group
  PROVE  /\ groups_of(g) = IF g = Root THEN {Root} ELSE {g} \cup groups_of(Parent[g])
         /\ groups_of(g) \subseteq Group /\ Root \in groups_of(g) /\ g \in groups_of(g)
<1>1. CASE g = Root
  <2>1. ancestors[Root] = << >>
    BY <1>1, AncestorsIs
  <2> QED BY <1>1, <2>1, GroupsAssumption DEF groups_of, Range
<1>2. CASE g # Root
  <2> DEFINE q == ancestors[Parent[g]]
             r == ancestors[g]
  <2>1. Parent[g] \in Group
    BY <1>2, GroupsAssumption
  <2>2. q \in Seq(Group \ {Root}) /\ r = <<g>> \o q
    BY <1>2, <2>1, AncestorsIs, AncestorsType DEF ChainUp
  <2> HIDE DEF q, r
  <2>3. /\ Len(q) \in Nat /\ Len(r) = Len(q) + 1 /\ r[1] = g
        /\ \A i \in 1..Len(q) : r[i + 1] = q[i] /\ q[i] \in Group \ {Root}
        /\ DOMAIN q = 1..Len(q) /\ DOMAIN r = 1..Len(r)
    BY <2>2
  <2>4. Range(r) = {g} \cup Range(q)
    <3>1. Range(r) \subseteq {g} \cup Range(q)
      <4> SUFFICES ASSUME NEW i \in 1..Len(r) PROVE r[i] \in {g} \cup Range(q)
        BY <2>3 DEF Range
      <4>1. CASE i = 1
        BY <2>3, <4>1
      <4>2. CASE i # 1
        <5>1. i - 1 \in 1..Len(q) /\ (i - 1) + 1 = i
          BY <2>3, <4>2
        <5>2. r[i] = q[i - 1]
          BY <2>3, <5>1
        <5> QED BY <2>3, <5>1, <5>2 DEF Range
      <4> QED BY <4>1, <4>2
    <3>2. g \in Range(r)
      <4>1. 1 \in DOMAIN r
        BY <2>3
      <4> QED BY <2>3, <4>1 DEF Range
    <3>3. Range(q) \subseteq Range(r)
      <4> SUFFICES ASSUME NEW i \in 1..Len(q) PROVE q[i] \in Range(r)
        BY <2>3 DEF Range
      <4>1. i + 1 \in DOMAIN r /\ r[i + 1] = q[i]
        BY <2>3
      <4> QED BY <4>1 DEF Range
    <3> QED BY <3>1, <3>2, <3>3
  <2>5. Range(q) \subseteq Group
    BY <2>3 DEF Range
  <2> QED BY <1>2, <2>4, <2>5, GroupsAssumption DEF groups_of, q, r
<1> QED BY <1>1, <1>2

-----------------------------------------------------------------------------
(* States of the scheduler, as the steps of an operation change them *)

Tasks == [Task -> [group : Group, normal_prio : 0..MAX_RT_PRIO,
                   pi_prio : 0..MAX_RT_PRIO, on_rq : BOOLEAN]]

States == [task : Tasks, linked : [Entity -> 0..MAX_RT_PRIO], rq : [Group -> RtRq],
           resched : BOOLEAN, delta : 0..1]

\* The chain of entities from e up.
LEMMA ChainType ==
  ASSUME NEW S, S.task \in Tasks, NEW e \in Entity
  PROVE  LET c == for_each_rt_entity(S, e)
         IN  /\ c \in Seq(Entity) /\ Len(c) \in Nat \ {0} /\ c[1] = e
             /\ \A i \in 2..Len(c) : c[i] \in Group \ {Root}
             /\ \A i \in 1..Len(c) : rt_rq_of_se(S, c[i]) = IF i = Len(c) THEN Root ELSE c[i + 1]
             /\ \A i, j \in 1..Len(c) : c[i] = c[j] => i = j
             /\ rt_rq_of_se(S, e) \in Group
             /\ Range(c) = {e} \cup (groups_of(rt_rq_of_se(S, e)) \ {Root})
<1> DEFINE g == rt_rq_of_se(S, e)
           q == ancestors[g]
           c == for_each_rt_entity(S, e)
<1>1. g \in Group /\ (e \in Task => g = S.task[e].group) /\ (e \notin Task => g = Parent[e] /\ e \in Group \ {Root})
  BY GroupsAssumption DEF rt_rq_of_se, Entity, Tasks
<1>2. c = <<e>> \o q
  BY DEF for_each_rt_entity
<1>3. ChainUp(g, q)
  BY <1>1, AncestorsType
<1>4. \A i, j \in 1..Len(q) : q[i] = q[j] => i = j
  BY <1>1, AncestorsDiffer
<1>5. \A i \in 1..Len(q) : q[i] # e
  <2>1. CASE e \in Task
    BY <1>3, <2>1, BandwidthAssumption DEF ChainUp
  <2>2. CASE e \notin Task
    <3>1. ancestors[e] = <<e>> \o q
      BY <1>1, <2>2, AncestorsIs
    <3>2. Len(ancestors[e]) = Len(q) + 1 /\ Len(q) \in Nat
      BY <1>3, <3>1 DEF ChainUp
    <3>3. \A i \in 1..Len(q) : Len(ancestors[q[i]]) = Len(q) - i + 1
      BY <1>3 DEF ChainUp
    <3> HIDE DEF q
    <3> QED BY <3>2, <3>3
  <2> QED BY <2>1, <2>2
<1> HIDE DEF c, q
<1>6. /\ Len(q) \in Nat /\ Len(c) = Len(q) + 1 /\ c[1] = e /\ q \in Seq(Group \ {Root})
      /\ \A i \in 1..Len(q) : c[i + 1] = q[i] /\ q[i] \in Group \ {Root}
      /\ \A i \in 2..Len(c) : c[i] = q[i - 1] /\ i - 1 \in 1..Len(q)
      /\ DOMAIN c = 1..Len(c) /\ DOMAIN q = 1..Len(q)
  <2>1. q \in Seq(Group \ {Root})
    BY <1>3 DEF ChainUp
  <2> QED BY <1>2, <2>1
<1>7. c \in Seq(Entity)
  BY <1>2, <1>6 DEF Entity
<1>8. \A i \in 1..Len(c) : i = 1 \/ i \in 2..Len(c)
  BY <1>6
<1>9. ASSUME NEW i \in 1..Len(c) PROVE rt_rq_of_se(S, c[i]) = IF i = Len(c) THEN Root ELSE c[i + 1]
  <2>1. CASE i = 1
    <3>1. CASE g = Root
      BY <1>3, <1>6, <2>1, <3>1 DEF ChainUp
    <3>2. CASE g # Root
      <4>1. Len(q) >= 1 /\ q[1] = g
        BY <1>3, <3>2 DEF ChainUp
      <4>2. 1 \in 1..Len(q) /\ Len(c) # 1
        BY <1>6, <4>1
      <4>3. c[1 + 1] = g
        BY <1>6, <4>1, <4>2
      <4> QED BY <1>6, <2>1, <4>2, <4>3
    <3> QED BY <3>1, <3>2
  <2>2. CASE i \in 2..Len(c)
    <3>1. c[i] = q[i - 1] /\ i - 1 \in 1..Len(q) /\ c[i] \in Group \ {Root}
      BY <1>6, <2>2
    <3>2. rt_rq_of_se(S, c[i]) = Parent[c[i]]
      BY <3>1, BandwidthAssumption DEF rt_rq_of_se
    <3>3. Parent[q[i - 1]] = IF i - 1 = Len(q) THEN Root ELSE q[(i - 1) + 1]
      BY <1>3, <3>1 DEF ChainUp
    <3>4. i # Len(c) => c[i + 1] = q[i]
      BY <1>6, <2>2
    <3> QED BY <1>6, <2>2, <3>1, <3>2, <3>3, <3>4
  <2> QED BY <1>8, <2>1, <2>2
<1>10. ASSUME NEW i \in 1..Len(c), NEW j \in 1..Len(c), c[i] = c[j] PROVE i = j
  <2>1. CASE i = 1 \/ j = 1
    BY <1>5, <1>6, <1>8, <1>10, <2>1
  <2>2. CASE i # 1 /\ j # 1
    <3>1. i - 1 \in 1..Len(q) /\ j - 1 \in 1..Len(q) /\ q[i - 1] = q[j - 1]
      BY <1>6, <1>8, <1>10, <2>2
    <3>2. i - 1 = j - 1
      BY <1>4, <3>1
    <3> QED BY <3>2
  <2> QED BY <2>1, <2>2
<1>11. Range(c) = {e} \cup Range(q)
  <2>1. Range(c) \subseteq {e} \cup Range(q)
    <3> SUFFICES ASSUME NEW i \in 1..Len(c) PROVE c[i] \in {e} \cup Range(q)
      BY <1>6 DEF Range
    <3> QED BY <1>6, <1>8 DEF Range
  <2>2. e \in Range(c)
    <3>1. 1 \in DOMAIN c
      BY <1>6
    <3> QED BY <1>6, <3>1 DEF Range
  <2>3. Range(q) \subseteq Range(c)
    <3> SUFFICES ASSUME NEW i \in 1..Len(q) PROVE q[i] \in Range(c)
      BY <1>6 DEF Range
    <3>1. i + 1 \in DOMAIN c /\ c[i + 1] = q[i]
      BY <1>6
    <3> QED BY <3>1 DEF Range
  <2> QED BY <2>1, <2>2, <2>3
<1>12. Range(q) = groups_of(g) \ {Root}
  <2>1. Root \notin Range(q)
    BY <1>6 DEF Range
  <2> QED BY <2>1 DEF groups_of, q
<1>13. \A i \in 2..Len(c) : c[i] \in Group \ {Root}
  BY <1>6
<1> QED BY <1>1, <1>6, <1>7, <1>9, <1>10, <1>11, <1>12, <1>13 DEF c

\* The run queue of one group changes, and the list of one entity.
Change(S, x, p, g, r) == [S EXCEPT !.linked[x] = p, !.rq[g] = r]

LEMMA ChangeIs ==
  ASSUME NEW S \in States, NEW x \in Entity, NEW p, NEW g \in Group, NEW r
  PROVE  LET C == Change(S, x, p, g, r)
         IN  /\ C.task = S.task /\ C.resched = S.resched /\ C.delta = S.delta
             /\ C.linked[x] = p /\ \A y \in Entity \ {x} : C.linked[y] = S.linked[y]
             /\ C.rq[g] = r /\ \A h \in Group \ {g} : C.rq[h] = S.rq[h]
             /\ p \in 0..MAX_RT_PRIO /\ r \in RtRq => C \in States
BY DEF Change, States

\* What dec_rt_tasks() makes of the run queue g that x leaves.
BitsWithout(S, x, g) ==
  IF \E y \in Entity \ {x} : S.linked[y] = rt_se_prio(S, x) /\ rt_rq_of_se(S, y) = g
    THEN S.rq[g].bitmap ELSE S.rq[g].bitmap \ {rt_se_prio(S, x)}

Counters(o, r) ==
  r = [o EXCEPT !.bitmap = r.bitmap, !.rt_nr_running = r.rt_nr_running,
                !.highest_prio = r.highest_prio, !.rt_nr_boosted = r.rt_nr_boosted]

Without(S, x, g, r) ==
  /\ Counters(S.rq[g], r)
  /\ r.bitmap = BitsWithout(S, x, g)
  /\ r.rt_nr_running = S.rq[g].rt_nr_running - 1
  /\ r.rt_nr_boosted = IF rt_se_boosted(S, x) THEN S.rq[g].rt_nr_boosted - 1
                       ELSE S.rq[g].rt_nr_boosted
  /\ r.highest_prio = IF r.rt_nr_running = 0 THEN MAX_RT_PRIO
                      ELSE IF rt_se_prio(S, x) = S.rq[g].highest_prio THEN first_bit(r.bitmap)
                      ELSE S.rq[g].highest_prio

LEMMA DequeueOneIs ==
  ASSUME NEW S \in States, NEW x \in Entity, NEW g \in Group, g = rt_rq_of_se(S, x)
  PROVE  \E r : dequeue_one(S, x) = Change(S, x, Unlinked, g, r) /\ Without(S, x, g, r)
<1> DEFINE prio == rt_se_prio(S, x)
           bits == IF \E y \in Entity \ {x} : S.linked[y] = prio /\ rt_rq_of_se(S, y) = g
                     THEN S.rq[g].bitmap ELSE S.rq[g].bitmap \ {prio}
           n    == S.rq[g].rt_nr_running - 1
           r == [S.rq[g] EXCEPT
                 !.bitmap = bits,
                 !.rt_nr_running = n,
                 !.highest_prio = IF n = 0 THEN MAX_RT_PRIO
                                  ELSE IF prio = @ THEN first_bit(bits) ELSE @,
                 !.rt_nr_boosted = IF rt_se_boosted(S, x) THEN @ - 1 ELSE @]
<1>1. dequeue_one(S, x) = Change(S, x, Unlinked, g, r)
  BY DEF dequeue_one, Change
<1>2. S.rq[g] \in RtRq
  BY DEF States
<1>5. bits = BitsWithout(S, x, g)
  BY DEF BitsWithout
<1> HIDE DEF bits, prio, n
<1>3. /\ r.rt_nr_running = n
                    /\ r.rt_nr_boosted = (IF rt_se_boosted(S, x) THEN S.rq[g].rt_nr_boosted - 1
                                        ELSE S.rq[g].rt_nr_boosted)
                    /\ r.highest_prio = (IF n = 0 THEN MAX_RT_PRIO
                                       ELSE IF prio = S.rq[g].highest_prio THEN first_bit(bits)
                                       ELSE S.rq[g].highest_prio)
                    /\ r.bitmap = bits
  BY <1>2 DEF RtRq
<1>4. Counters(S.rq[g], r)
  BY <1>2 DEF RtRq, Counters
<1> HIDE DEF r
<1>6. Without(S, x, g, r)
  BY <1>3, <1>4, <1>5 DEF Without, prio, n
<1> QED BY <1>1, <1>6

\* What a step that changes the counters of a run queue alone keeps of it.
LEMMA CountersType ==
  ASSUME NEW o \in RtRq, NEW r, Counters(o, r), r.rt_nr_running \in Nat,
         r.rt_nr_boosted \in Nat, r.highest_prio \in 0..MAX_RT_PRIO,
         r.bitmap \in SUBSET (0..(MAX_RT_PRIO - 1))
  PROVE  /\ r \in RtRq /\ r.rt_time = o.rt_time /\ r.rt_throttled = o.rt_throttled
         /\ r.rt_runtime = o.rt_runtime /\ r.active = o.active /\ r.overrun = o.overrun
<1> DEFINE n == r.rt_nr_running
           b == r.rt_nr_boosted
           h == r.highest_prio
           B == r.bitmap
           e == [o EXCEPT !.bitmap = B, !.rt_nr_running = n, !.highest_prio = h,
                          !.rt_nr_boosted = b]
<1>1. r = e
  BY DEF Counters
<1> HIDE DEF n, b, h, B
<1>2. /\ e \in RtRq /\ e.rt_time = o.rt_time /\ e.rt_throttled = o.rt_throttled
      /\ e.rt_runtime = o.rt_runtime /\ e.active = o.active /\ e.overrun = o.overrun
  BY DEF RtRq, n, b, h, B
<1> QED BY <1>1, <1>2

-----------------------------------------------------------------------------
(* What the run queues of a state have to do with the entities *)

\* members(), of any state.
Mem(S, g) == {e \in Entity : S.linked[e] # Unlinked /\ rt_rq_of_se(S, e) = g}

Prios(S, g) == {S.linked[e] : e \in Mem(S, g)}

Boosted(S, g) == {e \in Mem(S, g) : rt_se_boosted(S, e)}

Highest(B) == IF B = {} THEN MAX_RT_PRIO ELSE first_bit(B)

\* Counters, bitmap and highest priority of an rt_rq are those of its members.
Counts(S, g) ==
  /\ S.rq[g].rt_nr_running = Cardinality(Mem(S, g))
  /\ S.rq[g].rt_nr_boosted = Cardinality(Boosted(S, g))
  /\ S.rq[g].bitmap = Prios(S, g)
  /\ S.rq[g].highest_prio = Highest(Prios(S, g))
  /\ \A e \in Mem(S, g) : S.linked[e] = rt_se_prio(S, e)

\* e is to be linked.
Queued(S, e) ==
  IF e \in Task THEN S.task[e].on_rq /\ is_rt(S.task[e])
  ELSE Mem(S, e) # {} /\ ~rt_rq_throttled(S.rq[e])

Timers(S) ==
  RUNTIME_INF \notin Runtime =>
    \A g \in Group :
      /\ Runtime # {} => S.rq[g].rt_runtime # RUNTIME_INF
      /\ S.rq[g].rt_runtime # RUNTIME_INF /\ S.rq[g].rt_nr_running # 0 => S.rq[g].active

\* Halfway through an operation: the entities of W were taken off their queues,
\* those of U are anywhere, all others are where they are to be.
Sound(S, W, U) ==
  /\ S \in States
  /\ \A g \in Group : Counts(S, g)
  /\ Timers(S)
  /\ W \subseteq Entity /\ \A e \in W : ~on_rt_rq(S, e)
  /\ \A e \in Entity \ (W \cup U) : on_rt_rq(S, e) <=> Queued(S, e)

\* What an operation on the queues leaves alone: all but them and the timers.
SameBut(S, T) ==
  /\ T.task = S.task /\ T.resched = S.resched /\ T.delta = S.delta
  /\ \A g \in Group : /\ T.rq[g].rt_time = S.rq[g].rt_time
                      /\ T.rq[g].rt_throttled = S.rq[g].rt_throttled
                      /\ T.rq[g].rt_runtime = S.rq[g].rt_runtime

LEMMA FirstBit ==
  ASSUME NEW B, B \subseteq 0..(MAX_RT_PRIO - 1), B # {}
  PROVE  /\ first_bit(B) \in B /\ \A c \in B : first_bit(B) <= c
         /\ \A b \in B : (\A c \in B : b <= c) => b = first_bit(B)
<1>1. B \subseteq Nat
  BY BandwidthAssumption
<1>2. PICK b \in B : \A c \in B : b <= c
  BY <1>1, Least
<1>3. first_bit(B) \in B /\ \A c \in B : first_bit(B) <= c
  BY <1>2 DEF first_bit
<1>4. ASSUME NEW m \in B, \A c \in B : m <= c PROVE m = first_bit(B)
  <2>1. m <= first_bit(B) /\ first_bit(B) <= m /\ m \in Nat /\ first_bit(B) \in Nat
    BY <1>1, <1>3, <1>4
  <2> QED BY <2>1
<1> QED BY <1>3, <1>4

LEMMA EntitiesFinite ==
  ASSUME NEW S, S \subseteq Entity
  PROVE  IsFiniteSet(S) /\ Cardinality(S) \in Nat /\ (Cardinality(S) = 0 <=> S = {})
<1>1. IsFiniteSet(Group \ {Root})
  BY GroupsAssumption, FS_Subset
<1>2. IsFiniteSet(Entity)
  BY <1>1, BandwidthAssumption, FS_Union DEF Entity
<1> QED BY <1>2, FS_Subset, FS_CardinalityType, FS_EmptySet

\* The run queue an entity is on is not its own.
LEMMA ParentType ==
  ASSUME NEW S, S.task \in Tasks, NEW e \in Entity
  PROVE  rt_rq_of_se(S, e) \in Group /\ rt_rq_of_se(S, e) # e
<1>1. CASE e \in Task
  BY <1>1, BandwidthAssumption DEF rt_rq_of_se, Tasks
<1>2. CASE e \notin Task
  <2>1. e \in Group \ {Root} /\ {e} \in SUBSET (Group \ {Root})
    BY <1>2 DEF Entity
  <2>2. Parent[e] # e /\ Parent[e] \in Group
    BY <2>1, GroupsAssumption
  <2> QED BY <1>2, <2>2 DEF rt_rq_of_se
<1> QED BY <1>1, <1>2

\* From S to T only x was linked or unlinked, and only the run queue g changed.
OnlyAt(S, T, x, g) ==
  /\ S \in States /\ T \in States /\ T.task = S.task
  /\ \A y \in Entity \ {x} : T.linked[y] = S.linked[y]
  /\ \A h \in Group \ {g} : T.rq[h] = S.rq[h]

LEMMA EntitiesKept ==
  ASSUME NEW S, NEW T, NEW x \in Entity, NEW g \in Group, OnlyAt(S, T, x, g)
  PROVE  /\ \A e \in Entity : rt_rq_of_se(T, e) = rt_rq_of_se(S, e)
         /\ \A e \in Entity \ {g} : /\ rt_se_prio(T, e) = rt_se_prio(S, e)
                                    /\ rt_se_boosted(T, e) = rt_se_boosted(S, e)
BY DEF OnlyAt, rt_rq_of_se, rt_se_prio, rt_se_boosted, Entity

\* Groups other than g, which is not linked, do not notice.
LEMMA OthersKept ==
  ASSUME NEW S, NEW T, NEW x \in Entity, NEW g \in Group, OnlyAt(S, T, x, g),
         g = rt_rq_of_se(S, x), g # Root => ~on_rt_rq(S, g)
  PROVE  /\ \A h \in Group \ {g} : Mem(T, h) = Mem(S, h)
         /\ \A h \in Group \ {g} : Counts(S, h) => Counts(T, h)
         /\ \A e \in Entity \ {g} : Queued(T, e) <=> Queued(S, e)
         /\ \A e \in Mem(T, g) \cup Mem(S, g) : e # g
<1>1. /\ \A e \in Entity : rt_rq_of_se(T, e) = rt_rq_of_se(S, e)
      /\ \A e \in Entity \ {g} : /\ rt_se_prio(T, e) = rt_se_prio(S, e)
                                 /\ rt_se_boosted(T, e) = rt_se_boosted(S, e)
  BY DEF OnlyAt, rt_rq_of_se, rt_se_prio, rt_se_boosted, Entity
<1>2. \A h \in Group \ {g} : Mem(T, h) = Mem(S, h)
  BY <1>1 DEF Mem, OnlyAt
<1>3. \A h \in Group \ {g} : \A e \in Mem(S, h) : e \in Entity \ {g, x} /\ T.linked[e] = S.linked[e]
  <2> TAKE h \in Group \ {g}
  <2> TAKE e \in Mem(S, h)
  <2>1. e \in Entity /\ S.linked[e] # Unlinked /\ rt_rq_of_se(S, e) = h
    BY DEF Mem
  <2>2. e # x
    BY <2>1
  <2>3. e # g
    <3>1. Root \notin Entity
      BY GroupsAssumption, BandwidthAssumption DEF Entity
    <3> QED BY <2>1, <3>1 DEF on_rt_rq
  <2> QED BY <2>1, <2>2, <2>3 DEF OnlyAt
<1>4. ASSUME NEW h \in Group \ {g}, Counts(S, h) PROVE Counts(T, h)
  <2>1. T.rq[h] = S.rq[h] /\ Mem(T, h) = Mem(S, h)
    BY <1>2 DEF OnlyAt
  <2>2. Prios(T, h) = Prios(S, h)
    BY <1>3, <2>1 DEF Prios
  <2>3. Boosted(T, h) = Boosted(S, h)
    BY <1>1, <1>3, <2>1 DEF Boosted
  <2>4. \A e \in Mem(T, h) : T.linked[e] = rt_se_prio(T, e)
    BY <1>1, <1>3, <1>4, <2>1 DEF Counts
  <2> QED BY <1>4, <2>1, <2>2, <2>3, <2>4 DEF Counts
<1>5. ASSUME NEW e \in Entity \ {g} PROVE Queued(T, e) <=> Queued(S, e)
  <2>1. CASE e \in Task
    BY <2>1 DEF Queued, OnlyAt
  <2>2. CASE e \notin Task
    <3>1. e \in Group \ {g}
      BY <2>2 DEF Entity
    <3> QED BY <1>2, <2>2, <3>1 DEF Queued, OnlyAt
  <2> QED BY <2>1, <2>2
<1>6. \A e \in Mem(T, g) \cup Mem(S, g) : e # g
  BY ParentType DEF OnlyAt, Mem, States
<1> QED BY <1>2, <1>4, <1>5, <1>6

LEMMA UnlinkedIs == MAX_RT_PRIO \in Nat /\ Unlinked = MAX_RT_PRIO /\ Unlinked \notin 0..(MAX_RT_PRIO - 1)
                    /\ 0..MAX_RT_PRIO = 0..(MAX_RT_PRIO - 1) \cup {Unlinked}
BY BandwidthAssumption DEF Unlinked

LEMMA HighestType ==
  ASSUME NEW B, B \subseteq 0..(MAX_RT_PRIO - 1)
  PROVE  Highest(B) \in 0..MAX_RT_PRIO
BY FirstBit, UnlinkedIs DEF Highest

LEMMA DequeueSound ==
  ASSUME NEW S, NEW W, NEW U, Sound(S, W, U), NEW x \in Entity, on_rt_rq(S, x),
         rt_rq_of_se(S, x) # Root => rt_rq_of_se(S, x) \in W
  PROVE  /\ Sound(dequeue_one(S, x), W \cup {x}, U \ {x})
         /\ SameBut(S, dequeue_one(S, x))
<1> DEFINE g == rt_rq_of_se(S, x)
           T == dequeue_one(S, x)
           prio == rt_se_prio(S, x)
           bits == IF \E y \in Entity \ {x} : S.linked[y] = prio /\ rt_rq_of_se(S, y) = g
                     THEN S.rq[g].bitmap ELSE S.rq[g].bitmap \ {prio}
           n == S.rq[g].rt_nr_running - 1
           M == Mem(S, g)
<1>0. S \in States /\ (\A h \in Group : Counts(S, h)) /\ Timers(S)
  BY DEF Sound
<1>1. g \in Group /\ g # x
  BY <1>0, ParentType DEF States
<1>2. x \in M
  BY DEF Mem, on_rt_rq
<1>3. /\ S.rq[g].rt_nr_running = Cardinality(M)
      /\ S.rq[g].rt_nr_boosted = Cardinality(Boosted(S, g))
      /\ S.rq[g].bitmap = Prios(S, g)
      /\ S.rq[g].highest_prio = Highest(Prios(S, g))
      /\ \A e \in M : S.linked[e] = rt_se_prio(S, e)
  BY <1>0, <1>1 DEF Counts
<1>4. \A e \in M : S.linked[e] \in 0..(MAX_RT_PRIO - 1)
  BY <1>0, UnlinkedIs DEF States, Mem
<1>5. S.linked[x] = prio /\ prio \in 0..(MAX_RT_PRIO - 1)
  BY <1>2, <1>3, <1>4
<1>6. /\ Cardinality(M \ {x}) = n /\ n \in Nat /\ (n = 0 <=> M \ {x} = {})
      /\ Cardinality(Boosted(S, g) \ {x}) \in Nat
      /\ Cardinality(Boosted(S, g) \ {x}) =
           IF rt_se_boosted(S, x) THEN S.rq[g].rt_nr_boosted - 1 ELSE S.rq[g].rt_nr_boosted
  <2>1. M \subseteq Entity /\ Boosted(S, g) \subseteq Entity
    BY DEF Mem, Boosted
  <2>2. IsFiniteSet(M) /\ IsFiniteSet(Boosted(S, g))
    BY <2>1, EntitiesFinite
  <2>3. Cardinality(M \ {x}) = Cardinality(M) - 1
    BY <1>2, <2>2, FS_RemoveElement
  <2>4. x \in Boosted(S, g) <=> rt_se_boosted(S, x)
    BY <1>2 DEF Boosted
  <2>5. Cardinality(Boosted(S, g) \ {x}) =
          IF rt_se_boosted(S, x) THEN Cardinality(Boosted(S, g)) - 1 ELSE Cardinality(Boosted(S, g))
    BY <2>2, <2>4, FS_RemoveElement
  <2>6. /\ Cardinality(M \ {x}) \in Nat /\ (Cardinality(M \ {x}) = 0 <=> M \ {x} = {})
        /\ Cardinality(Boosted(S, g) \ {x}) \in Nat
    <3>1. M \ {x} \subseteq Entity /\ Boosted(S, g) \ {x} \subseteq Entity
      BY <2>1
    <3> QED BY <3>1, EntitiesFinite
  <2> QED BY <1>3, <2>3, <2>5, <2>6
<1>7. bits = {S.linked[e] : e \in M \ {x}}
  <2>1. CASE \E y \in Entity \ {x} : S.linked[y] = prio /\ rt_rq_of_se(S, y) = g
    <3>1. PICK y \in Entity \ {x} : S.linked[y] = prio /\ rt_rq_of_se(S, y) = g
      BY <2>1
    <3>2. y \in M \ {x}
      BY <1>5, <3>1, UnlinkedIs DEF Mem
    <3>3. bits = Prios(S, g)
      BY <1>3, <2>1
    <3> QED BY <1>2, <1>5, <3>1, <3>2, <3>3 DEF Prios
  <2>2. CASE ~\E y \in Entity \ {x} : S.linked[y] = prio /\ rt_rq_of_se(S, y) = g
    <3>1. bits = Prios(S, g) \ {prio}
      BY <1>3, <2>2
    <3>2. \A e \in M \ {x} : S.linked[e] # prio
      BY <2>2 DEF Mem
    <3> QED BY <1>2, <1>5, <3>1, <3>2 DEF Prios
  <2> QED BY <2>1, <2>2
<1>30. PICK r : T = Change(S, x, Unlinked, g, r) /\ Without(S, x, g, r)
  BY <1>0, <1>1, DequeueOneIs
<1>8. /\ r.rt_nr_running = n
      /\ r.rt_nr_boosted = IF rt_se_boosted(S, x) THEN S.rq[g].rt_nr_boosted - 1
                           ELSE S.rq[g].rt_nr_boosted
      /\ r.highest_prio = IF n = 0 THEN MAX_RT_PRIO
                          ELSE IF prio = S.rq[g].highest_prio THEN first_bit(bits)
                          ELSE S.rq[g].highest_prio
      /\ r.bitmap = bits
  BY <1>30 DEF Without, BitsWithout
<1> HIDE DEF bits, T, n, prio
<1>9. bits \subseteq 0..(MAX_RT_PRIO - 1)
  BY <1>4, <1>7
<1>10. r.highest_prio = Highest(bits)
  <2>1. CASE M \ {x} = {}
    BY <1>6, <1>7, <1>8, <2>1 DEF Highest
  <2>2. CASE M \ {x} # {}
    <3>1. bits # {} /\ Highest(bits) = first_bit(bits)
      BY <1>7, <2>2 DEF Highest
    <3>2. CASE prio = S.rq[g].highest_prio
      BY <1>6, <1>8, <2>2, <3>1, <3>2
    <3>3. CASE prio # S.rq[g].highest_prio
      <4>1. Prios(S, g) \subseteq 0..(MAX_RT_PRIO - 1) /\ prio \in Prios(S, g) /\ Prios(S, g) = bits \cup {prio}
        BY <1>2, <1>4, <1>5, <1>7 DEF Prios
      <4>2. /\ S.rq[g].highest_prio = first_bit(Prios(S, g))
            /\ first_bit(Prios(S, g)) \in Prios(S, g)
            /\ \A c \in Prios(S, g) : first_bit(Prios(S, g)) <= c
        BY <1>3, <4>1, FirstBit DEF Highest
      <4>3. /\ S.rq[g].highest_prio \in bits /\ \A c \in bits : S.rq[g].highest_prio <= c
        BY <3>3, <4>1, <4>2
      <4>4. S.rq[g].highest_prio = first_bit(bits)
        BY <1>9, <3>1, <4>3, FirstBit
      <4> QED BY <1>6, <1>8, <2>2, <3>1, <3>3, <4>4
    <3> QED BY <3>2, <3>3
  <2> QED BY <2>1, <2>2
<1>11. /\ r \in RtRq /\ r.rt_time = S.rq[g].rt_time /\ r.rt_throttled = S.rq[g].rt_throttled
       /\ r.rt_runtime = S.rq[g].rt_runtime /\ r.active = S.rq[g].active
  <2>1. S.rq[g] \in RtRq
    BY <1>0, <1>1 DEF States
  <2>2. r.highest_prio \in 0..MAX_RT_PRIO
    BY <1>9, <1>10, HighestType
  <2>3. r.rt_nr_running \in Nat /\ r.rt_nr_boosted \in Nat /\ r.bitmap \in SUBSET (0..(MAX_RT_PRIO - 1))
    BY <1>6, <1>8, <1>9
  <2>4. Counters(S.rq[g], r)
    BY <1>30 DEF Without
  <2> HIDE DEF g
  <2> QED BY <2>1, <2>2, <2>3, <2>4, CountersType
<1>12. /\ T \in States /\ OnlyAt(S, T, x, g) /\ T.linked[x] = Unlinked /\ T.rq[g] = r
       /\ T.resched = S.resched /\ T.delta = S.delta
  <2>1. Unlinked \in 0..MAX_RT_PRIO
    BY UnlinkedIs
  <2>2. S \in States /\ T = Change(S, x, Unlinked, g, r) /\ r \in RtRq
    BY <1>0, <1>30, <1>11
  <2> HIDE DEF g
  <2>3. LET C == Change(S, x, Unlinked, g, r)
        IN  /\ C.task = S.task /\ C.resched = S.resched /\ C.delta = S.delta
            /\ C.linked[x] = Unlinked /\ \A y \in Entity \ {x} : C.linked[y] = S.linked[y]
            /\ C.rq[g] = r /\ (\A h \in Group \ {g} : C.rq[h] = S.rq[h])
            /\ (Unlinked \in 0..MAX_RT_PRIO /\ r \in RtRq => C \in States)
    BY ONLY <1>1, <2>2, x \in Entity, ChangeIs
  <2> QED BY <2>1, <2>2, <2>3 DEF OnlyAt
<1>13. g # Root => ~on_rt_rq(S, g)
  BY DEF Sound
<1>14. /\ \A h \in Group \ {g} : Counts(T, h)
       /\ \A e \in Entity \ {g} : Queued(T, e) <=> Queued(S, e)
       /\ \A e \in Mem(T, g) \cup Mem(S, g) : e # g
  BY <1>0, <1>1, <1>12, <1>13, OthersKept
<1>15. /\ \A e \in Entity : rt_rq_of_se(T, e) = rt_rq_of_se(S, e)
       /\ \A e \in Entity \ {g} : /\ rt_se_prio(T, e) = rt_se_prio(S, e)
                                  /\ rt_se_boosted(T, e) = rt_se_boosted(S, e)
  BY <1>1, <1>12, EntitiesKept
<1>16. /\ Mem(T, g) = M \ {x}
       /\ \A e \in Mem(T, g) : /\ e \in M \ {x} /\ T.linked[e] = S.linked[e]
                               /\ rt_se_prio(T, e) = rt_se_prio(S, e)
                               /\ rt_se_boosted(T, e) = rt_se_boosted(S, e)
  <2>1. Mem(T, g) = M \ {x}
    BY <1>12, <1>15 DEF Mem, OnlyAt
  <2>2. ASSUME NEW e \in M \ {x}
        PROVE  T.linked[e] = S.linked[e] /\ e # g /\ e \in Entity
    BY <1>12, <1>14 DEF Mem, OnlyAt
  <2> QED BY <1>15, <2>1, <2>2
<1>17. Counts(T, g)
  <2>1. Prios(T, g) = bits
    BY <1>7, <1>16 DEF Prios
  <2>2. Boosted(T, g) = Boosted(S, g) \ {x}
    BY <1>16 DEF Boosted
  <2>3. \A e \in Mem(T, g) : T.linked[e] = rt_se_prio(T, e)
    BY <1>3, <1>16
  <2>4. /\ T.rq[g].rt_nr_running = Cardinality(Mem(T, g))
        /\ T.rq[g].rt_nr_boosted = Cardinality(Boosted(T, g))
        /\ T.rq[g].bitmap = Prios(T, g)
        /\ T.rq[g].highest_prio = Highest(Prios(T, g))
    BY <1>6, <1>8, <1>10, <1>12, <1>16, <2>1, <2>2
  <2> HIDE DEF g
  <2> QED BY <2>3, <2>4 DEF Counts
<1>18. \A h \in Group : T.rq[h].rt_time = S.rq[h].rt_time /\ T.rq[h].rt_throttled = S.rq[h].rt_throttled
         /\ T.rq[h].rt_runtime = S.rq[h].rt_runtime /\ T.rq[h].active = S.rq[h].active
         /\ (T.rq[h].rt_nr_running # 0 => S.rq[h].rt_nr_running # 0)
  <2> TAKE h \in Group
  <2>1. CASE h = g
    <3>1. S.rq[g].rt_nr_running # 0
      BY <1>6 DEF n
    <3> QED BY <1>11, <1>12, <2>1, <3>1
  <2>2. CASE h # g
    BY <1>12, <2>2 DEF OnlyAt
  <2> QED BY <2>1, <2>2
<1>19. Timers(T)
  BY <1>0, <1>18 DEF Timers
<1>20. \A e \in W \cup {x} : ~on_rt_rq(T, e)
  <2> SUFFICES ASSUME NEW e \in W \cup {x} PROVE T.linked[e] = Unlinked
    BY DEF on_rt_rq
  <2>1. CASE e = x
    BY <1>12, <2>1
  <2>2. CASE e # x
    <3>1. S.linked[e] = Unlinked
      BY <2>2 DEF Sound, on_rt_rq
    <3>2. e \in Entity
      BY <2>2 DEF Sound
    <3> QED BY <1>12, <2>2, <3>1, <3>2 DEF OnlyAt
  <2> QED BY <2>1, <2>2
<1>21. ASSUME NEW e \in Entity \ ((W \cup {x}) \cup (U \ {x})) PROVE on_rt_rq(T, e) <=> Queued(T, e)
  <2>1. e \in Entity \ (W \cup U) /\ e # x
    OBVIOUS
  <2>2. e # g
    <3>1. Root \notin Entity
      BY GroupsAssumption, BandwidthAssumption DEF Entity
    <3> QED BY <2>1, <3>1
  <2>3. on_rt_rq(S, e) <=> Queued(S, e)
    BY <2>1 DEF Sound
  <2>4. T.linked[e] = S.linked[e]
    BY <1>12, <2>1 DEF OnlyAt
  <2> QED BY <1>14, <2>1, <2>2, <2>3, <2>4 DEF on_rt_rq
<1>22. \A h \in Group : Counts(T, h)
  BY <1>14, <1>17
<1>25. W \cup {x} \subseteq Entity
  BY DEF Sound
<1>23. Sound(T, W \cup {x}, U \ {x})
  BY <1>12, <1>19, <1>20, <1>21, <1>22, <1>25 DEF Sound
<1>24. SameBut(S, T)
  BY <1>12, <1>18 DEF SameBut, OnlyAt
<1> QED BY <1>23, <1>24 DEF T

\* What inc_rt_tasks() makes of the run queue that an entity of priority prio
\* joins.
With(o, prio, boosted, r) ==
  /\ r.bitmap = o.bitmap \cup {prio}
  /\ r.rt_nr_running = o.rt_nr_running + 1
  /\ r.rt_nr_boosted = IF boosted THEN o.rt_nr_boosted + 1 ELSE o.rt_nr_boosted
  /\ r.highest_prio = IF prio < o.highest_prio THEN prio ELSE o.highest_prio
  /\ r.rt_time = o.rt_time /\ r.rt_throttled = o.rt_throttled /\ r.rt_runtime = o.rt_runtime
  /\ r.rt_runtime # RUNTIME_INF => r.active

LEMMA JoinedIs ==
  ASSUME NEW o \in RtRq, NEW prio \in 0..(MAX_RT_PRIO - 1), NEW boosted
  PROVE  LET r == start_rt_bandwidth([o EXCEPT
                    !.bitmap = @ \cup {prio},
                    !.rt_nr_running = @ + 1,
                    !.highest_prio = IF prio < @ THEN prio ELSE @,
                    !.rt_nr_boosted = IF boosted THEN @ + 1 ELSE @])
         IN  With(o, prio, boosted, r) /\ r \in RtRq
<1> DEFINE n == o.rt_nr_running + 1
           h == IF prio < o.highest_prio THEN prio ELSE o.highest_prio
           b == IF boosted THEN o.rt_nr_boosted + 1 ELSE o.rt_nr_boosted
           B == o.bitmap \cup {prio}
           q == [o EXCEPT !.bitmap = B, !.rt_nr_running = n, !.highest_prio = h,
                          !.rt_nr_boosted = b]
           r == start_rt_bandwidth(q)
<1>1. n \in Nat /\ h \in 0..MAX_RT_PRIO /\ b \in Nat /\ B \in SUBSET (0..(MAX_RT_PRIO - 1))
  BY UnlinkedIs DEF RtRq
<1> HIDE DEF n, h, b, B
<1>2. /\ q \in RtRq /\ q.bitmap = B /\ q.rt_nr_running = n /\ q.highest_prio = h /\ q.rt_nr_boosted = b
      /\ q.rt_time = o.rt_time /\ q.rt_throttled = o.rt_throttled /\ q.rt_runtime = o.rt_runtime
  BY <1>1 DEF RtRq
<1> HIDE DEF q
<1>3. 0 \in 0..MaxOverrun
  BY BandwidthAssumption
<1>4. /\ r \in RtRq /\ r.bitmap = q.bitmap /\ r.rt_nr_running = q.rt_nr_running
      /\ r.highest_prio = q.highest_prio /\ r.rt_nr_boosted = q.rt_nr_boosted
      /\ r.rt_time = q.rt_time /\ r.rt_throttled = q.rt_throttled /\ r.rt_runtime = q.rt_runtime
      /\ (r.rt_runtime # RUNTIME_INF => r.active)
  BY <1>2, <1>3 DEF RtRq, start_rt_bandwidth
<1> HIDE DEF r
<1>5. With(o, prio, boosted, r)
  BY <1>2, <1>4 DEF With, n, h, b, B
<1> QED BY <1>4, <1>5 DEF r, q, n, h, b, B

LEMMA EnqueueOneIs ==
  ASSUME NEW S \in States, NEW x \in Entity, NEW g \in Group, g = rt_rq_of_se(S, x),
         rt_se_prio(S, x) \in 0..(MAX_RT_PRIO - 1),
         ~(x \in Group /\ (rt_rq_throttled(S.rq[x]) \/ S.rq[x].rt_nr_running = 0))
  PROVE  \E r \in RtRq : /\ enqueue_one(S, x) = Change(S, x, rt_se_prio(S, x), g, r)
                         /\ With(S.rq[g], rt_se_prio(S, x), rt_se_boosted(S, x), r)
<1> DEFINE prio == rt_se_prio(S, x)
           boosted == rt_se_boosted(S, x)
           o == S.rq[g]
           r == start_rt_bandwidth([o EXCEPT
                    !.bitmap = @ \cup {prio},
                    !.rt_nr_running = @ + 1,
                    !.highest_prio = IF prio < @ THEN prio ELSE @,
                    !.rt_nr_boosted = IF boosted THEN @ + 1 ELSE @])
<1>1. o \in RtRq /\ prio \in 0..(MAX_RT_PRIO - 1)
  BY DEF States
<1>2. enqueue_one(S, x) = Change(S, x, prio, g, r)
  BY DEF enqueue_one, Change
<1> HIDE DEF prio, boosted, o
<1>3. With(o, prio, boosted, r) /\ r \in RtRq
  BY <1>1, JoinedIs
<1> HIDE DEF r
<1> QED BY <1>2, <1>3 DEF prio, boosted, o

\* An entity that is to be linked has a priority.
LEMMA QueuedPrio ==
  ASSUME NEW S \in States, \A g \in Group : Counts(S, g), NEW x \in Entity, Queued(S, x)
  PROVE  rt_se_prio(S, x) \in 0..(MAX_RT_PRIO - 1)
<1>1. CASE x \in Task
  <2>1. prio_of(S.task[x]) \in 0..MAX_RT_PRIO /\ prio_of(S.task[x]) < MAX_RT_PRIO
    BY <1>1 DEF Queued, is_rt, prio_of, States, Tasks
  <2> QED BY <1>1, <2>1, UnlinkedIs DEF rt_se_prio
<1>2. CASE x \notin Task
  <2>1. x \in Group /\ Mem(S, x) # {}
    BY <1>2 DEF Queued, Entity
  <2>2. S.rq[x].highest_prio = Highest(Prios(S, x))
    BY <2>1 DEF Counts
  <2>3. Prios(S, x) \subseteq 0..(MAX_RT_PRIO - 1) /\ Prios(S, x) # {}
    <3>1. \A e \in Mem(S, x) : S.linked[e] \in 0..(MAX_RT_PRIO - 1)
      BY UnlinkedIs DEF Mem, States
    <3> QED BY <2>1, <3>1 DEF Prios
  <2>4. Highest(Prios(S, x)) \in Prios(S, x)
    BY <2>3, FirstBit DEF Highest
  <2> QED BY <1>2, <2>2, <2>3, <2>4 DEF rt_se_prio
<1> QED BY <1>1, <1>2

\* What enqueue_one() asks of a group.
LEMMA NotQueued ==
  ASSUME NEW S \in States, \A g \in Group : Counts(S, g), NEW x \in Entity
  PROVE  /\ x \in Group /\ (rt_rq_throttled(S.rq[x]) \/ S.rq[x].rt_nr_running = 0)
            <=> x \notin Task /\ ~Queued(S, x)
         /\ x \in Group <=> x \notin Task
<1>1. x \in Group <=> x \notin Task
  BY BandwidthAssumption DEF Entity
<1>2. x \in Group => (S.rq[x].rt_nr_running = 0 <=> Mem(S, x) = {})
  <2> SUFFICES ASSUME x \in Group PROVE S.rq[x].rt_nr_running = 0 <=> Mem(S, x) = {}
    OBVIOUS
  <2>1. Mem(S, x) \subseteq Entity
    BY DEF Mem
  <2>2. S.rq[x].rt_nr_running = Cardinality(Mem(S, x))
    BY DEF Counts
  <2> QED BY <2>1, <2>2, EntitiesFinite
<1> QED BY <1>1, <1>2 DEF Queued

LEMMA EnqueueSound ==
  ASSUME NEW S, NEW W, NEW U, Sound(S, W, U), NEW x \in Entity, x \in W,
         x \in Task => Queued(S, x),
         rt_rq_of_se(S, x) # Root => rt_rq_of_se(S, x) \in W
  PROVE  /\ Sound(enqueue_one(S, x), W \ {x}, U)
         /\ SameBut(S, enqueue_one(S, x))
<1> DEFINE g == rt_rq_of_se(S, x)
           T == enqueue_one(S, x)
           prio == rt_se_prio(S, x)
           M == Mem(S, g)
<1>0. S \in States /\ (\A h \in Group : Counts(S, h)) /\ Timers(S) /\ ~on_rt_rq(S, x)
  BY DEF Sound
<1>1. g \in Group /\ g # x
  BY <1>0, ParentType DEF States
<1>40. CASE ~Queued(S, x)
  <2>1. x \in Group /\ (rt_rq_throttled(S.rq[x]) \/ S.rq[x].rt_nr_running = 0)
    BY <1>0, <1>40, NotQueued
  <2>2. T = S
    BY <2>1 DEF enqueue_one
  <2>3. Sound(S, W \ {x}, U)
    BY <1>0, <1>40 DEF Sound
  <2>4. SameBut(S, S)
    BY DEF SameBut
  <2> QED BY <2>2, <2>3, <2>4
<1>41. CASE Queued(S, x)
  <2>2. x \notin M /\ M \subseteq Entity /\ IsFiniteSet(M)
    <3>1. M \subseteq Entity /\ x \notin M
      BY <1>0 DEF Mem, on_rt_rq
    <3> QED BY <3>1, EntitiesFinite
  <2>3. /\ S.rq[g].rt_nr_running = Cardinality(M)
        /\ S.rq[g].rt_nr_boosted = Cardinality(Boosted(S, g))
        /\ S.rq[g].bitmap = Prios(S, g)
        /\ S.rq[g].highest_prio = Highest(Prios(S, g))
        /\ \A e \in M : S.linked[e] = rt_se_prio(S, e)
    BY <1>0, <1>1 DEF Counts
  <2>4. Prios(S, g) \subseteq 0..(MAX_RT_PRIO - 1)
    BY <1>0, UnlinkedIs DEF States, Mem, Prios
  <2>5. prio \in 0..(MAX_RT_PRIO - 1)
    BY <1>0, <1>41, QueuedPrio
  <2>6. PICK r \in RtRq : /\ T = Change(S, x, prio, g, r)
                          /\ With(S.rq[g], prio, rt_se_boosted(S, x), r)
    <3>1. ~(x \in Group /\ (rt_rq_throttled(S.rq[x]) \/ S.rq[x].rt_nr_running = 0))
      BY <1>0, <1>41, NotQueued
    <3> QED BY <1>0, <1>1, <2>5, <3>1, EnqueueOneIs
  <2>7. /\ r.bitmap = Prios(S, g) \cup {prio}
        /\ r.rt_nr_running = Cardinality(M) + 1
        /\ r.rt_nr_boosted = IF rt_se_boosted(S, x) THEN Cardinality(Boosted(S, g)) + 1
                             ELSE Cardinality(Boosted(S, g))
        /\ r.highest_prio = IF prio < Highest(Prios(S, g)) THEN prio ELSE Highest(Prios(S, g))
        /\ r.rt_time = S.rq[g].rt_time /\ r.rt_throttled = S.rq[g].rt_throttled
        /\ r.rt_runtime = S.rq[g].rt_runtime /\ (r.rt_runtime # RUNTIME_INF => r.active)
    BY <2>3, <2>6 DEF With
  <2> HIDE DEF T, prio
  <2>8. r.highest_prio = Highest(Prios(S, g) \cup {prio})
    <3>1. Prios(S, g) \cup {prio} \subseteq 0..(MAX_RT_PRIO - 1) /\ Prios(S, g) \cup {prio} # {}
      BY <2>4, <2>5
    <3>2. Highest(Prios(S, g) \cup {prio}) = first_bit(Prios(S, g) \cup {prio})
      BY DEF Highest
    <3>3. CASE Prios(S, g) = {}
      <4>1. Highest(Prios(S, g)) = MAX_RT_PRIO
        BY <3>3 DEF Highest
      <4>2. r.highest_prio = prio
        BY <2>5, <2>7, <4>1, UnlinkedIs
      <4>3. prio \in Prios(S, g) \cup {prio} /\ \A c \in Prios(S, g) \cup {prio} : prio <= c
        BY <2>5, <3>3
      <4> QED BY <3>1, <3>2, <4>2, <4>3, FirstBit
    <3>4. CASE Prios(S, g) # {}
      <4> DEFINE h == first_bit(Prios(S, g))
      <4>1. Highest(Prios(S, g)) = h
        BY <3>4 DEF Highest
      <4>2. h \in Prios(S, g) /\ (\A c \in Prios(S, g) : h <= c)
        BY <2>4, <3>4, FirstBit
      <4> HIDE DEF h
      <4>3. /\ r.highest_prio \in Prios(S, g) \cup {prio}
            /\ \A c \in Prios(S, g) \cup {prio} : r.highest_prio <= c
        <5>1. r.highest_prio = IF prio < h THEN prio ELSE h
          BY <2>7, <4>1
        <5>2. \A c \in Prios(S, g) \cup {prio} : c \in Int
          BY <3>1
        <5>3. h \in Int /\ prio \in Int
          BY <4>2, <5>2
        <5> QED BY <4>2, <5>1, <5>2, <5>3
      <4> QED BY <3>1, <3>2, <4>3, FirstBit
    <3> QED BY <3>3, <3>4
  <2>9. /\ T \in States /\ OnlyAt(S, T, x, g) /\ T.linked[x] = prio /\ T.rq[g] = r
        /\ T.resched = S.resched /\ T.delta = S.delta
    <3>1. prio \in 0..MAX_RT_PRIO
      BY <2>5, UnlinkedIs
    <3>2. S \in States /\ T = Change(S, x, prio, g, r) /\ r \in RtRq
      BY <1>0, <2>6
    <3> HIDE DEF g
    <3>3. LET C == Change(S, x, prio, g, r)
          IN  /\ C.task = S.task /\ C.resched = S.resched /\ C.delta = S.delta
              /\ C.linked[x] = prio /\ \A y \in Entity \ {x} : C.linked[y] = S.linked[y]
              /\ C.rq[g] = r /\ (\A h \in Group \ {g} : C.rq[h] = S.rq[h])
              /\ (prio \in 0..MAX_RT_PRIO /\ r \in RtRq => C \in States)
      BY ONLY <1>1, <3>2, x \in Entity, ChangeIs
    <3> QED BY <3>1, <3>2, <3>3 DEF OnlyAt
  <2>10. g # Root => ~on_rt_rq(S, g)
    BY DEF Sound
  <2>11. /\ \A h \in Group \ {g} : Counts(T, h)
         /\ \A e \in Entity \ {g} : Queued(T, e) <=> Queued(S, e)
         /\ \A e \in Mem(T, g) \cup Mem(S, g) : e # g
    BY <1>0, <1>1, <2>9, <2>10, OthersKept
  <2>12. /\ \A e \in Entity : rt_rq_of_se(T, e) = rt_rq_of_se(S, e)
         /\ \A e \in Entity \ {g} : /\ rt_se_prio(T, e) = rt_se_prio(S, e)
                                    /\ rt_se_boosted(T, e) = rt_se_boosted(S, e)
    BY <1>1, <2>9, EntitiesKept
  <2>13. Mem(T, g) = M \cup {x}
    <3>1. prio # Unlinked
      BY <2>5, UnlinkedIs
    <3> QED BY <2>9, <2>12, <3>1 DEF Mem, OnlyAt
  <2>14. \A e \in M : T.linked[e] = S.linked[e] /\ e \in Entity \ {g}
    BY <2>2, <2>9, <2>11 DEF OnlyAt
  <2>15. Counts(T, g)
    <3>1. Prios(T, g) = Prios(S, g) \cup {prio}
      BY <2>9, <2>13, <2>14 DEF Prios
    <3>2. Boosted(T, g) = IF rt_se_boosted(S, x) THEN Boosted(S, g) \cup {x} ELSE Boosted(S, g)
      BY <1>1, <2>12, <2>13, <2>14 DEF Boosted
    <3>3. x \notin Boosted(S, g) /\ IsFiniteSet(Boosted(S, g))
      <4>1. x \notin Boosted(S, g) /\ Boosted(S, g) \subseteq M
        BY <2>2 DEF Boosted
      <4> QED BY <2>2, <4>1, FS_Subset
    <3>4. Cardinality(Boosted(T, g)) = r.rt_nr_boosted
      <4>1. Cardinality(Boosted(S, g) \cup {x}) = Cardinality(Boosted(S, g)) + 1
        BY <3>3, FS_AddElement
      <4> QED BY <2>7, <3>2, <4>1
    <3>5. Cardinality(Mem(T, g)) = r.rt_nr_running
      <4>1. Cardinality(M \cup {x}) = Cardinality(M) + 1
        BY <2>2, FS_AddElement
      <4> QED BY <2>7, <2>13, <4>1
    <3>6. \A e \in Mem(T, g) : T.linked[e] = rt_se_prio(T, e)
      BY <1>1, <2>3, <2>9, <2>12, <2>13, <2>14 DEF prio
    <3>7. T.rq[g] = r /\ r.bitmap = Prios(T, g) /\ r.highest_prio = Highest(Prios(T, g))
      BY <2>7, <2>8, <2>9, <3>1
    <3> HIDE DEF g
    <3> QED BY <3>4, <3>5, <3>6, <3>7 DEF Counts
  <2>16. \A h \in Group : /\ T.rq[h].rt_time = S.rq[h].rt_time
                          /\ T.rq[h].rt_throttled = S.rq[h].rt_throttled
                          /\ T.rq[h].rt_runtime = S.rq[h].rt_runtime
                          /\ h # g => T.rq[h] = S.rq[h]
                          /\ h = g => (T.rq[h].rt_runtime # RUNTIME_INF => T.rq[h].active)
    BY <2>7, <2>9 DEF OnlyAt
  <2>17. Timers(T)
    BY <1>0, <2>16 DEF Timers
  <2>18. \A e \in W \ {x} : ~on_rt_rq(T, e)
    <3> SUFFICES ASSUME NEW e \in W \ {x} PROVE T.linked[e] = Unlinked
      BY DEF on_rt_rq
    <3>1. S.linked[e] = Unlinked /\ e \in Entity \ {x}
      BY DEF Sound, on_rt_rq
    <3> QED BY <2>9, <3>1 DEF OnlyAt
  <2>19. ASSUME NEW e \in Entity \ ((W \ {x}) \cup U) PROVE on_rt_rq(T, e) <=> Queued(T, e)
    <3>2. e # g
      <4>1. Root \notin Entity
        BY GroupsAssumption, BandwidthAssumption DEF Entity
      <4> QED BY <1>1, <4>1
    <3>3. CASE e = x
      BY <1>41, <2>5, <2>9, <2>11, <3>2, <3>3, UnlinkedIs DEF on_rt_rq
    <3>4. CASE e # x
      <4>1. on_rt_rq(S, e) <=> Queued(S, e)
        BY <3>4 DEF Sound
      <4>2. T.linked[e] = S.linked[e]
        BY <2>9, <3>4 DEF OnlyAt
      <4> QED BY <2>11, <3>2, <4>1, <4>2 DEF on_rt_rq
    <3> QED BY <3>3, <3>4
  <2>20. \A h \in Group : Counts(T, h)
    BY <2>11, <2>15
  <2>23. W \ {x} \subseteq Entity
    BY DEF Sound
  <2>21. Sound(T, W \ {x}, U)
    BY <2>23, <2>9, <2>17, <2>18, <2>19, <2>20 DEF Sound
  <2>22. SameBut(S, T)
    BY <2>9, <2>16 DEF SameBut, OnlyAt
  <2> QED BY <2>21, <2>22 DEF T
<1> QED BY <1>40, <1>41
-----------------------------------------------------------------------------
(* The loops over the entities above one, and over the groups of a task *)

\* One turn of a loop.
Turn(k, T, x) ==
  IF k = "dequeue" THEN IF on_rt_rq(T, x) THEN dequeue_one(T, x) ELSE T
  ELSE IF k = "enqueue" THEN enqueue_one(T, x)
  ELSE IF k = "requeue" THEN IF x \in Group /\ T.rq[x].rt_nr_running # 0 THEN enqueue_one(T, x) ELSE T
  ELSE charge(T, x)

\* The last turn for the places in s: dequeueing goes down, the other loops up.
LastTurn(k, s) ==
  IF k = "dequeue" THEN CHOOSE x \in s : \A y \in s : x <= y
                   ELSE CHOOSE x \in s : \A y \in s : x >= y

LoopStep(a, k, q, S, s) ==
  IF s = {} THEN S ELSE Turn(k, a[s \ {LastTurn(k, s)}], q[LastTurn(k, s)])

\* a has the outcome of the loop from S over q, for every set of places.
IsLoop(a, k, q, S) == a = [s \in SUBSET DOMAIN q |-> LoopStep(a, k, q, S, s)]

LEMMA LastTurnType ==
  ASSUME NEW k, NEW n \in Nat, NEW s \in SUBSET (1..n), s # {}
  PROVE  /\ LastTurn(k, s) \in s
         /\ k = "dequeue" => \A y \in s : LastTurn(k, s) <= y
         /\ k # "dequeue" => \A y \in s : LastTurn(k, s) >= y
<1>1. CASE k = "dequeue"
  <2>1. s \subseteq Nat
    OBVIOUS
  <2>2. \E x \in s : \A y \in s : x <= y
    BY <2>1, Least
  <2> QED BY <1>1, <2>2 DEF LastTurn
<1>2. CASE k # "dequeue"
  <2> DEFINE t == {n - y : y \in s}
  <2>1. t \subseteq Nat /\ t # {}
    <3>1. \A y \in s : y \in 1..n /\ n - y \in Nat
      OBVIOUS
    <3>2. PICK y \in s : TRUE
      OBVIOUS
    <3>3. n - y \in t
      OBVIOUS
    <3> QED BY <3>1, <3>3
  <2>2. PICK z \in t : \A y \in t : z <= y
    <3> HIDE DEF t
    <3> QED BY <2>1, Least
  <2>3. PICK x \in s : z = n - x
    OBVIOUS
  <2>4. \A y \in s : x >= y
    <3> TAKE y \in s
    <3>1. n - y \in t
      OBVIOUS
    <3>2. n - x <= n - y
      BY <2>2, <2>3, <3>1
    <3> QED BY <3>2
  <2> QED BY <1>2, <2>4 DEF LastTurn
<1> QED BY <1>1, <1>2

LEMMA LoopExists ==
  ASSUME NEW k, NEW q, NEW n \in Nat, DOMAIN q = 1..n, NEW S
  PROVE  \E a : IsLoop(a, k, q, S)
<1> DEFINE D == 1..n
           Solves_(a, m) == \A s \in SUBSET D : Cardinality(s) <= m => a[s] = LoopStep(a, k, q, S, s)
           P == {m \in Nat : \E a : Solves_(a, m)}
<1>20. IsFiniteSet(D)
  BY FS_Interval
<1>0. \A s \in SUBSET D : IsFiniteSet(s) /\ Cardinality(s) \in Nat /\ (Cardinality(s) = 0 <=> s = {})
  <2> HIDE DEF D
  <2> QED BY <1>20, FS_Subset, FS_CardinalityType, FS_EmptySet
<1>1. \A s \in SUBSET D : s # {} =>
         /\ s \ {LastTurn(k, s)} \in SUBSET D
         /\ Cardinality(s \ {LastTurn(k, s)}) = Cardinality(s) - 1
  BY <1>0, FS_RemoveElement, LastTurnType
<1> HIDE DEF D
<1>2. 0 \in P
  <2> DEFINE a == [s \in SUBSET D |-> S]
  <2>1. Solves_(a, 0)
    BY <1>0 DEF LoopStep
  <2> HIDE DEF a
  <2> QED BY <2>1
<1>7. ASSUME NEW m \in Nat, NEW a, Solves_(a, m), NEW b, b = [s \in SUBSET D |-> LoopStep(a, k, q, S, s)]
      PROVE  Solves_(b, m + 1)
  <2> SUFFICES ASSUME NEW s \in SUBSET D, Cardinality(s) <= m + 1 PROVE b[s] = LoopStep(b, k, q, S, s)
    OBVIOUS
  <2>1. CASE s = {}
    BY <1>7, <2>1 DEF LoopStep
  <2>2. CASE s # {}
    <3>1. Cardinality(s \ {LastTurn(k, s)}) <= m /\ s \ {LastTurn(k, s)} \in SUBSET D
      BY <2>2, <1>0, <1>1
    <3>2. b[s \ {LastTurn(k, s)}] = a[s \ {LastTurn(k, s)}]
      BY <1>7, <3>1
    <3> QED BY <1>7, <2>2, <3>2 DEF LoopStep
  <2> QED BY <2>1, <2>2
<1>3. ASSUME NEW m \in Nat, m \in P PROVE m + 1 \in P
  <2>1. PICK a : Solves_(a, m)
    BY <1>3
  <2> DEFINE b == [s \in SUBSET D |-> LoopStep(a, k, q, S, s)]
  <2>2. Solves_(b, m + 1)
    <3> HIDE DEF Solves_
    <3> QED BY <1>7, <2>1
  <2> HIDE DEF b
  <2> QED BY <2>2
<1>4. Cardinality(D) \in P
  <2> HIDE DEF P
  <2>1. Nat \subseteq P
    BY <1>2, <1>3, SetInduction
  <2> QED BY <1>0, <2>1
<1>5. PICK a : Solves_(a, Cardinality(D))
  BY <1>4
<1> DEFINE b == [s \in SUBSET D |-> LoopStep(a, k, q, S, s)]
<1>6. ASSUME NEW s \in SUBSET D PROVE a[s] = LoopStep(a, k, q, S, s) /\ b[s] = a[s]
  <2>1. Cardinality(s) <= Cardinality(D)
    BY <1>20, FS_Subset
  <2> QED BY <1>5, <2>1
<1>8. ASSUME NEW s \in SUBSET D PROVE b[s] = LoopStep(b, k, q, S, s)
  <2>1. CASE s = {}
    BY <1>6, <2>1 DEF LoopStep
  <2>2. CASE s # {}
    <3>1. b[s \ {LastTurn(k, s)}] = a[s \ {LastTurn(k, s)}]
      BY <1>1, <1>6, <2>2
    <3> QED BY <1>6, <2>2, <3>1 DEF LoopStep
  <2> QED BY <2>1, <2>2
<1>9. b = [s \in SUBSET D |-> b[s]]
  OBVIOUS
<1> HIDE DEF b
<1>10. IsLoop(b, k, q, S)
  BY <1>8, <1>9 DEF IsLoop, D
<1> QED BY <1>10

LEMMA DequeueStackIs ==
  ASSUME NEW S, NEW e, NEW n \in Nat, DOMAIN for_each_rt_entity(S, e) = 1..n
  PROVE  \E a : /\ IsLoop(a, "dequeue", for_each_rt_entity(S, e), S)
                /\ dequeue_rt_stack(S, e) = a[1..n]
<1> DEFINE q == for_each_rt_entity(S, e)
           Loop(a) == a = [s \in SUBSET DOMAIN q |-> IF s = {} THEN S
             ELSE IF on_rt_rq(a[s \ {CHOOSE x \in s : \A y \in s : x <= y}],
                              q[CHOOSE x \in s : \A y \in s : x <= y])
             THEN dequeue_one(a[s \ {CHOOSE x \in s : \A y \in s : x <= y}],
                              q[CHOOSE x \in s : \A y \in s : x <= y])
             ELSE a[s \ {CHOOSE x \in s : \A y \in s : x <= y}]]
<1>1. dequeue_rt_stack(S, e) = (CHOOSE a : Loop(a))[DOMAIN q]
  BY Zenon DEF dequeue_rt_stack, FoldRight, MapThenFoldSet, Min
<1> HIDE DEF q
<1>2. \A a : Loop(a) <=> IsLoop(a, "dequeue", q, S)
  BY DEF IsLoop, LoopStep, LastTurn, Turn
<1>3. \E a : IsLoop(a, "dequeue", q, S)
  BY LoopExists DEF q
<1> HIDE DEF Loop
<1>4. Loop(CHOOSE a : Loop(a))
  BY <1>2, <1>3
<1> QED BY <1>1, <1>2, <1>4 DEF q

\* The way up, of entities that are queued or of groups that have members.
LEMMA EnqueueEntityIs ==
  ASSUME NEW S, NEW e, NEW n \in Nat, DOMAIN for_each_rt_entity(S, e) = 1..n
  PROVE  \E a : /\ IsLoop(a, "enqueue", for_each_rt_entity(S, e), dequeue_rt_stack(S, e))
               /\ enqueue_rt_entity(S, e) = a[1..n]
<1> DEFINE q == for_each_rt_entity(S, e)
           T == dequeue_rt_stack(S, e)
           Loop(a) == a = [s \in SUBSET DOMAIN q |-> IF s = {} THEN T
             ELSE enqueue_one(a[s \ {CHOOSE x \in s : \A y \in s : x >= y}],
                              q[CHOOSE x \in s : \A y \in s : x >= y])]
<1>1. enqueue_rt_entity(S, e) = (CHOOSE a : Loop(a))[DOMAIN q]
  BY Zenon DEF enqueue_rt_entity, FoldLeft, MapThenFoldSet, Max
<1>2. \A a : Loop(a) <=> IsLoop(a, "enqueue", q, T)
  <2> HIDE DEF q, T
  <2> QED BY DEF IsLoop, LoopStep, LastTurn, Turn
<1>3. \E a : IsLoop(a, "enqueue", q, T)
  BY LoopExists
<1> HIDE DEF Loop
<1>4. Loop(CHOOSE a : Loop(a))
  BY <1>2, <1>3
<1> QED BY <1>1, <1>2, <1>4

LEMMA DequeueEntityIs ==
  ASSUME NEW S, NEW e, NEW n \in Nat, DOMAIN for_each_rt_entity(S, e) = 1..n
  PROVE  \E a : /\ IsLoop(a, "requeue", for_each_rt_entity(S, e), dequeue_rt_stack(S, e))
                /\ dequeue_rt_entity(S, e) = a[1..n]
<1> DEFINE q == for_each_rt_entity(S, e)
           T == dequeue_rt_stack(S, e)
           Loop(a) == a = [s \in SUBSET DOMAIN q |-> IF s = {} THEN T
             ELSE IF /\ q[CHOOSE x \in s : \A y \in s : x >= y] \in Group
                     /\ (a[s \ {CHOOSE x \in s : \A y \in s : x >= y}]).rq[q[CHOOSE x \in s : \A y \in s : x >= y]].rt_nr_running # 0
             THEN enqueue_one(a[s \ {CHOOSE x \in s : \A y \in s : x >= y}],
                              q[CHOOSE x \in s : \A y \in s : x >= y])
             ELSE a[s \ {CHOOSE x \in s : \A y \in s : x >= y}]]
<1>1. dequeue_rt_entity(S, e) = (CHOOSE a : Loop(a))[DOMAIN q]
  BY Zenon DEF dequeue_rt_entity, FoldLeft, MapThenFoldSet, Max
<1>2. \A a : Loop(a) <=> IsLoop(a, "requeue", q, T)
  <2> HIDE DEF q, T
  <2> QED BY DEF IsLoop, LoopStep, LastTurn, Turn
<1>3. \E a : IsLoop(a, "requeue", q, T)
  BY LoopExists
<1> HIDE DEF Loop
<1>4. Loop(CHOOSE a : Loop(a))
  BY <1>2, <1>3
<1> QED BY <1>1, <1>2, <1>4

\* update_curr_rt() charges the groups of the running task.
LEMMA ChargeIs ==
  ASSUME NEW S, NEW q, NEW n \in Nat, DOMAIN q = 1..n
  PROVE  \E a : /\ IsLoop(a, "charge", q, S)
                /\ FoldLeft(charge, S, q) = a[1..n]
<1> DEFINE Loop(a) == a = [s \in SUBSET DOMAIN q |-> IF s = {} THEN S
             ELSE charge(a[s \ {CHOOSE x \in s : \A y \in s : x >= y}],
                              q[CHOOSE x \in s : \A y \in s : x >= y])]
<1>1. FoldLeft(charge, S, q) = (CHOOSE a : Loop(a))[DOMAIN q]
  BY Zenon DEF FoldLeft, MapThenFoldSet, Max
<1>2. \A a : Loop(a) <=> IsLoop(a, "charge", q, S)
  BY DEF IsLoop, LoopStep, LastTurn, Turn
<1>3. \E a : IsLoop(a, "charge", q, S)
  BY LoopExists
<1> HIDE DEF Loop
<1>4. Loop(CHOOSE a : Loop(a))
  BY <1>2, <1>3
<1> QED BY <1>1, <1>2, <1>4

\* The turns of a loop, one after the other.
LEMMA LoopDown ==
  ASSUME NEW q, NEW n \in Nat, DOMAIN q = 1..n, NEW S, NEW a, IsLoop(a, "dequeue", q, S)
  PROVE  a[{}] = S /\ \A i \in 1..n : a[i..n] = Turn("dequeue", a[(i + 1)..n], q[i])
<1> DEFINE k == "dequeue"
<1>1. \A s \in SUBSET (1..n) : a[s] = LoopStep(a, k, q, S, s)
  BY DEF IsLoop
<1>2. a[{}] = S
  BY <1>1 DEF LoopStep
<1>3. ASSUME NEW i \in 1..n PROVE a[i..n] = Turn(k, a[(i + 1)..n], q[i])
  <2>1. i..n \in SUBSET (1..n) /\ i \in i..n
    OBVIOUS
  <2>2. LastTurn(k, i..n) \in i..n /\ LastTurn(k, i..n) <= i
    BY <2>1, LastTurnType
  <2>3. LastTurn(k, i..n) = i
    BY <2>2
  <2>4. (i..n) \ {i} = (i + 1)..n
    OBVIOUS
  <2> QED BY <1>1, <2>1, <2>3, <2>4 DEF LoopStep
<1> QED BY <1>2, <1>3

LEMMA LoopUp ==
  ASSUME NEW k, k # "dequeue", NEW q, NEW n \in Nat, DOMAIN q = 1..n, NEW S, NEW a, IsLoop(a, k, q, S)
  PROVE  a[{}] = S /\ \A i \in 1..n : a[1..i] = Turn(k, a[1..(i - 1)], q[i])
<1>1. \A s \in SUBSET (1..n) : a[s] = LoopStep(a, k, q, S, s)
  BY DEF IsLoop
<1>2. a[{}] = S
  BY <1>1 DEF LoopStep
<1>4. ASSUME NEW i \in 1..n PROVE a[1..i] = Turn(k, a[1..(i - 1)], q[i])
  <2>1. 1..i \in SUBSET (1..n) /\ i \in 1..i
    OBVIOUS
  <2>2. LastTurn(k, 1..i) \in 1..i /\ LastTurn(k, 1..i) >= i
    BY <2>1, LastTurnType
  <2>3. LastTurn(k, 1..i) = i
    BY <2>2
  <2>4. (1..i) \ {i} = 1..(i - 1)
    OBVIOUS
  <2> QED BY <1>1, <2>1, <2>3, <2>4 DEF LoopStep
<1> QED BY <1>2, <1>4

LEMMA SameButTwice ==
  ASSUME NEW S, NEW T, NEW V, SameBut(S, T), SameBut(T, V)
  PROVE  SameBut(S, V)
BY DEF SameBut

LEMMA DownTurn ==
  ASSUME NEW S, NEW W, NEW U, Sound(S, W, U), NEW x \in Entity,
         rt_rq_of_se(S, x) # Root => rt_rq_of_se(S, x) \in W
  PROVE  /\ Sound(Turn("dequeue", S, x), W \cup {x}, U \ {x})
         /\ SameBut(S, Turn("dequeue", S, x))
<1>1. CASE on_rt_rq(S, x)
  BY <1>1, DequeueSound DEF Turn
<1>2. CASE ~on_rt_rq(S, x)
  <2>1. Turn("dequeue", S, x) = S
    BY <1>2 DEF Turn
  <2>2. Sound(S, W \cup {x}, U \ {x})
    BY <1>2 DEF Sound
  <2> QED BY <2>1, <2>2 DEF SameBut
<1> QED BY <1>1, <1>2

LEMMA UpTurn ==
  ASSUME NEW S, NEW W, NEW U, Sound(S, W, U), NEW x \in W,
         rt_rq_of_se(S, x) # Root => rt_rq_of_se(S, x) \in W,
         NEW k \in {"enqueue", "requeue"}, x \in Task /\ k = "enqueue" => Queued(S, x)
  PROVE  /\ Sound(Turn(k, S, x), W \ (IF k = "requeue" THEN {x} \ Task ELSE {x}), U)
         /\ SameBut(S, Turn(k, S, x))
<1>0. x \in Entity
  BY DEF Sound
<1>1. CASE k = "enqueue"
  BY <1>0, <1>1, EnqueueSound DEF Turn
<1>2. CASE k = "requeue" /\ x \in Task
  <2>1. x \notin Group
    BY <1>2, BandwidthAssumption
  <2>2. Turn(k, S, x) = S
    BY <1>2, <2>1 DEF Turn
  <2>3. W \ (IF k = "requeue" THEN {x} \ Task ELSE {x}) = W
    BY <1>2
  <2> QED BY <2>2, <2>3 DEF SameBut
<1>3. CASE k = "requeue" /\ x \notin Task
  <2>1. x \in Group
    BY <1>0, <1>3 DEF Entity
  <2>2. Turn(k, S, x) = enqueue_one(S, x)
    BY <1>3, <2>1 DEF Turn, enqueue_one
  <2>3. W \ (IF k = "requeue" THEN {x} \ Task ELSE {x}) = W \ {x}
    BY <1>3
  <2> QED BY <1>0, <1>3, <2>2, <2>3, EnqueueSound
<1> QED BY <1>1, <1>2, <1>3

\* The chain of e, once more, by the places in it.
LEMMA Chain ==
  ASSUME NEW S, S.task \in Tasks, NEW e \in Entity
  PROVE  LET c == for_each_rt_entity(S, e)
             n == Len(c)
         IN  /\ n \in Nat \ {0} /\ DOMAIN c = 1..n /\ Range(c) = {c[m] : m \in 1..n}
             /\ \A i \in 1..n : c[i] \in Entity
             /\ c[1] = e /\ \A i \in 1..n : c[i] \in Task => i = 1
             /\ \A i \in 1..n : rt_rq_of_se(S, c[i]) # Root =>
                                   i # n /\ rt_rq_of_se(S, c[i]) = c[i + 1]
             /\ \A i, j \in 1..n : c[i] = c[j] => i = j
<1> DEFINE c == for_each_rt_entity(S, e)
           n == Len(c)
<1>1. /\ c \in Seq(Entity) /\ n \in Nat \ {0} /\ c[1] = e
      /\ \A i \in 2..n : c[i] \in Group \ {Root}
      /\ \A i \in 1..n : rt_rq_of_se(S, c[i]) = IF i = n THEN Root ELSE c[i + 1]
      /\ \A i, j \in 1..n : c[i] = c[j] => i = j
  BY ChainType
<1> HIDE DEF c
<1>2. DOMAIN c = 1..n /\ \A i \in 1..n : c[i] \in Entity
  BY <1>1
<1>3. \A i \in 1..n : c[i] \in Task => i = 1
  <2> TAKE i \in 1..n
  <2>1. i = 1 \/ i \in 2..n
    BY <1>1
  <2> QED BY <1>1, <2>1, BandwidthAssumption
<1>4. Range(c) = {c[m] : m \in 1..n}
  BY <1>2 DEF Range
<1> HIDE DEF n
<1> QED BY <1>1, <1>2, <1>3, <1>4 DEF c, n

LEMMA StackSound ==
  ASSUME NEW S, NEW W, NEW U, Sound(S, W, U), NEW e \in Entity
  PROVE  LET c == for_each_rt_entity(S, e)
         IN  /\ Sound(dequeue_rt_stack(S, e), W \cup Range(c), U \ Range(c))
             /\ SameBut(S, dequeue_rt_stack(S, e))
<1> DEFINE c == for_each_rt_entity(S, e)
           n == Len(c)
           In(i) == {c[m] : m \in i..n}
<1>0. S.task \in Tasks
  BY DEF Sound, States
<1>1. /\ n \in Nat \ {0} /\ DOMAIN c = 1..n /\ Range(c) = In(1)
      /\ \A i \in 1..n : c[i] \in Entity
      /\ \A i \in 1..n : rt_rq_of_se(S, c[i]) # Root =>
                                   i # n /\ rt_rq_of_se(S, c[i]) = c[i + 1]
  BY <1>0, Chain
<1>2. PICK a : IsLoop(a, "dequeue", c, S) /\ dequeue_rt_stack(S, e) = a[1..n]
  BY <1>1, DequeueStackIs
<1> HIDE DEF c, n
<1>3. a[{}] = S /\ \A i \in 1..n : a[i..n] = Turn("dequeue", a[(i + 1)..n], c[i])
  <2>1. n \in Nat /\ DOMAIN c = 1..n /\ IsLoop(a, "dequeue", c, S)
    BY <1>1, <1>2
  <2> QED BY ONLY <2>1, LoopDown
<1> DEFINE Ok(i) == Sound(a[i..n], W \cup In(i), U \ In(i)) /\ SameBut(S, a[i..n])
           P == {j \in Nat : j <= n => Ok(n - j + 1)}
<1>4. 0 \in P
  <2>1. (n - 0 + 1)..n = {} /\ In(n - 0 + 1) = {}
    BY <1>1
  <2>2. W \cup {} = W /\ U \ {} = U
    OBVIOUS
  <2> QED BY <1>3, <2>1, <2>2 DEF SameBut
<1>5. ASSUME NEW j \in Nat, j \in P PROVE j + 1 \in P
  <2>0. n - (j + 1) + 1 = n - j
    BY <1>1
  <2> SUFFICES ASSUME j + 1 <= n PROVE Ok(n - j)
    <3> HIDE DEF Ok
    <3> QED BY <2>0
  <2> DEFINE i == n - j
  <2>1. i \in 1..n /\ i + 1 = n - j + 1
    BY <1>1
  <2>2. Ok(i + 1)
    BY <1>1, <1>5, <2>1
  <2> HIDE DEF i
  <2>3. a[i..n] = Turn("dequeue", a[(i + 1)..n], c[i])
    BY <1>3, <2>1
  <2>4. rt_rq_of_se(a[(i + 1)..n], c[i]) # Root => rt_rq_of_se(a[(i + 1)..n], c[i]) \in W \cup In(i + 1)
    <3>1. rt_rq_of_se(a[(i + 1)..n], c[i]) = rt_rq_of_se(S, c[i])
      BY <2>2 DEF rt_rq_of_se, SameBut
    <3>2. i # n => c[i + 1] \in In(i + 1)
      <4>1. i # n => i + 1 \in (i + 1)..n
        BY <1>1, <2>1
      <4> QED BY <4>1
    <3> QED BY <1>1, <2>1, <3>1, <3>2
  <2>5. c[i] \in Entity
    BY <1>1, <2>1
  <2>6. In(i) = In(i + 1) \cup {c[i]}
    <3>1. i..n = ((i + 1)..n) \cup {i}
      BY <1>1, <2>1
    <3> QED BY <3>1
  <2>7. (W \cup In(i + 1)) \cup {c[i]} = W \cup In(i) /\ (U \ In(i + 1)) \ {c[i]} = U \ In(i)
    BY <2>6
  <2> HIDE DEF In
  <2>8. Sound(a[i..n], W \cup In(i), U \ In(i)) /\ SameBut(a[(i + 1)..n], a[i..n])
    BY <2>2, <2>3, <2>4, <2>5, <2>7, DownTurn
  <2>9. SameBut(S, a[i..n])
    BY <2>2, <2>8, SameButTwice
  <2> QED BY <2>8, <2>9 DEF i
<1>6. n \in P
  <2> HIDE DEF P
  <2>1. Nat \subseteq P
    BY <1>4, <1>5, SetInduction
  <2> QED BY <1>1, <2>1
<1>7. Ok(1)
  <2>1. n - n + 1 = 1 /\ n <= n
    BY <1>1
  <2> QED BY <1>6, <2>1
<1> QED BY <1>1, <1>2, <1>7 DEF c

LEMMA ClimbSound ==
  ASSUME NEW S, NEW W, NEW U, Sound(S, W, U), NEW e \in Entity, NEW k \in {"enqueue", "requeue"},
         Range(for_each_rt_entity(S, e)) \subseteq W,
         e \in Task /\ k = "enqueue" => Queued(S, e),
         NEW a, IsLoop(a, k, for_each_rt_entity(S, e), S),
         NEW n, n = Len(for_each_rt_entity(S, e))
  PROVE  /\ Sound(a[1..n], W \ (Range(for_each_rt_entity(S, e)) \ (IF k = "requeue" THEN Task ELSE {})), U)
         /\ SameBut(S, a[1..n])
<1> DEFINE c == for_each_rt_entity(S, e)
           Keep == IF k = "requeue" THEN Task ELSE {}
           In(i) == {c[m] : m \in 1..i}
<1>0. S.task \in Tasks
  BY DEF Sound, States
<1>1. /\ n \in Nat \ {0} /\ DOMAIN c = 1..n /\ Range(c) = In(n)
      /\ \A i \in 1..n : c[i] \in Entity
      /\ c[1] = e /\ \A i \in 1..n : c[i] \in Task => i = 1
      /\ \A i \in 1..n : rt_rq_of_se(S, c[i]) # Root =>
                                   i # n /\ rt_rq_of_se(S, c[i]) = c[i + 1]
      /\ \A i, j \in 1..n : c[i] = c[j] => i = j
  BY <1>0, Chain
<1> HIDE DEF c
<1>2. IsLoop(a, k, c, S) /\ k # "dequeue" /\ Range(c) \subseteq W
  BY DEF c
<1>3. a[{}] = S /\ \A i \in 1..n : a[1..i] = Turn(k, a[1..(i - 1)], c[i])
  <2>1. n \in Nat /\ DOMAIN c = 1..n /\ IsLoop(a, k, c, S) /\ k # "dequeue"
    BY <1>1, <1>2
  <2> QED BY ONLY <2>1, LoopUp
<1> DEFINE Ok(i) == Sound(a[1..i], W \ (In(i) \ Keep), U) /\ SameBut(S, a[1..i])
           P == {i \in Nat : i <= n => Ok(i)}
<1>4. 0 \in P
  <2>1. 1..0 = {} /\ In(0) = {}
    OBVIOUS
  <2>2. W \ ({} \ Keep) = W
    OBVIOUS
  <2> QED BY <1>3, <2>1, <2>2 DEF SameBut
<1>5. ASSUME NEW j \in Nat, j \in P PROVE j + 1 \in P
  <2> SUFFICES ASSUME j + 1 <= n PROVE Ok(j + 1)
    <3> HIDE DEF Ok
    <3> QED OBVIOUS
  <2> DEFINE i == j + 1
  <2>1. i \in 1..n /\ i - 1 = j
    BY <1>1
  <2>2. Ok(j)
    BY <1>1, <1>5, <2>1
  <2> HIDE DEF i
  <2>3. a[1..i] = Turn(k, a[1..j], c[i])
    BY <1>3, <2>1
  <2>4. \A m \in 1..j : m \in 1..n /\ m # i
    BY <1>1, <2>1
  <2>5. c[i] \in W \ (In(j) \ Keep)
    <3>1. c[i] \notin In(j)
      BY <1>1, <2>1, <2>4
    <3>2. c[i] \in In(n)
      BY <2>1
    <3> QED BY <1>1, <1>2, <3>1, <3>2
  <2>6. rt_rq_of_se(a[1..j], c[i]) # Root => rt_rq_of_se(a[1..j], c[i]) \in W \ (In(j) \ Keep)
    <3>1. rt_rq_of_se(a[1..j], c[i]) = rt_rq_of_se(S, c[i])
      BY <2>2 DEF rt_rq_of_se, SameBut
    <3>2. ASSUME i # n PROVE c[i + 1] \in W \ (In(j) \ Keep)
      <4>1. i + 1 \in 1..n /\ \A m \in 1..j : m # i + 1
        BY <1>1, <2>1, <3>2
      <4>2. c[i + 1] \notin In(j)
        BY <1>1, <2>4, <4>1
      <4>3. c[i + 1] \in In(n)
        BY <4>1
      <4> QED BY <1>1, <1>2, <4>2, <4>3
    <3> QED BY <1>1, <2>1, <3>1, <3>2
  <2>7. c[i] \in Task /\ k = "enqueue" => Queued(a[1..j], c[i])
    BY <1>1, <2>1, <2>2 DEF Queued, SameBut
  <2>8. In(i) = In(j) \cup {c[i]}
    <3>1. 1..i = (1..j) \cup {i}
      BY <1>1, <2>1
    <3> QED BY <3>1
  <2>9. (W \ (In(j) \ Keep)) \ (IF k = "requeue" THEN {c[i]} \ Task ELSE {c[i]}) = W \ (In(i) \ Keep)
    BY <2>8
  <2> HIDE DEF In, Keep
  <2>10. Sound(a[1..i], W \ (In(i) \ Keep), U) /\ SameBut(a[1..j], a[1..i])
    <3> DEFINE V == W \ (In(j) \ Keep)
    <3>1. Sound(a[1..j], V, U) /\ c[i] \in V
      BY <2>2, <2>5
    <3>2. rt_rq_of_se(a[1..j], c[i]) # Root => rt_rq_of_se(a[1..j], c[i]) \in V
      BY <2>6
    <3> HIDE DEF V
    <3>3. /\ Sound(Turn(k, a[1..j], c[i]), V \ (IF k = "requeue" THEN {c[i]} \ Task ELSE {c[i]}), U)
          /\ SameBut(a[1..j], Turn(k, a[1..j], c[i]))
      BY <2>7, <3>1, <3>2, UpTurn
    <3> QED BY <2>3, <2>9, <3>3 DEF V
  <2>11. SameBut(S, a[1..i])
    BY <2>2, <2>10, SameButTwice
  <2> QED BY <2>10, <2>11 DEF i
<1>6. n \in P
  <2> HIDE DEF P
  <2>1. Nat \subseteq P
    BY <1>4, <1>5, SetInduction
  <2> QED BY <1>1, <2>1
<1>7. Ok(n)
  BY <1>1, <1>6
<1> QED BY <1>1, <1>7 DEF c

\* The chain of an entity depends on the groups of the tasks alone.
LEMMA ChainKept ==
  ASSUME NEW S, NEW T, T.task = S.task, NEW e
  PROVE  for_each_rt_entity(T, e) = for_each_rt_entity(S, e)
BY DEF for_each_rt_entity, rt_rq_of_se

LEMMA EnqueueEntitySound ==
  ASSUME NEW S, NEW W, NEW U, Sound(S, W, U), NEW e \in Entity, e \in Task => Queued(S, e)
  PROVE  LET R == Range(for_each_rt_entity(S, e))
         IN  /\ Sound(enqueue_rt_entity(S, e), W \ R, U \ R)
             /\ SameBut(S, enqueue_rt_entity(S, e))
<1> DEFINE c == for_each_rt_entity(S, e)
           n == Len(c)
           R == Range(c)
           T == dequeue_rt_stack(S, e)
<1>1. S.task \in Tasks
  BY DEF Sound, States
<1>2. n \in Nat /\ DOMAIN c = 1..n
  BY <1>1, Chain
<1>3. Sound(T, W \cup R, U \ R) /\ SameBut(S, T)
  BY StackSound
<1>4. for_each_rt_entity(T, e) = c
  BY <1>3, ChainKept DEF SameBut
<1>5. PICK a : IsLoop(a, "enqueue", c, T) /\ enqueue_rt_entity(S, e) = a[1..n]
  BY <1>2, EnqueueEntityIs
<1>6. e \in Task => Queued(T, e)
  BY <1>3 DEF Queued, SameBut
<1> HIDE DEF c, n, R, T
<1>9. R = Range(c)
  BY DEF R
<1>7. /\ Sound(a[1..n], (W \cup R) \ (R \ {}), U \ R)
      /\ SameBut(T, a[1..n])
  <2> DEFINE V == W \cup R
             X == U \ R
             k == "enqueue"
  <2>1. R \subseteq V /\ n = Len(c)
    BY DEF n
  <2>2. Sound(T, V, X) /\ IsLoop(a, k, for_each_rt_entity(T, e), T) /\ Range(for_each_rt_entity(T, e)) \subseteq V
        /\ n = Len(for_each_rt_entity(T, e)) /\ k \in {"enqueue", "requeue"} /\ k # "requeue"
    BY <1>3, <1>4, <1>5, <1>9, <2>1
  <2> HIDE DEF V, X, k
  <2>3. /\ Sound(a[1..n], V \ (Range(for_each_rt_entity(T, e)) \ (IF k = "requeue" THEN Task ELSE {})), X)
        /\ SameBut(T, a[1..n])
    BY <1>6, <2>2, ClimbSound
  <2> QED BY <1>4, <1>9, <2>2, <2>3 DEF V, X
<1>8. (W \cup R) \ (R \ {}) = W \ R
  OBVIOUS
<1> QED BY <1>3, <1>5, <1>7, <1>8, SameButTwice DEF c, R

LEMMA DequeueEntitySound ==
  ASSUME NEW S, NEW W, NEW U, Sound(S, W, U), NEW e \in Entity
  PROVE  LET R == Range(for_each_rt_entity(S, e))
         IN  /\ Sound(dequeue_rt_entity(S, e), (W \ R) \cup ({e} \cap Task), U \ R)
             /\ SameBut(S, dequeue_rt_entity(S, e))
<1> DEFINE c == for_each_rt_entity(S, e)
           n == Len(c)
           R == Range(c)
           T == dequeue_rt_stack(S, e)
<1>1. S.task \in Tasks
  BY DEF Sound, States
<1>2. n \in Nat /\ DOMAIN c = 1..n
  BY <1>1, Chain
<1>3. Sound(T, W \cup R, U \ R) /\ SameBut(S, T)
  BY StackSound
<1>4. for_each_rt_entity(T, e) = c
  BY <1>3, ChainKept DEF SameBut
<1>5. PICK a : IsLoop(a, "requeue", c, T) /\ dequeue_rt_entity(S, e) = a[1..n]
  BY <1>2, DequeueEntityIs
<1>10. R \cap Task = {e} \cap Task
  <2>1. /\ R = {c[m] : m \in 1..n} /\ c[1] = e /\ \A i \in 1..n : c[i] \in Task => i = 1
        /\ n \in Nat \ {0}
    BY <1>1, Chain
  <2> HIDE DEF c, n, R
  <2> QED BY <2>1
<1> HIDE DEF c, n, R, T
<1>9. R = Range(c)
  BY DEF R
<1>7. /\ Sound(a[1..n], (W \cup R) \ (R \ Task), U \ R)
      /\ SameBut(T, a[1..n])
  <2> DEFINE V == W \cup R
             X == U \ R
             k == "requeue"
  <2>1. R \subseteq V /\ n = Len(c)
    BY DEF n
  <2>2. Sound(T, V, X) /\ IsLoop(a, k, for_each_rt_entity(T, e), T) /\ Range(for_each_rt_entity(T, e)) \subseteq V
        /\ n = Len(for_each_rt_entity(T, e)) /\ k \in {"enqueue", "requeue"} /\ k = "requeue" /\ k # "enqueue"
    BY <1>3, <1>4, <1>5, <1>9, <2>1
  <2> HIDE DEF V, X, k
  <2>3. /\ Sound(a[1..n], V \ (Range(for_each_rt_entity(T, e)) \ (IF k = "requeue" THEN Task ELSE {})), X)
        /\ SameBut(T, a[1..n])
    BY <2>2, ClimbSound
  <2> QED BY <1>4, <1>9, <2>2, <2>3 DEF V, X
<1>8. (W \cup R) \ (R \ Task) = (W \ R) \cup ({e} \cap Task)
  BY <1>10
<1> QED BY <1>3, <1>5, <1>7, <1>8, SameButTwice DEF c, R

-----------------------------------------------------------------------------
(* Changes of tasks, of limits and of throttling *)

SameCounters(o, r) ==
  /\ r.rt_nr_running = o.rt_nr_running /\ r.rt_nr_boosted = o.rt_nr_boosted
  /\ r.highest_prio = o.highest_prio /\ r.bitmap = o.bitmap

\* A task whose place in the hierarchy does not change.
SamePlace(e, f) ==
  /\ f.group = e.group /\ f.on_rq = e.on_rq /\ f.normal_prio = e.normal_prio
  /\ prio_of(f) = prio_of(e)

\* Tasks of X, which are not linked, and groups of Y may have to be linked now.
LEMMA StateChanged ==
  ASSUME NEW S, NEW W, NEW U, Sound(S, W, U), NEW T \in States, Timers(T), NEW X, NEW Y,
         T.linked = S.linked,
         \A x \in Entity \cap X : ~on_rt_rq(S, x),
         \A x \in Task \ X : SamePlace(S.task[x], T.task[x]),
         \A h \in Group : SameCounters(S.rq[h], T.rq[h]),
         \A h \in Group \ Y : rt_rq_throttled(T.rq[h]) <=> rt_rq_throttled(S.rq[h])
  PROVE  Sound(T, W, U \cup X \cup Y)
<1>1. \A e \in Entity : on_rt_rq(T, e) <=> on_rt_rq(S, e)
  BY DEF on_rt_rq
<1>2. ASSUME NEW e \in Entity \ X
      PROVE  /\ rt_rq_of_se(T, e) = rt_rq_of_se(S, e) /\ rt_se_prio(T, e) = rt_se_prio(S, e)
             /\ rt_se_boosted(T, e) = rt_se_boosted(S, e)
  BY DEF rt_rq_of_se, rt_se_prio, rt_se_boosted, Entity, SameCounters, SamePlace
<1>3. ASSUME NEW h \in Group PROVE Mem(T, h) = Mem(S, h) /\ \A e \in Mem(S, h) : e \in Entity \ X
  BY <1>2 DEF Mem, on_rt_rq
<1>4. ASSUME NEW h \in Group PROVE Counts(T, h)
  <2>1. Counts(S, h) /\ SameCounters(S.rq[h], T.rq[h])
    BY DEF Sound
  <2>2. Prios(T, h) = Prios(S, h)
    BY <1>3 DEF Prios
  <2>3. Boosted(T, h) = Boosted(S, h)
    BY <1>2, <1>3 DEF Boosted
  <2>4. \A e \in Mem(T, h) : T.linked[e] = rt_se_prio(T, e)
    BY <1>2, <1>3, <2>1 DEF Counts
  <2> QED BY <1>3, <2>1, <2>2, <2>3, <2>4 DEF Counts, SameCounters
<1>5. ASSUME NEW e \in Entity \ (W \cup (U \cup X \cup Y)) PROVE on_rt_rq(T, e) <=> Queued(T, e)
  <2>1. on_rt_rq(S, e) <=> Queued(S, e)
    BY DEF Sound
  <2>2. CASE e \in Task
    BY <1>1, <2>1, <2>2 DEF Queued, SamePlace, is_rt
  <2>3. CASE e \notin Task
    <3>1. e \in Group \ Y
      BY <2>3 DEF Entity
    <3> QED BY <1>1, <1>3, <2>1, <2>3, <3>1 DEF Queued
  <2> QED BY <2>2, <2>3
<1>6. W \subseteq Entity /\ \A e \in W : ~on_rt_rq(T, e)
  BY <1>1 DEF Sound
<1> QED BY <1>4, <1>5, <1>6 DEF Sound

\* Entities that are known to be where they are to be.
LEMMA Settled ==
  ASSUME NEW S, NEW W, NEW U, Sound(S, W, U), NEW V, V \subseteq W, NEW X,
         \A e \in Entity \cap ((W \cup U) \ (V \cup X)) : on_rt_rq(S, e) <=> Queued(S, e)
  PROVE  Sound(S, V, X)
<1>1. \A e \in Entity \ (V \cup X) : on_rt_rq(S, e) <=> Queued(S, e)
  BY DEF Sound
<1> QED BY <1>1 DEF Sound

\* Root is not an entity.
LEMMA RootIs == Root \notin Entity /\ Root \in Group /\ Entity \cap Group = Group \ {Root}
                /\ Entity \ Group = Task /\ Task \cap Group = {}
BY GroupsAssumption, BandwidthAssumption DEF Entity

\* The chain of a group holds groups.
LEMMA GroupChain ==
  ASSUME NEW S, S.task \in Tasks, NEW g \in Group \ {Root}
  PROVE  g \in Entity /\ g \notin Task /\ g \in Range(for_each_rt_entity(S, g))
         /\ Range(for_each_rt_entity(S, g)) \cap Task = {}
<1>1. g \in Entity /\ g \notin Task
  BY RootIs
<1>2. /\ rt_rq_of_se(S, g) \in Group
      /\ Range(for_each_rt_entity(S, g)) = {g} \cup (groups_of(rt_rq_of_se(S, g)) \ {Root})
  BY <1>1, ChainType
<1>3. groups_of(rt_rq_of_se(S, g)) \subseteq Group
  BY <1>2, GroupsOf
<1> QED BY <1>1, <1>2, <1>3, RootIs

LEMMA ThrottleSound ==
  ASSUME NEW S, NEW W, W \subseteq Task, NEW g \in Group, Sound(S, W, {g}), rt_rq_throttled(S.rq[g])
  PROVE  Sound(sched_rt_rq_dequeue(S, g), W, {}) /\ SameBut(S, sched_rt_rq_dequeue(S, g))
<1>1. CASE g # Root /\ on_rt_rq(S, g)
  <2> DEFINE R == Range(for_each_rt_entity(S, g))
             T == dequeue_rt_entity(S, g)
  <2>1. g \in Entity /\ g \notin Task /\ g \in R /\ R \cap Task = {}
    BY <1>1, GroupChain DEF Sound, States
  <2>2. Sound(T, (W \ R) \cup ({g} \cap Task), {g} \ R) /\ SameBut(S, T)
    BY <2>1, DequeueEntitySound
  <2>3. (W \ R) \cup ({g} \cap Task) = W /\ {g} \ R = {}
    BY <2>1
  <2>4. sched_rt_rq_dequeue(S, g) = T
    BY <1>1 DEF sched_rt_rq_dequeue
  <2> HIDE DEF R, T
  <2> QED BY <2>2, <2>3, <2>4
<1>2. CASE ~(g # Root /\ on_rt_rq(S, g))
  <2>1. \A e \in Entity \cap ((W \cup {g}) \ (W \cup {})) : on_rt_rq(S, e) <=> Queued(S, e)
    BY <1>2, RootIs DEF Queued
  <2>2. Sound(S, W, {})
    BY <2>1, Settled
  <2>3. sched_rt_rq_dequeue(S, g) = S
    BY <1>2 DEF sched_rt_rq_dequeue
  <2> QED BY <2>2, <2>3 DEF SameBut
<1> QED BY <1>1, <1>2

\* The run queue of g becomes r.
RqSet(S, g, r) == [S EXCEPT !.rq[g] = r]

LEMMA RqSetIs ==
  ASSUME NEW S \in States, NEW g \in Group, NEW r \in RtRq
  PROVE  LET T == RqSet(S, g, r)
         IN  /\ T \in States /\ T.task = S.task /\ T.linked = S.linked
             /\ T.resched = S.resched /\ T.delta = S.delta
             /\ T.rq[g] = r /\ \A h \in Group \ {g} : T.rq[h] = S.rq[h]
BY DEF RqSet, States

LEMMA RqSetKeeps ==
  ASSUME NEW S \in States, NEW g \in Group, NEW r \in RtRq, r.rt_runtime = S.rq[g].rt_runtime
  PROVE  LET T == RqSet(S, g, r)
         IN  /\ \A h \in Group : Mem(T, h) = Mem(S, h)
             /\ \A h \in Group : T.rq[h].rt_runtime = S.rq[h].rt_runtime
             /\ T.task = S.task /\ T.linked = S.linked /\ T.resched = S.resched
             /\ T.delta = S.delta /\ T.rq[g] = r
             /\ \A h \in Group \ {g} : T.rq[h] = S.rq[h]
<1> DEFINE T == RqSet(S, g, r)
<1>2. /\ T.task = S.task /\ T.linked = S.linked /\ T.resched = S.resched
      /\ T.delta = S.delta
      /\ T.rq[g] = r /\ \A h \in Group \ {g} : T.rq[h] = S.rq[h]
  BY RqSetIs
<1> HIDE DEF T
<1>3. \A h \in Group : Mem(T, h) = Mem(S, h)
  BY <1>2 DEF Mem, rt_rq_of_se
<1> QED BY <1>2, <1>3 DEF T

LEMMA RqSound ==
  ASSUME NEW S, NEW W, NEW U, Sound(S, W, U), NEW g \in Group, NEW r \in RtRq,
         SameCounters(S.rq[g], r),
         r.rt_runtime = S.rq[g].rt_runtime,
         S.rq[g].active /\ r.rt_runtime # RUNTIME_INF /\ r.rt_nr_running # 0 => r.active,
         NEW Y, Y = {} => (rt_rq_throttled(r) <=> rt_rq_throttled(S.rq[g])), Y \in {{}, {g}}
  PROVE  Sound(RqSet(S, g, r), W, U \cup Y)
<1> DEFINE T == RqSet(S, g, r)
<1>1. S \in States /\ Timers(S)
  BY DEF Sound
<1>2. /\ T \in States /\ T.task = S.task /\ T.linked = S.linked
      /\ T.rq[g] = r /\ \A h \in Group \ {g} : T.rq[h] = S.rq[h]
  BY <1>1, RqSetIs
<1> HIDE DEF T
<1>3. \A h \in Group : T.rq[h] = IF h = g THEN r ELSE S.rq[h]
  BY <1>2
<1>4. \A h \in Group : /\ SameCounters(S.rq[h], T.rq[h]) /\ T.rq[h].rt_runtime = S.rq[h].rt_runtime
                       /\ S.rq[h].active /\ T.rq[h].rt_runtime # RUNTIME_INF
                            /\ T.rq[h].rt_nr_running # 0 => T.rq[h].active
                       /\ h \notin Y => (rt_rq_throttled(T.rq[h]) <=> rt_rq_throttled(S.rq[h]))
  BY <1>3 DEF SameCounters
<1>5. Timers(T)
  BY <1>1, <1>4 DEF Timers, SameCounters
<1> DEFINE X == {}
<1>6. /\ \A x \in Entity \cap X : ~on_rt_rq(S, x)
      /\ \A x \in Task \ X : SamePlace(S.task[x], T.task[x])
      /\ \A h \in Group : SameCounters(S.rq[h], T.rq[h])
      /\ \A h \in Group \ Y : rt_rq_throttled(T.rq[h]) <=> rt_rq_throttled(S.rq[h])
  BY <1>2, <1>4 DEF SamePlace
<1>7. U \cup X \cup Y = U \cup Y
  OBVIOUS
<1> HIDE DEF X
<1>8. Sound(T, W, U \cup X \cup Y)
  BY <1>2, <1>5, <1>6, StateChanged
<1> QED BY <1>7, <1>8 DEF T

\* What does not concern the queues at all.
LEMMA ReschedSound ==
  ASSUME NEW S, NEW W, NEW U, Sound(S, W, U), NEW b \in BOOLEAN, NEW d \in 0..1
  PROVE  /\ Sound([S EXCEPT !.resched = b], W, U)
         /\ Sound([S EXCEPT !.delta = d], W, U)
         /\ Sound([S EXCEPT !.resched = b, !.delta = d], W, U)
<1>1. S \in States /\ Timers(S)
  BY DEF Sound
<1>2. ASSUME NEW T, T \in States, T.task = S.task, T.linked = S.linked, T.rq = S.rq
      PROVE  Sound(T, W, U)
  <2> DEFINE X == {}
  <2>1. Timers(T)
    BY <1>1, <1>2 DEF Timers
  <2>2. /\ \A x \in Entity \cap X : ~on_rt_rq(S, x)
        /\ \A x \in Task \ X : SamePlace(S.task[x], T.task[x])
        /\ \A h \in Group : SameCounters(S.rq[h], T.rq[h])
        /\ \A h \in Group \ X : rt_rq_throttled(T.rq[h]) <=> rt_rq_throttled(S.rq[h])
    BY <1>2 DEF SameCounters, SamePlace
  <2>3. U \cup X \cup X = U
    OBVIOUS
  <2> HIDE DEF X
  <2>4. Sound(T, W, U \cup X \cup X)
    BY <1>2, <2>1, <2>2, StateChanged
  <2> QED BY <2>3, <2>4
<1>3. ASSUME NEW T, \/ T = [S EXCEPT !.resched = b] \/ T = [S EXCEPT !.delta = d]
                    \/ T = [S EXCEPT !.resched = b, !.delta = d]
      PROVE  T \in States /\ T.task = S.task /\ T.linked = S.linked /\ T.rq = S.rq
  BY <1>1, <1>3 DEF States
<1>4. ASSUME NEW T, \/ T = [S EXCEPT !.resched = b] \/ T = [S EXCEPT !.delta = d]
                    \/ T = [S EXCEPT !.resched = b, !.delta = d]
      PROVE  Sound(T, W, U)
  BY <1>2, <1>3, <1>4
<1> QED BY <1>4

\* What charging leaves alone: the tasks and the limits.
SameTasks(S, T) ==
  /\ T.task = S.task /\ T.delta = S.delta
  /\ \A h \in Group : T.rq[h].rt_runtime = S.rq[h].rt_runtime

\* And it only throttles, and asks for a reschedule.
Stricter(S, T) ==
  /\ S.resched => T.resched
  /\ \A h \in Group : S.rq[h].rt_throttled => T.rq[h].rt_throttled

Charged(S, T) == SameTasks(S, T) /\ Stricter(S, T)

LEMMA ExceededSound ==
  ASSUME NEW S, NEW W, W \subseteq Task, Sound(S, W, {}), NEW g \in Group
  PROVE  /\ Sound(sched_rt_runtime_exceeded(S, g), W, {})
         /\ Charged(S, sched_rt_runtime_exceeded(S, g))
<1> DEFINE o == S.rq[g]
           z == [o EXCEPT !.rt_time = 0]
           r == [o EXCEPT !.rt_throttled = TRUE]
           T == RqSet(S, g, r)
           V == sched_rt_runtime_exceeded(S, g)
<1> SUFFICES Sound(V, W, {}) /\ Charged(S, V)
  OBVIOUS
<1>1. S \in States /\ o \in RtRq
  BY DEF Sound, States
<1>2. V = IF o.rt_throttled \/ o.rt_runtime >= Period \/ o.rt_time <= o.rt_runtime THEN S
          ELSE IF o.rt_runtime = 0 THEN RqSet(S, g, z)
          ELSE IF rt_rq_throttled(r) THEN sched_rt_rq_dequeue(T, g)
          ELSE T
  BY <1>1 DEF sched_rt_runtime_exceeded, RqSet, States
<1>3. /\ z \in RtRq /\ SameCounters(o, z) /\ z.rt_runtime = o.rt_runtime /\ (o.active => z.active)
      /\ z.rt_throttled = o.rt_throttled
  BY <1>1 DEF RtRq, SameCounters
<1>4. /\ r \in RtRq /\ SameCounters(o, r) /\ r.rt_runtime = o.rt_runtime /\ (o.active => r.active)
      /\ r.rt_throttled
  BY <1>1 DEF RtRq, SameCounters
<1> HIDE DEF V, z, r
<1>5. CASE V = S
  BY <1>5 DEF Charged, Stricter, SameTasks
<1>6. CASE V = RqSet(S, g, z)
  <2>1. rt_rq_throttled(z) <=> rt_rq_throttled(o)
    BY <1>3 DEF rt_rq_throttled, SameCounters
  <2> DEFINE Y == {}
  <2>2. (Y = {} => (rt_rq_throttled(z) <=> rt_rq_throttled(o))) /\ Y \in {{}, {g}} /\ {} \cup Y = {}
    BY <2>1
  <2> HIDE DEF Y
  <2>3. Sound(RqSet(S, g, z), W, {} \cup Y)
    BY <1>3, <2>2, RqSound
  <2>4. Charged(S, RqSet(S, g, z))
    BY <1>1, <1>3, RqSetKeeps DEF Charged, Stricter, SameTasks
  <2> QED BY <1>6, <2>2, <2>3, <2>4
<1>7. ASSUME o.rt_throttled = FALSE PROVE Sound(T, W, {g}) /\ Charged(S, T) /\ T.rq[g] = r
           /\ (~rt_rq_throttled(r) => Sound(T, W, {}))
  <2>1. ASSUME NEW Y, (Y = {} => (rt_rq_throttled(r) <=> rt_rq_throttled(o))), Y \in {{}, {g}}
        PROVE  Sound(T, W, {} \cup Y)
    BY <1>4, <2>1, RqSound
  <2>2. Charged(S, T) /\ T.rq[g] = r
    BY <1>1, <1>4, RqSetKeeps DEF Charged, Stricter, SameTasks
  <2>3. ~rt_rq_throttled(o)
    BY <1>7 DEF rt_rq_throttled
  <2> HIDE DEF T, o
  <2>4. Sound(T, W, {} \cup {g})
    BY <2>1
  <2>5. ~rt_rq_throttled(r) => Sound(T, W, {} \cup {})
    BY <2>1, <2>3
  <2>6. {} \cup {g} = {g} /\ {} \cup {} = {}
    OBVIOUS
  <2> QED BY <2>2, <2>4, <2>5, <2>6
<1>8. CASE ~o.rt_throttled /\ ~rt_rq_throttled(r) /\ V = T
  <2>1. o.rt_throttled = FALSE
    BY <1>1, <1>8 DEF RtRq
  <2> QED BY <1>7, <1>8, <2>1
<1>9. CASE ~o.rt_throttled /\ rt_rq_throttled(r) /\ V = sched_rt_rq_dequeue(T, g)
  <2>1. o.rt_throttled = FALSE
    BY <1>1, <1>9 DEF RtRq
  <2> HIDE DEF T
  <2>2. Sound(V, W, {}) /\ SameBut(T, V)
    BY <1>7, <1>9, <2>1, ThrottleSound
  <2>3. Charged(S, V)
    BY <1>7, <2>1, <2>2 DEF Charged, Stricter, SameTasks, SameBut
  <2> QED BY <2>2, <2>3
<1>10. \/ V = S \/ V = RqSet(S, g, z)
       \/ ~o.rt_throttled /\ ~rt_rq_throttled(r) /\ V = T
       \/ ~o.rt_throttled /\ rt_rq_throttled(r) /\ V = sched_rt_rq_dequeue(T, g)
  <2> HIDE DEF T, o
  <2> QED BY <1>2
<1> QED BY <1>5, <1>6, <1>8, <1>9, <1>10

LEMMA ChargeSound ==
  ASSUME NEW S, NEW W, W \subseteq Task, Sound(S, W, {}), NEW g \in Group
  PROVE  Sound(charge(S, g), W, {}) /\ Charged(S, charge(S, g))
<1> DEFINE o == S.rq[g]
           r == [o EXCEPT !.rt_time = @ + S.delta]
           P == RqSet(S, g, r)
           T == sched_rt_runtime_exceeded(P, g)
           b == T.resched \/ rt_rq_throttled(T.rq[g])
<1>1. S \in States /\ o \in RtRq
  BY DEF Sound, States
<1>2. charge(S, g) = IF o.rt_runtime = RUNTIME_INF THEN S ELSE [T EXCEPT !.resched = b]
  BY <1>1 DEF charge, RqSet, States
<1>3. /\ r \in RtRq /\ SameCounters(o, r) /\ r.rt_runtime = o.rt_runtime /\ (o.active => r.active)
      /\ r.rt_throttled = o.rt_throttled
  BY <1>1 DEF RtRq, SameCounters, States
<1> HIDE DEF r
<1>4. Sound(P, W, {}) /\ Charged(S, P)
  <2> DEFINE Y == {}
  <2>1. (Y = {} => (rt_rq_throttled(r) <=> rt_rq_throttled(o))) /\ Y \in {{}, {g}}
    BY <1>3 DEF rt_rq_throttled, SameCounters
  <2>3. {} \cup Y = {}
    OBVIOUS
  <2> HIDE DEF Y
  <2>2. Sound(P, W, {} \cup Y)
    BY <1>3, <2>1, RqSound
  <2>4. Charged(S, P)
    BY <1>1, <1>3, RqSetKeeps DEF Charged, Stricter, SameTasks
  <2> QED BY <2>2, <2>3, <2>4
<1> HIDE DEF P
<1>5. Sound(T, W, {}) /\ Charged(P, T)
  BY <1>4, ExceededSound
<1>6. b \in BOOLEAN /\ T \in States /\ (T.resched => b)
  BY <1>5 DEF Sound, States
<1> HIDE DEF T, b
<1>7. Sound([T EXCEPT !.resched = b], W, {})
  <2>1. 0 \in 0..1
    OBVIOUS
  <2> QED BY <1>5, <1>6, <2>1, ReschedSound
<1>8. Charged(S, [T EXCEPT !.resched = b])
  <2>1. /\ [T EXCEPT !.resched = b].task = T.task /\ [T EXCEPT !.resched = b].delta = T.delta
        /\ [T EXCEPT !.resched = b].rq = T.rq
    BY <1>6 DEF States
  <2>2. T.resched => [T EXCEPT !.resched = b].resched
    <3>1. [T EXCEPT !.resched = b].resched = b
      BY <1>6 DEF States
    <3> QED BY <1>6, <3>1, Zenon
  <2> HIDE DEF P
  <2>3. S.resched => T.resched
    BY <1>4, <1>5 DEF Charged, Stricter
  <2> QED BY <1>4, <1>5, <2>1, <2>2, <2>3 DEF Charged, Stricter, SameTasks
<1>9. Charged(S, S)
  BY DEF Charged, Stricter, SameTasks
<1> QED BY <1>2, <1>7, <1>8, <1>9

\* update_curr_rt() keeps the queues as they are to be.
LEMMA UpdateSound ==
  ASSUME NEW S, NEW W, W \subseteq Task, Sound(S, W, {}), curr \in Task \cup {Other}
  PROVE  /\ Sound(update_curr_rt(S), W, {})
         /\ update_curr_rt(S).task = S.task
         /\ \A h \in Group : update_curr_rt(S).rq[h].rt_runtime = S.rq[h].rt_runtime
         /\ Stricter(S, update_curr_rt(S))
<1>1. CASE curr = Other \/ ~is_rt(S.task[curr])
  BY <1>1 DEF update_curr_rt, Stricter
<1>2. CASE curr # Other /\ is_rt(S.task[curr])
  <2> DEFINE g == S.task[curr].group
             q == ancestors[g] \o <<Root>>
             n == Len(q)
             F == FoldLeft(charge, S, q)
  <2>1. g \in Group
    BY <1>2 DEF Sound, States, Tasks
  <2>2. q \in Seq(Group)
    <3>1. ancestors[g] \in Seq(Group)
      BY <2>1, AncestorsType DEF ChainUp
    <3> QED BY <3>1, RootIs
  <2>3. update_curr_rt(S) = [F EXCEPT !.delta = 0]
    BY <1>2 DEF update_curr_rt
  <2> HIDE DEF q
  <2>4. n \in Nat /\ DOMAIN q = 1..n /\ \A i \in 1..n : q[i] \in Group
    BY <2>2
  <2> HIDE DEF n
  <2>5. PICK a : IsLoop(a, "charge", q, S) /\ F = a[1..n]
    BY <2>4, ChargeIs
  <2>6. a[{}] = S /\ \A i \in 1..n : a[1..i] = Turn("charge", a[1..(i - 1)], q[i])
    BY <2>4, <2>5, LoopUp
  <2> DEFINE Ok(i) == Sound(a[1..i], W, {}) /\ Charged(S, a[1..i])
             P == {i \in Nat : i <= n => Ok(i)}
  <2>7. 0 \in P
    <3>1. 1..0 = {}
      OBVIOUS
    <3> QED BY <2>6, <3>1 DEF Charged, Stricter, SameTasks
  <2>8. ASSUME NEW j \in Nat, j \in P PROVE j + 1 \in P
    <3> SUFFICES ASSUME j + 1 <= n PROVE Ok(j + 1)
      <4> HIDE DEF Ok
      <4> QED OBVIOUS
    <3>1. Ok(j)
      BY <2>4, <2>8
    <3>2. j + 1 \in 1..n /\ (j + 1) - 1 = j
      BY <2>4
    <3>3. a[1..(j + 1)] = charge(a[1..j], q[j + 1])
      BY <2>6, <3>2 DEF Turn
    <3>4. Sound(charge(a[1..j], q[j + 1]), W, {}) /\ Charged(a[1..j], charge(a[1..j], q[j + 1]))
      BY <2>4, <3>1, <3>2, ChargeSound
    <3> QED BY <3>1, <3>3, <3>4 DEF Charged, Stricter, SameTasks
  <2>9. n \in P
    <3> HIDE DEF P
    <3>1. Nat \subseteq P
      BY <2>7, <2>8, SetInduction
    <3> QED BY <2>4, <3>1
  <2>10. Sound(F, W, {}) /\ Charged(S, F)
    BY <2>4, <2>5, <2>9
  <2> HIDE DEF F
  <2>11. Sound([F EXCEPT !.delta = 0], W, {})
    <3>1. 0 \in 0..1 /\ TRUE \in BOOLEAN
      OBVIOUS
    <3> QED BY <2>10, <3>1, ReschedSound
  <2>12. [F EXCEPT !.delta = 0].task = F.task /\ [F EXCEPT !.delta = 0].rq = F.rq
    BY <2>10 DEF Sound, States
  <2> QED BY <2>3, <2>10, <2>11, <2>12 DEF Charged, Stricter, SameTasks
<1> QED BY <1>1, <1>2

\* The comparison with the priority of the running task.
LEMMA CurrPrioType ==
  ASSUME NEW S \in States, curr \in Task \cup {Other}
  PROVE  curr_prio(S) \in 0..MAX_RT_PRIO
BY UnlinkedIs DEF curr_prio, prio_of, States, Tasks

\* No RT task of g is passed over: there is none, or the reschedule is asked for.
Noticed(S, g) ==
  \/ S.rq[g].rt_nr_running = 0
  \/ S.rq[g].highest_prio < curr_prio(S) => S.resched

LEMMA StricterIs ==
  ASSUME NEW S, NEW T, NEW V, Stricter(S, T)
  PROVE  /\ Stricter(S, S)
         /\ Stricter(T, V) => Stricter(S, V)
         /\ SameBut(T, V) => Stricter(S, V)
BY DEF Stricter, SameBut

LEMMA UnthrottleSound ==
  ASSUME NEW S, NEW g \in Group, Sound(S, {}, {g}), ~rt_rq_throttled(S.rq[g]),
         g # Root /\ on_rt_rq(S, g) => Mem(S, g) # {}, curr \in Task \cup {Other}
  PROVE  /\ Sound(sched_rt_rq_enqueue(S, g), {}, {})
         /\ SameTasks(S, sched_rt_rq_enqueue(S, g))
         /\ Stricter(S, sched_rt_rq_enqueue(S, g))
         /\ Noticed(sched_rt_rq_enqueue(S, g), g)
<1> DEFINE T == IF g # Root /\ ~on_rt_rq(S, g) THEN enqueue_rt_entity(S, g) ELSE S
           b == T.resched \/ T.rq[g].highest_prio < curr_prio(T)
           V == sched_rt_rq_enqueue(S, g)
<1>0. S \in States /\ \A h \in Group : Counts(S, h)
  BY DEF Sound
<1>1. V = IF S.rq[g].rt_nr_running = 0 THEN S ELSE [T EXCEPT !.resched = b]
  BY <1>0 DEF sched_rt_rq_enqueue, States
<1> HIDE DEF V
<1>2. S.rq[g].rt_nr_running = 0 <=> Mem(S, g) = {}
  <2>1. Mem(S, g) \subseteq Entity
    BY DEF Mem
  <2> QED BY <1>0, <2>1, EntitiesFinite DEF Counts
<1>3. (g = Root \/ on_rt_rq(S, g) \/ Mem(S, g) = {}) => Sound(S, {}, {})
  <2> SUFFICES ASSUME g = Root \/ on_rt_rq(S, g) \/ Mem(S, g) = {}
               PROVE  Sound(S, {}, {})
    OBVIOUS
  <2>1. \A e \in Entity \cap (({} \cup {g}) \ ({} \cup {})) : on_rt_rq(S, e) <=> Queued(S, e)
    BY RootIs DEF Queued
  <2> QED BY <2>1, Settled
<1>4. CASE S.rq[g].rt_nr_running = 0
  BY <1>1, <1>2, <1>3, <1>4 DEF SameTasks, Stricter, Noticed, V
<1>5. CASE S.rq[g].rt_nr_running # 0
  <2>1. Sound(T, {}, {}) /\ SameTasks(S, T) /\ Stricter(S, T)
    <3>1. CASE g # Root /\ ~on_rt_rq(S, g)
      <4> DEFINE R == Range(for_each_rt_entity(S, g))
      <4>1. g \in Entity /\ g \notin Task /\ g \in R
        BY <1>0, <3>1, GroupChain DEF States
      <4>2. Sound(T, {} \ R, {g} \ R) /\ SameBut(S, T)
        BY <3>1, <4>1, EnqueueEntitySound
      <4>3. {} \ R = {} /\ {g} \ R = {}
        BY <4>1
      <4> HIDE DEF R, T
      <4> QED BY <4>2, <4>3 DEF SameBut, SameTasks, Stricter
    <3>2. CASE ~(g # Root /\ ~on_rt_rq(S, g))
      BY <1>3, <3>2 DEF SameTasks, Stricter
    <3> QED BY <3>1, <3>2
  <2> HIDE DEF T
  <2>2. T \in States
    BY <2>1 DEF Sound
  <2>3. /\ b \in BOOLEAN /\ (T.resched => b)
        /\ T.rq[g].highest_prio < curr_prio(T) => b
    <3>1. curr_prio(T) \in Int /\ T.rq[g].highest_prio \in Int
      BY <2>2, CurrPrioType, UnlinkedIs DEF States, RtRq
    <3> QED BY <2>2, <3>1 DEF States
  <2> HIDE DEF b
  <2>4. Sound([T EXCEPT !.resched = b], {}, {})
    <3>1. 0 \in 0..1
      OBVIOUS
    <3> QED BY <2>1, <2>3, <3>1, ReschedSound
  <2>5. /\ [T EXCEPT !.resched = b].task = T.task /\ [T EXCEPT !.resched = b].delta = T.delta
        /\ [T EXCEPT !.resched = b].rq = T.rq
    BY <2>2 DEF States
  <2>6. V = [T EXCEPT !.resched = b]
    BY <1>1, <1>5
  <2>7. V.resched = b
    BY <2>2, <2>6 DEF States
  <2>8. T.resched => V.resched
    BY <2>3, <2>7, Zenon
  <2>9. Stricter(S, V)
    <3>1. V.rq = T.rq
      BY <2>5, <2>6
    <3> QED BY <2>1, <2>8, <3>1 DEF Stricter
  <2>10. Noticed(V, g)
    <3>1. curr_prio(V) = curr_prio(T) /\ V.rq = T.rq
      BY <2>5, <2>6 DEF curr_prio
    <3>2. V.rq[g].highest_prio < curr_prio(V) => V.resched
      <4>1. T.rq[g].highest_prio < curr_prio(T) => V.resched
        BY <2>3, <2>7, Zenon
      <4> QED BY <3>1, <4>1
    <3> QED BY <3>2 DEF Noticed
  <2> QED BY <2>1, <2>4, <2>5, <2>6, <2>9, <2>10 DEF SameTasks, V
<1> QED BY <1>4, <1>5

\* do_sched_rt_period_timer() keeps the queues as they are to be.
LEMMA TimerSound ==
  ASSUME NEW S, NEW g \in Group, Sound(S, {}, {}), curr \in Task \cup {Other}
  PROVE  /\ Sound(do_sched_rt_period_timer(S, g), {}, {})
         /\ SameTasks(S, do_sched_rt_period_timer(S, g))
         /\ S.resched => do_sched_rt_period_timer(S, g).resched
         /\ \A h \in Group \ {g} : S.rq[h].rt_throttled => do_sched_rt_period_timer(S, g).rq[h].rt_throttled
         /\ \/ S.rq[g].rt_throttled => do_sched_rt_period_timer(S, g).rq[g].rt_throttled
            \/ Noticed(do_sched_rt_period_timer(S, g), g)
<1> DEFINE o == S.rq[g]
           time == o.rt_time - Lesser(o.rt_time, o.overrun * o.rt_runtime)
           r == [o EXCEPT !.rt_time = @ - Lesser(@, o.overrun * o.rt_runtime)]
           unthrottle == o.rt_time # 0 /\ r.rt_throttled /\ r.rt_time < r.rt_runtime
           u == [r EXCEPT !.rt_throttled = @ /\ ~unthrottle, !.overrun = 0]
           idle == \/ u.rt_time = 0 /\ u.rt_nr_running = 0
                   \/ ~u.rt_throttled /\ u.rt_runtime = RUNTIME_INF
           v == [u EXCEPT !.active = ~idle]
           T == RqSet(S, g, v)
           V == do_sched_rt_period_timer(S, g)
<1> SUFFICES /\ Sound(V, {}, {}) /\ SameTasks(S, V)
             /\ S.resched => V.resched
             /\ \A h \in Group \ {g} : S.rq[h].rt_throttled => V.rq[h].rt_throttled
             /\ (S.rq[g].rt_throttled => V.rq[g].rt_throttled) \/ Noticed(V, g)
  OBVIOUS
<1>1. S \in States /\ o \in RtRq
  BY DEF Sound, States
<1>2. V = IF unthrottle \/ (o.rt_time = 0 /\ ~rt_rq_throttled(u))
            THEN sched_rt_rq_enqueue(T, g) ELSE T
  BY DEF do_sched_rt_period_timer, RqSet
<1>3. time \in Nat
  <2>1. o.overrun \in Nat /\ o.rt_runtime \in Nat /\ o.rt_time \in Nat
    BY <1>1, BandwidthAssumption DEF RtRq
  <2>2. o.overrun * o.rt_runtime \in Nat
    BY <2>1
  <2> HIDE DEF o
  <2> QED BY <2>1, <2>2 DEF Lesser
<1>4. /\ r \in RtRq /\ SameCounters(o, r) /\ r.rt_runtime = o.rt_runtime /\ r.active = o.active
      /\ r.rt_throttled = o.rt_throttled
  <2>1. r = [o EXCEPT !.rt_time = time]
    BY <1>1 DEF RtRq
  <2> HIDE DEF time, r
  <2> QED BY <1>1, <1>3, <2>1 DEF RtRq, SameCounters
<1>5. unthrottle \in BOOLEAN /\ 0 \in 0..MaxOverrun
  BY <1>4, BandwidthAssumption DEF RtRq
<1> HIDE DEF r, unthrottle, V
<1>6. /\ u \in RtRq /\ SameCounters(o, u) /\ u.rt_runtime = o.rt_runtime
      /\ u.rt_throttled = (o.rt_throttled /\ ~unthrottle)
  BY <1>4, <1>5 DEF RtRq, SameCounters
<1> HIDE DEF u, o
<1>7. /\ v \in RtRq /\ SameCounters(o, v) /\ v.rt_runtime = o.rt_runtime
      /\ v.rt_throttled = u.rt_throttled /\ v.active = ~idle /\ v.rt_time = u.rt_time
  BY <1>6 DEF RtRq, SameCounters
<1>8. v.rt_runtime # RUNTIME_INF /\ v.rt_nr_running # 0 => v.active
  BY <1>6, <1>7 DEF SameCounters
<1>9. rt_rq_throttled(v) <=> rt_rq_throttled(u)
  BY <1>6, <1>7 DEF SameCounters, rt_rq_throttled
<1> HIDE DEF v, idle
<1>10. ASSUME NEW Y, Y = {} => (rt_rq_throttled(v) <=> rt_rq_throttled(S.rq[g])), Y \in {{}, {g}}
       PROVE  Sound(T, {}, {} \cup Y)
  BY <1>7, <1>8, <1>10, RqSound DEF o
<1>11. /\ \A h \in Group : Mem(T, h) = Mem(S, h)
       /\ T.linked = S.linked /\ T.rq[g] = v /\ SameTasks(S, T)
       /\ T.resched = S.resched /\ \A h \in Group \ {g} : T.rq[h] = S.rq[h]
  BY <1>1, <1>7, RqSetKeeps DEF SameTasks, o
<1> HIDE DEF T
<1>12. CASE unthrottle \/ (o.rt_time = 0 /\ ~rt_rq_throttled(u))
  <2>1. ~rt_rq_throttled(T.rq[g])
    <3>1. ~rt_rq_throttled(u)
      BY <1>6, <1>12 DEF rt_rq_throttled
    <3> QED BY <1>9, <1>11, <3>1
  <2>2. g # Root /\ on_rt_rq(T, g) => Mem(T, g) # {}
    <3>1. g # Root /\ on_rt_rq(S, g) => Mem(S, g) # {}
      <4>1. g # Root => g \in Entity /\ g \notin Task
        BY RootIs
      <4> QED BY <4>1 DEF Sound, Queued
    <3> QED BY <1>11, <3>1 DEF on_rt_rq
  <2>3. Sound(T, {}, {} \cup {g}) /\ {} \cup {g} = {g}
    BY <1>10
  <2>4. V = sched_rt_rq_enqueue(T, g)
    BY <1>2, <1>12
  <2>5. Sound(V, {}, {}) /\ SameTasks(T, V) /\ Stricter(T, V) /\ Noticed(V, g)
    BY <2>1, <2>2, <2>3, <2>4, UnthrottleSound
  <2>6. SameTasks(S, V)
    BY <1>11, <2>5 DEF SameTasks
  <2>7. S.resched => V.resched
    BY <1>11, <2>5 DEF Stricter
  <2>8. \A h \in Group \ {g} : S.rq[h].rt_throttled => V.rq[h].rt_throttled
    BY <1>11, <2>5 DEF Stricter
  <2> QED BY <2>5, <2>6, <2>7, <2>8
<1>13. CASE ~(unthrottle \/ (o.rt_time = 0 /\ ~rt_rq_throttled(u)))
  <2>1. V = T
    BY <1>2, <1>13
  <2>2. rt_rq_throttled(v) <=> rt_rq_throttled(S.rq[g])
    <3>1. u.rt_throttled = o.rt_throttled
      BY <1>1, <1>6, <1>13 DEF RtRq
    <3>2. rt_rq_throttled(u) <=> rt_rq_throttled(o)
      BY <1>6, <3>1 DEF rt_rq_throttled, SameCounters
    <3> QED BY <1>9, <3>2 DEF o
  <2>3. Sound(T, {}, {} \cup {}) /\ {} \cup {} = {}
    BY <1>10, <2>2
  <2>4. S.rq[g].rt_throttled => T.rq[g].rt_throttled
    <3>1. u.rt_throttled = o.rt_throttled
      BY <1>1, <1>6, <1>13 DEF RtRq
    <3> QED BY <1>7, <1>11, <3>1 DEF o
  <2> QED BY <1>11, <2>1, <2>3, <2>4
<1> QED BY <1>12, <1>13

-----------------------------------------------------------------------------
(* Tasks that are dequeued, changed, and enqueued again *)

\* Task t becomes e.
TaskSet(S, t, e) == [S EXCEPT !.task[t] = e]

TaskRecord == [group : Group, normal_prio : 0..MAX_RT_PRIO, pi_prio : 0..MAX_RT_PRIO,
               on_rq : BOOLEAN]

LEMMA TaskSetIs ==
  ASSUME NEW S \in States, NEW t \in Task, NEW e \in TaskRecord
  PROVE  LET T == TaskSet(S, t, e)
         IN  /\ T \in States /\ T.linked = S.linked /\ T.rq = S.rq
             /\ T.resched = S.resched /\ T.delta = S.delta
             /\ T.task[t] = e /\ \A x \in Task \ {t} : T.task[x] = S.task[x]
BY DEF TaskSet, TaskRecord, States, Tasks

\* A task that is not linked may become any task; one that is may become a task
\* with the same place.
LEMMA TaskSetSound ==
  ASSUME NEW S, NEW W, NEW U, Sound(S, W, U), NEW t \in Task, NEW e \in TaskRecord,
         NEW X,
         \/ X = {t} /\ ~on_rt_rq(S, t)
         \/ X = {} /\ SamePlace(S.task[t], e)
  PROVE  Sound(TaskSet(S, t, e), W, U \cup X)
<1> DEFINE T == TaskSet(S, t, e)
           Y == {}
<1>1. S \in States /\ Timers(S)
  BY DEF Sound
<1>2. /\ T \in States /\ T.linked = S.linked /\ T.rq = S.rq
      /\ T.task[t] = e /\ \A x \in Task \ {t} : T.task[x] = S.task[x]
  BY <1>1, TaskSetIs
<1> HIDE DEF T
<1>3. Timers(T)
  BY <1>1, <1>2 DEF Timers
<1>4. /\ \A x \in Entity \cap X : ~on_rt_rq(S, x)
      /\ \A x \in Task \ X : SamePlace(S.task[x], T.task[x])
      /\ \A h \in Group : SameCounters(S.rq[h], T.rq[h])
      /\ \A h \in Group \ Y : rt_rq_throttled(T.rq[h]) <=> rt_rq_throttled(S.rq[h])
  BY <1>2 DEF SameCounters, SamePlace
<1>5. U \cup X \cup Y = U \cup X
  OBVIOUS
<1> HIDE DEF Y
<1>6. Sound(T, W, U \cup X \cup Y)
  BY <1>2, <1>3, <1>4, StateChanged
<1> QED BY <1>5, <1>6 DEF T

\* A task is dequeued, if it is an RT task, and counts as taken off.
LEMMA DequeueTaskSound ==
  ASSUME NEW S, Sound(S, {}, {}), NEW t \in Task, curr \in Task \cup {Other}
  PROVE  /\ Sound(dequeue_task_rt(S, t), {t}, {}) /\ dequeue_task_rt(S, t).task = S.task
         /\ Stricter(S, dequeue_task_rt(S, t))
<1>1. t \in Entity /\ {t} \cap Task = {t}
  BY DEF Entity
<1>2. CASE is_rt(S.task[t])
  <2> DEFINE T == update_curr_rt(S)
             R == Range(for_each_rt_entity(T, t))
             V == dequeue_rt_entity(T, t)
  <2>1. Sound(T, {}, {}) /\ T.task = S.task /\ Stricter(S, T)
    BY UpdateSound
  <2>2. V = dequeue_task_rt(S, t)
    BY <1>2 DEF dequeue_task_rt
  <2> HIDE DEF T
  <2>3. Sound(V, ({} \ R) \cup ({t} \cap Task), {} \ R) /\ SameBut(T, V)
    BY <1>1, <2>1, DequeueEntitySound
  <2>4. ({} \ R) \cup ({t} \cap Task) = {t} /\ {} \ R = {}
    BY <1>1
  <2> HIDE DEF V, R
  <2>5. Stricter(S, V)
    BY <2>1, <2>3, StricterIs
  <2> QED BY <2>1, <2>2, <2>3, <2>4, <2>5 DEF SameBut
<1>3. CASE ~is_rt(S.task[t])
  <2>1. ~on_rt_rq(S, t)
    BY <1>1, <1>3 DEF Sound, Queued
  <2>2. Sound(S, {t}, {})
    BY <1>1, <2>1 DEF Sound
  <2> QED BY <1>3, <2>2 DEF dequeue_task_rt, Stricter
<1> QED BY <1>2, <1>3

LEMMA EnqueueTaskSound ==
  ASSUME NEW S, NEW t \in Task, Sound(S, {t}, {}), S.task[t].on_rq
  PROVE  /\ Sound(enqueue_task_rt(S, t), {}, {}) /\ enqueue_task_rt(S, t).task = S.task
         /\ Stricter(S, enqueue_task_rt(S, t))
<1>1. t \in Entity /\ {t} \cap Task = {t}
  BY DEF Entity
<1>2. CASE is_rt(S.task[t])
  <2> DEFINE R == Range(for_each_rt_entity(S, t))
             V == enqueue_rt_entity(S, t)
  <2>1. Queued(S, t)
    BY <1>2 DEF Queued
  <2>2. V = enqueue_task_rt(S, t)
    BY <1>2 DEF enqueue_task_rt
  <2>3. Sound(V, {t} \ R, {} \ R) /\ SameBut(S, V)
    BY <1>1, <2>1, EnqueueEntitySound
  <2>4. t \in R
    <3>1. S.task \in Tasks
      BY DEF Sound, States
    <3> QED BY <1>1, <3>1, ChainType
  <2> HIDE DEF V, R
  <2>5. {t} \ R = {} /\ {} \ R = {}
    BY <2>4
  <2> QED BY <2>2, <2>3, <2>5 DEF SameBut, Stricter
<1>3. CASE ~is_rt(S.task[t])
  <2>1. \A e \in Entity \cap (({t} \cup {}) \ ({} \cup {})) : on_rt_rq(S, e) <=> Queued(S, e)
    BY <1>1, <1>3 DEF Sound, Queued
  <2>2. Sound(S, {}, {})
    BY <2>1, Settled
  <2> QED BY <1>3, <2>2 DEF enqueue_task_rt, Stricter
<1> QED BY <1>2, <1>3

\* A task off its queue becomes e.
LEMMA SetOffQueue ==
  ASSUME NEW S, NEW t \in Task, Sound(S, {t}, {}), NEW e \in TaskRecord
  PROVE  LET T == TaskSet(S, t, e)
         IN  /\ Sound(T, {t}, {})
             /\ ~(e.on_rq /\ is_rt(e)) => Sound(T, {}, {})
<1> DEFINE T == TaskSet(S, t, e)
           X == {t}
<1>1. S \in States /\ ~on_rt_rq(S, t)
  BY DEF Sound
<1>2. Sound(T, {t}, {} \cup X)
  <2> DEFINE W == {t}
             U == {}
  <2>1. Sound(S, W, U) /\ X = {t} /\ ~on_rt_rq(S, t)
    BY <1>1
  <2> HIDE DEF W, U, X
  <2>2. Sound(TaskSet(S, t, e), W, U \cup X)
    BY <2>1, TaskSetSound
  <2> QED BY <2>2 DEF W, U
<1>3. T.linked = S.linked /\ T.task[t] = e
  BY <1>1, TaskSetIs
<1> HIDE DEF T
<1>4. Sound(T, {t}, {})
  <2>1. \A x \in Entity \cap (({t} \cup ({} \cup X)) \ ({t} \cup {})) : on_rt_rq(T, x) <=> Queued(T, x)
    OBVIOUS
  <2> QED BY <1>2, <2>1, Settled
<1>5. ASSUME ~(e.on_rq /\ is_rt(e)) PROVE Sound(T, {}, {})
  <2>1. \A x \in Entity \cap (({t} \cup {}) \ ({} \cup {})) : on_rt_rq(T, x) <=> Queued(T, x)
    BY <1>1, <1>3, <1>5 DEF on_rt_rq, Queued
  <2> QED BY <1>4, <2>1, Settled
<1> QED BY <1>4, <1>5 DEF T

\* change_task() keeps the queues as they are to be.
LEMMA ChangeTaskSound ==
  ASSUME Sound(State, {}, {}), curr \in Task \cup {Other}, NEW t \in Task, NEW e \in TaskRecord,
         e.on_rq = task[t].on_rq
  PROVE  /\ Sound(change_task(t, e), {}, {}) /\ Stricter(State, change_task(t, e))
         /\ change_task(t, e).task[t] = e
         /\ \A x \in Task \ {t} : change_task(t, e).task[x] = task[x]
<1> DEFINE S == IF task[t].on_rq THEN dequeue_task_rt(State, t) ELSE State
           P == IF t = curr THEN [update_curr_rt(S) EXCEPT !.delta = 0] ELSE S
           T == TaskSet(P, t, e)
           C == change_task(t, e)
<1>1. t \in Entity /\ State.task = task
  BY DEF Entity, State
<1>2. Sound(S, {t}, {}) /\ S.task = task /\ Stricter(State, S)
  <2>1. CASE task[t].on_rq
    BY <1>1, <2>1, DequeueTaskSound
  <2>2. CASE ~task[t].on_rq
    <3>1. ~on_rt_rq(State, t)
      BY <1>1, <2>2 DEF Sound, Queued
    <3>2. Sound(State, {t}, {})
      BY <1>1, <3>1 DEF Sound
    <3> QED BY <1>1, <2>2, <3>2 DEF Stricter
  <2> QED BY <2>1, <2>2
<1>3. C = IF task[t].on_rq THEN enqueue_task_rt(T, t) ELSE T
  BY DEF change_task, TaskSet
<1> HIDE DEF S, C
<1>4. Sound(P, {t}, {}) /\ P.task = task /\ Stricter(State, P)
  <2>1. CASE t = curr
    <3> DEFINE V == update_curr_rt(S)
    <3>1. Sound(V, {t}, {}) /\ V.task = S.task /\ Stricter(S, V)
      BY <1>2, UpdateSound
    <3> HIDE DEF V
    <3>2. 0 \in 0..1 /\ TRUE \in BOOLEAN
      OBVIOUS
    <3>3. Sound([V EXCEPT !.delta = 0], {t}, {})
      BY <3>1, <3>2, ReschedSound
    <3>4. /\ [V EXCEPT !.delta = 0].task = V.task
          /\ Stricter(V, [V EXCEPT !.delta = 0])
      BY <3>1 DEF Sound, States, Stricter
    <3>5. Stricter(State, [V EXCEPT !.delta = 0])
      BY <1>2, <3>1, <3>4, StricterIs
    <3> QED BY <1>2, <2>1, <3>1, <3>3, <3>4, <3>5 DEF V
  <2>2. CASE t # curr
    BY <1>2, <2>2
  <2> QED BY <2>1, <2>2
<1> HIDE DEF P
<1>5. Sound(T, {t}, {}) /\ (~(e.on_rq /\ is_rt(e)) => Sound(T, {}, {}))
  BY <1>4, SetOffQueue
<1>6. /\ T.task[t] = e /\ \A x \in Task \ {t} : T.task[x] = task[x]
      /\ Stricter(State, T)
  <2>1. P \in States
    BY <1>4 DEF Sound
  <2>2. /\ T.task[t] = e /\ \A x \in Task \ {t} : T.task[x] = task[x]
        /\ T.rq = P.rq /\ T.resched = P.resched
    BY <1>4, <2>1, TaskSetIs
  <2> QED BY <1>4, <2>2 DEF Stricter
<1> HIDE DEF T
<1>7. Sound(C, {}, {}) /\ Stricter(State, C) /\ C.task = T.task
  <2>1. CASE task[t].on_rq
    <3>1. /\ Sound(enqueue_task_rt(T, t), {}, {}) /\ Stricter(T, enqueue_task_rt(T, t))
          /\ enqueue_task_rt(T, t).task = T.task
      BY <1>5, <1>6, <2>1, EnqueueTaskSound
    <3>2. Stricter(State, enqueue_task_rt(T, t))
      BY <1>6, <3>1, StricterIs
    <3> QED BY <1>3, <2>1, <3>1, <3>2
  <2>2. CASE ~task[t].on_rq
    BY <1>3, <1>5, <1>6, <2>2
  <2> QED BY <2>1, <2>2
<1> QED BY <1>6, <1>7 DEF C

-----------------------------------------------------------------------------
(* The actions *)

LEMMA CommitIs ==
  ASSUME NEW S \in States, Commit(S)
  PROVE  State' = S
BY DEF Commit, State, States

\* The inductive invariant: the hierarchy is as it is to be between operations.
Inv ==
  /\ Sound(State, {}, {})
  /\ curr \in Task \cup {Other}
  /\ now \in 0..(Period - 1)

\* An operation commits a sound state.
LEMMA CommitSound ==
  ASSUME NEW S, Sound(S, {}, {}), Commit(S), curr' \in Task \cup {Other},
         now' \in 0..(Period - 1)
  PROVE  Inv'
<1>1. State' = S
  BY CommitIs DEF Sound
<1>2. Inv' <=> /\ Sound(State', {}, {})
               /\ curr' \in Task \cup {Other}
               /\ now' \in 0..(Period - 1)
  BY DEF Inv, Sound, States, Tasks, Counts, Timers, Mem, Prios, Boosted, Queued
<1> QED BY <1>1, <1>2

\* The switch, of what the running task has left.
LEMMA SwitchSound ==
  ASSUME NEW S, Sound(S, {}, {}), curr \in Task \cup {Other}, now \in 0..(Period - 1),
         switch_to_next(S)
  PROVE  Inv'
<1> DEFINE T == update_curr_rt(S)
           V == [T EXCEPT !.resched = FALSE, !.delta = 0]
<1>1. Sound(T, {}, {})
  BY UpdateSound
<1>2. curr' \in Task \cup {Other} /\ Commit(V) /\ now' = now
  BY DEF switch_to_next, pick_next_task_rt, other_tasks
<1> HIDE DEF T
<1>3. Sound(V, {}, {})
  <2>1. 0 \in 0..1 /\ FALSE \in BOOLEAN
    OBVIOUS
  <2> QED BY <1>1, <2>1, ReschedSound
<1> HIDE DEF V
<1> QED BY <1>2, <1>3, CommitSound

LEMMA ScheduleSound ==
  ASSUME Inv, Schedule
  PROVE  Inv'
BY SwitchSound DEF Inv, Schedule

LEMMA SleepSound ==
  ASSUME Inv, Sleep
  PROVE  Inv'
<1> DEFINE V == dequeue_task_rt(State, curr)
           e == [task[curr] EXCEPT !.on_rq = FALSE]
           S == TaskSet(V, curr, e)
<1>1. curr \in Task /\ State.task = task /\ Sound(State, {}, {})
  BY DEF Inv, Sleep, State
<1>2. Sound(V, {curr}, {}) /\ V.task = task
  BY <1>1, DequeueTaskSound
<1>3. task[curr] \in TaskRecord
  BY <1>1 DEF Sound, States, Tasks, TaskRecord
<1>4. e \in TaskRecord /\ ~e.on_rq
  BY <1>3 DEF TaskRecord
<1>5. S = [V EXCEPT !.task[curr].on_rq = FALSE]
  BY <1>2 DEF TaskSet
<1>6. switch_to_next(S)
  BY <1>5 DEF Sleep
<1> HIDE DEF e, V
<1>7. Sound(S, {}, {})
  BY <1>1, <1>2, <1>4, SetOffQueue
<1> HIDE DEF S
<1> QED BY <1>6, <1>7, SwitchSound DEF Inv

LEMMA WakeUpSound ==
  ASSUME Inv, NEW t \in Task, WakeUp(t)
  PROVE  Inv'
<1> DEFINE e == [task[t] EXCEPT !.on_rq = TRUE]
           P == TaskSet(State, t, e)
           S == enqueue_task_rt(P, t)
           b == S.resched \/ prio_of(task[t]) < curr_prio(S)
           V == [S EXCEPT !.resched = b]
<1>1. /\ State.task = task /\ Sound(State, {}, {}) /\ t \in Entity /\ ~task[t].on_rq
      /\ State \in States
  BY DEF Inv, WakeUp, State, Entity, Sound
<1>2. Sound(State, {t}, {})
  <2>1. ~on_rt_rq(State, t)
    BY <1>1 DEF Sound, Queued
  <2> QED BY <1>1, <2>1 DEF Sound
<1>3. task[t] \in TaskRecord
  BY <1>1 DEF Sound, States, Tasks, TaskRecord
<1>4. e \in TaskRecord /\ e.on_rq
  BY <1>3 DEF TaskRecord
<1>5. P = [State EXCEPT !.task[t].on_rq = TRUE]
  BY <1>1 DEF TaskSet
<1>6. Commit(V) /\ UNCHANGED <<curr, now>>
  BY <1>5 DEF WakeUp
<1> HIDE DEF e
<1>7. Sound(P, {t}, {}) /\ P.task[t] = e
  BY <1>1, <1>2, <1>4, SetOffQueue, TaskSetIs
<1> HIDE DEF P
<1>8. Sound(S, {}, {})
  BY <1>4, <1>7, EnqueueTaskSound
<1> HIDE DEF S
<1>9. b \in BOOLEAN
  <2>1. S \in States
    BY <1>8 DEF Sound
  <2> QED BY <2>1 DEF States
<1> HIDE DEF b
<1>10. Sound(V, {}, {})
  <2>1. 0 \in 0..1
    OBVIOUS
  <2> QED BY <1>8, <1>9, <2>1, ReschedSound
<1> HIDE DEF V
<1> QED BY <1>6, <1>10, CommitSound DEF Inv

LEMMA ChangePrioSound ==
  ASSUME Inv, NEW t \in Task, NEW e \in TaskRecord, e.on_rq = task[t].on_rq, change_prio(t, e)
  PROVE  Inv'
<1> DEFINE S == change_task(t, e)
<1>1. Sound(S, {}, {})
  BY ChangeTaskSound DEF Inv
<1>2. PICK demoted \in BOOLEAN :
        Commit([S EXCEPT !.resched = @ \/ check_class_changed(S, task[t], t, demoted)])
  BY DEF change_prio
<1>3. UNCHANGED <<curr, now>>
  BY DEF change_prio
<1> DEFINE b == S.resched \/ check_class_changed(S, task[t], t, demoted)
           V == [S EXCEPT !.resched = b]
<1>4. Commit(V)
  BY <1>2
<1> HIDE DEF S
<1>5. b \in BOOLEAN
  <2>1. S \in States
    BY <1>1 DEF Sound
  <2> QED BY <2>1 DEF States
<1> HIDE DEF b
<1>6. Sound(V, {}, {})
  <2>1. 0 \in 0..1
    OBVIOUS
  <2> QED BY <1>1, <1>5, <2>1, ReschedSound
<1> HIDE DEF V
<1> QED BY <1>3, <1>4, <1>6, CommitSound DEF Inv

LEMMA SetSchedulerSound ==
  ASSUME Inv, NEW t \in Task, NEW prio \in 0..MAX_RT_PRIO, SetScheduler(t, prio)
  PROVE  Inv'
<1> DEFINE e == [task[t] EXCEPT !.normal_prio = prio]
<1>1. task[t] \in TaskRecord
  BY DEF Inv, Sound, State, States, Tasks, TaskRecord
<1>2. e \in TaskRecord /\ e.on_rq = task[t].on_rq
  BY <1>1 DEF TaskRecord
<1>3. change_prio(t, e)
  BY DEF SetScheduler
<1> HIDE DEF e
<1> QED BY <1>2, <1>3, ChangePrioSound

LEMMA RtMutexSetprioSound ==
  ASSUME Inv, NEW t \in Task, NEW prio \in BoostPrio \cup {MAX_RT_PRIO}, RtMutexSetprio(t, prio)
  PROVE  Inv'
<1> DEFINE e == [task[t] EXCEPT !.pi_prio = prio]
<1>1. task[t] \in TaskRecord
  BY DEF Inv, Sound, State, States, Tasks, TaskRecord
<1>2. prio \in 0..MAX_RT_PRIO
  BY BandwidthAssumption
<1>3. /\ e \in TaskRecord /\ e.on_rq = task[t].on_rq
      /\ e.group = task[t].group /\ e.normal_prio = task[t].normal_prio
  BY <1>1, <1>2 DEF TaskRecord
<1>4. CASE prio_of(e) # prio_of(task[t])
  <2>1. change_prio(t, e)
    BY <1>4 DEF RtMutexSetprio
  <2> HIDE DEF e
  <2> QED BY <1>3, <2>1, ChangePrioSound
<1>5. CASE prio_of(e) = prio_of(task[t])
  <2> DEFINE T == TaskSet(State, t, e)
             X == {}
  <2>1. /\ task' = [task EXCEPT ![t] = e]
        /\ UNCHANGED <<linked, rt_rq, curr, need_resched, delta, now>>
    BY <1>5 DEF RtMutexSetprio
  <2>2. Commit(T)
    BY <2>1 DEF Commit, TaskSet, State
  <2>3. Sound(State, {}, {}) /\ SamePlace(State.task[t], e) /\ X = {} /\ {} \cup X = {}
    BY <1>3, <1>5 DEF Inv, SamePlace, State
  <2> HIDE DEF e, X
  <2>4. Sound(T, {}, {} \cup X)
    BY <1>3, <2>3, TaskSetSound
  <2> HIDE DEF T
  <2> QED BY <2>1, <2>2, <2>3, <2>4, CommitSound DEF Inv
<1> QED BY <1>4, <1>5

LEMMA SchedMoveTaskSound ==
  ASSUME Inv, NEW t \in Task, NEW g \in Group, SchedMoveTask(t, g)
  PROVE  Inv'
<1> DEFINE e == [task[t] EXCEPT !.group = g]
<1>1. task[t] \in TaskRecord
  BY DEF Inv, Sound, State, States, Tasks, TaskRecord
<1>2. e \in TaskRecord /\ e.on_rq = task[t].on_rq
  BY <1>1 DEF TaskRecord
<1>3. Commit(change_task(t, e)) /\ UNCHANGED <<curr, now>>
  BY DEF SchedMoveTask
<1> HIDE DEF e
<1>4. Sound(change_task(t, e), {}, {})
  BY <1>2, ChangeTaskSound DEF Inv
<1> QED BY <1>3, <1>4, CommitSound DEF Inv

LEMMA TaskTickSound ==
  ASSUME Inv, TaskTick
  PROVE  Inv'
<1>1. Sound(update_curr_rt(State), {}, {})
  BY UpdateSound DEF Inv
<1> QED BY <1>1, CommitSound DEF Inv, TaskTick

LEMMA PeriodTimerSound ==
  ASSUME Inv, NEW g \in Group, PeriodTimer(g)
  PROVE  Inv'
<1>1. Sound(do_sched_rt_period_timer(State, g), {}, {})
  BY TimerSound DEF Inv
<1> QED BY <1>1, CommitSound DEF Inv, PeriodTimer

\* Limits and timers do not concern the queues.
LEMMA RunQueuesSound ==
  ASSUME Sound(State, {}, {}), NEW f \in [Group -> RtRq],
         \A h \in Group : SameCounters(rt_rq[h], f[h]) /\ f[h].rt_throttled = rt_rq[h].rt_throttled
                          /\ f[h].active = rt_rq[h].active,
         \A h \in Group : \/ f[h].rt_runtime = rt_rq[h].rt_runtime
                          \/ f[h].rt_runtime \in Runtime,
         NEW d \in 0..1
  PROVE  Sound([task |-> task, linked |-> linked, rq |-> f, resched |-> need_resched,
                delta |-> d], {}, {})
<1> DEFINE T == [task |-> task, linked |-> linked, rq |-> f, resched |-> need_resched,
                 delta |-> d]
           X == {}
<1>1. State \in States /\ Timers(State)
  BY DEF Sound
<1>2. T \in States /\ T.task = State.task /\ T.linked = State.linked /\ T.rq = f /\ State.rq = rt_rq
  BY <1>1 DEF States, State
<1> HIDE DEF T
<1>3. Timers(T)
  <2> SUFFICES ASSUME RUNTIME_INF \notin Runtime, NEW h \in Group
               PROVE  /\ Runtime # {} => f[h].rt_runtime # RUNTIME_INF
                      /\ f[h].rt_runtime # RUNTIME_INF /\ f[h].rt_nr_running # 0 => f[h].active
    BY <1>2 DEF Timers
  <2>1. /\ Runtime # {} => rt_rq[h].rt_runtime # RUNTIME_INF
        /\ rt_rq[h].rt_runtime # RUNTIME_INF /\ rt_rq[h].rt_nr_running # 0 => rt_rq[h].active
    <3>1. /\ Runtime # {} => State.rq[h].rt_runtime # RUNTIME_INF
          /\ State.rq[h].rt_runtime # RUNTIME_INF /\ State.rq[h].rt_nr_running # 0
               => State.rq[h].active
      BY <1>1 DEF Timers
    <3> QED BY <1>2, <3>1
  <2>2. f[h].rt_nr_running = rt_rq[h].rt_nr_running
    BY DEF SameCounters
  <2> QED BY <2>1, <2>2
<1>4. /\ \A x \in Entity \cap X : ~on_rt_rq(State, x)
      /\ \A x \in Task \ X : SamePlace(State.task[x], T.task[x])
      /\ \A h \in Group : SameCounters(State.rq[h], T.rq[h])
      /\ \A h \in Group \ X : rt_rq_throttled(T.rq[h]) <=> rt_rq_throttled(State.rq[h])
  BY <1>2 DEF SamePlace, rt_rq_throttled, SameCounters
<1>5. {} \cup X \cup X = {}
  OBVIOUS
<1> HIDE DEF X
<1>6. Sound(T, {}, {} \cup X \cup X)
  BY <1>2, <1>3, <1>4, StateChanged
<1> QED BY <1>5, <1>6 DEF T

LEMMA SetRtRuntimeSound ==
  ASSUME Inv, NEW g \in Group, NEW runtime \in Runtime, SetRtRuntime(g, runtime)
  PROVE  Inv'
<1> DEFINE f == [rt_rq EXCEPT ![g].rt_runtime = runtime]
           T == [task |-> task, linked |-> linked, rq |-> f, resched |-> need_resched,
                 delta |-> delta]
<1>1. rt_rq \in [Group -> RtRq] /\ delta \in 0..1 /\ Sound(State, {}, {})
  BY DEF Inv, Sound, State, States
<1>2. runtime \in Nat
  BY BandwidthAssumption
<1>3. f \in [Group -> RtRq]
  <2>1. [rt_rq[g] EXCEPT !.rt_runtime = runtime] \in RtRq
    BY <1>1, <1>2 DEF RtRq
  <2> QED BY <1>1, <2>1
<1>4. ASSUME NEW h \in Group
      PROVE  /\ SameCounters(rt_rq[h], f[h]) /\ f[h].rt_throttled = rt_rq[h].rt_throttled
             /\ f[h].active = rt_rq[h].active
             /\ f[h].rt_runtime \in {rt_rq[h].rt_runtime} \cup Runtime
  BY <1>1 DEF RtRq, SameCounters
<1>5. rt_rq' = f /\ UNCHANGED <<task, linked, curr, need_resched, delta, now>>
  BY DEF SetRtRuntime
<1> HIDE DEF f
<1>6. Sound(T, {}, {})
  <2>1. \A h \in Group : \/ f[h].rt_runtime = rt_rq[h].rt_runtime
                         \/ f[h].rt_runtime \in Runtime
    BY <1>4
  <2> QED BY <1>1, <1>3, <1>4, <2>1, RunQueuesSound
<1>7. Commit(T)
  BY <1>5 DEF Commit
<1> HIDE DEF T
<1> QED BY <1>5, <1>6, <1>7, CommitSound DEF Inv

LEMMA ElapseSound ==
  ASSUME Inv, Elapse
  PROVE  Inv'
<1> DEFINE expires == now = Period - 1
           f == [g \in Group |->
                   IF expires /\ rt_rq[g].active THEN [rt_rq[g] EXCEPT !.overrun = @ + 1]
                                                 ELSE rt_rq[g]]
           d == IF curr_prio(State) < MAX_RT_PRIO THEN 1 ELSE 0
           T == [task |-> task, linked |-> linked, rq |-> f, resched |-> need_resched,
                 delta |-> d]
<1>1. rt_rq \in [Group -> RtRq] /\ d \in 0..1 /\ Sound(State, {}, {})
  BY DEF Inv, Sound, State, States
<1>2. /\ expires => \A g \in Group : rt_rq[g].overrun < MaxOverrun
      /\ now' = (now + 1) % Period /\ delta' = d /\ rt_rq' = f
      /\ UNCHANGED <<task, linked, curr, need_resched>>
  BY DEF Elapse
<1>3. ASSUME NEW h \in Group
      PROVE  /\ f[h] \in RtRq
             /\ SameCounters(rt_rq[h], f[h]) /\ f[h].rt_throttled = rt_rq[h].rt_throttled
             /\ f[h].active = rt_rq[h].active
             /\ f[h].rt_runtime = rt_rq[h].rt_runtime
  <2> DEFINE o == rt_rq[h]
             r == [o EXCEPT !.overrun = @ + 1]
  <2>1. o \in RtRq
    BY <1>1
  <2>2. expires => o.overrun + 1 \in 0..MaxOverrun
    BY <1>2, <2>1, BandwidthAssumption DEF RtRq
  <2>3. /\ expires => r \in RtRq
        /\ SameCounters(o, r) /\ r.rt_throttled = o.rt_throttled
        /\ r.active = o.active /\ r.rt_runtime = o.rt_runtime
    BY <2>1, <2>2 DEF RtRq, SameCounters
  <2>4. f[h] = IF expires /\ o.active THEN r ELSE o
    OBVIOUS
  <2> HIDE DEF r, f, expires
  <2> QED BY <2>1, <2>3, <2>4 DEF SameCounters
<1>4. f \in [Group -> RtRq]
  BY <1>3
<1>5. now' \in 0..(Period - 1)
  <2>1. now \in 0..(Period - 1) /\ Period \in Nat \ {0}
    BY BandwidthAssumption DEF Inv
  <2> QED BY <1>2, <2>1
<1> HIDE DEF f, d, expires
<1>6. Sound(T, {}, {})
  BY <1>1, <1>3, <1>4, RunQueuesSound
<1>7. Commit(T)
  BY <1>2 DEF Commit
<1> HIDE DEF T
<1> QED BY <1>2, <1>5, <1>6, <1>7, CommitSound DEF Inv

-----------------------------------------------------------------------------
(* The initial states *)

\* The limits the groups start with: where limits are written but never lifted,
\* every group has one.
LimitsGiven(limit) ==
  /\ limit \in [Group -> Nat]
  /\ RUNTIME_INF \notin Runtime /\ Runtime # {} => \A g \in Group : limit[g] # RUNTIME_INF

LEMMA InitSound ==
  ASSUME NEW limit, LimitsGiven(limit), InitWith(limit)
  PROVE  Inv
<1>1. State \in States
  <2>1. task \in Tasks
    BY RootIs, UnlinkedIs DEF InitWith, Tasks
  <2>2. linked \in [Entity -> 0..MAX_RT_PRIO]
    BY UnlinkedIs DEF InitWith
  <2>3. rt_rq \in [Group -> RtRq]
    BY UnlinkedIs, BandwidthAssumption DEF InitWith, RtRq, LimitsGiven
  <2>4. need_resched \in BOOLEAN /\ delta \in 0..1
    <3>1. need_resched = FALSE /\ delta = 0
      BY DEF InitWith
    <3>2. need_resched \in BOOLEAN
      BY <3>1, Zenon
    <3> QED BY <3>1, <3>2
  <2> QED BY <2>1, <2>2, <2>3, <2>4 DEF State, States
<1>2. \A e \in Entity : ~on_rt_rq(State, e)
  BY DEF InitWith, State, on_rt_rq
<1>3. \A g \in Group : Mem(State, g) = {}
  BY <1>2 DEF Mem, on_rt_rq
<1>4. ASSUME NEW g \in Group
      PROVE  /\ rt_rq[g].rt_nr_running = 0 /\ rt_rq[g].rt_nr_boosted = 0
             /\ rt_rq[g].highest_prio = MAX_RT_PRIO /\ rt_rq[g].bitmap = {}
             /\ rt_rq[g].rt_runtime = limit[g] /\ State.rq = rt_rq
  BY DEF InitWith, State
<1>5. ASSUME NEW g \in Group PROVE Counts(State, g)
  <2>1. Prios(State, g) = {} /\ Boosted(State, g) = {} /\ Cardinality({}) = 0
    BY <1>3, FS_EmptySet DEF Prios, Boosted
  <2> QED BY <1>3, <1>4, <2>1 DEF Counts, Highest
<1>6. Timers(State)
  BY <1>4 DEF Timers, LimitsGiven
<1>7. \A e \in Entity : ~Queued(State, e)
  <2>1. \A t \in Task : ~State.task[t].on_rq
    BY DEF InitWith, State
  <2> QED BY <1>3, <2>1 DEF Queued, Entity
<1>8. Sound(State, {}, {})
  BY <1>1, <1>2, <1>5, <1>6, <1>7 DEF Sound
<1> QED BY <1>8, BandwidthAssumption DEF Inv, InitWith

LEMMA InitInv ==
  ASSUME Init
  PROVE  Inv
<1> DEFINE limit == [g \in Group |-> IF g = Root THEN GlobalRuntime ELSE 0]
<1>1. limit \in [Group -> Nat] /\ \A g \in Group : limit[g] # RUNTIME_INF
  BY BandwidthAssumption
<1>2. InitWith(limit)
  BY DEF Init
<1> HIDE DEF limit
<1> QED BY <1>1, <1>2, InitSound DEF LimitsGiven

\* Every step keeps the invariant.
LEMMA NextInv ==
  ASSUME Inv, [Next]_vars
  PROVE  Inv'
<1>1. CASE UNCHANGED vars
  <2>1. Commit(State) /\ curr' = curr /\ now' = now
    BY <1>1 DEF vars, State, Commit
  <2> QED BY <2>1, CommitSound DEF Inv
<1>2. CASE Next
  <2>1. CASE Schedule \/ Sleep \/ Elapse \/ TaskTick
    BY <2>1, ScheduleSound, SleepSound, ElapseSound, TaskTickSound
  <2>2. ASSUME NEW t \in Task, WakeUp(t) PROVE Inv'
    BY <2>2, WakeUpSound
  <2>3. ASSUME NEW t \in Task, NEW prio \in 0..MAX_RT_PRIO, SetScheduler(t, prio) PROVE Inv'
    BY <2>3, SetSchedulerSound
  <2>4. ASSUME NEW t \in Task, NEW prio \in BoostPrio \cup {MAX_RT_PRIO}, RtMutexSetprio(t, prio)
        PROVE  Inv'
    BY <2>4, RtMutexSetprioSound
  <2>5. ASSUME NEW t \in Task, NEW g \in Group, SchedMoveTask(t, g) PROVE Inv'
    BY <2>5, SchedMoveTaskSound
  <2>6. ASSUME NEW g \in Group, PeriodTimer(g) PROVE Inv'
    BY <2>6, PeriodTimerSound
  <2>7. ASSUME NEW g \in Group, NEW runtime \in Runtime, SetRtRuntime(g, runtime) PROVE Inv'
    BY <2>7, SetRtRuntimeSound
  <2> HIDE DEF Inv
  <2> QED BY <1>2, <2>1, <2>2, <2>3, <2>4, <2>5, <2>6, <2>7 DEF Next
<1> QED BY <1>1, <1>2

-----------------------------------------------------------------------------
(* The pick *)

\* A group is not above its parent.
LEMMA NotAboveParent ==
  ASSUME NEW x \in Group \ {Root}
  PROVE  x \notin groups_of(Parent[x])
<1> DEFINE q == ancestors[Parent[x]]
           r == ancestors[x]
<1> SUFFICES ASSUME x \in groups_of(Parent[x]) PROVE FALSE
  OBVIOUS
<1>1. Parent[x] \in Group
  BY GroupsAssumption
<1>2. r = <<x>> \o q
  BY AncestorsIs
<1>3. q \in Seq(Group \ {Root}) /\ \A i \in 1..Len(q) : Len(ancestors[q[i]]) = Len(q) - i + 1
  BY <1>1, AncestorsType DEF ChainUp
<1>4. x \in Range(q)
  BY DEF groups_of
<1> HIDE DEF q
<1>5. PICK i \in 1..Len(q) : q[i] = x
  BY <1>3, <1>4 DEF Range
<1>6. Len(q) \in Nat /\ Len(r) = Len(q) + 1
  BY <1>2, <1>3
<1>7. Len(r) = Len(q) - i + 1
  BY <1>3, <1>5
<1> QED BY <1>5, <1>6, <1>7

\* Going down the tree ends.
LEMMA Deepest ==
  ASSUME NEW F, F \subseteq Group, F # {}
  PROVE  \E g \in F : \A x \in Group \ {Root} : Parent[x] = g => x \notin F
<1> DEFINE Rest(g) == Group \ groups_of(g)
           N == {Cardinality(Rest(g)) : g \in F}
<1>1. \A g \in Group : IsFiniteSet(Rest(g)) /\ Cardinality(Rest(g)) \in Nat
  BY GroupsAssumption, FS_Subset, FS_CardinalityType
<1>2. N \subseteq Nat /\ N # {}
  BY <1>1
<1>3. PICK n \in N : \A m \in N : n <= m
  BY <1>2, Least
<1>4. PICK g \in F : n = Cardinality(Rest(g))
  OBVIOUS
<1>5. ASSUME NEW x \in Group \ {Root}, Parent[x] = g, x \in F
      PROVE  FALSE
  <2>1. groups_of(x) = {x} \cup groups_of(g) /\ x \notin groups_of(g)
    BY <1>5, GroupsOf, NotAboveParent
  <2>2. Rest(x) = Rest(g) \ {x} /\ x \in Rest(g)
    BY <2>1
  <2>3. Cardinality(Rest(x)) = Cardinality(Rest(g)) - 1
    <3> DEFINE G == Rest(g)
    <3>1. IsFiniteSet(G) /\ x \in G
      BY <1>1, <2>2
    <3> HIDE DEF G
    <3>2. Cardinality(G \ {x}) = Cardinality(G) - 1
      BY <3>1, FS_RemoveElement
    <3> QED BY <2>2, <3>2 DEF G
  <2>4. Cardinality(Rest(x)) \in N
    BY <1>5
  <2> HIDE DEF Rest, N
  <2>5. Cardinality(Rest(g)) \in Nat
    BY <1>1
  <2>6. n <= Cardinality(Rest(x))
    BY <1>3, <2>4
  <2> QED BY <1>4, <2>3, <2>5, <2>6
<1> QED BY <1>5

\* What holds of an entity that is first.
LEMMA FirstIs ==
  ASSUME Inv, NEW e \in Entity, is_first(State, e)
  PROVE  LET g == rt_rq_of_se(State, e)
         IN  /\ g \in Group /\ rt_rq[g].highest_prio = rt_se_prio(State, e)
             /\ Queued(State, e)
<1> DEFINE g == rt_rq_of_se(State, e)
           B == Prios(State, g)
<1>1. Sound(State, {}, {}) /\ State.rq = rt_rq /\ State \in States
  BY DEF Inv, State, Sound
<1>2. g \in Group
  BY <1>1, ParentType DEF States
<1>3. /\ rt_rq[g].bitmap = B /\ rt_rq[g].highest_prio = Highest(B)
      /\ \A x \in Mem(State, g) : State.linked[x] = rt_se_prio(State, x)
  BY <1>1, <1>2 DEF Sound, Counts
<1>4. State.linked[e] \in B /\ \A b \in B : State.linked[e] <= b
  BY <1>1, <1>3 DEF is_first
<1>5. B \subseteq 0..(MAX_RT_PRIO - 1)
  <2>1. \A x \in Mem(State, g) : State.linked[x] \in 0..(MAX_RT_PRIO - 1)
    BY <1>1, UnlinkedIs DEF Mem, States
  <2> QED BY <2>1 DEF Prios
<1>6. State.linked[e] # Unlinked
  BY <1>4, <1>5, UnlinkedIs
<1>7. e \in Mem(State, g)
  BY <1>6 DEF Mem
<1>8. Highest(B) = State.linked[e]
  <2> HIDE DEF B
  <2> QED BY <1>4, <1>5, FirstBit DEF Highest
<1>9. Queued(State, e)
  BY <1>1, <1>6 DEF Sound, on_rt_rq
<1> QED BY <1>2, <1>3, <1>7, <1>8, <1>9

\* What holds of an entity that is to be linked.
LEMMA QueuedIs ==
  ASSUME Inv, NEW e \in Entity, Queued(State, e)
  PROVE  LET g == rt_rq_of_se(State, e)
         IN  /\ g \in Group /\ Mem(State, g) # {}
             /\ rt_rq[g].highest_prio <= rt_se_prio(State, e)
             /\ rt_rq[g].highest_prio \in Nat /\ rt_se_prio(State, e) \in Nat
<1> DEFINE g == rt_rq_of_se(State, e)
           B == Prios(State, g)
<1>1. Sound(State, {}, {}) /\ State.rq = rt_rq /\ State \in States
  BY DEF Inv, State, Sound
<1>2. g \in Group
  BY <1>1, ParentType DEF States
<1>3. /\ rt_rq[g].highest_prio = Highest(B)
      /\ \A x \in Mem(State, g) : State.linked[x] = rt_se_prio(State, x)
  BY <1>1, <1>2 DEF Sound, Counts
<1>4. e \in Mem(State, g)
  BY <1>1 DEF Sound, on_rt_rq, Mem
<1>5. rt_se_prio(State, e) \in B
  BY <1>3, <1>4 DEF Prios
<1>6. B \subseteq 0..(MAX_RT_PRIO - 1)
  <2>1. \A x \in Mem(State, g) : State.linked[x] \in 0..(MAX_RT_PRIO - 1)
    BY <1>1, UnlinkedIs DEF Mem, States
  <2> QED BY <2>1 DEF Prios
<1> HIDE DEF B
<1>7. Highest(B) \in B /\ Highest(B) <= rt_se_prio(State, e)
  BY <1>5, <1>6, FirstBit DEF Highest
<1>8. Highest(B) \in Nat /\ rt_se_prio(State, e) \in Nat
  <2>1. B \subseteq Nat
    BY <1>6, BandwidthAssumption
  <2> QED BY <1>5, <1>7, <2>1
<1>9. Mem(State, g) # {}
  BY <1>4
<1> HIDE DEF g
<1>10. g \in Group /\ Mem(State, g) # {} /\ rt_rq[g].highest_prio = Highest(B)
  BY <1>2, <1>3, <1>9
<1> QED BY <1>7, <1>8, <1>10 DEF g

\* The highest member of a group that has members is first.
LEMMA FirstExists ==
  ASSUME Inv, NEW g \in Group, Mem(State, g) # {}
  PROVE  \E e \in Mem(State, g) : is_first(State, e)
<1> DEFINE B == Prios(State, g)
<1>1. Sound(State, {}, {}) /\ State.rq = rt_rq /\ State \in States
  BY DEF Inv, State, Sound
<1>2. State.rq[g].bitmap = B
  BY <1>1 DEF Sound, Counts
<1>3. B \subseteq 0..(MAX_RT_PRIO - 1) /\ B # {}
  <2>1. \A x \in Mem(State, g) : State.linked[x] \in 0..(MAX_RT_PRIO - 1)
    BY <1>1, UnlinkedIs DEF Mem, States
  <2> QED BY <2>1 DEF Prios
<1>4. first_bit(B) \in B /\ \A b \in B : first_bit(B) <= b
  <2> HIDE DEF B
  <2> QED BY <1>3, FirstBit
<1>5. PICK e \in Mem(State, g) : State.linked[e] = first_bit(B)
  BY <1>4 DEF Prios
<1>6. rt_rq_of_se(State, e) = g
  BY DEF Mem
<1> QED BY <1>2, <1>4, <1>5, <1>6 DEF is_first

\* Going up from a group whose chain is first, the highest priority stays.
LEMMA FirstUp ==
  ASSUME Inv, NEW g \in Group, \A e \in groups_of(g) \ {Root} : is_first(State, e)
  PROVE  rt_rq[g].highest_prio = rt_rq[Root].highest_prio
<1> DEFINE P == {h \in Group : (\A e \in groups_of(h) \ {Root} : is_first(State, e))
                                 => rt_rq[h].highest_prio = rt_rq[Root].highest_prio}
<1>1. Root \in P
  BY GroupsAssumption
<1>2. ASSUME NEW h \in Group \ {Root}, Parent[h] \in P
      PROVE  h \in P
  <2> SUFFICES ASSUME \A e \in groups_of(h) \ {Root} : is_first(State, e)
               PROVE  rt_rq[h].highest_prio = rt_rq[Root].highest_prio
    OBVIOUS
  <2>1. groups_of(h) = {h} \cup groups_of(Parent[h])
    BY GroupsOf
  <2>2. rt_rq[Parent[h]].highest_prio = rt_rq[Root].highest_prio
    BY <1>2, <2>1
  <2>3. h \in Entity /\ h \notin Task
    BY RootIs
  <2>4. rt_rq_of_se(State, h) = Parent[h] /\ rt_se_prio(State, h) = rt_rq[h].highest_prio
    BY <2>3 DEF rt_rq_of_se, rt_se_prio, State
  <2>5. is_first(State, h)
    BY <2>1
  <2>6. rt_rq[Parent[h]].highest_prio = rt_rq[h].highest_prio
    BY <2>3, <2>4, <2>5, FirstIs
  <2> QED BY <2>2, <2>6
<1> HIDE DEF P
<1>3. Group \subseteq P
  BY <1>1, <1>2, TreeInduction
<1> QED BY <1>3 DEF P

\* Going up from a group that has members, where none is throttled, there are
\* members, and the highest priority does not get worse.
LEMMA ClearUp ==
  ASSUME Inv, NEW g \in Group, \A h \in groups_of(g) : ~rt_rq_throttled(rt_rq[h]),
         Mem(State, g) # {}
  PROVE  \A h \in groups_of(g) : /\ Mem(State, h) # {}
                                 /\ rt_rq[h].highest_prio <= rt_rq[g].highest_prio
<1> DEFINE Clear(k) == (\A h \in groups_of(k) : ~rt_rq_throttled(rt_rq[h])) /\ Mem(State, k) # {}
           Up(k) == \A h \in groups_of(k) : /\ Mem(State, h) # {}
                                            /\ rt_rq[h].highest_prio <= rt_rq[k].highest_prio
           P == {k \in Group : Clear(k) => Up(k)}
<1>0. \A k \in Group : rt_rq[k].highest_prio \in Nat
  <2>1. rt_rq \in [Group -> RtRq]
    BY DEF Inv, Sound, States, State
  <2> QED BY <2>1, BandwidthAssumption DEF RtRq
<1>1. Root \in P
  <2>1. groups_of(Root) = {Root} /\ Root \in Group
    BY GroupsOf, GroupsAssumption
  <2>2. Clear(Root) => Up(Root)
    BY <1>0, <2>1
  <2> QED BY <2>1, <2>2
<1>2. ASSUME NEW k \in Group \ {Root}, Parent[k] \in P
      PROVE  k \in P
  <2> SUFFICES ASSUME Clear(k), NEW h \in groups_of(k)
               PROVE  Mem(State, h) # {} /\ rt_rq[h].highest_prio <= rt_rq[k].highest_prio
    OBVIOUS
  <2>1. /\ groups_of(k) = {k} \cup groups_of(Parent[k]) /\ Parent[k] \in Group
        /\ groups_of(k) \subseteq Group
    BY GroupsOf, GroupsAssumption
  <2>2. k \in Entity /\ k \notin Task
    BY RootIs
  <2>3. rt_rq_of_se(State, k) = Parent[k] /\ rt_se_prio(State, k) = rt_rq[k].highest_prio
    BY <2>2 DEF rt_rq_of_se, rt_se_prio, State
  <2>4. Queued(State, k)
    BY <2>1, <2>2 DEF Queued, State
  <2>5. Mem(State, Parent[k]) # {} /\ rt_rq[Parent[k]].highest_prio <= rt_rq[k].highest_prio
    BY <2>2, <2>3, <2>4, QueuedIs
  <2>6. Up(Parent[k])
    BY <1>2, <2>1, <2>5
  <2>7. CASE h = k
    BY <1>0, <2>7
  <2>8. CASE h \in groups_of(Parent[k])
    <3>1. Mem(State, h) # {} /\ rt_rq[h].highest_prio <= rt_rq[Parent[k]].highest_prio
      BY <2>6, <2>8
    <3>2. h \in Group /\ k \in Group
      BY <2>1
    <3> QED BY <1>0, <2>1, <2>5, <3>1, <3>2
  <2> QED BY <2>1, <2>7, <2>8
<1> HIDE DEF P
<1>3. Group \subseteq P
  BY <1>1, <1>2, TreeInduction
<1> QED BY <1>3 DEF P

\* From the root down there is a task with a chain of first entities.
LEMMA FirstTask ==
  ASSUME Inv, Mem(State, Root) # {}
  PROVE  \E t \in Task : /\ is_first(State, t)
                         /\ \A e \in groups_of(task[t].group) \ {Root} : is_first(State, e)
<1> DEFINE F == {g \in Group : /\ Mem(State, g) # {}
                               /\ \A e \in groups_of(g) \ {Root} : is_first(State, e)}
<1>1. Root \in F
  BY GroupsOf, GroupsAssumption
<1>2. PICK g \in F : \A x \in Group \ {Root} : Parent[x] = g => x \notin F
  <2>1. F \subseteq Group /\ F # {}
    BY <1>1
  <2> HIDE DEF F
  <2> QED BY <2>1, Deepest
<1>3. PICK e \in Mem(State, g) : is_first(State, e)
  BY FirstExists
<1>4. e \in Entity /\ rt_rq_of_se(State, e) = g
  BY DEF Mem
<1>5. ASSUME e \notin Task PROVE FALSE
  <2>1. e \in Group \ {Root} /\ Parent[e] = g
    BY <1>4, <1>5 DEF Entity, rt_rq_of_se
  <2>2. Mem(State, e) # {}
    BY <1>3, <1>4, <1>5, FirstIs DEF Queued
  <2>3. groups_of(e) = {e} \cup groups_of(g)
    BY <2>1, GroupsOf
  <2>4. e \in F
    BY <1>3, <2>1, <2>2, <2>3
  <2> QED BY <1>2, <2>1, <2>4
<1>6. e \in Task /\ task[e].group = g
  BY <1>4, <1>5 DEF rt_rq_of_se, State
<1> QED BY <1>3, <1>6

\* The tasks pick_next_task_rt() may return.
LEMMA PickIs ==
  ASSUME Inv, NEW t \in Task
  PROVE  t \in pick_next_task_rt(State)
           <=> /\ rt_rq[Root].rt_nr_running # 0 /\ ~rt_rq_throttled(rt_rq[Root])
               /\ is_first(State, t)
               /\ \A e \in groups_of(task[t].group) \ {Root} : is_first(State, e)
<1>1. t \in Entity /\ State.task \in Tasks /\ State.rq = rt_rq /\ State.task = task
  BY DEF Entity, Inv, Sound, States, State
<1>2. rt_rq_of_se(State, t) = task[t].group
  BY <1>1 DEF rt_rq_of_se
<1>3. Range(for_each_rt_entity(State, t)) = {t} \cup (groups_of(task[t].group) \ {Root})
  BY <1>1, <1>2, ChainType
<1> QED BY <1>1, <1>3 DEF pick_next_task_rt

LEMMA PickInv ==
  ASSUME Inv
  PROVE  PicksHighest
<1> DEFINE picked == pick_next_task_rt(State)
<1>0. /\ State.rq = rt_rq /\ State.task = task /\ Task \subseteq Entity /\ Sound(State, {}, {})
      /\ \A t \in Task : task[t].group \in Group
  BY DEF Inv, State, Entity, Sound, States, Tasks
<1>1. picked \subseteq Task
  BY DEF pick_next_task_rt
<1>2. ASSUME NEW p \in picked
      PROVE  p \in eligible /\ prio_of(task[p]) = rt_rq[Root].highest_prio
  <2> DEFINE g == task[p].group
  <2>1. /\ p \in Task /\ ~rt_rq_throttled(rt_rq[Root]) /\ is_first(State, p) /\ g \in Group
        /\ \A e \in groups_of(g) \ {Root} : is_first(State, e)
    BY <1>0, <1>1, <1>2, PickIs
  <2>2. rt_rq_of_se(State, p) = g /\ rt_se_prio(State, p) = prio_of(task[p])
    BY <1>0, <2>1 DEF rt_rq_of_se, rt_se_prio
  <2>3. rt_rq[g].highest_prio = prio_of(task[p]) /\ task[p].on_rq /\ is_rt(task[p])
    BY <1>0, <2>1, <2>2, FirstIs DEF Queued
  <2>4. ASSUME NEW h \in groups_of(g) PROVE ~rt_rq_throttled(rt_rq[h])
    <3>1. CASE h = Root
      BY <2>1, <3>1
    <3>2. CASE h # Root
      <4>1. h \in Entity /\ h \notin Task
        BY <2>1, <3>2, GroupsOf, RootIs
      <4>2. Queued(State, h)
        BY <2>1, <3>2, <4>1, FirstIs
      <4> QED BY <1>0, <4>1, <4>2 DEF Queued
    <3> QED BY <3>1, <3>2
  <2>5. rt_rq[g].highest_prio = rt_rq[Root].highest_prio
    BY <2>1, FirstUp
  <2> QED BY <2>1, <2>3, <2>4, <2>5 DEF eligible
<1>3. ASSUME NEW t \in eligible
      PROVE  /\ Mem(State, Root) # {} /\ rt_rq[Root].highest_prio <= prio_of(task[t])
             /\ ~rt_rq_throttled(rt_rq[Root])
  <2> DEFINE g == task[t].group
  <2>1. /\ t \in Task /\ task[t].on_rq /\ is_rt(task[t]) /\ g \in Group
        /\ \A h \in groups_of(g) : ~rt_rq_throttled(rt_rq[h])
    BY <1>0, <1>3 DEF eligible
  <2>2. rt_rq_of_se(State, t) = g /\ rt_se_prio(State, t) = prio_of(task[t]) /\ Queued(State, t)
    BY <1>0, <2>1 DEF rt_rq_of_se, rt_se_prio, Queued
  <2>3. /\ Mem(State, g) # {} /\ rt_rq[g].highest_prio <= prio_of(task[t])
        /\ rt_rq[g].highest_prio \in Nat /\ prio_of(task[t]) \in Nat
    BY <1>0, <2>1, <2>2, QueuedIs
  <2>4. Mem(State, Root) # {} /\ rt_rq[Root].highest_prio <= rt_rq[g].highest_prio
    BY <2>1, <2>3, ClearUp, GroupsOf
  <2>5. rt_rq[Root].highest_prio \in Nat
    <3>1. rt_rq \in [Group -> RtRq]
      BY DEF Inv, Sound, States, State
    <3> QED BY <3>1, GroupsAssumption, BandwidthAssumption DEF RtRq
  <2>6. ~rt_rq_throttled(rt_rq[Root])
    BY <2>1, GroupsOf
  <2> HIDE DEF g
  <2> QED BY <2>3, <2>4, <2>5, <2>6
<1>4. ASSUME eligible # {} PROVE picked # {}
  <2>1. Mem(State, Root) # {} /\ ~rt_rq_throttled(rt_rq[Root])
    BY <1>3, <1>4
  <2>2. rt_rq[Root].rt_nr_running # 0
    <3>1. Mem(State, Root) \subseteq Entity
      BY DEF Mem
    <3>2. rt_rq[Root].rt_nr_running = Cardinality(Mem(State, Root))
      BY <1>0, GroupsAssumption DEF Sound, Counts
    <3> QED BY <2>1, <3>1, <3>2, EntitiesFinite
  <2>3. PICK t \in Task : /\ is_first(State, t)
                          /\ \A e \in groups_of(task[t].group) \ {Root} : is_first(State, e)
    BY <2>1, FirstTask
  <2> QED BY <2>1, <2>2, <2>3, PickIs
<1> HIDE DEF picked
<1> QED BY <1>2, <1>3, <1>4 DEF PicksHighest, picked

LEMMA HierarchyInv ==
  ASSUME Inv
  PROVE  HierarchyConsistent
<1>0. /\ State.rq = rt_rq /\ State.task = task /\ State.linked = linked
      /\ Sound(State, {}, {}) /\ State.task \in Tasks
  BY DEF Inv, State, Sound, States
<1>1. \A g \in Group : members(g) = Mem(State, g)
  BY <1>0 DEF members, Mem
<1>2. ASSUME NEW e \in Entity
      PROVE  LET queued == IF e \in Task THEN task[e].on_rq /\ is_rt(task[e])
                           ELSE members(e) # {} /\ ~rt_rq_throttled(rt_rq[e])
             IN  linked[e] = IF queued THEN rt_se_prio(State, e) ELSE Unlinked
  <2> DEFINE g == rt_rq_of_se(State, e)
  <2>1. Queued(State, e) <=> IF e \in Task THEN task[e].on_rq /\ is_rt(task[e])
                             ELSE members(e) # {} /\ ~rt_rq_throttled(rt_rq[e])
    BY <1>0, <1>1 DEF Queued, Entity
  <2>2. linked[e] # Unlinked <=> Queued(State, e)
    BY <1>0 DEF Sound, on_rt_rq
  <2>3. linked[e] # Unlinked => linked[e] = rt_se_prio(State, e)
    <3>1. g \in Group
      BY <1>0, ParentType
    <3>2. linked[e] # Unlinked => e \in Mem(State, g)
      BY <1>0 DEF Mem
    <3> QED BY <1>0, <3>1, <3>2 DEF Sound, Counts
  <2> QED BY <2>1, <2>2, <2>3
<1>3. ASSUME NEW g \in Group
      PROVE  LET r == rt_rq[g]
                 prios == {linked[e] : e \in members(g)}
             IN  /\ r.rt_nr_running = Cardinality(members(g))
                 /\ r.rt_nr_boosted = Cardinality({e \in members(g) : rt_se_boosted(State, e)})
                 /\ r.bitmap = prios
                 /\ r.highest_prio = IF prios = {} THEN MAX_RT_PRIO ELSE first_bit(prios)
  <2>1. Counts(State, g)
    BY <1>0 DEF Sound
  <2>2. members(g) = Mem(State, g)
    BY <1>1
  <2>3. Prios(State, g) = {linked[e] : e \in members(g)}
    BY <1>0, <2>2 DEF Prios
  <2>4. Boosted(State, g) = {e \in members(g) : rt_se_boosted(State, e)}
    BY <2>2 DEF Boosted
  <2> QED BY <1>0, <2>1, <2>2, <2>3, <2>4 DEF Counts, Highest
<1> QED BY <1>2, <1>3 DEF HierarchyConsistent

\* In every group an eligible task is in there is something to run, of at least its
\* priority.
HighestBelow ==
  \A t \in eligible : \A g \in groups_of(task[t].group) :
    /\ rt_rq[g].rt_nr_running # 0 /\ rt_rq[g].highest_prio <= prio_of(task[t])
    /\ rt_rq[g].highest_prio \in Nat

LEMMA HighestBelowInv ==
  ASSUME Inv
  PROVE  HighestBelow
<1>0. /\ State.rq = rt_rq /\ State.task = task /\ Task \subseteq Entity /\ Sound(State, {}, {})
      /\ \A t \in Task : task[t].group \in Group
  BY DEF Inv, State, Entity, Sound, States, Tasks
<1> SUFFICES ASSUME NEW t \in eligible, NEW h \in groups_of(task[t].group)
             PROVE  /\ rt_rq[h].rt_nr_running # 0 /\ rt_rq[h].highest_prio <= prio_of(task[t])
                    /\ rt_rq[h].highest_prio \in Nat
  BY DEF HighestBelow
<1> DEFINE g == task[t].group
<1>1. /\ t \in Task /\ task[t].on_rq /\ is_rt(task[t]) /\ g \in Group
      /\ \A k \in groups_of(g) : ~rt_rq_throttled(rt_rq[k])
  BY <1>0 DEF eligible
<1>2. rt_rq_of_se(State, t) = g /\ rt_se_prio(State, t) = prio_of(task[t]) /\ Queued(State, t)
  BY <1>0, <1>1 DEF rt_rq_of_se, rt_se_prio, Queued
<1>3. /\ Mem(State, g) # {} /\ rt_rq[g].highest_prio <= prio_of(task[t])
      /\ rt_rq[g].highest_prio \in Nat /\ prio_of(task[t]) \in Nat
  BY <1>0, <1>1, <1>2, QueuedIs
<1>4. Mem(State, h) # {} /\ rt_rq[h].highest_prio <= rt_rq[g].highest_prio
  BY <1>1, <1>3, ClearUp
<1>5. h \in Group /\ rt_rq[h].highest_prio \in Nat
  <2>1. rt_rq \in [Group -> RtRq]
    BY DEF Inv, Sound, States, State
  <2> QED BY <1>1, <2>1, GroupsOf, BandwidthAssumption DEF RtRq
<1>6. rt_rq[h].rt_nr_running # 0
  <2>1. Mem(State, h) \subseteq Entity
    BY DEF Mem
  <2>2. rt_rq[h].rt_nr_running = Cardinality(Mem(State, h))
    BY <1>0, <1>5 DEF Sound, Counts
  <2> QED BY <1>4, <2>1, <2>2, EntitiesFinite
<1> HIDE DEF g
<1> QED BY <1>3, <1>4, <1>5, <1>6

LEMMA TypeInv ==
  ASSUME Inv
  PROVE  TypeOK
<1>1. State \in States
  BY DEF Inv, Sound
<1> QED BY <1>1 DEF Inv, TypeOK, State, States, Tasks

LEMMA TimersInv ==
  ASSUME Inv, RUNTIME_INF \notin Runtime
  PROVE  RunnableHasTimer
<1>1. Timers(State) /\ State.rq = rt_rq
  BY DEF Inv, Sound, State
<1> QED BY <1>1 DEF Timers, RunnableHasTimer

LEMMA SpecInv == Spec => []Inv
<1>1. Init => Inv
  BY InitInv
<1>2. Inv /\ [Next]_vars => Inv'
  BY NextInv
<1> QED BY <1>1, <1>2, PTL DEF Spec

LEMMA GivenInv ==
  ASSUME NEW limit, LimitsGiven(limit)
  PROVE  InitWith(limit) /\ [][Next]_vars => []Inv
<1>1. InitWith(limit) => Inv
  BY InitSound
<1>2. Inv /\ [Next]_vars => Inv'
  BY NextInv
<1> QED BY <1>1, <1>2, PTL

\* The hierarchy of any tree of groups, whatever limits are written: entities are
\* queued exactly while they are to be, with the counters they give, and
\* pick_next_task_rt() finds the highest tasks that may run.
THEOREM PicksRight == Spec => [](TypeOK /\ HierarchyConsistent /\ PicksHighest)
<1>1. Inv => TypeOK /\ HierarchyConsistent /\ PicksHighest
  BY TypeInv, HierarchyInv, PickInv
<1> QED BY <1>1, SpecInv, PTL

\* Where no group's limit is lifted (RUNTIME_INF is not written), moreover, every
\* group with something to run has its timer running.
THEOREM GroupsCorrect ==
  ASSUME RUNTIME_INF \notin Runtime
  PROVE  Spec => []GroupsConsistent
<1>1. Inv => GroupsConsistent
  BY TypeInv, HierarchyInv, PickInv, TimersInv DEF GroupsConsistent
<1> QED BY <1>1, SpecInv, PTL

\* The same of limits the groups have had from the beginning, some perhaps none.
THEOREM GivenLimitsCorrect ==
  ASSUME NEW limit \in [Group -> Nat], Runtime = {}
  PROVE  InitWith(limit) /\ [][Next]_vars => []GroupsConsistent
<1>1. LimitsGiven(limit) /\ RUNTIME_INF \notin Runtime
  BY DEF LimitsGiven
<1>2. Inv => GroupsConsistent
  BY <1>1, TypeInv, HierarchyInv, PickInv, TimersInv DEF GroupsConsistent
<1>3. InitWith(limit) /\ [][Next]_vars => []Inv
  BY <1>1, GivenInv
<1> QED BY <1>2, <1>3, PTL

-----------------------------------------------------------------------------
(* Tasks that are passed over *)

\* What the invariant says of the next state.
LEMMA NextState == Inv' => TypeOK' /\ PicksHighest' /\ HighestBelow'
<1>1. Inv => TypeOK /\ PicksHighest /\ HighestBelow
  BY TypeInv, PickInv, HighestBelowInv
<1> QED BY <1>1, PTL

\* Where task x stands does not change in a step, nor is a group of its made to run.
SameStanding(x) ==
  /\ task'[x].group = task[x].group /\ task'[x].on_rq = task[x].on_rq
  /\ prio_of(task'[x]) = prio_of(task[x])
  /\ \A h \in groups_of(task[x].group) : rt_rq[h].rt_throttled => rt_rq'[h].rt_throttled

\* A step passes no task over when it asks for a reschedule for every task that
\* stands higher than before.
LEMMA NotPassedOver ==
  ASSUME Inv, Inv', curr' = curr, need_resched => need_resched',
         ~passed_over, ~passed_over_excused,
         \A x \in eligible' : prio_of(task'[x]) < curr_prio(State)' =>
                                need_resched' \/ SameStanding(x)
  PROVE  ~passed_over'
<1> SUFFICES ASSUME ~need_resched', NEW x \in eligible', prio_of(task'[x]) < curr_prio(State)'
             PROVE  FALSE
  BY DEF passed_over
<1>1. SameStanding(x) /\ ~need_resched
  OBVIOUS
<1>2. TypeOK /\ TypeOK'
  BY TypeInv, NextState
<1>3. x \in Task /\ task[x].group \in Group
  BY <1>2 DEF eligible, TypeOK
<1>4. x \in eligible
  <2>1. /\ task'[x].on_rq /\ is_rt(task'[x])
        /\ \A g \in groups_of(task'[x].group) : ~rt_rq_throttled(rt_rq'[g])
    BY DEF eligible
  <2>2. task[x].on_rq /\ is_rt(task[x])
    BY <1>1, <2>1 DEF SameStanding, is_rt
  <2>3. ASSUME NEW g \in groups_of(task[x].group) PROVE ~rt_rq_throttled(rt_rq[g])
    <3>1. g \in Group
      BY <1>3, GroupsOf
    <3>2. ~rt_rq_throttled(rt_rq'[g]) /\ (rt_rq[g].rt_throttled => rt_rq'[g].rt_throttled)
      BY <1>1, <2>1 DEF SameStanding
    <3>3. ~(rt_rq[g].rt_throttled /\ rt_rq[g].rt_nr_boosted = 0 /\ rt_rq'[g].rt_nr_boosted # 0)
      BY <3>1 DEF passed_over_excused
    <3> QED BY <3>2, <3>3 DEF rt_rq_throttled
  <2> QED BY <1>3, <2>2, <2>3 DEF eligible
<1>5. ~(prio_of(task[x]) < curr_prio(State))
  BY <1>1, <1>4 DEF passed_over
<1>6. curr_prio(State)' <= curr_prio(State)
  <2>1. CASE curr = Other
    BY <2>1, BandwidthAssumption DEF curr_prio
  <2>2. CASE curr # Other
    <3>1. curr \in Task
      BY <1>2, <2>2 DEF TypeOK
    <3>2. curr_prio(State) = prio_of(task[curr]) /\ curr_prio(State)' = prio_of(task'[curr])
      BY <2>2 DEF curr_prio, State
    <3>3. prio_of(task[curr]) \in Int /\ prio_of(task'[curr]) \in Int
      BY <1>2, <3>1 DEF TypeOK, prio_of
    <3>4. ~(prio_of(task[curr]) < prio_of(task'[curr]))
      BY <2>2 DEF passed_over_excused
    <3> QED BY <3>2, <3>3, <3>4
  <2> QED BY <2>1, <2>2
<1>7. prio_of(task[x]) = prio_of(task'[x]) /\ prio_of(task[x]) \in Int
  BY <1>1, <1>2, <1>3 DEF SameStanding, TypeOK, prio_of
<1>8. curr_prio(State) \in Int /\ curr_prio(State)' \in Int
  <2>1. curr_prio(State) \in Int
    BY <1>2, BandwidthAssumption DEF TypeOK, curr_prio, prio_of, State
  <2>2. curr_prio(State)' \in Int
    BY <1>2, BandwidthAssumption DEF TypeOK, curr_prio, prio_of, State
  <2> QED BY <2>1, <2>2
<1> QED BY <1>5, <1>6, <1>7, <1>8

LEMMA CommitNotices ==
  ASSUME Inv, Inv', NEW S \in States, Commit(S), curr' = curr, Stricter(State, S),
         ~passed_over, ~passed_over_excused,
         \A x \in Task :
           \/ /\ S.task[x].group = task[x].group /\ S.task[x].on_rq = task[x].on_rq
              /\ prio_of(S.task[x]) = prio_of(task[x])
           \/ prio_of(S.task[x]) < curr_prio(S) => S.resched
           \/ ~S.task[x].on_rq
  PROVE  ~passed_over'
<1>1. task' = S.task /\ rt_rq' = S.rq /\ need_resched' = S.resched /\ State' = S
  BY CommitIs DEF Commit
<1>2. curr_prio(State)' = curr_prio(S)
  BY <1>1 DEF curr_prio, State
<1>3. need_resched => need_resched'
  BY <1>1 DEF Stricter, State
<1>4. ASSUME NEW x \in eligible', prio_of(task'[x]) < curr_prio(State)'
      PROVE  need_resched' \/ SameStanding(x)
  <2>1. x \in Task
    BY <1>4 DEF eligible
  <2>2. task[x].group \in Group
    BY <2>1, TypeInv DEF TypeOK
  <2>3. \A h \in groups_of(task[x].group) : rt_rq[h].rt_throttled => rt_rq'[h].rt_throttled
    BY <1>1, <2>2, GroupsOf DEF Stricter, State
  <2>4. prio_of(S.task[x]) < curr_prio(S) /\ S.task[x].on_rq
    BY <1>1, <1>2, <1>4 DEF eligible
  <2> QED BY <1>1, <2>1, <2>3, <2>4 DEF SameStanding
<1> QED BY <1>3, <1>4, NotPassedOver

LEMMA SwitchNotices ==
  ASSUME Inv', NEW S, switch_to_next(S), Sound(S, {}, {}), curr \in Task \cup {Other}
  PROVE  ~passed_over'
<1> DEFINE T == update_curr_rt(S)
           V == [T EXCEPT !.resched = FALSE, !.delta = 0]
<1> SUFFICES ASSUME passed_over' PROVE FALSE
  OBVIOUS
<1>1. Sound(T, {}, {})
  BY UpdateSound
<1>2. /\ curr' \in IF pick_next_task_rt(T) # {} THEN pick_next_task_rt(T) ELSE other_tasks(T)
      /\ Commit(V)
  BY DEF switch_to_next
<1> HIDE DEF T
<1>3. V \in States /\ V.task = T.task /\ V.rq = T.rq /\ V.linked = T.linked
  <2>1. T \in States
    BY <1>1 DEF Sound
  <2>2. FALSE \in BOOLEAN /\ 0 \in 0..1
    OBVIOUS
  <2>3. Sound(V, {}, {})
    BY <1>1, <2>2, ReschedSound
  <2>4. V.task = T.task /\ V.rq = T.rq /\ V.linked = T.linked
    BY <2>1 DEF States
  <2> HIDE DEF V
  <2> QED BY <2>3, <2>4 DEF Sound
<1> HIDE DEF V
<1>4. State' = V
  BY <1>2, <1>3, CommitIs
<1>5. pick_next_task_rt(State)' = pick_next_task_rt(T)
  <2>1. pick_next_task_rt(State)' = pick_next_task_rt(State')
    BY DEF pick_next_task_rt, is_first, rt_rq_of_se, for_each_rt_entity
  <2>2. pick_next_task_rt(V) = pick_next_task_rt(T)
    BY <1>3 DEF pick_next_task_rt, is_first, rt_rq_of_se, for_each_rt_entity
  <2> QED BY <1>4, <2>1, <2>2
<1>6. PICK t \in eligible' : prio_of(task'[t]) < curr_prio(State)'
  BY DEF passed_over
<1>7. /\ pick_next_task_rt(T) # {}
      /\ \A p \in pick_next_task_rt(T) : prio_of(task'[p]) <= prio_of(task'[t])
  BY <1>5, <1>6, NextState DEF PicksHighest
<1>8. curr' \in pick_next_task_rt(T) /\ curr' \in Task
  BY <1>2, <1>7 DEF pick_next_task_rt
<1>9. curr_prio(State)' = prio_of(task'[curr'])
  BY <1>8, BandwidthAssumption DEF curr_prio, State
<1>10. prio_of(task'[t]) \in Int /\ prio_of(task'[curr']) \in Int
  <2>1. t \in Task
    BY DEF eligible
  <2> QED BY <1>8, <2>1, NextState DEF TypeOK, prio_of
<1> QED BY <1>6, <1>7, <1>8, <1>9, <1>10

LEMMA ScheduleNotices ==
  ASSUME Inv, Inv', Schedule
  PROVE  ~passed_over'
BY SwitchNotices DEF Inv, Schedule

LEMMA SleepNotices ==
  ASSUME Inv, Inv', Sleep
  PROVE  ~passed_over'
<1> DEFINE V == dequeue_task_rt(State, curr)
           e == [task[curr] EXCEPT !.on_rq = FALSE]
           S == TaskSet(V, curr, e)
<1>1. curr \in Task /\ State.task = task /\ Sound(State, {}, {})
  BY DEF Inv, Sleep, State
<1>2. Sound(V, {curr}, {}) /\ V.task = task
  BY <1>1, DequeueTaskSound
<1>3. task[curr] \in TaskRecord
  BY <1>1 DEF Sound, States, Tasks, TaskRecord
<1>4. e \in TaskRecord /\ ~e.on_rq
  BY <1>3 DEF TaskRecord
<1>5. S = [V EXCEPT !.task[curr].on_rq = FALSE]
  BY <1>2 DEF TaskSet
<1>6. switch_to_next(S)
  BY <1>5 DEF Sleep
<1> HIDE DEF e, V
<1>7. Sound(S, {}, {})
  BY <1>1, <1>2, <1>4, SetOffQueue
<1> HIDE DEF S
<1> QED BY <1>6, <1>7, SwitchNotices DEF Inv

LEMMA WakeUpNotices ==
  ASSUME Inv, Inv', NEW t \in Task, WakeUp(t), ~passed_over, ~passed_over_excused
  PROVE  ~passed_over'
<1> DEFINE e == [task[t] EXCEPT !.on_rq = TRUE]
           P == TaskSet(State, t, e)
           S == enqueue_task_rt(P, t)
           b == S.resched \/ prio_of(task[t]) < curr_prio(S)
           V == [S EXCEPT !.resched = b]
<1>1. /\ State.task = task /\ Sound(State, {}, {}) /\ t \in Entity /\ ~task[t].on_rq
      /\ State \in States
  BY DEF Inv, WakeUp, State, Entity, Sound
<1>2. Sound(State, {t}, {})
  <2>1. ~on_rt_rq(State, t)
    BY <1>1 DEF Sound, Queued
  <2> QED BY <1>1, <2>1 DEF Sound
<1>3. task[t] \in TaskRecord
  BY <1>1 DEF Sound, States, Tasks, TaskRecord
<1>4. e \in TaskRecord /\ e.on_rq /\ prio_of(e) = prio_of(task[t])
  BY <1>3 DEF TaskRecord, prio_of
<1>5. P = [State EXCEPT !.task[t].on_rq = TRUE]
  BY <1>1 DEF TaskSet
<1>6. Commit(V) /\ curr' = curr
  BY <1>5 DEF WakeUp
<1> HIDE DEF e
<1>7. /\ Sound(P, {t}, {}) /\ P.task[t] = e /\ \A x \in Task \ {t} : P.task[x] = task[x]
      /\ Stricter(State, P)
  BY <1>1, <1>2, <1>4, SetOffQueue, TaskSetIs DEF Stricter
<1> HIDE DEF P
<1>8. Sound(S, {}, {}) /\ S.task = P.task /\ Stricter(State, S)
  BY <1>4, <1>7, EnqueueTaskSound, StricterIs
<1> HIDE DEF S
<1>9. S \in States /\ b \in BOOLEAN
  <2>1. S \in States
    BY <1>8 DEF Sound
  <2> QED BY <2>1 DEF States
<1>10. /\ V \in States /\ V.task = S.task /\ V.rq = S.rq /\ (S.resched => V.resched)
       /\ prio_of(task[t]) < curr_prio(S) => V.resched
  <2>1. V \in States /\ V.task = S.task /\ V.rq = S.rq /\ V.resched = b
    <3> HIDE DEF b
    <3> QED BY <1>9 DEF States
  <2> HIDE DEF V
  <2> QED BY <2>1, Zenon
<1> HIDE DEF b, V
<1>11. Stricter(State, V)
  BY <1>8, <1>10 DEF Stricter
<1>12. curr_prio(V) = curr_prio(S)
  BY <1>10 DEF curr_prio
<1>13. ASSUME NEW x \in Task
       PROVE  \/ /\ V.task[x].group = task[x].group /\ V.task[x].on_rq = task[x].on_rq
                 /\ prio_of(V.task[x]) = prio_of(task[x])
              \/ prio_of(V.task[x]) < curr_prio(V) => V.resched
  <2>1. CASE x = t
    BY <1>4, <1>7, <1>8, <1>10, <1>12, <2>1
  <2>2. CASE x # t
    BY <1>7, <1>8, <1>10, <2>2
  <2> QED BY <2>1, <2>2
<1> QED BY <1>6, <1>10, <1>11, <1>13, CommitNotices

LEMMA ChangePrioNotices ==
  ASSUME Inv, Inv', NEW t \in Task, NEW e \in TaskRecord, e.on_rq = task[t].on_rq,
         e.group = task[t].group, change_prio(t, e), ~passed_over, ~passed_over_excused
  PROVE  ~passed_over'
<1> DEFINE S == change_task(t, e)
<1>1. /\ Sound(S, {}, {}) /\ Stricter(State, S)
      /\ S.task[t] = e /\ \A x \in Task \ {t} : S.task[x] = task[x]
  BY ChangeTaskSound DEF Inv
<1>2. PICK demoted \in BOOLEAN :
        Commit([S EXCEPT !.resched = @ \/ check_class_changed(S, task[t], t, demoted)])
  BY DEF change_prio
<1>3. curr' = curr
  BY DEF change_prio
<1> DEFINE c == check_class_changed(S, task[t], t, demoted)
           b == S.resched \/ c
           V == [S EXCEPT !.resched = b]
<1>4. Commit(V)
  BY <1>2
<1> HIDE DEF S
<1>5. S \in States
  BY <1>1 DEF Sound
<1>6. t # curr /\ e.on_rq /\ prio_of(e) < curr_prio(S) /\ prio_of(task[t]) # prio_of(e) => c
  BY <1>1 DEF check_class_changed
<1> HIDE DEF c
<1>7. b \in BOOLEAN
  <2>1. c \in BOOLEAN
    BY DEF c, check_class_changed
  <2> QED BY <1>5, <2>1 DEF States
<1>8. /\ V \in States /\ V.task = S.task /\ V.rq = S.rq /\ (S.resched => V.resched)
      /\ c => V.resched
  <2>1. V \in States /\ V.task = S.task /\ V.rq = S.rq /\ V.resched = b
    <3> HIDE DEF b
    <3> QED BY <1>5, <1>7 DEF States
  <2> HIDE DEF V
  <2> QED BY <2>1, Zenon
<1> HIDE DEF b, V
<1>9. Stricter(State, V)
  BY <1>1, <1>8 DEF Stricter
<1>10. curr_prio(V) = curr_prio(S)
  BY <1>8 DEF curr_prio
<1>11. ASSUME NEW x \in Task
       PROVE  \/ /\ V.task[x].group = task[x].group /\ V.task[x].on_rq = task[x].on_rq
                 /\ prio_of(V.task[x]) = prio_of(task[x])
              \/ prio_of(V.task[x]) < curr_prio(V) => V.resched
              \/ ~V.task[x].on_rq
  <2>1. CASE x = t /\ t # curr
    BY <1>1, <1>6, <1>8, <1>10, <1>11, <2>1
  <2>2. CASE x = t /\ t = curr
    <3>1. curr_prio(V) = prio_of(e)
      BY <1>1, <1>8, <2>2, BandwidthAssumption DEF curr_prio
    <3>2. prio_of(e) \in Int
      BY DEF TaskRecord, prio_of
    <3> QED BY <1>1, <1>8, <2>2, <3>1, <3>2
  <2>3. CASE x # t
    BY <1>1, <1>8, <2>3
  <2> QED BY <2>1, <2>2, <2>3
<1> QED BY <1>3, <1>4, <1>8, <1>9, <1>11, CommitNotices

LEMMA SetSchedulerNotices ==
  ASSUME Inv, Inv', NEW t \in Task, NEW prio \in 0..MAX_RT_PRIO, SetScheduler(t, prio),
         ~passed_over, ~passed_over_excused
  PROVE  ~passed_over'
<1> DEFINE e == [task[t] EXCEPT !.normal_prio = prio]
<1>1. task[t] \in TaskRecord
  BY DEF Inv, Sound, State, States, Tasks, TaskRecord
<1>2. e \in TaskRecord /\ e.on_rq = task[t].on_rq /\ e.group = task[t].group
  BY <1>1 DEF TaskRecord
<1>3. change_prio(t, e)
  BY DEF SetScheduler
<1> HIDE DEF e
<1> QED BY <1>2, <1>3, ChangePrioNotices

LEMMA RtMutexSetprioNotices ==
  ASSUME Inv, Inv', NEW t \in Task, NEW prio \in BoostPrio \cup {MAX_RT_PRIO},
         RtMutexSetprio(t, prio), ~passed_over, ~passed_over_excused
  PROVE  ~passed_over'
<1> DEFINE e == [task[t] EXCEPT !.pi_prio = prio]
<1>1. task[t] \in TaskRecord /\ task \in Tasks
  BY DEF Inv, Sound, State, States, Tasks, TaskRecord
<1>2. prio \in 0..MAX_RT_PRIO
  BY BandwidthAssumption
<1>3. /\ e \in TaskRecord /\ e.on_rq = task[t].on_rq
      /\ e.group = task[t].group /\ e.normal_prio = task[t].normal_prio
  BY <1>1, <1>2 DEF TaskRecord
<1>4. CASE prio_of(e) # prio_of(task[t])
  <2>1. change_prio(t, e)
    BY <1>4 DEF RtMutexSetprio
  <2> HIDE DEF e
  <2> QED BY <1>3, <2>1, ChangePrioNotices
<1>5. CASE prio_of(e) = prio_of(task[t])
  <2>1. /\ task' = [task EXCEPT ![t] = e]
        /\ UNCHANGED <<linked, rt_rq, curr, need_resched, delta, now>>
    BY <1>5 DEF RtMutexSetprio
  <2> HIDE DEF e
  <2>2. \A x \in Task : task'[x] = IF x = t THEN e ELSE task[x]
    BY <1>1, <2>1 DEF Tasks
  <2>3. \A x \in Task : SameStanding(x)
    BY <1>3, <1>5, <2>1, <2>2 DEF SameStanding
  <2>4. \A x \in eligible' : SameStanding(x)
    BY <2>3 DEF eligible
  <2> QED BY <2>1, <2>4, NotPassedOver
<1> QED BY <1>4, <1>5

LEMMA SchedMoveTaskNotices ==
  ASSUME Inv, NEW t \in Task, NEW g \in Group, SchedMoveTask(t, g), ~passed_over_excused
  PROVE  FALSE
<1> DEFINE e == [task[t] EXCEPT !.group = g]
<1>1. task[t] \in TaskRecord
  BY DEF Inv, Sound, State, States, Tasks, TaskRecord
<1>2. e \in TaskRecord /\ e.on_rq = task[t].on_rq /\ e.group = g
  BY <1>1 DEF TaskRecord
<1>3. Commit(change_task(t, e)) /\ task[t].group # g
  BY DEF SchedMoveTask
<1> HIDE DEF e
<1>4. change_task(t, e).task[t] = e
  BY <1>2, ChangeTaskSound DEF Inv
<1>5. task'[t] = e
  BY <1>3, <1>4 DEF Commit
<1> QED BY <1>2, <1>3, <1>5 DEF passed_over_excused

\* Where tasks and throttling stay as they are.
LEMMA NothingStands ==
  ASSUME Inv, Inv', UNCHANGED <<task, curr, need_resched>>,
         \A h \in Group : rt_rq'[h].rt_throttled = rt_rq[h].rt_throttled,
         ~passed_over, ~passed_over_excused
  PROVE  ~passed_over'
<1>1. ASSUME NEW x \in eligible' PROVE SameStanding(x)
  <2>1. x \in Task
    BY DEF eligible
  <2>2. groups_of(task[x].group) \subseteq Group
    BY <2>1, TypeInv, GroupsOf DEF TypeOK
  <2> QED BY <2>1, <2>2 DEF SameStanding
<1> QED BY <1>1, NotPassedOver

LEMMA SetRtRuntimeNotices ==
  ASSUME Inv, Inv', NEW g \in Group, NEW runtime \in Runtime, SetRtRuntime(g, runtime),
         ~passed_over, ~passed_over_excused
  PROVE  ~passed_over'
<1>1. rt_rq \in [Group -> RtRq]
  BY TypeInv DEF TypeOK
<1>2. \A h \in Group : rt_rq'[h].rt_throttled = rt_rq[h].rt_throttled
  BY <1>1 DEF SetRtRuntime, RtRq
<1> QED BY <1>2, NothingStands DEF SetRtRuntime

LEMMA ElapseNotices ==
  ASSUME Inv, Inv', Elapse, ~passed_over, ~passed_over_excused
  PROVE  ~passed_over'
<1>1. rt_rq \in [Group -> RtRq]
  BY TypeInv DEF TypeOK
<1>2. \A h \in Group : rt_rq'[h].rt_throttled = rt_rq[h].rt_throttled
  BY <1>1 DEF Elapse, RtRq
<1> QED BY <1>2, NothingStands DEF Elapse

LEMMA TaskTickNotices ==
  ASSUME Inv, Inv', TaskTick, ~passed_over, ~passed_over_excused
  PROVE  ~passed_over'
<1> DEFINE S == update_curr_rt(State)
<1>1. Sound(S, {}, {}) /\ S.task = State.task /\ Stricter(State, S)
  BY UpdateSound DEF Inv
<1>2. Commit(S) /\ curr' = curr
  BY DEF TaskTick
<1> HIDE DEF S
<1>3. S \in States /\ S.task = task
  BY <1>1 DEF Sound, State
<1> QED BY <1>1, <1>2, <1>3, CommitNotices

LEMMA PeriodTimerNotices ==
  ASSUME Inv, Inv', NEW g \in Group, PeriodTimer(g), ~passed_over, ~passed_over_excused
  PROVE  ~passed_over'
<1> DEFINE S == do_sched_rt_period_timer(State, g)
<1>1. /\ Sound(S, {}, {}) /\ S.task = State.task /\ (State.resched => S.resched)
      /\ \A h \in Group \ {g} : State.rq[h].rt_throttled => S.rq[h].rt_throttled
      /\ (State.rq[g].rt_throttled => S.rq[g].rt_throttled) \/ Noticed(S, g)
  BY TimerSound DEF Inv, SameTasks
<1>2. Commit(S) /\ curr' = curr
  BY DEF PeriodTimer
<1> HIDE DEF S
<1>3. task' = task /\ rt_rq' = S.rq /\ need_resched' = S.resched /\ S.task = task
  BY <1>1, <1>2 DEF Commit, State
<1>4. need_resched => need_resched'
  BY <1>1, <1>3 DEF State
<1>5. curr_prio(State)' = curr_prio(S)
  BY <1>2, <1>3 DEF curr_prio, State
<1>6. ASSUME NEW x \in eligible', prio_of(task'[x]) < curr_prio(State)'
      PROVE  need_resched' \/ SameStanding(x)
  <2>1. x \in Task /\ task[x] \in TaskRecord /\ task[x].group \in Group
    <3>1. x \in Task
      BY DEF eligible
    <3> QED BY <3>1, TypeInv DEF TypeOK, TaskRecord
  <2>2. groups_of(task[x].group) \subseteq Group
    BY <2>1, GroupsOf
  <2>3. CASE \A h \in groups_of(task[x].group) : rt_rq[h].rt_throttled => rt_rq'[h].rt_throttled
    BY <1>3, <2>3 DEF SameStanding
  <2>4. CASE g \in groups_of(task[x].group) /\ Noticed(S, g)
    <3>1. /\ rt_rq'[g].rt_nr_running # 0 /\ rt_rq'[g].highest_prio <= prio_of(task[x])
          /\ rt_rq'[g].highest_prio \in Nat
      BY <1>3, <2>4, NextState DEF HighestBelow
    <3>2. curr_prio(S) \in Int /\ prio_of(task[x]) \in Int
      <4>1. curr_prio(S) \in Int
        BY <1>1, CurrPrioType DEF Inv, Sound
      <4> QED BY <2>1, <4>1 DEF TaskRecord, prio_of
    <3>3. rt_rq'[g].highest_prio < curr_prio(S)
      BY <1>3, <1>5, <1>6, <3>1, <3>2
    <3> QED BY <1>3, <2>4, <3>1, <3>3 DEF Noticed
  <2>5. \/ \A h \in groups_of(task[x].group) : rt_rq[h].rt_throttled => rt_rq'[h].rt_throttled
        \/ g \in groups_of(task[x].group) /\ Noticed(S, g)
    BY <1>1, <1>3, <2>2 DEF State
  <2> QED BY <2>3, <2>4, <2>5
<1> QED BY <1>2, <1>4, <1>6, NotPassedOver

\* An RT task that may run is passed over only after the running task was demoted,
\* a task was moved to another group, or a boosted task made a throttled group run
\* again; and this however many groups, tasks and limits there are.
THEOREM NobodyElsePassedOver == Spec => PassedOverOnlyAfter
<1>1. Inv /\ Inv' /\ [Next]_vars
        => [~passed_over /\ passed_over' => passed_over_excused]_vars
  <2> SUFFICES ASSUME Inv, Inv', Next, ~passed_over, ~passed_over_excused
               PROVE  ~passed_over'
    OBVIOUS
  <2> HIDE DEF Inv
  <2>1. CASE Schedule \/ Sleep \/ Elapse \/ TaskTick
    BY <2>1, ScheduleNotices, SleepNotices, ElapseNotices, TaskTickNotices
  <2>2. ASSUME NEW t \in Task, WakeUp(t) PROVE ~passed_over'
    BY <2>2, WakeUpNotices
  <2>3. ASSUME NEW t \in Task, NEW prio \in 0..MAX_RT_PRIO, SetScheduler(t, prio)
        PROVE  ~passed_over'
    BY <2>3, SetSchedulerNotices
  <2>4. ASSUME NEW t \in Task, NEW prio \in BoostPrio \cup {MAX_RT_PRIO}, RtMutexSetprio(t, prio)
        PROVE  ~passed_over'
    BY <2>4, RtMutexSetprioNotices
  <2>5. ASSUME NEW t \in Task, NEW g \in Group, SchedMoveTask(t, g) PROVE ~passed_over'
    BY <2>5, SchedMoveTaskNotices
  <2>6. ASSUME NEW g \in Group, PeriodTimer(g) PROVE ~passed_over'
    BY <2>6, PeriodTimerNotices
  <2>7. ASSUME NEW g \in Group, NEW runtime \in Runtime, SetRtRuntime(g, runtime)
        PROVE  ~passed_over'
    BY <2>7, SetRtRuntimeNotices
  <2> QED BY <2>1, <2>2, <2>3, <2>4, <2>5, <2>6, <2>7 DEF Next
<1>2. Spec => [][Next]_vars
  BY DEF Spec
<1> QED BY <1>1, <1>2, SpecInv, PTL DEF PassedOverOnlyAfter
=============================================================================
