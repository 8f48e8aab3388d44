----------------------------- MODULE DataProofs -----------------------------
(***************************************************************************)
(* Facts about the data the models are made of, which the proofs about     *)
(* them rest on: lists of <linux/list.h> whose entries are linked once,    *)
(* and sums over finite sets (SumFunctionOnSet() of the community          *)
(* modules), for counters that are sums over tasks, CPUs or groups.        *)
(* Induction is by a least counterexample.                                 *)
(***************************************************************************)
EXTENDS KernelList, Integers, Functions, FiniteSetTheorems, WellFoundedInduction, TLAPS

-----------------------------------------------------------------------------
(* Lists *)

\* list_del() returns a list of the same entries' type, one shorter when t was
\* linked.
LEMMA DelLinkedEntry ==
  ASSUME NEW T, NEW q \in Seq(T), NEW t \in Entries(q), Linked(q)
  PROVE  /\ list_del(q, t) \in Seq(T)
         /\ Len(list_del(q, t)) = Len(q) - 1
         /\ Entries(list_del(q, t)) = Entries(q) \ {t}
         /\ Linked(list_del(q, t))
<1> DEFINE k == CHOOSE i \in 1..Len(q) : q[i] = t
           d == [i \in 1..(Len(q) - 1) |-> IF i < k THEN q[i] ELSE q[i + 1]]
<1>1. k \in 1..Len(q) /\ q[k] = t
  BY DEF Entries
<1>2. list_del(q, t) = d
  BY DEF list_del
<1> HIDE DEF k
<1>3. Len(q) \in Nat /\ Len(q) >= 1 /\ \A i \in 1..Len(q) : q[i] \in T
  BY <1>1
<1>4. \A i \in 1..(Len(q) - 1) : d[i] \in T
  BY <1>1, <1>3
<1>5. d \in Seq(T) /\ Len(d) = Len(q) - 1
  BY <1>3, <1>4
<1>6. Entries(d) = Entries(q) \ {t}
  <2>1. ASSUME NEW x \in Entries(d) PROVE x \in Entries(q) \ {t}
    <3>1. PICK i \in 1..(Len(q) - 1) : x = d[i]
      BY <1>5 DEF Entries
    <3>2. CASE i < k
      BY <3>1, <3>2, <1>1, <1>3 DEF Entries, Linked
    <3>3. CASE ~(i < k)
      BY <3>1, <3>3, <1>1, <1>3 DEF Entries, Linked
    <3> QED BY <3>2, <3>3
  <2>2. ASSUME NEW x \in Entries(q), x # t PROVE x \in Entries(d)
    <3>1. PICK i \in 1..Len(q) : x = q[i]
      BY DEF Entries
    <3>2. i # k
      BY <2>2, <3>1, <1>1
    <3>3. CASE i < k
      <4>1. i \in 1..(Len(q) - 1) /\ d[i] = x
        BY <3>1, <3>3, <1>1, <1>3
      <4> QED BY <4>1, <1>5 DEF Entries
    <3>4. CASE i > k
      <4>1. (i - 1) \in 1..(Len(q) - 1) /\ d[i - 1] = x
        BY <3>1, <3>4, <1>1, <1>3
      <4> QED BY <4>1, <1>5 DEF Entries
    <3> QED BY <3>2, <3>3, <3>4, <1>1
  <2> QED BY <2>1, <2>2
<1>7. Linked(d)
  <2> SUFFICES ASSUME NEW i \in 1..(Len(q) - 1), NEW j \in 1..(Len(q) - 1), d[i] = d[j]
               PROVE  i = j
    BY <1>5 DEF Linked
  <2> QED BY <1>1, <1>3 DEF Linked
<1> QED BY <1>2, <1>5, <1>6, <1>7

\* list_del() of an entry that is not linked changes nothing.
LEMMA DelUnlinkedEntry ==
  ASSUME NEW q, NEW t, t \notin Entries(q)
  PROVE  list_del(q, t) = q
BY DEF list_del

\* Linking an entry that was not linked adds it, first or last.
LEMMA AddFirst ==
  ASSUME NEW T, NEW q \in Seq(T), NEW t \in T, t \notin Entries(q), Linked(q)
  PROVE  /\ list_add(q, t) \in Seq(T)
         /\ Len(list_add(q, t)) = Len(q) + 1
         /\ Entries(list_add(q, t)) = Entries(q) \cup {t}
         /\ Linked(list_add(q, t))
<1> DEFINE a == list_add(q, t)
<1>1. /\ a \in Seq(T)
      /\ Len(a) = Len(q) + 1
      /\ a[1] = t
      /\ \A i \in 1..Len(q) : a[i + 1] = q[i]
  BY DEF list_add
<1> HIDE DEF a
<1>2. \A i \in 2..Len(a) : (i - 1) \in 1..Len(q) /\ a[i] = q[i - 1]
  BY <1>1
<1>3. Entries(a) = Entries(q) \cup {t}
  <2>1. ASSUME NEW x \in Entries(a) PROVE x \in Entries(q) \cup {t}
    <3>1. PICK i \in 1..Len(a) : x = a[i]
      BY DEF Entries
    <3>2. i = 1 \/ i \in 2..Len(a)
      BY <1>1
    <3> QED BY <3>1, <3>2, <1>1, <1>2 DEF Entries
  <2>2. ASSUME NEW x \in Entries(q) PROVE x \in Entries(a)
    <3>1. PICK i \in 1..Len(q) : x = q[i]
      BY DEF Entries
    <3>2. (i + 1) \in 1..Len(a) /\ a[i + 1] = x
      BY <3>1, <1>1
    <3> QED BY <3>2 DEF Entries
  <2>3. t \in Entries(a)
    <3>1. 1 \in 1..Len(a)
      BY <1>1
    <3> QED BY <3>1, <1>1 DEF Entries
  <2> QED BY <2>1, <2>2, <2>3
<1>4. Linked(a)
  <2> SUFFICES ASSUME NEW i \in 1..Len(a), NEW j \in 1..Len(a), a[i] = a[j]
               PROVE  i = j
    BY DEF Linked
  <2>1. \A m \in 2..Len(a) : a[m] # t
    BY <1>2 DEF Entries
  <2>2. CASE i = 1 \/ j = 1
    BY <2>1, <2>2, <1>1
  <2>3. CASE i # 1 /\ j # 1
    <3>1. (i - 1) \in 1..Len(q) /\ (j - 1) \in 1..Len(q) /\ q[i - 1] = q[j - 1]
      BY <2>3, <1>1, <1>2
    <3> QED BY <3>1, <1>1 DEF Linked
  <2> QED BY <2>2, <2>3
<1> QED BY <1>1, <1>3, <1>4 DEF a

LEMMA AddLast ==
  ASSUME NEW T, NEW q \in Seq(T), NEW t \in T, t \notin Entries(q), Linked(q)
  PROVE  /\ list_add_tail(q, t) \in Seq(T)
         /\ Len(list_add_tail(q, t)) = Len(q) + 1
         /\ Entries(list_add_tail(q, t)) = Entries(q) \cup {t}
         /\ Linked(list_add_tail(q, t))
<1> DEFINE a == list_add_tail(q, t)
           n == Len(q)
<1>1. /\ n \in Nat
      /\ a \in Seq(T)
      /\ Len(a) = n + 1
      /\ a[n + 1] = t
      /\ \A i \in 1..n : a[i] = q[i]
  BY DEF list_add_tail
<1> HIDE DEF a
<1>2. Entries(a) = Entries(q) \cup {t}
  <2>1. \A i \in 1..(n + 1) : i \in 1..n \/ i = n + 1
    BY <1>1
  <2>2. (n + 1) \in 1..Len(a) /\ \A i \in 1..n : i \in 1..Len(a)
    BY <1>1
  <2> QED BY <1>1, <2>1, <2>2 DEF Entries
<1>3. Linked(a)
  <2> SUFFICES ASSUME NEW i \in 1..Len(a), NEW j \in 1..Len(a), a[i] = a[j]
               PROVE  i = j
    BY DEF Linked
  <2>1. \A m \in 1..n : a[m] # t
    BY <1>1 DEF Entries
  <2> QED BY <2>1, <1>1 DEF Linked
<1> QED BY <1>1, <1>2, <1>3 DEF a

\* Moving an entry keeps the entries, linked or not before.
LEMMA MoveLast ==
  ASSUME NEW T, NEW q \in Seq(T), NEW t \in T, Linked(q)
  PROVE  /\ list_move_tail(q, t) \in Seq(T)
         /\ Len(list_move_tail(q, t)) = IF t \in Entries(q) THEN Len(q) ELSE Len(q) + 1
         /\ Entries(list_move_tail(q, t)) = Entries(q) \cup {t}
         /\ Linked(list_move_tail(q, t))
<1>1. CASE t \in Entries(q)
  <2>1. t \notin Entries(list_del(q, t))
    BY <1>1, DelLinkedEntry
  <2> QED BY <1>1, <2>1, DelLinkedEntry, AddLast DEF list_move_tail
<1>2. CASE t \notin Entries(q)
  BY <1>2, DelUnlinkedEntry, AddLast DEF list_move_tail
<1> QED BY <1>1, <1>2

LEMMA MoveFirst ==
  ASSUME NEW T, NEW q \in Seq(T), NEW t \in T, Linked(q)
  PROVE  /\ list_move(q, t) \in Seq(T)
         /\ Len(list_move(q, t)) = IF t \in Entries(q) THEN Len(q) ELSE Len(q) + 1
         /\ Entries(list_move(q, t)) = Entries(q) \cup {t}
         /\ Linked(list_move(q, t))
<1>1. CASE t \in Entries(q)
  <2>1. t \notin Entries(list_del(q, t))
    BY <1>1, DelLinkedEntry
  <2> QED BY <1>1, <2>1, DelLinkedEntry, AddFirst DEF list_move
<1>2. CASE t \notin Entries(q)
  BY <1>2, DelUnlinkedEntry, AddFirst DEF list_move
<1> QED BY <1>1, <1>2

-----------------------------------------------------------------------------
(* Least elements and sums *)

\* A nonempty set of natural numbers has a least element.
LEMMA Least ==
  ASSUME NEW S, S \subseteq Nat, S # {}
  PROVE  \E i \in S : \A j \in S : i <= j
<1>1. PICK i \in S : \A j \in S : ~(<<j, i>> \in OpToRel(<, Nat))
  BY NatLessThanWellFounded, WFMin, Zenon
<1>2. \A j \in S : ~(j < i)
  BY <1>1, Zenon DEF OpToRel
<1> QED BY <1>2

\* Induction over natural numbers, for a set of them.
LEMMA SetInduction ==
  ASSUME NEW P, 0 \in P, \A n \in Nat : n \in P => n + 1 \in P
  PROVE  Nat \subseteq P
<1> DEFINE Bad == Nat \ P
<1> SUFFICES ASSUME Bad # {} PROVE FALSE
  OBVIOUS
<1>1. PICK i \in Bad : \A j \in Bad : i <= j
  <2>1. Bad \subseteq Nat
    OBVIOUS
  <2> HIDE DEF Bad
  <2> QED BY <2>1, Least
<1>2. i \in Nat /\ i # 0 /\ i - 1 \in Nat
  BY <1>1
<1>3. i - 1 \in P
  BY <1>1, <1>2
<1> QED BY <1>1, <1>2, <1>3

-----------------------------------------------------------------------------
(* The recursion behind the sum: g is the sum of f over every subset of S.  *)

Pick(s) == CHOOSE x \in s : TRUE

SumStep(g, f, s) == IF s = {} THEN 0 ELSE f[Pick(s)] + g[s \ {Pick(s)}]

IsSum(g, f, S) == g = [s \in SUBSET S |-> SumStep(g, f, s)]

\* The sum as the library defines it.
LEMMA SumByChoice ==
  ASSUME NEW f, NEW S
  PROVE  SumFunctionOnSet(f, S) = (CHOOSE g : IsSum(g, f, S))[S]
BY DEF SumFunctionOnSet, FoldFunctionOnSet, MapThenFoldSet, IsSum, SumStep, Pick

\* The recursion has a solution: one for the subsets of at most n elements
\* extends to those of n + 1.
LEMMA SumExists ==
  ASSUME NEW f, NEW S, IsFiniteSet(S), \A x \in S : f[x] \in Int
  PROVE  \E g : IsSum(g, f, S)
<1> DEFINE Solves(g, n) == \A s \in SUBSET S : Cardinality(s) <= n => g[s] = SumStep(g, f, s)
           P == {n \in Nat : \E g \in [SUBSET S -> Int] : Solves(g, n)}
<1>0. \A s \in SUBSET S : IsFiniteSet(s) /\ Cardinality(s) \in Nat /\ (Cardinality(s) = 0 <=> s = {})
  BY FS_Subset, FS_CardinalityType, FS_EmptySet
<1>1. \A s \in SUBSET S : s # {} =>
         /\ Pick(s) \in S /\ s \ {Pick(s)} \in SUBSET S
         /\ Cardinality(s \ {Pick(s)}) = Cardinality(s) - 1
  BY <1>0, FS_RemoveElement DEF Pick
<1>2. 0 \in P
  <2> DEFINE g == [s \in SUBSET S |-> 0]
  <2>1. Solves(g, 0)
    BY <1>0 DEF SumStep
  <2>2. g \in [SUBSET S -> Int]
    OBVIOUS
  <2> HIDE DEF g
  <2> QED BY <2>1, <2>2
<1>3. ASSUME NEW n \in Nat, n \in P PROVE n + 1 \in P
  <2>1. PICK g \in [SUBSET S -> Int] : Solves(g, n)
    BY <1>3
  <2> DEFINE h == [s \in SUBSET S |-> SumStep(g, f, s)]
  <2>2. h \in [SUBSET S -> Int]
    BY <1>1 DEF SumStep
  <2>3. ASSUME NEW s \in SUBSET S, Cardinality(s) <= n + 1 PROVE h[s] = SumStep(h, f, s)
    <3>1. CASE s = {}
      BY <3>1 DEF SumStep
    <3>2. CASE s # {}
      <4>1. Cardinality(s \ {Pick(s)}) <= n /\ s \ {Pick(s)} \in SUBSET S
        BY <2>3, <3>2, <1>0, <1>1
      <4>2. h[s \ {Pick(s)}] = g[s \ {Pick(s)}]
        BY <2>1, <4>1
      <4> QED BY <3>2, <4>2 DEF SumStep
    <3> QED BY <3>1, <3>2
  <2>4. Solves(h, n + 1)
    BY <2>3
  <2> HIDE DEF h
  <2> QED BY <2>2, <2>4
<1>4. Cardinality(S) \in P
  <2> HIDE DEF P
  <2>1. Nat \subseteq P
    BY <1>2, <1>3, SetInduction
  <2> QED BY <1>0, <2>1
<1>5. PICK g \in [SUBSET S -> Int] : Solves(g, Cardinality(S))
  BY <1>4
<1>6. ASSUME NEW s \in SUBSET S PROVE g[s] = SumStep(g, f, s)
  <2>1. Cardinality(s) <= Cardinality(S)
    BY FS_Subset
  <2> QED BY <1>5, <2>1
<1>7. g = [s \in SUBSET S |-> SumStep(g, f, s)]
  BY <1>6
<1> QED BY <1>7 DEF IsSum

\* Solutions are integers and depend on the values of f alone, not on the set
\* the recursion began with.
LEMMA SolutionsAgree ==
  ASSUME NEW f, NEW S, NEW g, IsSum(g, f, S),
         NEW e, NEW T, NEW h, IsSum(h, e, T),
         IsFiniteSet(S), T \subseteq S,
         \A x \in T : f[x] \in Int /\ f[x] = e[x]
  PROVE  \A s \in SUBSET T : g[s] \in Int /\ g[s] = h[s]
<1> DEFINE P == {n \in Nat : \A s \in SUBSET T :
                               Cardinality(s) <= n => g[s] \in Int /\ g[s] = h[s]}
<1>0. \A s \in SUBSET T : IsFiniteSet(s) /\ Cardinality(s) \in Nat /\ (Cardinality(s) = 0 <=> s = {})
  BY FS_Subset, FS_CardinalityType, FS_EmptySet
<1>1. \A s \in SUBSET T : s # {} =>
         /\ Pick(s) \in T /\ s \ {Pick(s)} \in SUBSET T
         /\ Cardinality(s \ {Pick(s)}) = Cardinality(s) - 1
  BY <1>0, FS_RemoveElement DEF Pick
<1>2. \A s \in SUBSET T : g[s] = SumStep(g, f, s) /\ h[s] = SumStep(h, e, s)
  BY DEF IsSum
<1>3. 0 \in P
  BY <1>0, <1>2 DEF SumStep
<1>4. ASSUME NEW n \in Nat, n \in P PROVE n + 1 \in P
  <2> SUFFICES ASSUME NEW s \in SUBSET T, Cardinality(s) <= n + 1
               PROVE  g[s] \in Int /\ g[s] = h[s]
    OBVIOUS
  <2>1. CASE s = {}
    <3>1. g[s] = 0 /\ h[s] = 0
      BY <2>1, <1>2, Zenon DEF SumStep
    <3> QED BY <3>1
  <2>2. CASE s # {}
    <3>1. s \ {Pick(s)} \in SUBSET T /\ Cardinality(s \ {Pick(s)}) <= n /\ Pick(s) \in T
      BY <2>2, <1>0, <1>1
    <3>2. g[s \ {Pick(s)}] \in Int /\ g[s \ {Pick(s)}] = h[s \ {Pick(s)}]
      BY <1>4, <3>1
    <3>3. g[s] = SumStep(g, f, s) /\ h[s] = SumStep(h, e, s)
      BY <1>2
    <3>4. SumStep(g, f, s) = f[Pick(s)] + g[s \ {Pick(s)}]
      BY ONLY <2>2 DEF SumStep
    <3>5. SumStep(h, e, s) = e[Pick(s)] + h[s \ {Pick(s)}]
      BY ONLY <2>2 DEF SumStep
    <3>6. f[Pick(s)] \in Int /\ f[Pick(s)] = e[Pick(s)]
      BY <3>1
    <3> QED BY ONLY <3>2, <3>3, <3>4, <3>5, <3>6
  <2> QED BY <2>1, <2>2
<1>5. Nat \subseteq P
  <2> HIDE DEF P
  <2> QED BY <1>3, <1>4, SetInduction
<1> QED BY <1>0, <1>5

-----------------------------------------------------------------------------
(* Facts about sums *)

\* The sum over the empty set.
LEMMA SumEmpty ==
  ASSUME NEW f
  PROVE  SumFunctionOnSet(f, {}) = 0
<1>1. PICK g : IsSum(g, f, {})
  BY SumExists, FS_EmptySet
<1>2. IsSum(CHOOSE h : IsSum(h, f, {}), f, {})
  BY <1>1
<1> QED BY <1>2, SumByChoice DEF IsSum, SumStep

\* A sum of integers is an integer, and the same for functions that agree.
LEMMA SumSame ==
  ASSUME NEW S, IsFiniteSet(S), NEW f, NEW e, \A x \in S : f[x] \in Int /\ f[x] = e[x]
  PROVE  SumFunctionOnSet(f, S) \in Int /\ SumFunctionOnSet(f, S) = SumFunctionOnSet(e, S)
<1> DEFINE g == CHOOSE h : IsSum(h, f, S)
           k == CHOOSE h : IsSum(h, e, S)
<1>1. IsSum(g, f, S) /\ IsSum(k, e, S)
  BY SumExists
<1> HIDE DEF g, k
<1>2. g[S] \in Int /\ g[S] = k[S]
  BY <1>1, SolutionsAgree
<1> QED BY <1>2, SumByChoice DEF g, k

LEMMA SumType ==
  ASSUME NEW S, IsFiniteSet(S), NEW f, \A x \in S : f[x] \in Int
  PROVE  SumFunctionOnSet(f, S) \in Int
BY SumSame

\* Any element can be taken out of a sum.
LEMMA SumRemove ==
  ASSUME NEW S, IsFiniteSet(S), NEW f, \A x \in S : f[x] \in Int, NEW a \in S
  PROVE  SumFunctionOnSet(f, S) = f[a] + SumFunctionOnSet(f, S \ {a})
<1> DEFINE g == CHOOSE h : IsSum(h, f, S)
           k == CHOOSE h : IsSum(h, f, S \ {a})
           P == {n \in Nat : \A s \in SUBSET S :
                   Cardinality(s) <= n => \A x \in s : g[s] = f[x] + g[s \ {x}]}
<1>0. IsFiniteSet(S \ {a})
  BY FS_Subset
<1>1. IsSum(g, f, S) /\ IsSum(k, f, S \ {a})
  BY <1>0, SumExists
<1>2. SumFunctionOnSet(f, S) = g[S] /\ SumFunctionOnSet(f, S \ {a}) = k[S \ {a}]
  BY SumByChoice
<1> HIDE DEF g, k
<1>3. \A s \in SUBSET (S \ {a}) : g[s] = k[s]
  BY <1>1, SolutionsAgree
<1>4. \A s \in SUBSET S : g[s] \in Int /\ g[s] = SumStep(g, f, s)
  <2>1. \A s \in SUBSET S : g[s] \in Int
    BY <1>1, SolutionsAgree
  <2>2. \A s \in SUBSET S : g[s] = SumStep(g, f, s)
    BY <1>1 DEF IsSum
  <2> QED BY <2>1, <2>2
<1>5. \A s \in SUBSET S : IsFiniteSet(s) /\ Cardinality(s) \in Nat /\ (Cardinality(s) = 0 <=> s = {})
  BY FS_Subset, FS_CardinalityType, FS_EmptySet
<1>6. 0 \in P
  BY <1>5
<1>7. ASSUME NEW n \in Nat, n \in P PROVE n + 1 \in P
  <2> SUFFICES ASSUME NEW s \in SUBSET S, Cardinality(s) <= n + 1, NEW x \in s
               PROVE  g[s] = f[x] + g[s \ {x}]
    OBVIOUS
  <2> DEFINE p == Pick(s)
  <2>1. p \in s /\ g[s] = f[p] + g[s \ {p}]
    BY <1>4 DEF Pick, SumStep
  <2> HIDE DEF p
  <2>2. CASE p = x
    BY <2>1, <2>2
  <2>3. CASE p # x
    <3> DEFINE r == (s \ {p}) \ {x}
    <3>1. /\ s \ {p} \in SUBSET S /\ x \in s \ {p} /\ Cardinality(s \ {p}) <= n
          /\ s \ {x} \in SUBSET S /\ p \in s \ {x} /\ Cardinality(s \ {x}) <= n
      BY <2>1, <2>3, <1>5, FS_RemoveElement
    <3>2. g[s \ {p}] = f[x] + g[r]
      BY <1>7, <3>1
    <3>3. (s \ {x}) \ {p} = r
      OBVIOUS
    <3>4. g[s \ {x}] = f[p] + g[r]
      BY <1>7, <3>1, <3>3
    <3>5. f[x] \in Int /\ f[p] \in Int /\ g[r] \in Int
      BY <1>4, <2>1
    <3> QED BY <2>1, <3>2, <3>4, <3>5
  <2> QED BY <2>2, <2>3
<1>8. Nat \subseteq P
  <2> HIDE DEF P
  <2> QED BY <1>6, <1>7, SetInduction
<1>9. g[S] = f[a] + g[S \ {a}]
  BY <1>5, <1>8
<1> QED BY <1>2, <1>3, <1>9

\* Changing f at one element.
LEMMA SumUpdate ==
  ASSUME NEW S, IsFiniteSet(S), NEW f, NEW e, NEW a \in S,
         \A x \in S : f[x] \in Int, e[a] \in Int, \A x \in S \ {a} : e[x] = f[x]
  PROVE  SumFunctionOnSet(e, S) = SumFunctionOnSet(f, S) - f[a] + e[a]
<1>1. IsFiniteSet(S \ {a})
  BY FS_Subset
<1>2. /\ SumFunctionOnSet(f, S \ {a}) = SumFunctionOnSet(e, S \ {a})
      /\ SumFunctionOnSet(f, S \ {a}) \in Int
  BY <1>1, SumSame
<1>3. SumFunctionOnSet(f, S) = f[a] + SumFunctionOnSet(f, S \ {a})
  BY SumRemove
<1>4. SumFunctionOnSet(e, S) = e[a] + SumFunctionOnSet(e, S \ {a})
  BY SumRemove
<1> QED BY <1>2, <1>3, <1>4

\* Putting an element into a sum.
LEMMA SumAdd ==
  ASSUME NEW S, IsFiniteSet(S), NEW f, NEW a, a \notin S, \A x \in S \cup {a} : f[x] \in Int
  PROVE  SumFunctionOnSet(f, S \cup {a}) = SumFunctionOnSet(f, S) + f[a]
<1>1. IsFiniteSet(S \cup {a}) /\ (S \cup {a}) \ {a} = S
  BY FS_AddElement
<1>2. SumFunctionOnSet(f, S \cup {a}) = f[a] + SumFunctionOnSet(f, (S \cup {a}) \ {a})
  BY <1>1, SumRemove
<1>3. SumFunctionOnSet(f, S) \in Int
  BY SumType
<1>4. SumFunctionOnSet(f, S \cup {a}) = f[a] + SumFunctionOnSet(f, S)
  BY <1>1, <1>2
<1>5. f[a] \in Int
  OBVIOUS
<1> QED BY <1>3, <1>4, <1>5

\* Induction over the subsets of a finite set.
LEMMA SubsetInduction ==
  ASSUME NEW T, IsFiniteSet(T), NEW P, {} \in P,
         \A s \in SUBSET T, x \in T : s \in P /\ x \notin s => s \cup {x} \in P
  PROVE  SUBSET T \subseteq P
<1> DEFINE Q == {n \in Nat : \A s \in SUBSET T : Cardinality(s) <= n => s \in P}
<1>0. \A s \in SUBSET T : IsFiniteSet(s) /\ Cardinality(s) \in Nat /\ (Cardinality(s) = 0 <=> s = {})
  BY FS_Subset, FS_CardinalityType, FS_EmptySet
<1>1. 0 \in Q
  BY <1>0
<1>2. ASSUME NEW n \in Nat, n \in Q PROVE n + 1 \in Q
  <2> SUFFICES ASSUME NEW s \in SUBSET T, Cardinality(s) <= n + 1, s # {}
               PROVE  s \in P
    OBVIOUS
  <2>1. PICK x : x \in s
    OBVIOUS
  <2>2. s \ {x} \in SUBSET T /\ Cardinality(s \ {x}) <= n /\ x \notin s \ {x} /\ x \in T
    <3>1. IsFiniteSet(s) /\ Cardinality(s) \in Nat
      BY <1>0
    <3>2. Cardinality(s \ {x}) = Cardinality(s) - 1
      BY <2>1, <3>1, FS_RemoveElement
    <3>3. Cardinality(s \ {x}) <= n
      BY <3>1, <3>2
    <3> QED BY <2>1, <3>3
  <2>3. s \ {x} \in P
    BY <1>2, <2>2
  <2>4. (s \ {x}) \cup {x} \in P
    BY <2>2, <2>3
  <2>5. (s \ {x}) \cup {x} = s
    BY <2>1
  <2> QED BY <2>4, <2>5
<1>3. Nat \subseteq Q
  <2> HIDE DEF Q
  <2> QED BY <1>1, <1>2, SetInduction
<1> QED BY <1>0, <1>3

\* A sum over two disjoint sets.
LEMMA SumUnion ==
  ASSUME NEW S, IsFiniteSet(S), NEW T, IsFiniteSet(T), S \cap T = {},
         NEW f, \A x \in S \cup T : f[x] \in Int
  PROVE  SumFunctionOnSet(f, S \cup T) = SumFunctionOnSet(f, S) + SumFunctionOnSet(f, T)
<1> DEFINE P == {U \in SUBSET T :
                   SumFunctionOnSet(f, S \cup U) = SumFunctionOnSet(f, S) + SumFunctionOnSet(f, U)}
<1>0. SumFunctionOnSet(f, S) \in Int
  BY SumType
<1>1. {} \in P
  BY <1>0, SumEmpty
<1>2. ASSUME NEW U \in SUBSET T, NEW x \in T, U \in P, x \notin U
      PROVE  U \cup {x} \in P
  <2>1. IsFiniteSet(U) /\ IsFiniteSet(S \cup U)
    BY FS_Subset, FS_Union
  <2>2. SumFunctionOnSet(f, U \cup {x}) = SumFunctionOnSet(f, U) + f[x]
    <3>1. \A y \in U \cup {x} : f[y] \in Int
      OBVIOUS
    <3> QED BY <1>2, <2>1, <3>1, SumAdd
  <2>3. SumFunctionOnSet(f, (S \cup U) \cup {x}) = SumFunctionOnSet(f, S \cup U) + f[x]
    <3>1. x \notin S \cup U /\ \A y \in (S \cup U) \cup {x} : f[y] \in Int
      BY <1>2
    <3> QED BY <2>1, <3>1, SumAdd
  <2>4. (S \cup U) \cup {x} = S \cup (U \cup {x})
    OBVIOUS
  <2>5. SumFunctionOnSet(f, U) \in Int /\ f[x] \in Int
    BY <2>1, SumType
  <2>6. SumFunctionOnSet(f, S \cup U) = SumFunctionOnSet(f, S) + SumFunctionOnSet(f, U)
    BY <1>2
  <2>7. SumFunctionOnSet(f, S \cup (U \cup {x})) = SumFunctionOnSet(f, S \cup U) + f[x]
    BY <2>3, <2>4, Zenon
  <2>8. SumFunctionOnSet(f, S \cup (U \cup {x}))
          = SumFunctionOnSet(f, S) + SumFunctionOnSet(f, U \cup {x})
    <3> HIDE DEF P
    <3> QED BY <1>0, <2>2, <2>5, <2>6, <2>7
  <2> QED BY <2>8
<1>3. SUBSET T \subseteq P
  <2> HIDE DEF P
  <2> QED BY <1>1, <1>2, SubsetInduction
<1> QED BY <1>3

\* A sum of zeros.
LEMMA SumZero ==
  ASSUME NEW S, IsFiniteSet(S), NEW f, \A x \in S : f[x] = 0
  PROVE  SumFunctionOnSet(f, S) = 0
<1> DEFINE P == {U \in SUBSET S : SumFunctionOnSet(f, U) = 0}
<1>1. {} \in P
  BY SumEmpty
<1>2. ASSUME NEW U \in SUBSET S, NEW x \in S, U \in P, x \notin U
      PROVE  U \cup {x} \in P
  <2>1. IsFiniteSet(U) /\ \A y \in U \cup {x} : f[y] \in Int
    <3>1. \A y \in U \cup {x} : f[y] \in Int
      OBVIOUS
    <3> QED BY <3>1, FS_Subset
  <2>2. SumFunctionOnSet(f, U \cup {x}) = SumFunctionOnSet(f, U) + f[x]
    <3>1. x \notin U
      BY <1>2
    <3> HIDE DEF P
    <3> QED BY <2>1, <3>1, SumAdd
  <2> QED BY <1>2, <2>2
<1>3. SUBSET S \subseteq P
  <2> HIDE DEF P
  <2> QED BY <1>1, <1>2, SubsetInduction
<1> QED BY <1>3

\* A sum over the elements where a function need not be zero.
LEMMA SumRestrict ==
  ASSUME NEW T, IsFiniteSet(T), NEW S, S \subseteq T, NEW f, NEW e,
         \A x \in S : f[x] \in Int /\ f[x] = e[x], \A x \in T \ S : e[x] = 0
  PROVE  SumFunctionOnSet(f, S) = SumFunctionOnSet(e, T)
<1>1. IsFiniteSet(S) /\ IsFiniteSet(T \ S) /\ S \cup (T \ S) = T
  BY FS_Subset
<1>2. SumFunctionOnSet(e, S \cup (T \ S)) = SumFunctionOnSet(e, S) + SumFunctionOnSet(e, T \ S)
  <2>1. \A x \in S \cup (T \ S) : e[x] \in Int
    OBVIOUS
  <2> QED BY <1>1, <2>1, SumUnion
<1>3. SumFunctionOnSet(f, S) = SumFunctionOnSet(e, S) /\ SumFunctionOnSet(f, S) \in Int
  BY <1>1, SumSame
<1>4. SumFunctionOnSet(e, T \ S) = 0
  BY <1>1, SumZero
<1> QED BY <1>1, <1>2, <1>3, <1>4

\* The same, inside a larger set.
LEMMA SumGrow ==
  ASSUME NEW S, IsFiniteSet(S), NEW f, \A y \in S : f[y] \in Int,
         NEW U \in SUBSET S, NEW a \in S, a \notin U
  PROVE  SumFunctionOnSet(f, U \cup {a}) = SumFunctionOnSet(f, U) + f[a]
<1>1. IsFiniteSet(U)
  BY FS_Subset
<1>2. \A y \in U \cup {a} : f[y] \in Int
  OBVIOUS
<1> QED BY <1>1, <1>2, SumAdd

\* A sum of ones counts.
LEMMA SumOnes ==
  ASSUME NEW S, IsFiniteSet(S), NEW f, \A x \in S : f[x] = 1
  PROVE  SumFunctionOnSet(f, S) = Cardinality(S)
<1> DEFINE P == {U \in SUBSET S : SumFunctionOnSet(f, U) = Cardinality(U)}
<1>1. {} \in P
  BY SumEmpty, FS_EmptySet
<1>2. ASSUME NEW U \in SUBSET S, NEW x \in S, U \in P, x \notin U
      PROVE  U \cup {x} \in P
  <2>1. IsFiniteSet(U)
    BY FS_Subset
  <2>2. SumFunctionOnSet(f, U \cup {x}) = SumFunctionOnSet(f, U) + f[x]
    <3>1. x \notin U /\ \A y \in S : f[y] \in Int
      BY <1>2
    <3> HIDE DEF P
    <3> QED BY <3>1, SumGrow
  <2>3. Cardinality(U \cup {x}) = Cardinality(U) + 1
    BY <1>2, <2>1, FS_AddElement
  <2> QED BY <1>2, <2>2, <2>3
<1>3. SUBSET S \subseteq P
  <2> HIDE DEF P
  <2> QED BY <1>1, <1>2, SubsetInduction
<1> QED BY <1>3

\* Counting the elements of which a function says 1 and not 0.
LEMMA SumCounts ==
  ASSUME NEW S, IsFiniteSet(S), NEW f, \A x \in S : f[x] \in {0, 1}
  PROVE  SumFunctionOnSet(f, S) = Cardinality({x \in S : f[x] = 1})
<1> DEFINE T == {x \in S : f[x] = 1}
<1>1. IsFiniteSet(T)
  BY FS_Subset
<1>2. SumFunctionOnSet(f, T) = Cardinality(T)
  BY <1>1, SumOnes
<1>3. SumFunctionOnSet(f, T) = SumFunctionOnSet(f, S)
  BY SumRestrict
<1> QED BY <1>2, <1>3

\* A sum of no smaller numbers is no smaller.
LEMMA SumLess ==
  ASSUME NEW S, IsFiniteSet(S), NEW f, NEW e,
         \A x \in S : f[x] \in Int /\ e[x] \in Int /\ f[x] <= e[x]
  PROVE  SumFunctionOnSet(f, S) <= SumFunctionOnSet(e, S)
<1> DEFINE P == {U \in SUBSET S : SumFunctionOnSet(f, U) <= SumFunctionOnSet(e, U)}
<1>1. {} \in P
  BY SumEmpty
<1>2. ASSUME NEW U \in SUBSET S, NEW x \in S, U \in P, x \notin U
      PROVE  U \cup {x} \in P
  <2>1. /\ SumFunctionOnSet(f, U \cup {x}) = SumFunctionOnSet(f, U) + f[x]
        /\ SumFunctionOnSet(e, U \cup {x}) = SumFunctionOnSet(e, U) + e[x]
    <3>1. x \notin U /\ (\A y \in S : f[y] \in Int) /\ (\A y \in S : e[y] \in Int)
      BY <1>2
    <3> HIDE DEF P
    <3> QED BY <3>1, SumGrow
  <2>2. SumFunctionOnSet(f, U) \in Int /\ SumFunctionOnSet(e, U) \in Int
    <3>1. IsFiniteSet(U)
      BY FS_Subset
    <3> QED BY <3>1, SumType
  <2>3. f[x] \in Int /\ e[x] \in Int /\ f[x] <= e[x]
    OBVIOUS
  <2>4. SumFunctionOnSet(f, U) <= SumFunctionOnSet(e, U)
    BY <1>2
  <2>5. SumFunctionOnSet(f, U \cup {x}) <= SumFunctionOnSet(e, U \cup {x})
    BY <2>1, <2>2, <2>3, <2>4
  <2> QED BY <2>5
<1>3. SUBSET S \subseteq P
  <2> HIDE DEF P
  <2> QED BY <1>1, <1>2, SubsetInduction
<1> QED BY <1>3

\* A sum of natural numbers is one.
LEMMA SumNat ==
  ASSUME NEW S, IsFiniteSet(S), NEW f, \A x \in S : f[x] \in Nat
  PROVE  SumFunctionOnSet(f, S) \in Nat
<1> DEFINE z == [x \in S |-> 0]
<1>1. SumFunctionOnSet(z, S) = 0
  BY SumZero
<1>2. SumFunctionOnSet(z, S) <= SumFunctionOnSet(f, S)
  <2>1. \A x \in S : z[x] \in Int /\ f[x] \in Int /\ z[x] <= f[x]
    OBVIOUS
  <2> HIDE DEF z
  <2> QED BY <2>1, SumLess
<1>3. SumFunctionOnSet(f, S) \in Int
  BY SumType
<1> QED BY <1>1, <1>2, <1>3

=============================================================================
