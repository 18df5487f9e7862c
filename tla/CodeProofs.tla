----------------------------- MODULE CodeProofs -----------------------------
(***************************************************************************)
(* From the source of a function to its call on a worker: the store and    *)
(* what its walk computes, the code that runs, the arguments that arrive,  *)
(* what the analysis of the source finds, and what the tracing records.    *)
(***************************************************************************)
EXTENDS Codebase, Analysis, WellFoundedInduction, FiniteSetTheorems, TLAPS

-----------------------------------------------------------------------------
(* Induction.                                                              *)

\* A set of naturals that is not empty has a least member.
LEMMA LeastNat ==
  ASSUME NEW T \in SUBSET Nat, T # {}
  PROVE  \E x \in T : \A y \in T : x <= y
<1> DEFINE Less == {ss \in Nat \X Nat : ss[1] < ss[2]}
<1>1. OpToRel(<, Nat) = Less
  BY DEF OpToRel
<1>2. IsWellFoundedOn(OpToRel(<, Nat), Nat)
  BY NatLessThanWellFounded
<1>3. IsWellFoundedOn(Less, Nat)
  BY <1>1, <1>2
<1>4. PICK x \in T : \A y \in T : ~(<<y, x>> \in Less)
  <2> HIDE DEF Less
  <2> QED BY <1>3, WFMin
<1>5. ASSUME NEW y \in T PROVE x <= y
  <2>1. x \in Nat /\ y \in Nat
    OBVIOUS
  <2>2. <<y, x>> \in Less <=> y < x
    BY <2>1
  <2>3. ~(y < x)
    BY <1>4, <2>2
  <2> QED BY <2>1, <2>3
<1> QED BY <1>5

\* Induction, on the set of the numbers for which the claim holds.
LEMMA NatSetInduction ==
  ASSUME NEW T, 0 \in T, \A n \in Nat : n \in T => n + 1 \in T
  PROVE  Nat \subseteq T
<1> SUFFICES ASSUME Nat \ T # {} PROVE FALSE
  OBVIOUS
<1>1. PICK x \in Nat \ T : \A y \in Nat \ T : x <= y
  BY LeastNat
<1>2. x - 1 \in Nat /\ x - 1 \notin Nat \ T
  BY <1>1
<1> QED BY <1>1, <1>2

-----------------------------------------------------------------------------
(* The recursive function of Closure.                                      *)

\* g holds the first n stages.
Begins(g, n, S, succ) ==
  /\ g = [i \in 0..n |-> g[i]] /\ g[0] = S
  /\ \A i \in 0..n : i > 0 => g[i] = Onward(g[i - 1], succ)

\* There are stages up to any number, and only one way to begin.
LEMMA StagesBegin ==
  ASSUME NEW S, NEW succ
  PROVE  /\ \A n \in Nat : \E g : Begins(g, n, S, succ)
         /\ \A n, m \in Nat : n <= m =>
              \A g, h : Begins(g, n, S, succ) /\ Begins(h, m, S, succ) => g[n] = h[n]
<1> DEFINE T == {n \in Nat : \E g : Begins(g, n, S, succ)}
           U == {n \in Nat : \A m \in Nat : n <= m =>
                   \A g, h : Begins(g, n, S, succ) /\ Begins(h, m, S, succ) => g[n] = h[n]}
<1>1. 0 \in T
  <2>1. Begins([i \in 0..0 |-> S], 0, S, succ)
    BY DEF Begins
  <2> QED BY <2>1
<1>2. ASSUME NEW n \in Nat, n \in T PROVE n + 1 \in T
  <2>1. PICK g : Begins(g, n, S, succ)
    BY <1>2
  <2> DEFINE h == [i \in 0..(n + 1) |-> IF i <= n THEN g[i] ELSE Onward(g[n], succ)]
  <2>2. h[0] = S
    BY <2>1 DEF Begins
  <2>3. ASSUME NEW i \in 0..(n + 1), i > 0 PROVE h[i] = Onward(h[i - 1], succ)
    <3>1. i - 1 \in 0..n /\ i - 1 \in 0..(n + 1) /\ (i <= n => i \in 0..n) /\ (~(i <= n) => i - 1 = n)
      BY <2>3
    <3>2. h[i - 1] = g[i - 1]
      BY <3>1
    <3>3. CASE i <= n
      <4>1. h[i] = g[i] /\ g[i] = Onward(g[i - 1], succ)
        BY <2>1, <2>3, <3>1, <3>3 DEF Begins
      <4> QED BY <3>2, <4>1
    <3>4. CASE ~(i <= n)
      <4>1. h[i] = Onward(g[n], succ) /\ i - 1 = n
        BY <3>1, <3>4
      <4> QED BY <3>2, <4>1
    <3> QED BY <3>3, <3>4
  <2>4. h = [i \in 0..(n + 1) |-> h[i]]
    OBVIOUS
  <2> HIDE DEF h
  <2>5. Begins(h, n + 1, S, succ)
    BY <2>2, <2>3, <2>4 DEF Begins
  <2> QED BY <2>5
<1>3. 0 \in U
  BY DEF Begins
<1>4. ASSUME NEW n \in Nat, n \in U PROVE n + 1 \in U
  <2> SUFFICES ASSUME NEW m \in Nat, n + 1 <= m, NEW g, NEW h,
                      Begins(g, n + 1, S, succ), Begins(h, m, S, succ)
               PROVE  g[n + 1] = h[n + 1]
    OBVIOUS
  <2> DEFINE k == [i \in 0..n |-> g[i]]
  <2>1. /\ k = [i \in 0..n |-> k[i]] /\ k[n] = g[n]
        /\ \A i \in 0..n : k[i] = g[i]
    OBVIOUS
  <2> HIDE DEF k
  <2>2. Begins(k, n, S, succ)
    <3>1. k[0] = S
      <4>1. 0 \in 0..n /\ g[0] = S
        BY DEF Begins
      <4> QED BY <2>1, <4>1
    <3>2. ASSUME NEW i \in 0..n, i > 0 PROVE k[i] = Onward(k[i - 1], succ)
      <4>1. i - 1 \in 0..n /\ i \in 0..(n + 1)
        BY <3>2
      <4>2. g[i] = Onward(g[i - 1], succ)
        BY <3>2, <4>1 DEF Begins
      <4> QED BY <2>1, <4>1, <4>2
    <3> QED BY <2>1, <3>1, <3>2 DEF Begins
  <2>3. k[n] = h[n]
    BY <1>4, <2>2
  <2>4. n + 1 \in 0..(n + 1) /\ n + 1 \in 0..m /\ (n + 1) - 1 = n /\ n + 1 > 0
    OBVIOUS
  <2>5. g[n + 1] = Onward(g[n], succ) /\ h[n + 1] = Onward(h[n], succ)
    BY <2>4 DEF Begins
  <2> QED BY <2>1, <2>3, <2>5
<1> HIDE DEF T, U
<1>5. Nat \subseteq T /\ Nat \subseteq U
  BY <1>1, <1>2, <1>3, <1>4, NatSetInduction
<1> QED BY <1>5 DEF T, U

\* What the recursion says of the stages.
LEMMA StagesRecur ==
  ASSUME NEW S, NEW succ
  PROVE  /\ Stages(S, succ)[0] = S
         /\ \A n \in Nat : Stages(S, succ)[n + 1] = Onward(Stages(S, succ)[n], succ)
<1> DEFINE Start(n) == CHOOSE g : Begins(g, n, S, succ)
           f == [n \in Nat |-> Start(n)[n]]
           Recurs(h) == h = [n \in Nat |-> IF n = 0 THEN S ELSE Onward(h[n - 1], succ)]
<1>1. \A n \in Nat : Begins(Start(n), n, S, succ)
  <2>1. \A n \in Nat : \E g : Begins(g, n, S, succ)
    BY StagesBegin
  <2> QED BY <2>1, Zenon
<1>2. f[0] = S
  BY <1>1 DEF Begins
<1>3. ASSUME NEW n \in Nat, n # 0 PROVE f[n] = Onward(f[n - 1], succ)
  <2> HIDE DEF Start
  <2>1. n - 1 \in Nat /\ n - 1 <= n /\ n \in 0..n /\ n > 0
    BY <1>3
  <2>2. Start(n)[n] = Onward(Start(n)[n - 1], succ)
    BY <1>1, <2>1 DEF Begins
  <2>3. Start(n - 1)[n - 1] = Start(n)[n - 1]
    BY <1>1, <2>1, StagesBegin
  <2>4. f[n] = Start(n)[n] /\ f[n - 1] = Start(n - 1)[n - 1]
    BY <2>1
  <2> HIDE DEF f
  <2> QED BY <2>2, <2>3, <2>4
<1>4. Recurs(f)
  <2>1. f = [n \in Nat |-> f[n]]
    OBVIOUS
  <2> HIDE DEF f
  <2> QED BY <1>2, <1>3, <2>1
<1>5. Recurs(Stages(S, succ))
  <2>1. Stages(S, succ) = CHOOSE h : Recurs(h)
    BY DEF Stages
  <2> HIDE DEF Recurs, f
  <2> QED BY <1>4, <2>1, Zenon
<1> HIDE DEF f
<1>6. \A n \in Nat : Stages(S, succ)[n] = IF n = 0 THEN S ELSE Onward(Stages(S, succ)[n - 1], succ)
  <2> DEFINE h == Stages(S, succ)
  <2>1. Recurs(h)
    BY <1>5
  <2> HIDE DEF h
  <2>2. \A n \in Nat : h[n] = IF n = 0 THEN S ELSE Onward(h[n - 1], succ)
    BY <2>1
  <2> QED BY <2>2 DEF h
<1> QED
  <2>1. \A n \in Nat : n + 1 \in Nat /\ n + 1 # 0 /\ (n + 1) - 1 = n
    OBVIOUS
  <2> QED BY <1>6, <2>1

\* Stages that bound one another.
LEMMA StagesWithin ==
  ASSUME NEW S, NEW succ, NEW T, S \subseteq T,
         \A x \in T \cap DOMAIN succ : succ[x] \subseteq T
  PROVE  \A n \in Nat : Stages(S, succ)[n] \subseteq T
<1> DEFINE f == Stages(S, succ)
           N == {n \in Nat : f[n] \subseteq T}
<1>1. /\ f[0] = S
      /\ \A n \in Nat : f[n + 1] = Onward(f[n], succ)
  BY StagesRecur
<1> HIDE DEF f
<1>2. 0 \in N
  BY <1>1
<1>3. ASSUME NEW n \in Nat, n \in N PROVE n + 1 \in N
  <2>1. Onward(f[n], succ) \subseteq T
    BY <1>3 DEF Onward
  <2> QED BY <1>1, <2>1
<1> HIDE DEF N
<1>4. Nat \subseteq N
  BY <1>2, <1>3, NatSetInduction
<1> QED BY <1>4 DEF N, f

\* Once a stage adds nothing that has successors, the next one is the last.
LEMMA StagesStay ==
  ASSUME NEW S, NEW succ, NEW m \in Nat,
         Stages(S, succ)[m + 1] \cap DOMAIN succ = Stages(S, succ)[m] \cap DOMAIN succ
  PROVE  \A n \in Nat : n > m => Stages(S, succ)[n] = Stages(S, succ)[m + 1]
<1> DEFINE f == Stages(S, succ)
           N == {n \in Nat : n > m => f[n] = f[m + 1]}
<1>1. \A n \in Nat : f[n + 1] = Onward(f[n], succ)
  BY StagesRecur
<1> HIDE DEF f
<1>2. Onward(f[m + 1], succ) = f[m + 1]
  <2>1. f[m + 1] = Onward(f[m], succ) /\ f[m + 1] \cap DOMAIN succ = f[m] \cap DOMAIN succ
    BY <1>1 DEF f
  <2>2. UNION {succ[x] : x \in f[m] \cap DOMAIN succ} \subseteq f[m + 1]
    BY <2>1 DEF Onward
  <2> QED BY <2>1, <2>2 DEF Onward
<1>3. 0 \in N
  OBVIOUS
<1>4. ASSUME NEW n \in Nat, n \in N PROVE n + 1 \in N
  <2>1. CASE n = m
    BY <2>1
  <2>2. CASE n > m
    <3>1. f[n] = f[m + 1]
      BY <1>4, <2>2
    <3> QED BY <1>1, <1>2, <3>1
  <2> QED BY <2>1, <2>2
<1> HIDE DEF N
<1>5. Nat \subseteq N
  BY <1>3, <1>4, NatSetInduction
<1> QED BY <1>5 DEF N, f

\* Until then each stage adds one that has.
LEMMA StagesGrow ==
  ASSUME NEW S, NEW succ, IsFiniteSet(DOMAIN succ)
  PROVE  \E m \in 0..Cardinality(DOMAIN succ) :
           Stages(S, succ)[m + 1] \cap DOMAIN succ = Stages(S, succ)[m] \cap DOMAIN succ
<1> DEFINE f == Stages(S, succ)
           D == DOMAIN succ
           C(n) == Cardinality(f[n] \cap D)
           N == {n \in Nat : (\A m \in 0..n : m < n => f[m + 1] \cap D # f[m] \cap D) => C(n) >= n}
<1>1. \A n \in Nat : f[n + 1] = Onward(f[n], succ)
  BY StagesRecur
<1> HIDE DEF f
<1>2. \A n \in Nat : f[n] \cap D \subseteq f[n + 1] \cap D
  BY <1>1 DEF Onward
<1>3. IsFiniteSet(D) /\ Cardinality(D) \in Nat
  BY FS_CardinalityType
<1> HIDE DEF D
<1>4. \A n \in Nat : IsFiniteSet(f[n] \cap D) /\ C(n) \in Nat /\ C(n) <= Cardinality(D)
  BY <1>3, FS_Subset, FS_CardinalityType
<1>5. 0 \in N
  BY <1>4
<1>6. ASSUME NEW n \in Nat, n \in N PROVE n + 1 \in N
  <2> SUFFICES ASSUME \A m \in 0..(n + 1) : m < n + 1 => f[m + 1] \cap D # f[m] \cap D
               PROVE  C(n + 1) >= n + 1
    OBVIOUS
  <2>1. \A m \in 0..n : f[m + 1] \cap D # f[m] \cap D
    <3> \A m \in 0..n : m \in 0..(n + 1) /\ m < n + 1
      OBVIOUS
    <3> QED OBVIOUS
  <2>2. C(n) >= n
    BY <1>6, <2>1
  <2>3. n \in 0..n /\ n + 1 \in Nat
    OBVIOUS
  <2>4. f[n] \cap D # f[n + 1] \cap D /\ f[n] \cap D \subseteq f[n + 1] \cap D
    BY <1>2, <2>1, <2>3
  <2>5. C(n) < C(n + 1)
    BY <1>4, <2>3, <2>4, FS_Subset
  <2>6. C(n) \in Nat /\ C(n + 1) \in Nat
    BY <1>4, <2>3
  <2> HIDE DEF C
  <2> QED BY <2>2, <2>5, <2>6
<1> HIDE DEF N
<1>7. Nat \subseteq N
  BY <1>5, <1>6, NatSetInduction
<1> DEFINE k == Cardinality(D) + 1
<1>8. k \in Nat /\ C(k) < k
  BY <1>3, <1>4
<1>9. k \in N
  BY <1>7, <1>8
<1>10. PICK m \in 0..k : m < k /\ f[m + 1] \cap D = f[m] \cap D
  <2>1. C(k) \in Nat
    BY <1>4, <1>8
  <2> QED BY <1>8, <1>9, <2>1 DEF N
<1>11. m \in 0..Cardinality(D)
  BY <1>3, <1>10
<1> QED BY <1>10, <1>11 DEF f, D

\* Closure is the least set that holds S and that succ does not leave.
LEMMA ClosureIsLeast ==
  ASSUME NEW S, NEW succ, IsFiniteSet(DOMAIN succ)
  PROVE  /\ S \subseteq Closure(S, succ)
         /\ \A x \in Closure(S, succ) \cap DOMAIN succ : succ[x] \subseteq Closure(S, succ)
         /\ \A T : S \subseteq T /\ (\A x \in T \cap DOMAIN succ : succ[x] \subseteq T)
                  => Closure(S, succ) \subseteq T
<1> DEFINE f == Stages(S, succ)
           k == Cardinality(DOMAIN succ)
<1>1. k \in Nat
  BY FS_CardinalityType
<1>2. f[0] = S /\ \A n \in Nat : f[n + 1] = Onward(f[n], succ)
  BY StagesRecur
<1>3. PICK m \in 0..k : f[m + 1] \cap DOMAIN succ = f[m] \cap DOMAIN succ
  BY StagesGrow
<1>4. m \in Nat /\ k + 1 > m /\ k + 1 \in Nat
  BY <1>1
<1>5. \A n \in Nat : n > m => f[n] = f[m + 1]
  BY <1>3, <1>4, StagesStay
<1>6. Closure(S, succ) = f[k + 1]
  BY DEF Closure
<1>7. ASSUME NEW T, S \subseteq T, \A x \in T \cap DOMAIN succ : succ[x] \subseteq T
      PROVE  Closure(S, succ) \subseteq T
  <2>1. \A n \in Nat : f[n] \subseteq T
    BY <1>7, StagesWithin
  <2> QED BY <1>4, <1>6, <2>1
<1> HIDE DEF f, k
<1>8. Onward(f[k + 1], succ) = f[k + 1]
  <2>1. k + 2 \in Nat /\ k + 2 > m /\ k + 2 = (k + 1) + 1
    BY <1>1, <1>4
  <2> QED BY <1>2, <1>4, <1>5, <2>1
<1>9. S \subseteq f[k + 1]
  <2> DEFINE N == {n \in Nat : S \subseteq f[n]}
  <2>1. 0 \in N
    BY <1>2
  <2>2. ASSUME NEW n \in Nat, n \in N PROVE n + 1 \in N
    BY <1>2, <2>2 DEF Onward
  <2> HIDE DEF N
  <2>3. Nat \subseteq N
    BY <2>1, <2>2, NatSetInduction
  <2> QED BY <1>4, <2>3 DEF N
<1>10. \A x \in f[k + 1] \cap DOMAIN succ : succ[x] \subseteq f[k + 1]
  BY <1>8 DEF Onward
<1> QED BY <1>6, <1>7, <1>9, <1>10

-----------------------------------------------------------------------------
(* Stores that are closed.                                                 *)

\* Every edge and every name of the store leads to one of its objects.
Closed(store) ==
  /\ store = [objects |-> store.objects, deps |-> store.deps, refs |-> store.refs]
  /\ IsFiniteSet(DOMAIN store.deps)
  /\ DOMAIN store.deps \subseteq store.objects
  /\ \A h \in DOMAIN store.deps : store.deps[h] \subseteq store.objects
  /\ \A q \in DOMAIN store.refs : store.refs[q] \in store.objects

\* What an object of such a store reaches is in the store, and so is what that reaches.
LEMMA WalkStays ==
  ASSUME NEW store, Closed(store), NEW h \in store.objects
  PROVE  /\ h \in Walk(store, h) /\ Walk(store, h) \subseteq store.objects
         /\ \A x \in Walk(store, h) \cap DOMAIN store.deps : store.deps[x] \subseteq Walk(store, h)
<1>1. IsFiniteSet(DOMAIN store.deps)
  BY DEF Closed
<1>2. {h} \subseteq store.objects /\ \A x \in store.objects \cap DOMAIN store.deps : store.deps[x] \subseteq store.objects
  BY DEF Closed
<1> QED BY <1>1, <1>2, ClosureIsLeast DEF Walk

\* The empty store is closed.
LEMMA EmptyClosed == Closed(EmptyStore)
<1>1. DOMAIN <<>> = {}
  OBVIOUS
<1>2. IsFiniteSet({})
  BY FS_EmptySet
<1> QED BY <1>1, <1>2 DEF Closed, EmptyStore

\* The union of two closed stores is closed, whichever meaning a name keeps.
LEMMA MergeClosed ==
  ASSUME NEW a, NEW b, Closed(a), Closed(b)
  PROVE  Closed(Merge(a, b))
<1> DEFINE s == Merge(a, b)
<1>1. /\ s.objects = a.objects \cup b.objects
      /\ DOMAIN s.deps = DOMAIN a.deps \cup DOMAIN b.deps
      /\ s = [objects |-> s.objects, deps |-> s.deps, refs |-> s.refs]
      /\ s.refs = Over(a.refs, b.refs)
  BY DEF Merge
<1>2. \A h \in DOMAIN s.deps : s.deps[h] = DepsOf(a, h) \cup DepsOf(b, h)
  BY DEF Merge
<1>3. /\ DOMAIN s.refs = DOMAIN a.refs \cup DOMAIN b.refs
      /\ \A q \in DOMAIN s.refs : s.refs[q] = IF q \in DOMAIN a.refs THEN a.refs[q] ELSE b.refs[q]
  BY <1>1 DEF Over
<1> HIDE DEF s
<1>4. IsFiniteSet(DOMAIN s.deps)
  BY <1>1, FS_Union DEF Closed
<1>5. \A h : DepsOf(a, h) \subseteq a.objects /\ DepsOf(b, h) \subseteq b.objects
  BY DEF DepsOf, Closed
<1>6. \A h \in DOMAIN s.deps : s.deps[h] \subseteq s.objects
  BY <1>1, <1>2, <1>5
<1>7. DOMAIN s.deps \subseteq s.objects
  BY <1>1 DEF Closed
<1>8. \A q \in DOMAIN s.refs : s.refs[q] \in s.objects
  BY <1>1, <1>3 DEF Closed
<1>9. Closed(s)
  BY <1>1, <1>4, <1>6, <1>7, <1>8 DEF Closed
<1> QED BY <1>9 DEF s

\* A name can be dropped.
LEMMA DelRefClosed ==
  ASSUME NEW store, Closed(store), NEW q
  PROVE  Closed(DelRef(store, q))
<1> DEFINE s == DelRef(store, q)
<1>1. s = [objects |-> store.objects, deps |-> store.deps, refs |-> Restrict(store.refs, DOMAIN store.refs \ {q})]
  BY DEF DelRef, Closed
<1>2. /\ DOMAIN s.refs = DOMAIN store.refs \ {q}
      /\ \A r \in DOMAIN s.refs : s.refs[r] = store.refs[r]
  BY <1>1 DEF Restrict
<1> QED BY <1>1, <1>2 DEF Closed

\* What the roots reach holds all that it leads to.
LEMMA CutClosed ==
  ASSUME NEW store, Closed(store), NEW roots \in SUBSET store.objects
  PROVE  LET reachable == UNION {Walk(store, h) : h \in roots}
         IN /\ reachable \subseteq store.objects /\ roots \subseteq reachable
            /\ \A x \in reachable \cap DOMAIN store.deps : store.deps[x] \subseteq reachable
            /\ IsFiniteSet(DOMAIN store.deps \cap reachable)
<1>1. \A h \in roots :
        /\ h \in Walk(store, h) /\ Walk(store, h) \subseteq store.objects
        /\ \A x \in Walk(store, h) \cap DOMAIN store.deps : store.deps[x] \subseteq Walk(store, h)
  BY WalkStays
<1>2. \A T : IsFiniteSet(DOMAIN store.deps \cap T)
  BY FS_Subset DEF Closed
<1> QED BY <1>1, <1>2

\* The part of a closed store that some of its objects reach is closed.
LEMMA SubgraphClosed ==
  ASSUME NEW store, Closed(store), NEW roots \in SUBSET store.objects
  PROVE  Closed(Subgraph(store, roots))
<1> DEFINE reachable == UNION {Walk(store, h) : h \in roots}
           s == Subgraph(store, roots)
<1>1. /\ reachable \subseteq store.objects
      /\ \A x \in reachable \cap DOMAIN store.deps : store.deps[x] \subseteq reachable
      /\ IsFiniteSet(DOMAIN store.deps \cap reachable)
  BY CutClosed
<1>2. s = [objects |-> store.objects \cap reachable,
           deps    |-> Restrict(store.deps, DOMAIN store.deps \cap reachable),
           refs    |-> Restrict(store.refs, {q \in DOMAIN store.refs : store.refs[q] \in reachable})]
  BY DEF Subgraph
<1> HIDE DEF reachable, s
<1>3. /\ DOMAIN s.deps = DOMAIN store.deps \cap reachable
      /\ \A h \in DOMAIN s.deps : s.deps[h] = store.deps[h]
  BY <1>2 DEF Restrict
<1>4. /\ DOMAIN s.refs = {q \in DOMAIN store.refs : store.refs[q] \in reachable}
      /\ \A q \in DOMAIN s.refs : s.refs[q] = store.refs[q]
  BY <1>2 DEF Restrict
<1>5. s.objects = reachable
  BY <1>1, <1>2
<1>6. Closed(s)
  BY <1>1, <1>2, <1>3, <1>4, <1>5 DEF Closed
<1> QED BY <1>6 DEF s

\* What no name reaches can be collected.
LEMMA GcClosed ==
  ASSUME NEW store, Closed(store)
  PROVE  Closed(Gc(store))
<1> DEFINE roots == {store.refs[q] : q \in DOMAIN store.refs}
           reachable == UNION {Walk(store, h) : h \in roots}
           garbage == store.objects \ reachable
           s == Gc(store)
<1>1. roots \subseteq store.objects
  BY DEF Closed
<1>2. /\ reachable \subseteq store.objects /\ roots \subseteq reachable
      /\ \A x \in reachable \cap DOMAIN store.deps : store.deps[x] \subseteq reachable
      /\ IsFiniteSet(DOMAIN store.deps \cap reachable)
  BY <1>1, CutClosed
<1>3. reachable = UNION {Walk(store, store.refs[q]) : q \in DOMAIN store.refs}
  OBVIOUS
<1>4. s = [objects |-> store.objects \ garbage,
           deps    |-> Restrict(store.deps, DOMAIN store.deps \ garbage), refs |-> store.refs]
  <2>1. Gc(store) = [store EXCEPT !.objects = @ \ garbage, !.deps = Restrict(@, DOMAIN @ \ garbage)]
    BY <1>3 DEF Gc
  <2> HIDE DEF garbage
  <2>2. s = [[objects |-> store.objects, deps |-> store.deps, refs |-> store.refs]
               EXCEPT !.objects = @ \ garbage, !.deps = Restrict(@, DOMAIN @ \ garbage)]
    BY <2>1 DEF Closed
  <2> QED BY <2>2
<1>5. roots \subseteq reachable /\ \A q \in DOMAIN store.refs : store.refs[q] \in reachable
  BY <1>2
<1>6. store.objects \ garbage = reachable /\ DOMAIN store.deps \ garbage = DOMAIN store.deps \cap reachable
  BY <1>2 DEF Closed
<1> HIDE DEF roots, reachable, garbage, s
<1>7. /\ DOMAIN s.deps = DOMAIN store.deps \cap reachable
      /\ \A h \in DOMAIN s.deps : s.deps[h] = store.deps[h]
  BY <1>4, <1>6 DEF Restrict
<1>8. Closed(s)
  BY <1>2, <1>4, <1>5, <1>6, <1>7 DEF Closed
<1> QED BY <1>8 DEF s

-----------------------------------------------------------------------------
(* The graph of the client process.                                        *)

\* Nodes that hold a version of a function of the program.
NodesOK(nodes) ==
  /\ DOMAIN nodes \subseteq DOMAIN prog.body
  /\ \A q \in DOMAIN nodes : nodes[q].ver \in DOMAIN prog.body[q] /\ nodes[q].at \in Nat

\* The program is one of the scenarios as far as its text goes; of a traced
\* function that is registered the graph holds the current version.
GraphInv ==
  /\ WellFormed(prog) /\ loaded \in 0..Len(prog.order)
  /\ DOMAIN ver = DOMAIN prog.body /\ ver = [q \in DOMAIN prog.body |-> ver[q]]
  /\ \A q \in DOMAIN prog.body : ver[q] \in DOMAIN prog.body[q]
  /\ NodesOK(node)
  /\ \A q \in prog.traced \cap DOMAIN node : node[q].ver = ver[q]

\* No step changes the text of the program, only the budgets of the scenario.
TextKept ==
  /\ DOMAIN prog' = DOMAIN prog /\ prog'.body = prog.body /\ prog'.order = prog.order
  /\ prog'.traced = prog.traced /\ prog'.edits = prog.edits /\ prog'.submits = prog.submits
  /\ prog'.args = prog.args /\ prog'.class = prog.class /\ prog'.sees = prog.sees
  /\ prog'.opaque = prog.opaque /\ prog'.kind = prog.kind
  /\ prog'.restarts \in Int /\ prog'.restarts <= prog.restarts

LEMMA ProgramKept ==
  ASSUME GraphInv, [Next]_vars
  PROVE  TextKept
<1>1. /\ {"order", "body", "kind", "class", "sees", "traced", "opaque", "edits", "submits", "args", "restarts"} \subseteq DOMAIN prog
      /\ prog.restarts \in Int
  BY DEF GraphInv, WellFormed
<1>2. CASE prog' = prog
  BY <1>1, <1>2 DEF TextKept
<1>3. CASE prog' = [prog EXCEPT !.calls = @ - 1]
  BY <1>1, <1>3 DEF TextKept
<1>4. CASE prog' = [prog EXCEPT !.restarts = @ - 1]
  BY <1>1, <1>4 DEF TextKept
<1>5. CASE prog' = [prog EXCEPT !.clears = @ - 1]
  BY <1>1, <1>5 DEF TextKept
<1>6. CASE prog' = [prog EXCEPT !.keeps = @ - 1]
  BY <1>1, <1>6 DEF TextKept
<1>7. ASSUME LocalCall PROVE prog' = prog \/ prog' = [prog EXCEPT !.calls = @ - 1]
  BY <1>7 DEF LocalCall, CallFunction, MakeGenerator, ResumeGenerator, Return, Spawn, Spend
<1>8. ASSUME Program PROVE prog' = prog \/ prog' = [prog EXCEPT !.calls = @ - 1] \/ prog' = [prog EXCEPT !.restarts = @ - 1]
  BY <1>7, <1>8 DEF Program, Define, Edit, Restart
<1>9. ASSUME Submit \/ Work PROVE prog' = prog
  BY <1>9 DEF Submit, Work, Hit, Miss, IsInstalled, PipInstall, Build, graphVars
<1>10. ASSUME ClearCache PROVE prog' = [prog EXCEPT !.clears = @ - 1]
  BY <1>10 DEF ClearCache
<1>11. ASSUME Keep PROVE prog' = [prog EXCEPT !.keeps = @ - 1]
  BY <1>11 DEF Keep, KeepStore
<1>12. ASSUME UNCHANGED vars PROVE prog' = prog
  BY <1>12 DEF vars, graphVars
<1> QED BY <1>2, <1>3, <1>4, <1>5, <1>6, <1>8, <1>9, <1>10, <1>11, <1>12 DEF Next

\* What the process has defined is in the text of the program.
LEMMA LoadedInProgram ==
  ASSUME GraphInv
  PROVE  Loaded \subseteq DOMAIN prog.body
<1>1. prog.order \in Seq(DOMAIN prog.body) /\ loaded \in 0..Len(prog.order)
  BY DEF GraphInv, WellFormed
<1>2. \A i \in 1..loaded : prog.order[i] \in DOMAIN prog.body
  BY <1>1
<1> QED BY <1>2 DEF Loaded

\* Discovery finds functions of the program only.
LEMMA DiscoveredInProgram ==
  ASSUME GraphInv, NEW q \in DOMAIN prog.body, NEW v \in DOMAIN prog.body[q]
  PROVE  Discovered(q, prog.body[q][v]) \subseteq DOMAIN prog.body
<1> DEFINE src == prog.body[q][v]
<1>1. Loaded \subseteq DOMAIN prog.body
  BY LoadedInProgram
<1>2. ClosureRefs(src) \subseteq DOMAIN prog.body
  BY DEF GraphInv, WellFormed
<1>3. \A c : Members(c) \subseteq DOMAIN prog.body
  BY DEF Members
<1>4. CalledFunctions(q, src) \subseteq DOMAIN prog.body
  BY <1>1 DEF CalledFunctions, Bound, Exists
<1>5. CalledMethods(q, src) \subseteq DOMAIN prog.body
  BY <1>3 DEF CalledMethods
<1> HIDE DEF src
<1>6. Discovered(q, src) \subseteq DOMAIN prog.body
  BY <1>2, <1>3, <1>4, <1>5 DEF Discovered
<1> QED BY <1>6 DEF src

\* refresh keeps the nodes that there are, and adds functions of the program as they are now.
LEMMA RefreshedNodes ==
  ASSUME GraphInv, NEW nodes, NodesOK(nodes)
  PROVE  LET after == Refreshed(nodes)
         IN /\ NodesOK(after) /\ DOMAIN nodes \subseteq DOMAIN after
            /\ \A q \in DOMAIN after :
                 IF q \in DOMAIN nodes THEN after[q] = nodes[q] ELSE after[q].ver = ver[q]
<1> DEFINE succ == [q \in DOMAIN prog.body |-> Discovered(q, Captured(nodes, q))]
           all == Closure(DOMAIN nodes, succ)
           new == [q \in all |-> [ver |-> ver[q], at |-> Cardinality(DOMAIN nodes)]]
           after == Refreshed(nodes)
<1>1. /\ DOMAIN nodes \subseteq DOMAIN prog.body
      /\ \A q \in DOMAIN nodes : nodes[q].ver \in DOMAIN prog.body[q] /\ nodes[q].at \in Nat
      /\ \A q \in DOMAIN prog.body : ver[q] \in DOMAIN prog.body[q]
  BY DEF NodesOK, GraphInv
<1>2. \A q \in DOMAIN prog.body : Discovered(q, Captured(nodes, q)) \subseteq DOMAIN prog.body
  BY <1>1, DiscoveredInProgram DEF Captured
<1>3. IsFiniteSet(DOMAIN succ) /\ DOMAIN succ = DOMAIN prog.body
  BY DEF GraphInv, WellFormed
<1>4. \A q \in DOMAIN prog.body \cap DOMAIN succ : succ[q] \subseteq DOMAIN prog.body
  BY <1>2
<1> HIDE DEF succ
<1>5. all \subseteq DOMAIN prog.body
  BY <1>1, <1>3, <1>4, ClosureIsLeast
<1>6. after = Over(nodes, new)
  BY DEF Refreshed, succ
<1> HIDE DEF all, after
<1>7. DOMAIN new = all /\ \A q \in all : new[q].ver = ver[q] /\ new[q].at \in Nat
  <2>1. Cardinality(DOMAIN nodes) \in Nat
    BY <1>1, FS_Subset, FS_CardinalityType DEF GraphInv, WellFormed
  <2> QED BY <2>1
<1> HIDE DEF new
<1>8. /\ DOMAIN after = DOMAIN nodes \cup all
      /\ \A q \in DOMAIN after : after[q] = IF q \in DOMAIN nodes THEN nodes[q] ELSE new[q]
  BY <1>6, <1>7 DEF Over
<1>9. \A q \in DOMAIN after :
        IF q \in DOMAIN nodes THEN after[q] = nodes[q] ELSE after[q].ver = ver[q]
  BY <1>7, <1>8
<1>10. NodesOK(after)
  BY <1>1, <1>5, <1>7, <1>8, <1>9 DEF NodesOK
<1> QED BY <1>8, <1>9, <1>10 DEF after

\* register: the function is there in the version that was handed in.
LEMMA RegisteredNodes ==
  ASSUME GraphInv, NEW q \in DOMAIN prog.body, NEW v \in DOMAIN prog.body[q]
  PROVE  LET after == Register(q, v)
         IN /\ NodesOK(after) /\ q \in DOMAIN after /\ after[q].ver = v
            /\ \A r \in DOMAIN after \ {q} :
                 IF r \in DOMAIN node THEN after[r] = node[r] ELSE after[r].ver = ver[r]
<1> DEFINE own == [x \in {q} |-> [ver |-> v, at |-> IF q \in DOMAIN node THEN node[q].at
                                                    ELSE Cardinality(DOMAIN node)]]
           nodes == Over(own, node)
           after == Register(q, v)
<1>1. DOMAIN own = {q} /\ own[q].ver = v /\ own[q].at \in Nat
  <2>1. Cardinality(DOMAIN node) \in Nat
    BY FS_Subset, FS_CardinalityType DEF GraphInv, NodesOK, WellFormed
  <2> QED BY <2>1 DEF GraphInv, NodesOK
<1>2. after = Refreshed(nodes)
  BY DEF Register
<1> HIDE DEF own, after
<1>3. /\ DOMAIN nodes = {q} \cup DOMAIN node /\ nodes[q] = own[q]
      /\ \A r \in DOMAIN node \ {q} : nodes[r] = node[r]
  BY <1>1 DEF Over
<1> HIDE DEF nodes
<1>4. NodesOK(nodes)
  BY <1>1, <1>3 DEF NodesOK, GraphInv
<1>5. /\ NodesOK(after) /\ DOMAIN nodes \subseteq DOMAIN after
      /\ \A r \in DOMAIN after :
           IF r \in DOMAIN nodes THEN after[r] = nodes[r] ELSE after[r].ver = ver[r]
  BY <1>2, <1>4, RefreshedNodes
<1> QED BY <1>1, <1>3, <1>5 DEF after

\* A graph that is registered into or refreshed keeps its functions.
LEMMA GraphGrows ==
  ASSUME GraphInv
  PROVE  /\ DOMAIN node \subseteq DOMAIN Refreshed(node)
         /\ \A q \in DOMAIN prog.body : \A v \in DOMAIN prog.body[q] :
              q \in DOMAIN Register(q, v) /\ DOMAIN node \subseteq DOMAIN Register(q, v)
<1>1. DOMAIN node \subseteq DOMAIN Refreshed(node)
  BY RefreshedNodes DEF GraphInv
<1>2. ASSUME NEW q \in DOMAIN prog.body, NEW v \in DOMAIN prog.body[q]
      PROVE  q \in DOMAIN Register(q, v) /\ DOMAIN node \subseteq DOMAIN Register(q, v)
  <2> DEFINE own == [x \in {q} |-> [ver |-> v, at |-> IF q \in DOMAIN node THEN node[q].at
                                                      ELSE Cardinality(DOMAIN node)]]
             new == [x \in Closure(DOMAIN Over(own, node),
                                   [y \in DOMAIN prog.body |-> Discovered(y, Captured(Over(own, node), y))])
                       |-> [ver |-> ver[x], at |-> Cardinality(DOMAIN Over(own, node))]]
  <2>1. Register(q, v) = Over(Over(own, node), new)
    BY DEF Register, Refreshed
  <2>2. DOMAIN own = {q}
    OBVIOUS
  <2> HIDE DEF own, new
  <2> QED BY <2>1, <2>2 DEF Over
<1> QED BY <1>1, <1>2

\* The invariant is about the text, the definitions, the versions and the nodes only.
LEMMA GraphFrame ==
  ASSUME GraphInv, TextKept,
         loaded' \in 0..Len(prog.order),
         DOMAIN ver' = DOMAIN prog.body, ver' = [q \in DOMAIN prog.body |-> ver'[q]],
         \A q \in DOMAIN prog.body : ver'[q] \in DOMAIN prog.body[q],
         NodesOK(node'),
         \A q \in prog.traced \cap DOMAIN node' : node'[q].ver = ver'[q]
  PROVE  GraphInv'
<1>1. WellFormed(prog)'
  BY DEF GraphInv, WellFormed, TextKept
<1>2. NodesOK(node)'
  BY DEF NodesOK, TextKept
<1> QED BY <1>1, <1>2 DEF GraphInv, TextKept

\* Submitting and keeping a store refresh the nodes first.
LEMMA RefreshKeepsGraph ==
  ASSUME GraphInv, TextKept, UNCHANGED <<loaded, ver>>, node' = Refreshed(node) \/ node' = node
  PROVE  GraphInv'
<1>1. NodesOK(node)
  BY DEF GraphInv
<1>2. /\ NodesOK(node')
      /\ \A q \in DOMAIN node' : IF q \in DOMAIN node THEN node'[q] = node[q] ELSE node'[q].ver = ver[q]
  BY <1>1, RefreshedNodes
<1>3. \A q \in prog.traced \cap DOMAIN node' : node'[q].ver = ver[q]
  BY <1>2 DEF GraphInv
<1> QED BY <1>2, <1>3, GraphFrame DEF GraphInv

\* A definition, an edit and a restart keep the graph.
LEMMA DefineKeepsGraph ==
  ASSUME GraphInv, TextKept, Define
  PROVE  GraphInv'
<1> DEFINE q == prog.order[loaded + 1]
<1>1. /\ prog.order \in Seq(DOMAIN prog.body) /\ loaded \in 0..Len(prog.order)
      /\ loaded < Len(prog.order) /\ Len(prog.order) \in Nat
  BY DEF GraphInv, WellFormed, Define
<1>2. loaded + 1 \in 0..Len(prog.order) /\ q \in DOMAIN prog.body
  BY <1>1
<1>3. ver[q] \in DOMAIN prog.body[q]
  BY <1>2 DEF GraphInv
<1>4. /\ loaded' = loaded + 1 /\ ver' = ver
      /\ node' = IF q \in prog.traced THEN Register(q, ver[q]) ELSE node
  BY DEF Define
<1> HIDE DEF q
<1>5. /\ NodesOK(node')
      /\ \A r \in DOMAIN node' : IF r \in DOMAIN node THEN node'[r].ver \in {node[r].ver, ver[r]}
                                 ELSE node'[r].ver = ver[r]
  <2>1. CASE q \in prog.traced
    <3>1. node' = Register(q, ver[q])
      BY <1>4, <2>1
    <3> QED BY <1>2, <1>3, <3>1, RegisteredNodes
  <2>2. CASE q \notin prog.traced
    BY <1>4, <2>2 DEF GraphInv
  <2> QED BY <2>1, <2>2
<1>6. \A r \in prog.traced \cap DOMAIN node' : node'[r].ver = ver[r]
  BY <1>5 DEF GraphInv
<1> QED BY <1>2, <1>4, <1>5, <1>6, GraphFrame DEF GraphInv

LEMMA EditKeepsGraph ==
  ASSUME GraphInv, TextKept, Edit
  PROVE  GraphInv'
<1>1. PICK q \in prog.edits \cap Loaded :
        /\ ver[q] < Len(prog.body[q])
        /\ ver' = [ver EXCEPT ![q] = @ + 1]
        /\ node' = IF q \in prog.traced THEN Register(q, ver[q] + 1) ELSE node
  BY DEF Edit
<1>2. loaded' = loaded
  BY DEF Edit
<1>3. q \in DOMAIN prog.body
  BY DEF GraphInv, WellFormed
<1>4. ver[q] + 1 \in DOMAIN prog.body[q]
  <2>1. prog.body[q] \in Seq(Range(prog.body[q])) /\ ver[q] \in DOMAIN prog.body[q]
    BY <1>3 DEF GraphInv, WellFormed
  <2> QED BY <1>1, <2>1
<1>5. /\ ver'[q] = ver[q] + 1 /\ \A r \in DOMAIN prog.body \ {q} : ver'[r] = ver[r]
      /\ DOMAIN ver' = DOMAIN prog.body /\ ver' = [r \in DOMAIN prog.body |-> ver'[r]]
  BY <1>1, <1>3 DEF GraphInv
<1>6. /\ NodesOK(node')
      /\ \A r \in prog.traced \cap DOMAIN node' : node'[r].ver = ver'[r]
  <2>1. CASE q \in prog.traced
    <3>1. node' = Register(q, ver[q] + 1)
      BY <1>1, <2>1
    <3>2. /\ NodesOK(node') /\ node'[q].ver = ver[q] + 1
          /\ \A r \in DOMAIN node' \ {q} :
               IF r \in DOMAIN node THEN node'[r] = node[r] ELSE node'[r].ver = ver[r]
      BY <1>3, <1>4, <3>1, RegisteredNodes
    <3> QED BY <1>5, <3>2 DEF GraphInv, NodesOK
  <2>2. CASE q \notin prog.traced
    <3>1. node' = node
      BY <1>1, <2>2
    <3> QED BY <1>5, <2>2, <3>1 DEF GraphInv, NodesOK
  <2> QED BY <2>1, <2>2
<1>7. \A r \in DOMAIN prog.body : ver'[r] \in DOMAIN prog.body[r]
  BY <1>4, <1>5 DEF GraphInv
<1> QED BY <1>2, <1>5, <1>6, <1>7, GraphFrame DEF GraphInv

LEMMA RestartKeepsGraph ==
  ASSUME GraphInv, TextKept, Restart
  PROVE  GraphInv'
<1>1. loaded' = 0 /\ ver' = ver /\ node' = <<>>
  BY DEF Restart
<1>2. DOMAIN node' = {}
  BY <1>1
<1>3. 0 \in 0..Len(prog.order)
  BY DEF GraphInv, WellFormed
<1>4. NodesOK(node')
  BY <1>2 DEF NodesOK
<1> QED BY <1>1, <1>2, <1>3, <1>4, GraphFrame DEF GraphInv

\* Every step keeps the graph.
LEMMA NextGraph ==
  ASSUME GraphInv, [Next]_vars
  PROVE  GraphInv'
<1>1. TextKept
  BY ProgramKept
<1>2. ASSUME LocalCall /\ UNCHANGED node PROVE GraphInv'
  <2>1. UNCHANGED <<loaded, ver>>
    BY <1>2 DEF LocalCall
  <2> QED BY <1>1, <1>2, <2>1, RefreshKeepsGraph
<1>3. ASSUME Program PROVE GraphInv'
  BY <1>1, <1>2, <1>3, DefineKeepsGraph, EditKeepsGraph, RestartKeepsGraph DEF Program
<1>4. ASSUME Submit PROVE GraphInv'
  <2>1. UNCHANGED <<loaded, ver>> /\ node' = Refreshed(node)
    BY <1>4 DEF Submit
  <2> QED BY <1>1, <2>1, RefreshKeepsGraph
<1>5. ASSUME Work \/ ClearCache \/ UNCHANGED vars PROVE GraphInv'
  <2>1. UNCHANGED <<loaded, ver>> /\ node' = node
    BY <1>5 DEF Work, Hit, Miss, IsInstalled, PipInstall, Build, ClearCache, vars, graphVars
  <2> QED BY <1>1, <2>1, RefreshKeepsGraph
<1>6. ASSUME Keep PROVE GraphInv'
  <2>1. UNCHANGED <<loaded, ver>> /\ (node' = Refreshed(node) \/ node' = node)
    BY <1>6 DEF Keep, KeepStore
  <2> QED BY <1>1, <2>1, RefreshKeepsGraph
<1> QED BY <1>3, <1>4, <1>5, <1>6 DEF Next

LEMMA InitGraph == Init => GraphInv
<1> SUFFICES ASSUME Init PROVE GraphInv
  OBVIOUS
<1>1. WellFormed(prog) /\ loaded = 0 /\ node = <<>> /\ ver = [q \in DOMAIN prog.body |-> 1]
  BY ProgramAssumption DEF Init, GraphInit
<1>2. DOMAIN node = {}
  BY <1>1
<1>3. 0 \in 0..Len(prog.order)
  BY <1>1 DEF WellFormed
<1>4. \A q \in DOMAIN prog.body : 1 \in DOMAIN prog.body[q]
  <2> SUFFICES ASSUME NEW q \in DOMAIN prog.body PROVE 1 \in DOMAIN prog.body[q]
    OBVIOUS
  <2>1. prog.body[q] \in Seq(Range(prog.body[q])) /\ prog.body[q] # <<>>
    BY <1>1 DEF WellFormed
  <2> QED BY <2>1
<1> QED BY <1>1, <1>2, <1>3, <1>4 DEF GraphInv, NodesOK

LEMMA GraphInvariant == Spec => []GraphInv
<1>1. GraphInv /\ [Next]_vars => GraphInv'
  BY NextGraph
<1> QED BY <1>1, InitGraph, PTL DEF Spec

-----------------------------------------------------------------------------
(* Submissions and the user's store.                                       *)

\* A finite set has a finite image.
LEMMA FiniteImage ==
  ASSUME NEW S, IsFiniteSet(S), NEW f
  PROVE  IsFiniteSet({f[x] : x \in S})
<1> DEFINE T == {f[x] : x \in S}
           g == [x \in S |-> f[x]]
<1>1. g \in [S -> T] /\ \A y \in T : \E x \in S : g[x] = y
  OBVIOUS
<1> HIDE DEF g, T
<1>2. g \in Surjection(S, T)
  BY <1>1 DEF Surjection
<1>3. IsFiniteSet(T)
  BY <1>2, FS_Surjection
<1> QED BY <1>3 DEF T

\* Every object goes by the name of its own function, and no other does.
OwnNames(store) ==
  /\ \A q \in DOMAIN store.refs : store.refs[q][1] = q
  /\ \A h \in store.objects :
       h = Hash(h[1], h[2]) /\ h[1] \in DOMAIN store.refs /\ store.refs[h[1]] = h

\* A store of versions and dependencies that stay among them is closed, holds
\* these versions only, and knows every function of the tree by name.
LEMMA StoreOfClosed ==
  ASSUME NEW tree, IsFiniteSet(tree), NEW version, NEW deps,
         DOMAIN version = tree, DOMAIN deps = tree, \A q \in tree : deps[q] \subseteq tree
  PROVE  LET store == StoreOf(version, deps)
         IN /\ Closed(store)
            /\ DOMAIN store.refs = tree
            /\ \A h \in store.objects : h[1] \in tree /\ h[2] = version[h[1]]
            /\ OwnNames(store)
<1> DEFINE store == StoreOf(version, deps)
           inner == {q \in tree : deps[q] # {}}
           hash == [q \in tree |-> Hash(q, version[q])]
<1>1. /\ store = [objects |-> {Hash(q, version[q]) : q \in tree},
                  deps |-> store.deps, refs |-> store.refs]
      /\ store.deps = [h \in {Hash(q, version[q]) : q \in inner} |->
                         {Hash(d, version[d]) : d \in deps[h[1]]}]
      /\ store.refs = [q \in tree |-> Hash(q, version[q])]
  BY DEF StoreOf
<1>2. \A q \in tree : Hash(q, version[q])[1] = q /\ Hash(q, version[q])[2] = version[q]
  BY DEF Hash
<1>3. IsFiniteSet(DOMAIN store.deps)
  <2>1. IsFiniteSet(inner)
    BY FS_Subset
  <2>2. IsFiniteSet({hash[q] : q \in inner})
    BY <2>1, FiniteImage
  <2>3. {hash[q] : q \in inner} = {Hash(q, version[q]) : q \in inner}
    OBVIOUS
  <2> QED BY <1>1, <2>2, <2>3
<1> HIDE DEF store
<1>4. store.objects = {Hash(q, version[q]) : q \in tree}
  BY <1>1
<1>5. \A h \in DOMAIN store.deps : h[1] \in tree /\ h \in store.objects
  BY <1>1, <1>2, <1>4
<1>6. \A h \in DOMAIN store.deps : store.deps[h] = {Hash(d, version[d]) : d \in deps[h[1]]}
  BY <1>1
<1>7. \A h \in DOMAIN store.deps : store.deps[h] \subseteq store.objects
  BY <1>4, <1>5, <1>6
<1>8. DOMAIN store.refs = tree /\ \A q \in tree : store.refs[q] \in store.objects
  BY <1>1, <1>4
<1>9. Closed(store)
  BY <1>1, <1>3, <1>5, <1>7, <1>8 DEF Closed
<1>10. \A h \in store.objects : h[1] \in tree /\ h[2] = version[h[1]]
  BY <1>2, <1>4
<1>11. \A q \in tree : store.refs[q][1] = q
  BY <1>1, <1>2
<1>12. ASSUME NEW h \in store.objects PROVE h = Hash(h[1], h[2]) /\ store.refs[h[1]] = h
  <2>1. PICK q \in tree : h = Hash(q, version[q])
    BY <1>4
  <2>2. h[1] = q /\ h[2] = version[q] /\ store.refs[q] = Hash(q, version[q])
    BY <1>1, <1>2, <2>1
  <2> QED BY <2>1, <2>2
<1>13. OwnNames(store)
  BY <1>8, <1>10, <1>11, <1>12 DEF OwnNames
<1> QED BY <1>8, <1>9, <1>10, <1>13 DEF store

\* What to_store builds for a function whose dependencies are all registered.
LEMMA ToStoreClosed ==
  ASSUME GraphInv, NEW nodes, NodesOK(nodes), NEW f, Subtree(nodes, f) \subseteq DOMAIN nodes
  PROVE  /\ Closed(ToStore(nodes, f))
         /\ f \in DOMAIN ToStore(nodes, f).refs
         /\ \A h \in ToStore(nodes, f).objects : h[1] \in DOMAIN nodes /\ h[2] = nodes[h[1]].ver
         /\ OwnNames(ToStore(nodes, f))
<1> DEFINE succ == [q \in DOMAIN nodes |-> DependenciesOf(nodes, q)]
           tree == Subtree(nodes, f)
           version == [q \in tree |-> nodes[q].ver]
           deps == [q \in tree |-> DependenciesOf(nodes, q)]
<1>1. IsFiniteSet(DOMAIN nodes)
  BY FS_Subset DEF GraphInv, NodesOK, WellFormed
<1>2. DOMAIN succ = DOMAIN nodes /\ \A q \in DOMAIN nodes : succ[q] = DependenciesOf(nodes, q)
  OBVIOUS
<1>3. tree = Closure({f}, succ)
  BY DEF Subtree
<1> HIDE DEF succ, tree
<1>4. f \in tree /\ \A q \in tree \cap DOMAIN succ : succ[q] \subseteq tree
  BY <1>1, <1>2, <1>3, ClosureIsLeast
<1>5. tree \subseteq DOMAIN nodes
  BY DEF tree
<1>6. IsFiniteSet(tree)
  BY <1>1, <1>5, FS_Subset
<1>7. \A q \in tree : deps[q] \subseteq tree
  BY <1>2, <1>4, <1>5
<1>8. ToStore(nodes, f) = StoreOf(version, deps)
  BY DEF ToStore, tree
<1>9. DOMAIN version = tree /\ DOMAIN deps = tree /\ \A q \in tree : version[q] = nodes[q].ver
  OBVIOUS
<1> HIDE DEF version, deps
<1>10. LET store == StoreOf(version, deps)
       IN /\ Closed(store)
          /\ DOMAIN store.refs = tree
          /\ \A h \in store.objects : h[1] \in tree /\ h[2] = version[h[1]]
          /\ OwnNames(store)
  BY <1>6, <1>7, <1>9, StoreOfClosed
<1> QED BY <1>4, <1>5, <1>8, <1>9, <1>10

\* The store the user keeps stays closed.
LEMMA NextShelf ==
  ASSUME GraphInv, Closed(shelf), [Next]_vars
  PROVE  Closed(shelf')
<1>1. ASSUME Keep PROVE Closed(shelf')
  <2>1. ASSUME NEW f, Subtree(Refreshed(node), f) \subseteq DOMAIN Refreshed(node),
               shelf' = Merge(shelf, ToStore(Refreshed(node), f))
        PROVE  Closed(shelf')
    <3>1. NodesOK(Refreshed(node))
      BY RefreshedNodes DEF GraphInv
    <3>2. Closed(ToStore(Refreshed(node), f))
      BY <2>1, <3>1, ToStoreClosed
    <3> QED BY <2>1, <3>2, MergeClosed
  <2>2. ASSUME shelf' = Gc(shelf) PROVE Closed(shelf')
    BY <2>2, GcClosed
  <2>3. ASSUME NEW q \in DOMAIN shelf.refs,
               shelf' = DelRef(shelf, q) \/ shelf' = Subgraph(shelf, {shelf.refs[q]})
        PROVE  Closed(shelf')
    <3>1. {shelf.refs[q]} \in SUBSET shelf.objects
      BY DEF Closed
    <3> QED BY <2>3, <3>1, DelRefClosed, SubgraphClosed
  <2> QED BY <1>1, <2>1, <2>2, <2>3 DEF Keep, KeepStore
<1>2. ASSUME Program \/ Submit \/ Work \/ ClearCache \/ UNCHANGED vars PROVE shelf' = shelf
  BY <1>2 DEF Program, Submit, Work, Hit, Miss, IsInstalled, PipInstall, Build, ClearCache, vars
<1> QED BY <1>1, <1>2 DEF Next

\* Store.merge, gc, del_ref and subgraph, in any order: no name of the store
\* leads out of it.
THEOREM StoreCanBeRebuilt == Spec => []StoreIsClosed
<1>1. Init => Closed(shelf)
  BY EmptyClosed DEF Init
<1>2. GraphInv /\ Closed(shelf) /\ [Next]_vars => Closed(shelf)'
  BY NextShelf
<1>3. Closed(shelf) => StoreIsClosed
  BY WalkStays DEF StoreIsClosed, Closed
<1> QED BY <1>1, <1>2, <1>3, GraphInvariant, PTL DEF Spec

-----------------------------------------------------------------------------
(* What a task runs.                                                       *)

\* A selection picks a candidate for each name.
LEMMA SelectionPicks ==
  ASSUME NEW candidates, \A x \in DOMAIN candidates : candidates[x] # {},
         NEW f \in Selections(candidates)
  PROVE  DOMAIN f = DOMAIN candidates /\ \A x \in DOMAIN candidates : f[x] \in candidates[x]
<1> DEFINE open == {x \in DOMAIN candidates : Cardinality(candidates[x]) # 1}
<1>1. PICK g \in {h \in [open -> UNION {candidates[x] : x \in open}] : \A x \in open : h[x] \in candidates[x]} :
        f = [x \in DOMAIN candidates |-> IF x \in open THEN g[x] ELSE CHOOSE c \in candidates[x] : TRUE]
  BY DEF Selections
<1> HIDE DEF open
<1>2. DOMAIN f = DOMAIN candidates
  BY <1>1
<1>3. ASSUME NEW x \in DOMAIN candidates PROVE f[x] \in candidates[x]
  <2>1. \E c \in candidates[x] : TRUE
    BY <1>3
  <2>2. (CHOOSE c \in candidates[x] : TRUE) \in candidates[x]
    BY <2>1, Zenon
  <2> QED BY <1>1, <2>2
<1> QED BY <1>2, <1>3

\* collect finds only what the function's name reaches.
LEMMA CollectReaches ==
  ASSUME NEW store, NEW q, NEW needed \in Collect(store, q)
  PROVE  \A h \in Range(needed) : h \in Walk(store, store.refs[q])
<1> DEFINE found == Walk(store, store.refs[q]) \cap store.objects
           candidates == [x \in {NameIn(store, h) : h \in found} |-> {h \in found : NameIn(store, h) = x}]
<1>1. \A x \in DOMAIN candidates : candidates[x] # {} /\ candidates[x] \subseteq found
  OBVIOUS
<1>2. needed \in Selections(candidates)
  BY DEF Collect
<1> HIDE DEF candidates
<1>3. DOMAIN needed = DOMAIN candidates /\ \A x \in DOMAIN candidates : needed[x] \in candidates[x]
  BY <1>1, <1>2, SelectionPicks
<1> QED BY <1>1, <1>3 DEF Range

\* The names of the namespace are the pieces' own, and the pieces are of K.
Own(namespace, K) ==
  \A x \in DOMAIN namespace : namespace[x] \in K /\ Simple(namespace[x][1]) = x

\* reconstruct adds nothing to what was collected.
LEMMA ReconstructOwn ==
  ASSUME NEW K, NEW needed, \A h \in Range(needed) : h \in K, NEW namespace \in Reconstruct(needed)
  PROVE  Own(namespace, K)
<1> DEFINE candidates == [x \in {Simple(h[1]) : h \in Range(needed)} |->
                            {h \in Range(needed) : Simple(h[1]) = x}]
<1>1. \A x \in DOMAIN candidates :
        /\ candidates[x] # {}
        /\ \A h \in candidates[x] : h \in Range(needed) /\ Simple(h[1]) = x
  OBVIOUS
<1>2. namespace \in Selections(candidates)
  BY DEF Reconstruct
<1> HIDE DEF candidates
<1>3. DOMAIN namespace = DOMAIN candidates /\ \A x \in DOMAIN candidates : namespace[x] \in candidates[x]
  BY <1>1, <1>2, SelectionPicks
<1> QED BY <1>1, <1>3 DEF Own

\* Each entry of the cache holds pieces of its own key only.
CacheInv == \A K \in DOMAIN cache : Own(cache[K].namespace, K)

\* A task carries a closed store, in the versions of its submission
\* and under names that are confused with none if it is said to be clear, and has
\* run, if it has, pieces of its own key.
TaskOK(task) ==
  /\ {"func", "store", "args", "sent", "clear", "had", "outdated", "life",
       "pc", "stage", "ran"} \subseteq DOMAIN task
  /\ Closed(task.store) /\ OwnNames(task.store) /\ task.func \in DOMAIN task.store.refs
  /\ task.func \in DOMAIN task.sent
  /\ task.clear => \A q \in DOMAIN task.sent, h \in task.store.objects : ~Namesakes(q, h[1])
  /\ \A h \in task.store.objects : h[1] \in DOMAIN task.sent => h[2] = task.sent[h[1]]
  /\ \A h \in task.store.objects : h[1] \notin task.outdated => h[2] = task.had[h[1]]
  /\ task.pc = "ran" => Own(task.ran.namespace, SubgraphKey(task.store, task.func))

TaskInv ==
  /\ \E n \in Nat : DOMAIN tasks = 1..n /\ tasks = [t \in 1..n |-> tasks[t]]
  /\ \A t \in DOMAIN tasks : TaskOK(tasks[t])

\* The part of a task that no step changes.
TasksKept ==
  /\ DOMAIN tasks \subseteq DOMAIN tasks'
  /\ \A t \in DOMAIN tasks :
       /\ tasks'[t].func = tasks[t].func /\ tasks'[t].store = tasks[t].store
       /\ tasks'[t].sent = tasks[t].sent /\ tasks'[t].clear = tasks[t].clear
       /\ tasks'[t].args = tasks[t].args /\ tasks'[t].had = tasks[t].had
       /\ tasks'[t].outdated = tasks[t].outdated /\ tasks'[t].life = tasks[t].life

\* What a task has run stays; what it runs now is the entry of its key.
RunsEntry ==
  \A t \in DOMAIN tasks :
    tasks'[t].pc = "ran" =>
      \/ tasks[t].pc = "ran" /\ tasks'[t].ran = tasks[t].ran
      \/ Key(t) \in DOMAIN cache' /\ tasks'[t].ran = Outcome(t, cache'[Key(t)])

\* An entry is one that was there or has just been built for a task.
EntriesBuilt ==
  \A K \in DOMAIN cache' :
    \/ K \in DOMAIN cache /\ cache'[K] = cache[K]
    \/ \E t \in DOMAIN tasks :
         /\ K = Key(t) /\ cache'[K].func = tasks[t].func
         /\ \E needed \in Collect(tasks[t].store, tasks[t].func) :
              cache'[K].namespace \in Reconstruct(needed)

\* What a step of a handler leaves of the tasks.
LEMMA StepShape ==
  ASSUME TaskInv, NEW t \in DOMAIN tasks, NEW changes, Step(t, changes),
         {"func", "store", "args", "sent", "clear", "had", "outdated", "life"} \cap DOMAIN changes = {},
         \/ DOMAIN changes \cap {"pc", "ran"} = {} /\ tasks[t].pc # "ran"
         \/ DOMAIN changes \cap {"pc", "ran"} = {"pc"} /\ changes.pc # "ran"
         \/ /\ DOMAIN changes \cap {"pc", "ran"} = {"pc", "ran"}
            /\ Key(t) \in DOMAIN cache' /\ changes.ran = Outcome(t, cache'[Key(t)])
  PROVE  /\ DOMAIN tasks' = DOMAIN tasks /\ tasks' = [s \in DOMAIN tasks |-> tasks'[s]]
         /\ \A s \in DOMAIN tasks : DOMAIN tasks[s] \subseteq DOMAIN tasks'[s]
         /\ TasksKept /\ RunsEntry
<1> DEFINE task == Over(changes, tasks[t])
<1>1. tasks' = [tasks EXCEPT ![t] = task] /\ tasks = [s \in DOMAIN tasks |-> tasks[s]]
  BY DEF Step, TaskInv
<1>2. {"func", "store", "args", "sent", "clear", "had", "outdated", "life",
       "pc", "stage", "ran"} \subseteq DOMAIN tasks[t]
  BY DEF TaskInv, TaskOK
<1>3. DOMAIN task = DOMAIN changes \cup DOMAIN tasks[t]
  BY DEF Over
<1>4. /\ task.func = tasks[t].func /\ task.store = tasks[t].store /\ task.args = tasks[t].args
      /\ task.sent = tasks[t].sent /\ task.clear = tasks[t].clear
      /\ task.had = tasks[t].had /\ task.outdated = tasks[t].outdated /\ task.life = tasks[t].life
      /\ task.pc = IF "pc" \in DOMAIN changes THEN changes.pc ELSE tasks[t].pc
      /\ task.ran = IF "ran" \in DOMAIN changes THEN changes.ran ELSE tasks[t].ran
  BY <1>2 DEF Over
<1> HIDE DEF task
<1>5. /\ tasks'[t] = task /\ \A s \in DOMAIN tasks \ {t} : tasks'[s] = tasks[s]
      /\ DOMAIN tasks' = DOMAIN tasks /\ tasks' = [s \in DOMAIN tasks |-> tasks'[s]]
  BY <1>1
<1>6. TasksKept
  BY <1>4, <1>5 DEF TasksKept
<1>7. task.pc = "ran" => Key(t) \in DOMAIN cache' /\ task.ran = Outcome(t, cache'[Key(t)])
  BY <1>4
<1>8. RunsEntry
  BY <1>5, <1>7 DEF RunsEntry
<1> QED BY <1>3, <1>5, <1>6, <1>8

\* A lookup that finds an entry, and the run with it.
LEMMA ProceedShape ==
  ASSUME TaskInv, NEW t \in DOMAIN tasks, Key(t) \in DOMAIN cache', Proceed(t, cache'[Key(t)])
  PROVE  /\ DOMAIN tasks' = DOMAIN tasks /\ tasks' = [s \in DOMAIN tasks |-> tasks'[s]]
         /\ \A s \in DOMAIN tasks : DOMAIN tasks[s] \subseteq DOMAIN tasks'[s]
         /\ TasksKept /\ RunsEntry
<1>1. CASE Step(t, [pc |-> "look", stage |-> "run"])
  <2> DEFINE changes == [pc |-> "look", stage |-> "run"]
  <2>1. DOMAIN changes = {"pc", "stage"} /\ changes.pc = "look" /\ Step(t, changes)
    BY <1>1
  <2> HIDE DEF changes
  <2>2. DOMAIN changes \cap {"pc", "ran"} = {"pc"} /\ changes.pc # "ran"
    BY <2>1
  <2> QED BY <2>1, <2>2, StepShape
<1>2. CASE Step(t, [pc |-> "ran", ran |-> Outcome(t, cache'[Key(t)])])
  <2> DEFINE changes == [pc |-> "ran", ran |-> Outcome(t, cache'[Key(t)])]
  <2>1. /\ DOMAIN changes = {"pc", "ran"} /\ Step(t, changes)
        /\ changes.ran = Outcome(t, cache'[Key(t)])
    BY <1>2
  <2> HIDE DEF changes
  <2> QED BY <2>1, StepShape
<1> QED BY <1>1, <1>2 DEF Proceed

\* The steps of the handlers.
LEMMA WorkShape ==
  ASSUME TaskInv, Work
  PROVE  /\ DOMAIN tasks' = DOMAIN tasks /\ tasks' = [s \in DOMAIN tasks |-> tasks'[s]]
         /\ \A s \in DOMAIN tasks : DOMAIN tasks[s] \subseteq DOMAIN tasks'[s]
         /\ TasksKept /\ RunsEntry /\ EntriesBuilt
<1>1. PICK t \in DOMAIN tasks : Hit(t) \/ Miss(t) \/ IsInstalled(t) \/ PipInstall(t) \/ Build(t)
  BY DEF Work
<1>2. ASSUME cache' = cache PROVE EntriesBuilt
  BY <1>2 DEF EntriesBuilt
<1>3. CASE Hit(t)
  <2>1. cache' = cache /\ Key(t) \in DOMAIN cache' /\ Proceed(t, cache'[Key(t)])
    BY <1>3 DEF Hit
  <2> QED BY <1>2, <2>1, ProceedShape
<1>4. CASE Miss(t)
  <2>1. PICK todo : Step(t, [pc |-> "deps", todo |-> todo])
    BY <1>4 DEF Miss
  <2> DEFINE changes == [pc |-> "deps", todo |-> todo]
  <2>2. DOMAIN changes = {"pc", "todo"} /\ changes.pc = "deps" /\ Step(t, changes)
    BY <2>1
  <2> HIDE DEF changes
  <2>3. DOMAIN changes \cap {"pc", "ran"} = {"pc"} /\ changes.pc # "ran" /\ cache' = cache
    BY <1>4, <2>2 DEF Miss
  <2> QED BY <1>2, <2>2, <2>3, StepShape
<1>5. CASE IsInstalled(t)
  <2>1. PICK changes : Step(t, changes) /\ DOMAIN changes \in {{"todo"}, {"pip"}}
    <3>1. PICK m \in tasks[t].todo :
            Step(t, IF m \in site THEN [todo |-> tasks[t].todo \ {m}] ELSE [pip |-> m])
      BY <1>5 DEF IsInstalled
    <3>2. CASE m \in site
      BY <3>1, <3>2
    <3>3. CASE m \notin site
      BY <3>1, <3>3
    <3> QED BY <3>2, <3>3
  <2>2. tasks[t].pc # "ran" /\ cache' = cache
    BY <1>5 DEF IsInstalled
  <2> QED BY <1>2, <2>1, <2>2, StepShape
<1>6. CASE PipInstall(t)
  <2>1. PICK changes : Step(t, changes) /\ DOMAIN changes = {"pip", "todo", "bad"}
    BY <1>6 DEF PipInstall
  <2>2. tasks[t].pc # "ran" /\ cache' = cache
    BY <1>6 DEF PipInstall
  <2> QED BY <1>2, <2>1, <2>2, StepShape
<1>7. CASE Build(t)
  <2>1. PICK needed \in Collect(tasks[t].store, tasks[t].func) :
          \/ Step(t, [pc |-> "failed"]) /\ UNCHANGED cache
          \/ \E namespace \in Reconstruct(needed) :
               LET entry == [func |-> tasks[t].func, namespace |-> namespace]
               IN cache' = Over([k \in {Key(t)} |-> entry], cache) /\ Proceed(t, entry)
    BY <1>7 DEF Build
  <2>2. CASE Step(t, [pc |-> "failed"]) /\ UNCHANGED cache
    <3> DEFINE changes == [pc |-> "failed"]
    <3>1. DOMAIN changes = {"pc"} /\ changes.pc = "failed" /\ Step(t, changes)
      BY <2>2
    <3> HIDE DEF changes
    <3>2. DOMAIN changes \cap {"pc", "ran"} = {"pc"} /\ changes.pc # "ran"
      BY <3>1
    <3> QED BY <1>2, <2>2, <3>1, <3>2, StepShape
  <2>3. ASSUME NEW namespace \in Reconstruct(needed),
               cache' = Over([k \in {Key(t)} |-> [func |-> tasks[t].func, namespace |-> namespace]], cache),
               Proceed(t, [func |-> tasks[t].func, namespace |-> namespace])
        PROVE  TasksKept /\ RunsEntry /\ EntriesBuilt /\ DOMAIN tasks' = DOMAIN tasks
               /\ tasks' = [s \in DOMAIN tasks |-> tasks'[s]]
               /\ \A s \in DOMAIN tasks : DOMAIN tasks[s] \subseteq DOMAIN tasks'[s]
    <3> DEFINE entry == [func |-> tasks[t].func, namespace |-> namespace]
    <3>1. entry.namespace = namespace /\ entry.func = tasks[t].func /\ Proceed(t, entry)
      BY <2>3
    <3>2. /\ DOMAIN cache' = {Key(t)} \cup DOMAIN cache /\ cache'[Key(t)] = entry
          /\ \A K \in DOMAIN cache \ {Key(t)} : cache'[K] = cache[K]
      BY <2>3 DEF Over
    <3> HIDE DEF entry
    <3>3. EntriesBuilt
      BY <3>1, <3>2 DEF EntriesBuilt
    <3> QED BY <3>1, <3>2, <3>3, ProceedShape
  <2> QED BY <2>1, <2>2, <2>3
<1> QED BY <1>1, <1>3, <1>4, <1>5, <1>6, <1>7

\* They keep the tasks and the cache.
LEMMA WorkTask ==
  ASSUME TaskInv, CacheInv, Work
  PROVE  TaskInv' /\ CacheInv'
<1>1. /\ DOMAIN tasks' = DOMAIN tasks /\ tasks' = [s \in DOMAIN tasks |-> tasks'[s]]
      /\ \A s \in DOMAIN tasks : DOMAIN tasks[s] \subseteq DOMAIN tasks'[s]
      /\ TasksKept /\ RunsEntry /\ EntriesBuilt
  BY WorkShape
<1>2. ASSUME NEW K \in DOMAIN cache' PROVE Own(cache'[K].namespace, K)
  <2>1. CASE K \in DOMAIN cache /\ cache'[K] = cache[K]
    BY <2>1 DEF CacheInv
  <2>2. ASSUME NEW t \in DOMAIN tasks, K = Key(t), NEW needed \in Collect(tasks[t].store, tasks[t].func),
               cache'[K].namespace \in Reconstruct(needed)
        PROVE  Own(cache'[K].namespace, K)
    <3>1. \A h \in Range(needed) : h \in K
      BY <2>2, CollectReaches DEF Key, SubgraphKey
    <3> QED BY <2>2, <3>1, ReconstructOwn
  <2> QED BY <1>1, <2>1, <2>2 DEF EntriesBuilt
<1>3. ASSUME NEW t \in DOMAIN tasks, tasks'[t].pc = "ran" PROVE Own(tasks'[t].ran.namespace, Key(t))
  <2>1. CASE tasks[t].pc = "ran" /\ tasks'[t].ran = tasks[t].ran
    BY <2>1 DEF TaskInv, TaskOK, Key
  <2>2. CASE Key(t) \in DOMAIN cache' /\ tasks'[t].ran = Outcome(t, cache'[Key(t)])
    <3>1. Outcome(t, cache'[Key(t)]).namespace = cache'[Key(t)].namespace
      BY DEF Outcome
    <3> QED BY <1>2, <2>2, <3>1
  <2> QED BY <1>1, <1>3, <2>1, <2>2 DEF RunsEntry
<1>4. ASSUME NEW t \in DOMAIN tasks' PROVE TaskOK(tasks'[t])
  <2>1. t \in DOMAIN tasks /\ TaskOK(tasks[t])
    BY <1>1 DEF TaskInv
  <2>2. tasks'[t].pc = "ran" => Own(tasks'[t].ran.namespace, SubgraphKey(tasks[t].store, tasks[t].func))
    BY <1>3, <2>1 DEF Key
  <2>3. /\ tasks'[t].func = tasks[t].func /\ tasks'[t].store = tasks[t].store
        /\ tasks'[t].sent = tasks[t].sent /\ tasks'[t].clear = tasks[t].clear
        /\ tasks'[t].had = tasks[t].had /\ tasks'[t].outdated = tasks[t].outdated
        /\ DOMAIN tasks[t] \subseteq DOMAIN tasks'[t]
    BY <1>1, <2>1 DEF TasksKept
  <2> QED BY <2>1, <2>2, <2>3 DEF TaskOK
<1> QED BY <1>1, <1>2, <1>4 DEF TaskInv, CacheInv

\* What the documentation promises of a submission is the function itself and
\* what is not outdated.
LEMMA PromisedCurrent ==
  ASSUME GraphInv, NEW nodes, NEW f \in Loaded
  PROVE  f \in Promised(nodes, f) /\ \A q \in Promised(nodes, f) : q = f \/ ~Outdated(nodes, q)
<1> DEFINE T == {q \in DOMAIN prog.body : q = f \/ ~Outdated(nodes, q)}
           Now(q) == {r \in (Source(q).uses \ Source(q).hidden) \cup {e[2] : e \in {x \in rt : x[1] = q}} :
                        r \in Loaded /\ ~Outdated(nodes, r)}
           succ == [q \in {p \in Loaded : ~Outdated(nodes, p)} |-> Now(q)]
<1>1. Loaded \subseteq DOMAIN prog.body
  BY LoadedInProgram
<1>2. IsFiniteSet(DOMAIN succ)
  BY <1>1, FS_Subset DEF GraphInv, WellFormed
<1>3. \A q : Now(q) \subseteq T
  BY <1>1
<1>4. Promised(nodes, f) = Closure({f}, succ)
  BY DEF Promised
<1> HIDE DEF Now
<1>5. \A q \in T \cap DOMAIN succ : succ[q] \subseteq T
  BY <1>3
<1>6. {f} \subseteq T
  BY <1>1
<1> HIDE DEF succ, T
<1>7. f \in Promised(nodes, f) /\ Promised(nodes, f) \subseteq T
  BY <1>2, <1>4, <1>5, <1>6, ClosureIsLeast
<1> QED BY <1>7 DEF T

\* A submission.
LEMMA SubmitTask ==
  ASSUME GraphInv, TaskInv, Submit
  PROVE  TaskInv'
<1> DEFINE nodes == Refreshed(node)
<1>1. PICK f \in prog.submits \cap Loaded, args \in prog.args :
        Subtree(nodes, f) \subseteq DOMAIN nodes /\ tasks' = Append(tasks, Submission(nodes, f, args))
  BY DEF Submit
<1>2. NodesOK(nodes) /\ \A q \in DOMAIN nodes : IF q \in DOMAIN node THEN nodes[q] = node[q] ELSE nodes[q].ver = ver[q]
  BY RefreshedNodes DEF GraphInv
<1> DEFINE task == Submission(nodes, f, args)
<1>3. /\ {"func", "store", "args", "sent", "clear", "had", "outdated", "life",
       "pc", "stage", "ran"} \subseteq DOMAIN task
      /\ task.clear = Unambiguous(nodes, Promised(nodes, f))
      /\ task.func = f /\ task.store = ToStore(nodes, f) /\ task.pc = "look"
      /\ task.sent = [q \in Promised(nodes, f) |-> ver[q]]
      /\ task.had = ver /\ task.outdated = {q \in DOMAIN nodes : Outdated(nodes, q)}
      /\ tasks' = Append(tasks, task)
  BY <1>1 DEF Submission
<1> HIDE DEF nodes, task
<1>4. /\ Closed(task.store) /\ f \in DOMAIN task.store.refs
      /\ \A h \in task.store.objects : h[1] \in DOMAIN nodes /\ h[2] = nodes[h[1]].ver
      /\ OwnNames(task.store)
  BY <1>1, <1>2, <1>3, ToStoreClosed
<1>5. ASSUME NEW q \in DOMAIN nodes, q \in Promised(nodes, f) PROVE nodes[q].ver = ver[q]
  <2>1. q = f \/ ~Outdated(nodes, q)
    BY <1>5, PromisedCurrent
  <2>2. CASE q \in prog.traced
    BY <1>2, <2>2 DEF GraphInv
  <2>3. CASE q \notin prog.traced
    BY <2>1, <2>3 DEF Outdated, GraphInv, WellFormed
  <2> QED BY <2>2, <2>3
<1>6. \A h \in task.store.objects : h[1] \in DOMAIN task.sent => h[2] = task.sent[h[1]]
  BY <1>3, <1>4, <1>5
<1>12. ASSUME NEW h \in task.store.objects, h[1] \notin task.outdated PROVE h[2] = task.had[h[1]]
  <2>1. /\ h[1] \in DOMAIN nodes /\ h[2] = nodes[h[1]].ver /\ ~Outdated(nodes, h[1])
        /\ task.had = ver
    BY <1>3, <1>4, <1>12
  <2>2. CASE h[1] \in prog.traced
    <3>1. nodes[h[1]].ver = ver[h[1]]
      BY <1>2, <2>1, <2>2 DEF GraphInv
    <3> QED BY <2>1, <3>1
  <2>3. CASE h[1] \notin prog.traced
    BY <2>1, <2>3 DEF Outdated
  <2> QED BY <2>2, <2>3
<1>7. TaskOK(task)
  <2>1. f \in DOMAIN task.sent
    BY <1>3, PromisedCurrent
  <2>2. task.clear => \A q \in DOMAIN task.sent, h \in task.store.objects : ~Namesakes(q, h[1])
    BY <1>3, <1>4 DEF Unambiguous
  <2> QED BY <1>3, <1>4, <1>6, <1>12, <2>1, <2>2 DEF TaskOK
<1>8. PICK n \in Nat : DOMAIN tasks = 1..n /\ tasks = [t \in 1..n |-> tasks[t]]
  BY DEF TaskInv
<1>9. /\ DOMAIN tasks' = 1..(n + 1) /\ tasks' = [t \in 1..(n + 1) |-> tasks'[t]]
      /\ \A t \in 1..n : tasks'[t] = tasks[t]
      /\ tasks'[n + 1] = task
  <2>1. tasks \in Seq(Range(tasks) \cup {task}) /\ Len(tasks) = n
    BY <1>8 DEF Range
  <2> QED BY <1>3, <1>8, <2>1
<1>10. \A t \in DOMAIN tasks' : TaskOK(tasks'[t])
  <2>1. \A t \in 1..(n + 1) : t \in 1..n \/ t = n + 1
    OBVIOUS
  <2> QED BY <1>7, <1>8, <1>9, <2>1 DEF TaskInv
<1>11. n + 1 \in Nat
  OBVIOUS
<1> QED BY <1>9, <1>10, <1>11 DEF TaskInv

\* Every step keeps the tasks and the cache.
LEMMA NextTask ==
  ASSUME GraphInv, TaskInv, CacheInv, [Next]_vars
  PROVE  TaskInv' /\ CacheInv'
<1>1. ASSUME Submit PROVE TaskInv' /\ CacheInv'
  <2>1. cache' = cache
    BY <1>1 DEF Submit
  <2> QED BY <1>1, <2>1, SubmitTask DEF CacheInv
<1>2. ASSUME ClearCache PROVE TaskInv' /\ CacheInv'
  <2>1. tasks' = tasks /\ cache' = <<>> /\ DOMAIN cache' = {}
    BY <1>2 DEF ClearCache
  <2> QED BY <2>1 DEF TaskInv, CacheInv
<1>3. ASSUME Program \/ Keep \/ UNCHANGED vars PROVE TaskInv' /\ CacheInv'
  <2>1. tasks' = tasks /\ cache' = cache
    BY <1>3 DEF Program, Keep, KeepStore, vars, workVars
  <2> QED BY <2>1 DEF TaskInv, CacheInv
<1> QED BY <1>1, <1>2, <1>3, WorkTask DEF Next

-----------------------------------------------------------------------------
(* What arrives runs.                                                      *)

\* What a task was meant to carry and what its store holds runs: the worker
\* calls the function the client named, and each piece is found under its name
\* in the version it had (Store.collect and reconstruct leave out nothing).
\* As in RunsWhatWasSent, for names without namesakes and an unshared cache key.
WhatArrivesRuns ==
  \A t \in DOMAIN tasks :
    (/\ tasks[t].pc = "ran" /\ tasks[t].clear
     /\ \A s \in DOMAIN tasks : Key(s) = Key(t) => tasks[s].func = tasks[t].func)
    => LET ran == tasks[t].ran
           sent == tasks[t].sent
       IN /\ ran.target = Hash(tasks[t].func, sent[tasks[t].func])
          /\ \A q \in DOMAIN sent : (\E h \in Key(t) : h[1] = q) =>
               /\ Simple(q) \in DOMAIN ran.namespace
               /\ ran.namespace[Simple(q)] = Hash(q, sent[q])

\* The analysis of the source has found all that the process could call.
AnalysisComplete ==
  \A t \in DOMAIN tasks :
    tasks[t].clear => \A q \in DOMAIN tasks[t].sent : \E h \in Key(t) : h[1] = q

\* collect finds all of it, where every object goes by its own name.
LEMMA CollectIsComplete ==
  ASSUME NEW store, Closed(store), OwnNames(store), NEW q \in DOMAIN store.refs,
         NEW needed \in Collect(store, q)
  PROVE  \A h \in Walk(store, store.refs[q]) : h \in Range(needed)
<1> DEFINE found == Walk(store, store.refs[q]) \cap store.objects
           candidates == [x \in {NameIn(store, h) : h \in found} |-> {h \in found : NameIn(store, h) = x}]
<1>1. Walk(store, store.refs[q]) \subseteq store.objects
  BY WalkStays DEF Closed
<1>2. ASSUME NEW h \in store.objects PROVE NameIn(store, h) = h[1]
  <2> DEFINE name == CHOOSE r \in DOMAIN store.refs : store.refs[r] = h
  <2>1. h[1] \in DOMAIN store.refs /\ store.refs[h[1]] = h
    BY DEF OwnNames
  <2>2. \E r \in DOMAIN store.refs : store.refs[r] = h
    BY <2>1
  <2>3. NameIn(store, h) = name
    BY <2>2 DEF NameIn
  <2>4. name \in DOMAIN store.refs /\ store.refs[name] = h
    BY <2>2, Zenon
  <2> HIDE DEF name
  <2> QED BY <2>3, <2>4 DEF OwnNames
<1>3. \A x \in DOMAIN candidates : candidates[x] # {} /\ candidates[x] \subseteq {h \in found : h[1] = x}
  BY <1>2
<1>4. \A h \in found : h[1] \in DOMAIN candidates
  <2>1. \A h \in found : NameIn(store, h) = h[1]
    BY <1>2
  <2>2. DOMAIN candidates = {NameIn(store, h) : h \in found}
    OBVIOUS
  <2> QED BY <2>1, <2>2
<1>5. needed \in Selections(candidates)
  BY DEF Collect
<1> HIDE DEF candidates
<1>6. DOMAIN needed = DOMAIN candidates /\ \A x \in DOMAIN candidates : needed[x] \in candidates[x]
  BY <1>3, <1>5, SelectionPicks
<1>7. ASSUME NEW h \in found PROVE h \in Range(needed)
  <2>1. h[1] \in DOMAIN needed /\ needed[h[1]] \in found /\ needed[h[1]][1] = h[1]
    BY <1>3, <1>4, <1>6
  <2>2. needed[h[1]] = h
    BY <2>1 DEF OwnNames
  <2> QED BY <2>1, <2>2 DEF Range
<1> QED BY <1>1, <1>7

\* Each piece of the key has its name in the namespace.
Whole(namespace, K) == \A h \in K : Simple(h[1]) \in DOMAIN namespace

\* reconstruct leaves out no name.
LEMMA ReconstructWhole ==
  ASSUME NEW K, NEW needed, \A h \in K : h \in Range(needed), NEW namespace \in Reconstruct(needed)
  PROVE  Whole(namespace, K)
<1> DEFINE candidates == [x \in {Simple(h[1]) : h \in Range(needed)} |->
                            {h \in Range(needed) : Simple(h[1]) = x}]
<1>1. /\ \A x \in DOMAIN candidates : candidates[x] # {}
      /\ \A h \in Range(needed) : Simple(h[1]) \in DOMAIN candidates
  OBVIOUS
<1>2. namespace \in Selections(candidates)
  BY DEF Reconstruct
<1> HIDE DEF candidates
<1>3. DOMAIN namespace = DOMAIN candidates
  BY <1>1, <1>2, SelectionPicks
<1> QED BY <1>1, <1>3 DEF Whole

\* An entry, and what was run from one, is whole, and its function is that of a
\* task with its key.
WholeInv ==
  /\ \A K \in DOMAIN cache :
       /\ Whole(cache[K].namespace, K)
       /\ \E s \in DOMAIN tasks : Key(s) = K /\ cache[K].func = tasks[s].func
  /\ \A t \in DOMAIN tasks :
       tasks[t].pc = "ran" =>
         /\ Whole(tasks[t].ran.namespace, Key(t))
         /\ \E s \in DOMAIN tasks :
              /\ Key(s) = Key(t)
              /\ tasks[t].ran.target = tasks[t].ran.namespace[Simple(tasks[s].func)]

\* The keys of the tasks stay what they are.
LEMMA KeysStay ==
  ASSUME TasksKept
  PROVE  \A t \in DOMAIN tasks : t \in DOMAIN tasks' /\ Key(t)' = Key(t) /\ tasks'[t].func = tasks[t].func
BY DEF TasksKept, Key

\* The steps of the handlers keep it.
LEMMA WorkWhole ==
  ASSUME TaskInv, WholeInv, Work
  PROVE  WholeInv'
<1>1. DOMAIN tasks' = DOMAIN tasks /\ TasksKept /\ RunsEntry /\ EntriesBuilt
  BY WorkShape
<1>2. \A t \in DOMAIN tasks : t \in DOMAIN tasks' /\ Key(t)' = Key(t) /\ tasks'[t].func = tasks[t].func
  BY <1>1, KeysStay
<1>3. ASSUME NEW K \in DOMAIN cache'
      PROVE  /\ Whole(cache'[K].namespace, K)
             /\ \E s \in DOMAIN tasks : Key(s) = K /\ cache'[K].func = tasks[s].func
  <2>1. CASE K \in DOMAIN cache /\ cache'[K] = cache[K]
    BY <2>1 DEF WholeInv
  <2>2. ASSUME NEW t \in DOMAIN tasks, K = Key(t), cache'[K].func = tasks[t].func,
               NEW needed \in Collect(tasks[t].store, tasks[t].func),
               cache'[K].namespace \in Reconstruct(needed)
        PROVE  Whole(cache'[K].namespace, K)
    <3>1. Closed(tasks[t].store) /\ OwnNames(tasks[t].store) /\ tasks[t].func \in DOMAIN tasks[t].store.refs
      BY DEF TaskInv, TaskOK
    <3>2. \A h \in K : h \in Range(needed)
      BY <2>2, <3>1, CollectIsComplete DEF Key, SubgraphKey
    <3> QED BY <2>2, <3>2, ReconstructWhole
  <2> QED BY <1>1, <2>1, <2>2 DEF EntriesBuilt
<1>4. ASSUME NEW t \in DOMAIN tasks, tasks'[t].pc = "ran"
      PROVE  /\ Whole(tasks'[t].ran.namespace, Key(t))
             /\ \E s \in DOMAIN tasks :
                  /\ Key(s) = Key(t)
                  /\ tasks'[t].ran.target = tasks'[t].ran.namespace[Simple(tasks[s].func)]
  <2>1. CASE tasks[t].pc = "ran" /\ tasks'[t].ran = tasks[t].ran
    BY <2>1 DEF WholeInv
  <2>2. CASE Key(t) \in DOMAIN cache' /\ tasks'[t].ran = Outcome(t, cache'[Key(t)])
    <3> DEFINE entry == cache'[Key(t)]
    <3>1. /\ Outcome(t, entry).namespace = entry.namespace
          /\ Outcome(t, entry).target = entry.namespace[Simple(entry.func)]
      BY DEF Outcome, Target
    <3>2. /\ Whole(entry.namespace, Key(t))
          /\ \E s \in DOMAIN tasks : Key(s) = Key(t) /\ entry.func = tasks[s].func
      BY <1>3, <2>2
    <3> HIDE DEF entry
    <3>3. tasks'[t].ran = Outcome(t, entry)
      BY <2>2 DEF entry
    <3> QED BY <3>1, <3>2, <3>3
  <2> QED BY <1>1, <1>4, <2>1, <2>2 DEF RunsEntry
<1>5. \A K \in DOMAIN cache' :
        /\ Whole(cache'[K].namespace, K)
        /\ \E s \in DOMAIN tasks' : Key(s)' = K /\ cache'[K].func = tasks'[s].func
  BY <1>1, <1>2, <1>3
<1>6. \A t \in DOMAIN tasks' :
        tasks'[t].pc = "ran" =>
          /\ Whole(tasks'[t].ran.namespace, Key(t)')
          /\ \E s \in DOMAIN tasks' :
               /\ Key(s)' = Key(t)'
               /\ tasks'[t].ran.target = tasks'[t].ran.namespace[Simple(tasks'[s].func)]
  BY <1>1, <1>2, <1>4
<1> QED BY <1>5, <1>6 DEF WholeInv

\* A submission adds a task that has not run.
LEMMA SubmitWhole ==
  ASSUME TaskInv, WholeInv, Submit
  PROVE  WholeInv'
<1>1. PICK task : tasks' = Append(tasks, task) /\ task.pc = "look"
  BY DEF Submit, Submission
<1>2. cache' = cache
  BY DEF Submit
<1>3. PICK n \in Nat : DOMAIN tasks = 1..n /\ tasks = [t \in 1..n |-> tasks[t]]
  BY DEF TaskInv
<1>4. /\ DOMAIN tasks' = 1..(n + 1) /\ tasks'[n + 1] = task
      /\ \A t \in 1..n : tasks'[t] = tasks[t]
  <2>1. tasks \in Seq(Range(tasks) \cup {task}) /\ Len(tasks) = n
    BY <1>3 DEF Range
  <2> QED BY <1>1, <1>3, <2>1
<1>5. \A t \in 1..(n + 1) : t \in 1..n \/ t = n + 1
  OBVIOUS
<1>6. DOMAIN tasks \subseteq DOMAIN tasks' /\ \A t \in DOMAIN tasks : tasks'[t] = tasks[t] /\ Key(t)' = Key(t)
  BY <1>3, <1>4, <1>5 DEF Key
<1>7. \A t \in DOMAIN tasks' : tasks'[t].pc = "ran" => t \in DOMAIN tasks
  BY <1>1, <1>3, <1>4, <1>5
<1>8. \A K \in DOMAIN cache' :
        /\ Whole(cache'[K].namespace, K)
        /\ \E s \in DOMAIN tasks' : Key(s)' = K /\ cache'[K].func = tasks'[s].func
  BY <1>2, <1>6 DEF WholeInv
<1>9. \A t \in DOMAIN tasks' :
        tasks'[t].pc = "ran" =>
          /\ Whole(tasks'[t].ran.namespace, Key(t)')
          /\ \E s \in DOMAIN tasks' :
               /\ Key(s)' = Key(t)'
               /\ tasks'[t].ran.target = tasks'[t].ran.namespace[Simple(tasks'[s].func)]
  BY <1>6, <1>7 DEF WholeInv
<1> QED BY <1>8, <1>9 DEF WholeInv

\* Every step keeps it.
LEMMA NextWhole ==
  ASSUME TaskInv, WholeInv, [Next]_vars
  PROVE  WholeInv'
<1>1. ASSUME ClearCache PROVE WholeInv'
  <2>1. tasks' = tasks /\ cache' = <<>> /\ DOMAIN cache' = {}
    BY <1>1 DEF ClearCache
  <2> QED BY <2>1 DEF WholeInv, Key
<1>2. ASSUME Program \/ Keep \/ UNCHANGED vars PROVE WholeInv'
  <2>1. tasks' = tasks /\ cache' = cache
    BY <1>2 DEF Program, Keep, KeepStore, vars, workVars
  <2> QED BY <2>1 DEF WholeInv, Key
<1> QED BY <1>1, <1>2, WorkWhole, SubmitWhole DEF Next

\* The tasks and the cache, in every reachable state.
LEMMA TaskInvariant == Spec => [](TaskInv /\ CacheInv /\ WholeInv)
<1>1. Init => TaskInv /\ CacheInv /\ WholeInv
  <2> SUFFICES ASSUME Init PROVE TaskInv /\ CacheInv /\ WholeInv
    OBVIOUS
  <2>1. tasks = <<>> /\ cache = <<>> /\ DOMAIN tasks = 1..0 /\ DOMAIN tasks = {} /\ DOMAIN cache = {}
    BY DEF Init
  <2>2. tasks = [t \in 1..0 |-> tasks[t]]
    BY <2>1
  <2> QED BY <2>1, <2>2 DEF TaskInv, CacheInv, WholeInv
<1>2. GraphInv /\ TaskInv /\ CacheInv /\ WholeInv /\ [Next]_vars => (TaskInv /\ CacheInv /\ WholeInv)'
  BY NextTask, NextWhole
<1> QED BY <1>1, <1>2, GraphInvariant, PTL DEF Spec

\* The helpers that no decorator traces stay in the graph of a process as they
\* were captured, and all tasks of one process carry them so.
HelperInv ==
  /\ \A t \in DOMAIN tasks :
       /\ tasks[t].life \in Int /\ prog.restarts <= tasks[t].life
       /\ tasks[t].life = prog.restarts =>
            \A h \in tasks[t].store.objects \ {g \in tasks[t].store.objects : g[1] \in prog.traced} :
              h[1] \in DOMAIN node /\ node[h[1]].ver = h[2]
       /\ tasks[t].outdated \cap prog.traced = {}
  /\ \A t, u \in DOMAIN tasks : tasks[t].life = tasks[u].life =>
       \A h \in tasks[t].store.objects, g \in tasks[u].store.objects :
         h[1] = g[1] /\ h[1] \notin prog.traced => h[2] = g[2]

HelpersStay ==
  \A q \in DOMAIN node : q \notin prog.traced => q \in DOMAIN node' /\ node'[q] = node[q]

\* A process keeps its helpers; only a new one has none.
LEMMA HelpersStayPut ==
  ASSUME GraphInv, [Next]_vars
  PROVE  Restart \/ (prog'.restarts = prog.restarts /\ HelpersStay)
<1>1. "restarts" \in DOMAIN prog
  BY DEF GraphInv, WellFormed
<1>2. /\ prog' = [prog EXCEPT !.calls = @ - 1] => prog'.restarts = prog.restarts
      /\ prog' = [prog EXCEPT !.clears = @ - 1] => prog'.restarts = prog.restarts
      /\ prog' = [prog EXCEPT !.keeps = @ - 1] => prog'.restarts = prog.restarts
  BY <1>1
<1>3. ASSUME node' = node PROVE HelpersStay
  BY <1>3 DEF HelpersStay
<1>4. ASSUME node' = Refreshed(node) PROVE HelpersStay
  BY <1>4, RefreshedNodes DEF HelpersStay, GraphInv
<1>5. ASSUME NEW q \in DOMAIN prog.body, NEW v \in DOMAIN prog.body[q], q \in prog.traced,
             node' = Register(q, v)
      PROVE  HelpersStay
  <2>1. /\ q \in DOMAIN node' /\ DOMAIN node \subseteq DOMAIN node'
        /\ \A r \in DOMAIN node' \ {q} :
             IF r \in DOMAIN node THEN node'[r] = node[r] ELSE node'[r].ver = ver[r]
    BY <1>5, RegisteredNodes, GraphGrows
  <2> QED BY <1>5, <2>1 DEF HelpersStay
<1>6. CASE Define
  <2> DEFINE q == prog.order[loaded + 1]
  <2>1. prog' = prog /\ node' = IF q \in prog.traced THEN Register(q, ver[q]) ELSE node
    BY <1>6 DEF Define
  <2>2. q \in DOMAIN prog.body
    BY <1>6 DEF Define, GraphInv, WellFormed
  <2> HIDE DEF q
  <2>3. ver[q] \in DOMAIN prog.body[q]
    BY <2>2 DEF GraphInv
  <2> QED BY <1>3, <1>5, <2>1, <2>2, <2>3
<1>7. CASE Edit
  <2>1. PICK q \in prog.edits \cap Loaded :
          /\ ver[q] < Len(prog.body[q]) /\ prog' = prog
          /\ node' = IF q \in prog.traced THEN Register(q, ver[q] + 1) ELSE node
    BY <1>7 DEF Edit
  <2>2. q \in DOMAIN prog.body
    BY DEF GraphInv, WellFormed
  <2>3. ver[q] + 1 \in DOMAIN prog.body[q]
    <3>1. prog.body[q] \in Seq(Range(prog.body[q])) /\ ver[q] \in DOMAIN prog.body[q]
      BY <2>2 DEF GraphInv, WellFormed
    <3> QED BY <2>1, <3>1
  <2> QED BY <1>3, <1>5, <2>1, <2>2, <2>3
<1>8. CASE LocalCall /\ UNCHANGED node
  <2>1. prog' = prog \/ prog' = [prog EXCEPT !.calls = @ - 1]
    BY <1>8 DEF LocalCall, CallFunction, MakeGenerator, ResumeGenerator, Return, Spawn, Spend
  <2> QED BY <1>2, <1>3, <1>8, <2>1
<1>9. CASE Submit
  BY <1>4, <1>9 DEF Submit
<1>10. CASE Work
  BY <1>3, <1>10 DEF Work, Hit, Miss, IsInstalled, PipInstall, Build, graphVars
<1>11. CASE ClearCache
  BY <1>2, <1>3, <1>11 DEF ClearCache
<1>12. CASE Keep
  <2>1. prog' = [prog EXCEPT !.keeps = @ - 1] /\ (node' = node \/ node' = Refreshed(node))
    BY <1>12 DEF Keep, KeepStore
  <2> QED BY <1>2, <1>3, <1>4, <2>1
<1>13. CASE UNCHANGED vars
  BY <1>3, <1>13 DEF vars, graphVars
<1> QED BY <1>6, <1>7, <1>8, <1>9, <1>10, <1>11, <1>12, <1>13 DEF Next, Program

\* No step but a submission touches what HelperInv says of the tasks.
LEMMA TasksCarried ==
  ASSUME TaskInv, [Next]_vars, ~Submit
  PROVE  DOMAIN tasks' = DOMAIN tasks /\ TasksKept
<1>1. ASSUME ClearCache \/ Program \/ Keep \/ UNCHANGED vars PROVE tasks' = tasks
  BY <1>1 DEF ClearCache, Program, Keep, KeepStore, vars, workVars
<1>2. tasks' = tasks => DOMAIN tasks' = DOMAIN tasks /\ TasksKept
  BY DEF TasksKept
<1> QED BY <1>1, <1>2, WorkShape DEF Next

\* A submission takes what the graph has.
LEMMA SubmitHelpers ==
  ASSUME GraphInv, TaskInv, HelperInv, Submit
  PROVE  HelperInv'
<1> DEFINE nodes == Refreshed(node)
<1>1. PICK f \in prog.submits \cap Loaded, args \in prog.args :
        Subtree(nodes, f) \subseteq DOMAIN nodes /\ tasks' = Append(tasks, Submission(nodes, f, args))
  BY DEF Submit
<1> DEFINE task == Submission(nodes, f, args)
<1>2. /\ task.store = ToStore(nodes, f) /\ task.life = prog.restarts
      /\ task.outdated = {q \in DOMAIN nodes : Outdated(nodes, q)}
      /\ tasks' = Append(tasks, task) /\ node' = nodes /\ prog' = prog
  BY <1>1 DEF Submission, Submit
<1>3. NodesOK(nodes) /\ \A q \in DOMAIN node : q \in DOMAIN nodes /\ nodes[q] = node[q]
  BY RefreshedNodes DEF GraphInv
<1> HIDE DEF nodes, task
<1>4. \A h \in task.store.objects : h[1] \in DOMAIN nodes /\ h[2] = nodes[h[1]].ver
  BY <1>1, <1>2, <1>3, ToStoreClosed
<1>5. task.outdated \cap prog.traced = {} /\ prog.restarts \in Int
  BY <1>2 DEF Outdated, GraphInv, WellFormed
<1>6. PICK n \in Nat : DOMAIN tasks = 1..n /\ tasks = [t \in 1..n |-> tasks[t]]
  BY DEF TaskInv
<1>7. /\ DOMAIN tasks' = 1..(n + 1) /\ tasks'[n + 1] = task
      /\ \A t \in 1..n : tasks'[t] = tasks[t]
  <2>1. tasks \in Seq(Range(tasks) \cup {task}) /\ Len(tasks) = n
    BY <1>6 DEF Range
  <2> QED BY <1>2, <1>6, <2>1
<1>8. \A t \in 1..(n + 1) : t \in 1..n \/ t = n + 1
  OBVIOUS
<1>9. ASSUME NEW t \in DOMAIN tasks', tasks'[t].life = prog.restarts,
             NEW h \in tasks'[t].store.objects, h[1] \notin prog.traced
      PROVE  h[1] \in DOMAIN nodes /\ nodes[h[1]].ver = h[2]
  <2>1. CASE t = n + 1
    BY <1>4, <1>7, <1>9, <2>1
  <2>2. CASE t \in 1..n
    <3>1. h[1] \in DOMAIN node /\ node[h[1]].ver = h[2]
      BY <1>6, <1>7, <1>9, <2>2 DEF HelperInv
    <3> QED BY <1>3, <3>1
  <2> QED BY <1>7, <1>8, <2>1, <2>2
<1>10. ASSUME NEW t \in DOMAIN tasks', NEW u \in DOMAIN tasks', tasks'[t].life = tasks'[u].life,
              NEW h \in tasks'[t].store.objects, NEW g \in tasks'[u].store.objects,
              h[1] = g[1], h[1] \notin prog.traced
       PROVE  h[2] = g[2]
  <2>1. CASE t \in 1..n /\ u \in 1..n
    BY <1>6, <1>7, <1>10, <2>1 DEF HelperInv
  <2>2. CASE t = n + 1 \/ u = n + 1
    <3>1. tasks'[t].life = prog.restarts /\ tasks'[u].life = prog.restarts
      BY <1>2, <1>7, <1>10, <2>2
    <3>2. nodes[h[1]].ver = h[2] /\ nodes[g[1]].ver = g[2]
      BY <1>9, <1>10, <3>1
    <3> QED BY <1>10, <3>2
  <2> QED BY <1>7, <1>8, <2>1, <2>2
<1>11. \A t \in DOMAIN tasks' :
         /\ tasks'[t].life \in Int /\ prog.restarts <= tasks'[t].life
         /\ tasks'[t].outdated \cap prog.traced = {}
  BY <1>2, <1>5, <1>6, <1>7, <1>8 DEF HelperInv
<1> QED BY <1>2, <1>9, <1>10, <1>11 DEF HelperInv

\* Every step keeps the helpers of the tasks.
LEMMA NextHelpers ==
  ASSUME GraphInv, TaskInv, HelperInv, [Next]_vars
  PROVE  HelperInv'
<1>1. CASE Submit
  BY <1>1, SubmitHelpers
<1>2. CASE ~Submit
  <2>1. DOMAIN tasks' = DOMAIN tasks /\ TasksKept
    BY <1>2, TasksCarried
  <2>2. prog'.traced = prog.traced /\ prog'.restarts \in Int /\ prog'.restarts <= prog.restarts
        /\ prog.restarts \in Int
    BY ProgramKept DEF TextKept, GraphInv, WellFormed
  <2>3. ASSUME NEW t \in DOMAIN tasks
        PROVE  /\ tasks'[t].life = tasks[t].life /\ tasks'[t].store = tasks[t].store
               /\ tasks'[t].outdated = tasks[t].outdated
               /\ tasks[t].life \in Int /\ prog'.restarts <= tasks[t].life
               /\ tasks[t].outdated \cap prog.traced = {}
    BY <2>1, <2>2 DEF TasksKept, HelperInv
  <2>4. ASSUME NEW t \in DOMAIN tasks, tasks[t].life = prog'.restarts,
               NEW h \in tasks[t].store.objects, h[1] \notin prog.traced
        PROVE  h[1] \in DOMAIN node' /\ node'[h[1]].ver = h[2]
    <3>1. CASE Restart
      <4>1. prog'.restarts = prog.restarts - 1
        BY <3>1 DEF Restart, GraphInv, WellFormed
      <4> QED BY <2>2, <2>4, <4>1 DEF HelperInv
    <3>2. CASE prog'.restarts = prog.restarts /\ HelpersStay
      <4>1. h[1] \in DOMAIN node /\ node[h[1]].ver = h[2]
        BY <2>4, <3>2 DEF HelperInv
      <4> QED BY <2>4, <3>2, <4>1 DEF HelpersStay
    <3> QED BY <3>1, <3>2, HelpersStayPut
  <2>5. ASSUME NEW t \in DOMAIN tasks, NEW u \in DOMAIN tasks, tasks[t].life = tasks[u].life,
               NEW h \in tasks[t].store.objects, NEW g \in tasks[u].store.objects,
               h[1] = g[1], h[1] \notin prog.traced
        PROVE  h[2] = g[2]
    BY <2>5 DEF HelperInv
  <2> QED BY <2>1, <2>2, <2>3, <2>4, <2>5 DEF HelperInv
<1> QED BY <1>1, <1>2

\* Worker._build, _get_cached and _compute_subgraph_key: whichever entry serves
\* a task, it runs code of its own submission, in the versions of that moment but
\* for the helpers that were redefined after their capture (_auto_register):
\* these run as they were captured, in all tasks of one process alike.
THEOREM RunsOnlyWhatWasSent == Spec => []VersionsRun
<1>1. Init => HelperInv
  <2> SUFFICES ASSUME Init PROVE HelperInv
    OBVIOUS
  <2>1. DOMAIN tasks = {}
    BY DEF Init
  <2> QED BY <2>1 DEF HelperInv
<1>2. GraphInv /\ TaskInv /\ HelperInv /\ [Next]_vars => HelperInv'
  BY NextHelpers
<1>3. TaskInv /\ HelperInv => VersionsRun
  <2> SUFFICES ASSUME TaskInv, HelperInv, NEW t \in DOMAIN tasks, tasks[t].pc = "ran",
                      NEW x \in DOMAIN tasks[t].ran.namespace
               PROVE  LET piece == tasks[t].ran.namespace[x]
                      IN /\ piece \in Walk(tasks[t].store, tasks[t].store.refs[tasks[t].func])
                         /\ Simple(piece[1]) = x
                         /\ piece[1] \notin tasks[t].outdated => piece[2] = tasks[t].had[piece[1]]
                         /\ piece[1] \in tasks[t].outdated =>
                              \A u \in DOMAIN tasks : \A h \in tasks[u].store.objects :
                                tasks[u].life = tasks[t].life /\ h[1] = piece[1] => h[2] = piece[2]
    BY DEF VersionsRun
  <2> DEFINE piece == tasks[t].ran.namespace[x]
             store == tasks[t].store
  <2>1. TaskOK(tasks[t])
    BY DEF TaskInv
  <2>2. piece \in Walk(store, store.refs[tasks[t].func]) /\ Simple(piece[1]) = x
    BY <2>1 DEF TaskOK, Own, SubgraphKey
  <2>3. Closed(store) /\ store.refs[tasks[t].func] \in store.objects
    BY <2>1 DEF TaskOK, Closed
  <2>4. piece \in store.objects
    BY <2>2, <2>3, WalkStays
  <2>5. piece[1] \notin tasks[t].outdated => piece[2] = tasks[t].had[piece[1]]
    BY <2>1, <2>4 DEF TaskOK
  <2>6. ASSUME piece[1] \in tasks[t].outdated, NEW u \in DOMAIN tasks,
               NEW h \in tasks[u].store.objects, tasks[u].life = tasks[t].life, h[1] = piece[1]
        PROVE  h[2] = piece[2]
    <3>1. piece[1] \notin prog.traced
      BY <2>6 DEF HelperInv
    <3> HIDE DEF piece
    <3> QED BY <2>4, <2>6, <3>1 DEF HelperInv
  <2> HIDE DEF piece
  <2> QED BY <2>2, <2>5, <2>6 DEF piece
<1> QED BY <1>1, <1>2, <1>3, GraphInvariant, TaskInvariant, PTL DEF Spec

\* In a task that is clear a name has one piece: that of the version sent.
LEMMA ClearName ==
  ASSUME TaskInv, NEW t \in DOMAIN tasks, tasks[t].pc = "ran", tasks[t].clear, WholeInv,
         NEW q \in DOMAIN tasks[t].sent, NEW h \in Key(t), h[1] = q
  PROVE  /\ Simple(q) \in DOMAIN tasks[t].ran.namespace
         /\ tasks[t].ran.namespace[Simple(q)] = Hash(q, tasks[t].sent[q])
<1> DEFINE store == tasks[t].store
           namespace == tasks[t].ran.namespace
           piece == namespace[Simple(q)]
<1>1. TaskOK(tasks[t]) /\ Key(t) = Walk(store, store.refs[tasks[t].func])
  BY DEF TaskInv, Key, SubgraphKey
<1>2. Key(t) \subseteq store.objects
  BY <1>1, WalkStays DEF TaskOK, Closed
<1>3. Simple(q) \in DOMAIN namespace
  BY DEF WholeInv, Whole
<1>4. piece \in Key(t) /\ Simple(piece[1]) = Simple(q)
  BY <1>1, <1>3 DEF TaskOK, Own, SubgraphKey
<1>5. piece[1] = q
  <2>1. ~Namesakes(q, piece[1])
    BY <1>1, <1>2, <1>4 DEF TaskOK
  <2> HIDE DEF piece
  <2> QED BY <1>4, <2>1 DEF Namesakes, Simple
<1>6. piece \in store.objects
  BY <1>2, <1>4
<1> HIDE DEF piece
<1>7. piece[2] = tasks[t].sent[q] /\ piece = Hash(piece[1], piece[2])
  BY <1>1, <1>5, <1>6 DEF TaskOK, OwnNames
<1> QED BY <1>3, <1>5, <1>7 DEF piece

\* Worker.run, Store.collect and Store.reconstruct: the function named is called,
\* and nothing of what was promised and sent is missing or of another version.
THEOREM WhatWasSentRuns == Spec => []WhatArrivesRuns
<1>1. TaskInv /\ WholeInv => WhatArrivesRuns
  <2> SUFFICES ASSUME TaskInv, WholeInv, NEW t \in DOMAIN tasks,
                      tasks[t].pc = "ran", tasks[t].clear,
                      \A s \in DOMAIN tasks : Key(s) = Key(t) => tasks[s].func = tasks[t].func
               PROVE  /\ tasks[t].ran.target = Hash(tasks[t].func, tasks[t].sent[tasks[t].func])
                      /\ \A q \in DOMAIN tasks[t].sent : (\E h \in Key(t) : h[1] = q) =>
                           /\ Simple(q) \in DOMAIN tasks[t].ran.namespace
                           /\ tasks[t].ran.namespace[Simple(q)] = Hash(q, tasks[t].sent[q])
    BY DEF WhatArrivesRuns
  <2> DEFINE f == tasks[t].func
             store == tasks[t].store
  <2>1. /\ Closed(store) /\ OwnNames(store) /\ f \in DOMAIN store.refs /\ f \in DOMAIN tasks[t].sent
    BY DEF TaskInv, TaskOK
  <2>2. store.refs[f] \in Key(t) /\ store.refs[f][1] = f
    BY <2>1, WalkStays DEF Closed, OwnNames, Key, SubgraphKey
  <2>3. tasks[t].ran.namespace[Simple(f)] = Hash(f, tasks[t].sent[f])
    BY <2>1, <2>2, ClearName
  <2>4. tasks[t].ran.target = tasks[t].ran.namespace[Simple(f)]
    BY DEF WholeInv
  <2> QED BY <2>3, <2>4, ClearName
<1> QED BY <1>1, TaskInvariant, PTL

\* What remains of RunsWhatWasSent is the analysis of the source: where it finds
\* all that the process could call, the worker runs what was sent.
THEOREM AnalysisSuffices == Spec => [](AnalysisComplete => RunsWhatWasSent)
<1>1. WhatArrivesRuns => (AnalysisComplete => RunsWhatWasSent)
  BY DEF WhatArrivesRuns, AnalysisComplete, RunsWhatWasSent
<1> QED BY <1>1, WhatWasSentRuns, PTL

-----------------------------------------------------------------------------
(* Arguments.                                                              *)

\* The parts of a value that come back make a sequence, and pairs, that come back.
LEMMA PartsComeBack ==
  ASSUME NEW B, NEW classes, \A w \in B : Carried(w, classes) => Transported(w, classes) = w
  PROVE  /\ \A s \in Seq(B) : (\A i \in DOMAIN s : Carried(s[i], classes))
              => EachResolved(EachToJsonable(s), classes) = s
         /\ \A s \in Seq(B \X B) :
              (\A i \in DOMAIN s : Carried(s[i][1], classes) /\ Carried(s[i][2], classes))
              => PairsResolved(PairsToJsonable(s), classes) = s
<1>1. ASSUME NEW s \in Seq(B), \A i \in DOMAIN s : Carried(s[i], classes)
      PROVE  EachResolved(EachToJsonable(s), classes) = s
  <2>1. s = [i \in DOMAIN s |-> s[i]] /\ \A i \in DOMAIN s : s[i] \in B
    OBVIOUS
  <2>2. \A i \in DOMAIN s : Resolve(EachToJsonable(s)[i], classes) = s[i]
    BY <1>1, <2>1 DEF EachToJsonable, Transported
  <2>3. DOMAIN EachToJsonable(s) = DOMAIN s
    BY DEF EachToJsonable
  <2> QED BY <2>1, <2>2, <2>3 DEF EachResolved
<1>2. ASSUME NEW s \in Seq(B \X B),
             \A i \in DOMAIN s : Carried(s[i][1], classes) /\ Carried(s[i][2], classes)
      PROVE  PairsResolved(PairsToJsonable(s), classes) = s
  <2>1. s = [i \in DOMAIN s |-> s[i]] /\ \A i \in DOMAIN s : s[i] \in B \X B
    OBVIOUS
  <2>2. \A i \in DOMAIN s : PairsToJsonable(s)[i][1] = ToJsonable(s[i][1])
                            /\ PairsToJsonable(s)[i][2] = ToJsonable(s[i][2])
    BY DEF PairsToJsonable
  <2>3. \A i \in DOMAIN s : <<Resolve(PairsToJsonable(s)[i][1], classes),
                              Resolve(PairsToJsonable(s)[i][2], classes)>> = s[i]
    BY <1>2, <2>1, <2>2 DEF Transported
  <2>4. DOMAIN PairsToJsonable(s) = DOMAIN s
    BY DEF PairsToJsonable
  <2> QED BY <2>1, <2>3, <2>4 DEF PairsResolved
<1> QED BY <1>1, <1>2

\* A value comes back if what it is made of does: one case per branch of _to_jsonable.
LEMMA ValueComesBack ==
  ASSUME NEW classes, ValuesShaped, EncodesByPart, DecodesByPart(classes),
         NEW v \in Values, Carried(v, classes),
         \A w \in Values : Depth[w] < Depth[v] => (Carried(w, classes) => Transported(w, classes) = w)
  PROVE  Transported(v, classes) = v
<1> DEFINE B == {w \in Values : Depth[w] < Depth[v]}
<1>1. /\ \A s \in Seq(B) : (\A i \in DOMAIN s : Carried(s[i], classes))
           => EachResolved(EachToJsonable(s), classes) = s
      /\ \A s \in Seq(B \X B) :
           (\A i \in DOMAIN s : Carried(s[i][1], classes) /\ Carried(s[i][2], classes))
           => PairsResolved(PairsToJsonable(s), classes) = s
  <2>1. \A w \in B : Carried(w, classes) => Transported(w, classes) = w
    OBVIOUS
  <2> HIDE DEF B
  <2> QED BY <2>1, PartsComeBack
<1>2. Shaped(v) /\ Survives(v, classes)
  BY DEF ValuesShaped, DecodesByPart
<1>3. Transported(v, classes) = Decoding(Encoding(v), classes)
  BY DEF Transported, EncodesByPart, DecodesByPart
<1>4. ASSUME NEW key, NEW payload, key \in Sentinels
      PROVE  Decoding(Mark(key, payload), classes) = Unmark(key, payload, classes)
  <2>1. Mark(key, payload)[1] = "jdict" /\ Mark(key, payload)[2] = <<<<key, payload>>>>
    BY DEF Mark, JDict
  <2>2. DOMAIN <<<<key, payload>>>> = 1..1 /\ 1..1 = {1}
    OBVIOUS
  <2>a. IsMarked(Mark(key, payload))
    BY <1>4, <2>1, <2>2 DEF IsMarked
  <2>3. Decoding(Mark(key, payload), classes) =
          Unmark(Mark(key, payload)[2][1][1], Mark(key, payload)[2][1][2], classes)
    BY <2>1, <2>a DEF Decoding
  <2> QED BY <2>1, <2>3
<1> HIDE DEF B
<1>5. CASE v[1] = "prim"
  <2>1. Encoding(v) = v
    BY <1>5 DEF Encoding
  <2>2. Decoding(v, classes) = v
    <3>1. ~IsMarked(v)
      BY <1>5 DEF IsMarked
    <3> QED BY <1>5, <3>1 DEF Decoding
  <2> QED BY <1>3, <2>1, <2>2
<1>6. CASE v[1] = "bytes"
  <2>1. Encoding(v) = Mark("__offwork_bytes__", <<v[2], v[3]>>)
    BY <1>6 DEF Encoding
  <2>2. Unmark("__offwork_bytes__", <<v[2], v[3]>>, classes) = Bytes(BytesKind(v[2]), v[3])
    BY DEF Unmark
  <2>3. v = Bytes(v[2], v[3]) /\ BytesKind(v[2]) = v[2]
    BY <1>2, <1>6 DEF Shaped, Survives, Bytes
  <2> QED BY <1>3, <1>4, <2>1, <2>2, <2>3 DEF Sentinels
<1>7. CASE v[1] = "list"
  <2>1. Encoding(v) = JList(EachToJsonable(v[2]))
    BY <1>7 DEF Encoding
  <2>2. Decoding(JList(EachToJsonable(v[2])), classes) = List(EachResolved(EachToJsonable(v[2]), classes))
    <3> DEFINE j == JList(EachToJsonable(v[2]))
    <3>1. j[1] = "jlist" /\ j[2] = EachToJsonable(v[2])
      BY DEF JList
    <3> HIDE DEF j
    <3>2. ~IsMarked(j)
      BY <3>1 DEF IsMarked
    <3>3. Decoding(j, classes) = List(EachResolved(j[2], classes))
      BY <3>1, <3>2 DEF Decoding
    <3> QED BY <3>1, <3>3 DEF j
  <2>3. v = List(v[2]) /\ v[2] \in Seq(B) /\ \A i \in DOMAIN v[2] : Carried(v[2][i], classes)
    BY <1>2, <1>7 DEF Shaped, Survives, List, B
  <2> QED BY <1>1, <1>3, <2>1, <2>2, <2>3
<1>8. CASE v[1] = "tuple"
  <2>1. Encoding(v) = Mark("__offwork_tuple__", JList(EachToJsonable(v[2])))
    BY <1>8 DEF Encoding
  <2>2. Unmark("__offwork_tuple__", JList(EachToJsonable(v[2])), classes)
          = Tuple(EachResolved(EachToJsonable(v[2]), classes))
    BY DEF Unmark, JList
  <2>3. v = Tuple(v[2]) /\ v[2] \in Seq(B) /\ \A i \in DOMAIN v[2] : Carried(v[2][i], classes)
    BY <1>2, <1>8 DEF Shaped, Survives, Tuple, B
  <2> QED BY <1>1, <1>3, <1>4, <2>1, <2>2, <2>3 DEF Sentinels
<1>9. CASE v[1] = "named"
  <2> DEFINE info == <<"namedtuple", v[2], EachToJsonable(v[3])>>
  <2>1. Encoding(v) = Mark("__offwork_builtin__", info)
    BY <1>9 DEF Encoding, Builtin
  <2>2. /\ v = Named(v[2], v[3]) /\ v[3] \in Seq(B) /\ v[2] \in classes
        /\ \A i \in DOMAIN v[3] : Carried(v[3][i], classes)
    BY <1>2, <1>9 DEF Shaped, Survives, Named, B
  <2>3. Unmark("__offwork_builtin__", info, classes) = DecodeBuiltin(info, classes)
    BY DEF Unmark
  <2>4. DecodeBuiltin(info, classes) = Named(v[2], EachResolved(EachToJsonable(v[3]), classes))
    BY <2>2 DEF DecodeBuiltin
  <2> QED BY <1>1, <1>3, <1>4, <2>1, <2>2, <2>3, <2>4 DEF Sentinels
<1>10. CASE v[1] = "group"
  <2> DEFINE info == <<"group", v[2], EachToJsonable(v[3])>>
  <2>1. Encoding(v) = Mark("__offwork_builtin__", info)
    BY <1>10 DEF Encoding, EncodeBuiltin, Builtin
  <2>2. /\ v = Group(v[2], v[3]) /\ v[3] \in Seq(B)
        /\ \A i \in DOMAIN v[3] : Carried(v[3][i], classes)
    BY <1>2, <1>10 DEF Shaped, Survives, Group, B
  <2>3. Unmark("__offwork_builtin__", info, classes) = DecodeBuiltin(info, classes)
    BY DEF Unmark
  <2>4. DecodeBuiltin(info, classes) = Group(v[2], EachResolved(EachToJsonable(v[3]), classes))
    BY DEF DecodeBuiltin
  <2> QED BY <1>1, <1>3, <1>4, <2>1, <2>2, <2>3, <2>4 DEF Sentinels
<1>11. CASE v[1] = "leaf"
  <2> DEFINE info == <<"leaf", v[2], v[3]>>
  <2>1. Encoding(v) = Mark("__offwork_builtin__", info)
    BY <1>11 DEF Encoding, EncodeBuiltin, Builtin
  <2>2. Unmark("__offwork_builtin__", info, classes) = DecodeBuiltin(info, classes)
    BY DEF Unmark
  <2>3. DecodeBuiltin(info, classes) = Leaf(v[2], v[3], "")
    BY DEF DecodeBuiltin
  <2>4. v = Leaf(v[2], v[3], "")
    BY <1>2, <1>11 DEF Shaped, Survives, Leaf
  <2>5. Transported(v, classes) = Unmark("__offwork_builtin__", info, classes)
    <3> HIDE DEF info
    <3> QED BY <1>3, <1>4, <2>1 DEF Sentinels
  <2> HIDE DEF info
  <2> QED BY <2>2, <2>3, <2>4, <2>5
<1>16. CASE v[1] = "path"
  <2>1. Encoding(v) = Mark("__offwork_builtin__", v)
    BY <1>16 DEF Encoding, EncodeBuiltin, Builtin
  <2>2. Unmark("__offwork_builtin__", v, classes) = DecodeBuiltin(v, classes)
    BY DEF Unmark
  <2>3. DecodeBuiltin(v, classes) = Path(PortablePath(v[2]), v[3])
    BY <1>16 DEF DecodeBuiltin
  <2>4. v = Path(v[2], v[3]) /\ PortablePath(v[2]) = v[2]
    BY <1>2, <1>16 DEF Shaped, Survives, Path
  <2> QED BY <1>3, <1>4, <2>1, <2>2, <2>3, <2>4 DEF Sentinels
<1>12. CASE v[1] = "enum"
  <2> DEFINE info == <<"enum", v[2], v[3], v[4], ToJsonable(v[5])>>
  <2>1. /\ v = Enum(v[2], v[3], v[4], v[5]) /\ v[5] \in B /\ v[2] # "str" /\ v[3] \in classes
        /\ Carried(v[5], classes)
    BY <1>2, <1>12 DEF Shaped, Survives, Enum, B
  <2>2. Encoding(v) = Mark("__offwork_builtin__", info)
    BY <1>12, <2>1 DEF Encoding, EncodeBuiltin, Builtin
  <2>3. Unmark("__offwork_builtin__", info, classes) = DecodeBuiltin(info, classes)
    BY DEF Unmark
  <2>4. DecodeBuiltin(info, classes) = Enum(v[2], v[3], v[4], Resolve(ToJsonable(v[5]), classes))
    BY <2>1 DEF DecodeBuiltin
  <2>5. Resolve(ToJsonable(v[5]), classes) = v[5]
    BY <2>1 DEF Transported, B
  <2> QED BY <1>3, <1>4, <2>1, <2>2, <2>3, <2>4, <2>5 DEF Sentinels
<1>13. CASE v[1] = "object"
  <2> DEFINE state == StateOf(v)
             info == <<v[2], v[3], ObjectState(v)>>
             back == StateResolved(ObjectState(v), classes)
  <2>1. /\ v = Object(v[2], v[3], v[4], v[5]) /\ v[3] \in BOOLEAN /\ v[2] \in classes
        /\ v[3] => v[5] = <<>>
        /\ ~v[3] => v[4] = <<>>
        /\ v[4] \in Seq(STRING \X B) /\ v[5] \in Seq(STRING \X B)
        /\ \A i \in DOMAIN state : Carried(state[i][2], classes)
    BY <1>2, <1>13 DEF Shaped, Survives, Object, B
  <2>2. Encoding(v) = Mark("__offwork_obj__", info)
    BY <1>13 DEF Encoding
  <2>3. Unmark("__offwork_obj__", info, classes) = ReconstructObject(info, classes)
    BY DEF Unmark
  <2>4. back = state
    <3>0. state \in Seq(STRING \X B)
      BY <2>1 DEF StateOf
    <3>1. state = [i \in DOMAIN state |-> state[i]] /\ \A i \in DOMAIN state : state[i] \in STRING \X B
      BY <3>0
    <3>2. DOMAIN ObjectState(v) = DOMAIN state
      BY DEF ObjectState
    <3>3. \A i \in DOMAIN state : /\ ObjectState(v)[i][1] = state[i][1]
                                  /\ ObjectState(v)[i][2] = ToJsonable(state[i][2])
      BY DEF ObjectState
    <3>4. \A i \in DOMAIN state : Resolve(ToJsonable(state[i][2]), classes) = state[i][2]
      BY <2>1, <3>1 DEF Transported, B
    <3>5. \A i \in DOMAIN state : <<state[i][1], state[i][2]>> = state[i]
      BY <3>1
    <3> HIDE DEF state
    <3> QED BY <3>1, <3>2, <3>3, <3>4, <3>5 DEF StateResolved
  <2>7. Transported(v, classes) = ReconstructObject(info, classes)
    <3> HIDE DEF info
    <3> QED BY <1>3, <1>4, <2>2, <2>3 DEF Sentinels
  <2>5. CASE v[3]
    <3>1. ReconstructObject(info, classes) = Object(v[2], TRUE, back, <<>>)
      BY <2>1, <2>5 DEF ReconstructObject
    <3>2. state = v[4] /\ v[3] = TRUE
      BY <2>1, <2>5 DEF StateOf
    <3> HIDE DEF back, info, state
    <3>3. v = Object(v[2], TRUE, v[4], <<>>)
      BY <2>1, <2>5, <3>2
    <3> QED BY <2>4, <2>7, <3>1, <3>2, <3>3
  <2>6. CASE ~v[3]
    <3>1. ReconstructObject(info, classes) = Object(v[2], FALSE, <<>>, back)
      BY <2>1, <2>6 DEF ReconstructObject
    <3>2. state = v[5] /\ v[3] = FALSE
      BY <2>1, <2>6 DEF StateOf
    <3> HIDE DEF back, info, state
    <3>3. v = Object(v[2], FALSE, <<>>, v[5])
      BY <2>1, <2>6, <3>2
    <3> QED BY <2>4, <2>7, <3>1, <3>2, <3>3
  <2> QED BY <2>5, <2>6
<1>14. CASE v[1] = "opaque"
  <2>1. Encoding(v) = Mark("__offwork_pickle__", v)
    BY <1>14 DEF Encoding
  <2>2. Unmark("__offwork_pickle__", v, classes) = v
    BY DEF Unmark
  <2> QED BY <1>3, <1>4, <2>1, <2>2 DEF Sentinels
<1>17. CASE v[1] = "default"
  <2> DEFINE info == <<"default", v[2], PairsToJsonable(v[3])>>
  <2>1. /\ v = Default(v[2], v[3]) /\ v[3] \in Seq(B \X B) /\ EncodeFactory(v[2]) = v[2]
        /\ \A i \in DOMAIN v[3] : Carried(v[3][i][1], classes) /\ Carried(v[3][i][2], classes)
    BY <1>2, <1>17 DEF Shaped, Survives, Default, B
  <2>2. Encoding(v) = Mark("__offwork_builtin__", info)
    BY <1>17, <2>1 DEF Encoding, Builtin
  <2>3. Unmark("__offwork_builtin__", info, classes) = DecodeBuiltin(info, classes)
    BY DEF Unmark
  <2>4. DecodeBuiltin(info, classes) = Default(v[2], PairsResolved(PairsToJsonable(v[3]), classes))
    BY DEF DecodeBuiltin
  <2> QED BY <1>1, <1>3, <1>4, <2>1, <2>2, <2>3, <2>4 DEF Sentinels
<1>18. CASE v[1] = "derived"
  BY <1>2, <1>18 DEF Survives
<1>15. CASE v[1] = "dict"
  <2>1. /\ v = Dict(v[2], v[3]) /\ v[3] \in Seq(B \X B)
        /\ \A i \in DOMAIN v[3] : Carried(v[3][i][1], classes) /\ Carried(v[3][i][2], classes)
        /\ v[2] = "dict" => ~(DOMAIN v[3] = {1} /\ v[3][1][1] \in {Str(name) : name \in Sentinels})
    BY <1>2, <1>15 DEF Shaped, Survives, Dict, B
  <2>2. PairsResolved(PairsToJsonable(v[3]), classes) = v[3]
    BY <1>1, <2>1
  <2>3. CASE v[2] # "dict"
    <3> DEFINE info == <<"items", v[2], PairsToJsonable(v[3])>>
    <3>1. Encoding(v) = Mark("__offwork_builtin__", info)
      BY <1>15, <2>3 DEF Encoding, Builtin
    <3>2. Unmark("__offwork_builtin__", info, classes) = DecodeBuiltin(info, classes)
      BY DEF Unmark
    <3>3. DecodeBuiltin(info, classes) = Dict(v[2], PairsResolved(PairsToJsonable(v[3]), classes))
      BY DEF DecodeBuiltin
    <3> QED BY <1>3, <1>4, <2>1, <2>2, <3>1, <3>2, <3>3 DEF Sentinels
  <2>4. CASE v[2] = "dict" /\ ~StringKeys(v[3])
    <3>1. Encoding(v) = Mark("__offwork_dict__", PairsToJsonable(v[3]))
      BY <1>15, <2>4 DEF Encoding
    <3>2. Unmark("__offwork_dict__", PairsToJsonable(v[3]), classes)
            = Dict("dict", PairsResolved(PairsToJsonable(v[3]), classes))
      BY DEF Unmark
    <3> QED BY <1>3, <1>4, <2>1, <2>2, <2>4, <3>1, <3>2 DEF Sentinels
  <2>5. CASE v[2] = "dict" /\ StringKeys(v[3])
    <3> DEFINE items == [i \in DOMAIN v[3] |-> <<v[3][i][1][3], ToJsonable(v[3][i][2])>>]
               back == [i \in DOMAIN items |-> <<Str(items[i][1]), Resolve(items[i][2], classes)>>]
    <3>1. Encoding(v) = JDict(items)
      BY <1>15, <2>5 DEF Encoding
    <3>2. v[3] = [i \in DOMAIN v[3] |-> v[3][i]] /\ \A i \in DOMAIN v[3] : v[3][i] \in B \X B
      BY <2>1
    <3>3. \A i \in DOMAIN v[3] : Str(v[3][i][1][3]) = v[3][i][1]
      <4> SUFFICES ASSUME NEW i \in DOMAIN v[3] PROVE Str(v[3][i][1][3]) = v[3][i][1]
        OBVIOUS
      <4> DEFINE k == v[3][i][1]
      <4>1. k \in Values /\ k[1] = "prim" /\ k[2] = "str"
        BY <2>5, <3>2 DEF B, StringKeys, IsStr
      <4>2. k = <<k[1], k[2], k[3]>>
        BY <4>1 DEF ValuesShaped, Shaped
      <4> QED BY <4>1, <4>2 DEF Str, Prim
    <3>4. ~IsMarked(JDict(items))
      <4>1. JDict(items)[2] = items /\ DOMAIN items = DOMAIN v[3]
        BY DEF JDict
      <4>2. ASSUME DOMAIN items = {1} PROVE items[1][1] \notin Sentinels
        <5>1. 1 \in DOMAIN v[3] /\ items[1][1] = v[3][1][1][3]
          BY <4>2
        <5>2. v[3][1][1] = Str(items[1][1])
          BY <3>3, <5>1
        <5> HIDE DEF items
        <5> QED BY <2>1, <2>5, <4>1, <4>2, <5>2
      <4> HIDE DEF items
      <4> QED BY <4>1, <4>2 DEF IsMarked
    <3>5. Decoding(JDict(items), classes) = Dict("dict", back)
      <4>1. JDict(items)[1] = "jdict" /\ JDict(items)[2] = items
        BY DEF JDict
      <4> HIDE DEF items
      <4> QED BY <3>4, <4>1 DEF Decoding
    <3>6. back = v[3]
      <4>1. DOMAIN items = DOMAIN v[3]
        OBVIOUS
      <4>2. \A i \in DOMAIN v[3] : /\ items[i][1] = v[3][i][1][3]
                                   /\ items[i][2] = ToJsonable(v[3][i][2])
        OBVIOUS
      <4>3. \A i \in DOMAIN v[3] : Resolve(ToJsonable(v[3][i][2]), classes) = v[3][i][2]
        BY <2>1, <3>2 DEF Transported, B
      <4>4. \A i \in DOMAIN v[3] : <<v[3][i][1], v[3][i][2]>> = v[3][i]
        BY <3>2
      <4> HIDE DEF items
      <4> QED BY <3>2, <3>3, <4>1, <4>2, <4>3, <4>4
    <3> HIDE DEF back, items
    <3> QED BY <1>3, <2>1, <2>5, <3>1, <3>5, <3>6
  <2> QED BY <2>3, <2>4, <2>5
<1> QED BY <1>2, <1>5, <1>6, <1>7, <1>8, <1>9, <1>10, <1>11, <1>12, <1>13, <1>14, <1>15, <1>16, <1>17, <1>18 DEF Shaped

\* Every value that is meant to be carried comes back, however deep it is nested.
LEMMA CodecRoundTrip ==
  ASSUME NEW classes, ValuesShaped, EncodesByPart, DecodesByPart(classes)
  PROVE  \A v \in Values : Carried(v, classes) => Transported(v, classes) = v
<1> DEFINE Lost == {v \in Values : Carried(v, classes) /\ Transported(v, classes) # v}
           T == {Depth[v] : v \in Lost}
<1> SUFFICES ASSUME Lost # {} PROVE FALSE
  OBVIOUS
<1>1. T \in SUBSET Nat /\ T # {}
  BY DEF ValuesShaped
<1>2. PICK n \in T : \A m \in T : n <= m
  <2> HIDE DEF T
  <2> QED BY <1>1, LeastNat
<1>3. PICK v \in Lost : Depth[v] = n
  OBVIOUS
<1>4. ASSUME NEW w \in Values, Depth[w] < Depth[v], Carried(w, classes)
      PROVE  Transported(w, classes) = w
  <2>1. Depth[w] \in Nat /\ n \in Nat
    BY DEF ValuesShaped
  <2>2. w \in Lost => n <= Depth[w]
    BY <1>2
  <2> QED BY <1>3, <1>4, <2>1, <2>2
<1>5. Transported(v, classes) = v
  <2>1. v \in Values /\ Carried(v, classes)
    OBVIOUS
  <2> HIDE DEF Lost, T
  <2> QED BY <1>4, <2>1, ValueComesBack
<1> QED BY <1>5

\* The argument of a task is one of the values, its store holds functions of the
\* program, and what its function was called with is what the codec made of it.
ArgsInv ==
  /\ \E p \in Programs : p.body = prog.body
  /\ \A t \in DOMAIN tasks :
       /\ tasks[t].args \in Values
       /\ \A h \in tasks[t].store.objects : h[1] \in DOMAIN prog.body
       /\ tasks[t].pc = "ran" =>
            tasks[t].ran.got = Transported(tasks[t].args, Classes(tasks[t].ran.namespace))

\* A submission adds a task that has not run, with an argument of the scenario.
LEMMA SubmitArgs ==
  ASSUME GraphInv, TaskInv, ArgsInv, Submit
  PROVE  ArgsInv'
<1> DEFINE nodes == Refreshed(node)
<1>0. PICK f \in prog.submits \cap Loaded, args \in prog.args :
        Subtree(nodes, f) \subseteq DOMAIN nodes /\ tasks' = Append(tasks, Submission(nodes, f, args))
  BY DEF Submit
<1> DEFINE task == Submission(nodes, f, args)
<1>1. /\ Subtree(nodes, f) \subseteq DOMAIN nodes
      /\ task.store = ToStore(nodes, f) /\ task.args = args /\ task.pc = "look"
      /\ tasks' = Append(tasks, task)
  BY <1>0 DEF Submission
<1>2. prog' = prog /\ NodesOK(nodes)
  BY RefreshedNodes DEF Submit, GraphInv
<1> HIDE DEF nodes, task
<1>3. \A h \in task.store.objects : h[1] \in DOMAIN prog.body
  BY <1>1, <1>2, ToStoreClosed DEF NodesOK
<1>4. task.args \in Values
  BY <1>1 DEF GraphInv, WellFormed
<1>5. PICK n \in Nat : DOMAIN tasks = 1..n /\ tasks = [t \in 1..n |-> tasks[t]]
  BY DEF TaskInv
<1>6. /\ DOMAIN tasks' = 1..(n + 1) /\ tasks'[n + 1] = task
      /\ \A t \in 1..n : tasks'[t] = tasks[t]
  <2>1. tasks \in Seq(Range(tasks) \cup {task}) /\ Len(tasks) = n
    BY <1>5 DEF Range
  <2> QED BY <1>1, <1>5, <2>1
<1>7. \A t \in 1..(n + 1) : t \in 1..n \/ t = n + 1
  OBVIOUS
<1> QED BY <1>1, <1>2, <1>3, <1>4, <1>5, <1>6, <1>7 DEF ArgsInv

\* The steps of the handlers: what runs is called with the entry's classes known.
LEMMA WorkArgs ==
  ASSUME TaskInv, ArgsInv, Work
  PROVE  ArgsInv'
<1>1. DOMAIN tasks' = DOMAIN tasks /\ TasksKept /\ RunsEntry
  BY WorkShape
<1>2. prog' = prog
  BY DEF Work, Hit, Miss, IsInstalled, PipInstall, Build, graphVars
<1>3. ASSUME NEW t \in DOMAIN tasks, tasks'[t].pc = "ran"
      PROVE  tasks'[t].ran.got = Transported(tasks[t].args, Classes(tasks'[t].ran.namespace))
  <2>1. CASE tasks[t].pc = "ran" /\ tasks'[t].ran = tasks[t].ran
    BY <2>1 DEF ArgsInv
  <2>2. CASE Key(t) \in DOMAIN cache' /\ tasks'[t].ran = Outcome(t, cache'[Key(t)])
    <3> DEFINE entry == cache'[Key(t)]
    <3>1. /\ Outcome(t, entry).namespace = entry.namespace
          /\ Outcome(t, entry).got = Transported(tasks[t].args, Classes(entry.namespace))
      BY DEF Outcome
    <3> HIDE DEF entry
    <3>2. tasks'[t].ran = Outcome(t, entry)
      BY <2>2 DEF entry
    <3> QED BY <3>1, <3>2
  <2> QED BY <1>1, <1>3, <2>1, <2>2 DEF RunsEntry
<1> QED BY <1>1, <1>2, <1>3 DEF ArgsInv, TasksKept

LEMMA ArgsInvariant == Spec => []ArgsInv
<1>1. Init => ArgsInv
  <2> SUFFICES ASSUME Init PROVE ArgsInv
    OBVIOUS
  <2>1. prog \in Programs /\ tasks = <<>> /\ DOMAIN tasks = {}
    BY DEF Init
  <2> QED BY <2>1 DEF ArgsInv
<1>2. ASSUME GraphInv, TaskInv, ArgsInv, [Next]_vars PROVE ArgsInv'
  <2>1. ASSUME ClearCache \/ Program \/ Keep \/ UNCHANGED vars PROVE ArgsInv'
    <3>1. tasks' = tasks
      BY <2>1 DEF ClearCache, Program, Keep, KeepStore, vars, workVars
    <3>2. prog'.body = prog.body
      BY <1>2, ProgramKept DEF TextKept
    <3> QED BY <1>2, <3>1, <3>2 DEF ArgsInv
  <2> QED BY <1>2, <2>1, WorkArgs, SubmitArgs DEF Next
<1>3. GraphInv /\ TaskInv /\ ArgsInv /\ [Next]_vars => ArgsInv'
  BY <1>2
<1> QED BY <1>1, <1>3, GraphInvariant, TaskInvariant, PTL DEF Spec

\* _to_jsonable, _resolve and resolve_args: an argument arrives as the value it
\* was, nested as it may be, in whatever namespace the worker has rebuilt.
THEOREM ArgumentsArrive == Spec => []ArgsArrive
<1>1. GraphInv /\ TaskInv /\ ArgsInv => ArgsArrive
  <2> SUFFICES ASSUME GraphInv, TaskInv, ArgsInv, NEW t \in DOMAIN tasks, tasks[t].pc = "ran",
                      Carried(tasks[t].args, Classes(tasks[t].ran.namespace))
               PROVE  tasks[t].ran.got = tasks[t].args
    BY DEF ArgsArrive
  <2> DEFINE namespace == tasks[t].ran.namespace
             store == tasks[t].store
             classes == Classes(namespace)
  <2>1. /\ Closed(store) /\ store.refs[tasks[t].func] \in store.objects
        /\ Own(namespace, Walk(store, store.refs[tasks[t].func]))
    BY DEF TaskInv, TaskOK, SubgraphKey, Closed
  <2>2. \A x \in DOMAIN namespace : namespace[x][1] \in DOMAIN prog.body /\ Simple(namespace[x][1]) = x
    BY <2>1, WalkStays DEF Own, ArgsInv
  <2>3. PICK p \in Programs : p.body = prog.body
    BY DEF ArgsInv
  <2>4. classes \in SUBSET ClassNames(p)
    <3>1. \A q : Simple(q)[1] = Cls(q)
      BY DEF Simple
    <3>2. \A x \in DOMAIN namespace : x[1] \in {Cls(q) : q \in DOMAIN prog.body}
      BY <2>2, <3>1
    <3> HIDE DEF namespace
    <3> QED BY <2>3, <3>2 DEF Classes, ClassNames
  <2>5. Transported(tasks[t].args, classes) = tasks[t].args
    <3>1. tasks[t].args \in Values
      BY DEF ArgsInv
    <3>2. ValuesShaped /\ EncodesByPart /\ DecodesByPart(classes)
      BY <2>4, CodecAssumption
    <3>3. Carried(tasks[t].args, classes)
      OBVIOUS
    <3> HIDE DEF classes
    <3> QED BY <3>1, <3>2, <3>3, CodecRoundTrip
  <2> QED BY <2>5 DEF ArgsInv
<1> QED BY <1>1, GraphInvariant, TaskInvariant, ArgsInvariant, PTL

-----------------------------------------------------------------------------
(* The analysis.                                                           *)

\* The program is analyzable, and the graph knows what is traced and loaded
\* and what a traced call has led to.
KnownInv ==
  /\ Analyzable(prog)
  /\ prog.traced \cap Loaded \subseteq DOMAIN node
  /\ \A e \in rt : e[2] \in DOMAIN node

\* The graph of a submission.
AtSubmission(nodes) ==
  /\ GraphInv /\ KnownInv /\ nodes = Refreshed(node) /\ prog.submits \cap Loaded # {}

\* A refreshed graph has all that it discovers.
LEMMA RefreshedDiscovers ==
  ASSUME GraphInv, NEW old, NodesOK(old)
  PROVE  LET nodes == Refreshed(old)
         IN \A q \in DOMAIN nodes : Discovered(q, Captured(nodes, q)) \subseteq DOMAIN nodes
<1> DEFINE succ == [q \in DOMAIN prog.body |-> Discovered(q, Captured(old, q))]
           all == Closure(DOMAIN old, succ)
           new == [q \in all |-> [ver |-> ver[q], at |-> Cardinality(DOMAIN old)]]
           nodes == Refreshed(old)
<1>1. nodes = Over(old, new)
  BY DEF Refreshed
<1>2. DOMAIN succ = DOMAIN prog.body /\ IsFiniteSet(DOMAIN succ)
  BY DEF GraphInv, WellFormed
<1>3. /\ NodesOK(nodes)
      /\ \A q \in DOMAIN nodes : IF q \in DOMAIN old THEN nodes[q] = old[q] ELSE nodes[q].ver = ver[q]
  BY RefreshedNodes
<1> HIDE DEF nodes
<1>4. \A q \in DOMAIN nodes : Captured(nodes, q) = Captured(old, q)
  BY <1>3 DEF Captured
<1>5. \A q \in DOMAIN prog.body : succ[q] = Discovered(q, Captured(old, q))
  OBVIOUS
<1> HIDE DEF succ
<1>6. /\ DOMAIN old \subseteq all
      /\ \A q \in all \cap DOMAIN succ : succ[q] \subseteq all
  BY <1>2, ClosureIsLeast
<1> HIDE DEF all
<1>7. DOMAIN nodes = all
  BY <1>1, <1>6 DEF Over
<1>8. \A q \in DOMAIN nodes : Discovered(q, Captured(nodes, q)) \subseteq DOMAIN nodes
  BY <1>2, <1>3, <1>4, <1>5, <1>6, <1>7 DEF NodesOK
<1> QED BY <1>8 DEF nodes

\* The definitions executed so far are the first of the order.
LEMMA OrderShape ==
  ASSUME GraphInv
  PROVE  /\ \A i \in 1..loaded : i \in DOMAIN prog.order
         /\ \A i \in 1..loaded, j \in DOMAIN prog.order : j < i => j \in 1..loaded
<1>1. prog.order \in Seq(DOMAIN prog.body) /\ loaded \in 0..Len(prog.order)
  BY DEF GraphInv, WellFormed
<1> DEFINE n == Len(prog.order)
<1>2. DOMAIN prog.order = 1..n /\ n \in Nat /\ loaded \in 0..n
  BY <1>1
<1> HIDE DEF n
<1> QED BY <1>2

\* Nothing is submitted while a class statement runs.
LEMMA ClassLoaded ==
  ASSUME GraphInv, InOrder(prog), prog.submits \cap Loaded # {}, NEW r \in Loaded, Cls(r) # ""
  PROVE  IsClass(ClassOf(r)) /\ Exists(ClassOf(r)) /\ r \in Members(ClassOf(r))
<1>1. r \in DOMAIN prog.body
  BY LoadedInProgram
<1>2. /\ \A i \in 1..loaded : i \in DOMAIN prog.order
      /\ \A i \in 1..loaded, j \in DOMAIN prog.order : j < i => j \in 1..loaded
  BY OrderShape
<1>3. PICK i \in 1..loaded : prog.order[i] \in prog.submits
  BY DEF Loaded
<1>4. ASSUME NEW s \in Members(ClassOf(r)), s # r PROVE s \in Loaded
  <2>1. s \in DOMAIN prog.body /\ ClassOf(s) = ClassOf(r)
    BY DEF Members, ClassOf
  <2>2. Cls(s) = Cls(r)
    BY <2>1 DEF ClassOf
  <2>3. PICK j \in DOMAIN prog.order : prog.order[j] = s
    BY <2>1 DEF InOrder
  <2>4. PICK k \in DOMAIN prog.order : prog.order[k] = r
    BY <1>1 DEF InOrder
  <2>5. i \in DOMAIN prog.order
    BY <1>2, <1>3
  <2>6. j < i
    BY <1>3, <1>4, <2>1, <2>2, <2>3, <2>4, <2>5 DEF InOrder
  <2>7. j \in 1..loaded
    BY <1>2, <1>3, <2>3, <2>6
  <2> QED BY <2>3, <2>7 DEF Loaded
<1>5. IsClass(ClassOf(r))
  BY DEF IsClass, ClassOf
<1>6. r \in Members(ClassOf(r))
  BY <1>1 DEF Members, ClassOf
<1> QED BY <1>4, <1>5, <1>6 DEF Exists

\* A class is defined after its bases.
LEMMA BaseLoaded ==
  ASSUME GraphInv, Analyzable(prog), NEW r \in Loaded, ClassOf(r) \in DOMAIN prog.class,
         NEW h \in prog.class[ClassOf(r)].bases \cap DOMAIN prog.class
  PROVE  Exists(h)
<1>1. /\ \A i \in 1..loaded : i \in DOMAIN prog.order
      /\ \A i \in 1..loaded, j \in DOMAIN prog.order : j < i => j \in 1..loaded
  BY OrderShape
<1>2. PICK i \in 1..loaded : prog.order[i] = r
  BY DEF Loaded
<1>3. ASSUME NEW s \in Members(h) PROVE s \in Loaded
  <2>1. s \in DOMAIN prog.body /\ ClassOf(s) = h
    BY DEF Members, ClassOf
  <2>2. PICK j \in DOMAIN prog.order : prog.order[j] = s
    BY <2>1 DEF Analyzable, InOrder
  <2>3. i \in DOMAIN prog.order /\ InOrder(prog)
    BY <1>1, <1>2 DEF Analyzable
  <2>4. j < i
    BY <1>2, <2>1, <2>2, <2>3 DEF InOrder
  <2>5. j \in 1..loaded
    BY <1>1, <1>2, <2>2, <2>4
  <2> QED BY <2>2, <2>5 DEF Loaded
<1>4. IsClass(h)
  BY DEF Analyzable
<1> QED BY <1>3, <1>4 DEF Exists

\* What the graph of a submission knows.
LEMMA GraphAtSubmission ==
  ASSUME NEW nodes, AtSubmission(nodes)
  PROVE  /\ NodesOK(nodes) /\ Loaded \subseteq DOMAIN prog.body
         /\ prog.traced \cap Loaded \subseteq DOMAIN nodes
         /\ \A e \in rt : e[2] \in DOMAIN nodes
         /\ \A q \in DOMAIN nodes : Discovered(q, Captured(nodes, q)) \subseteq DOMAIN nodes
         /\ \A r \in Loaded : Cls(r) # "" =>
              IsClass(ClassOf(r)) /\ Exists(ClassOf(r)) /\ r \in Members(ClassOf(r))
<1>1. NodesOK(nodes) /\ DOMAIN node \subseteq DOMAIN nodes
  BY RefreshedNodes DEF AtSubmission, GraphInv
<1>2. \A q \in DOMAIN nodes : Discovered(q, Captured(nodes, q)) \subseteq DOMAIN nodes
  BY RefreshedDiscovers DEF AtSubmission, GraphInv
<1>3. \A r \in Loaded : Cls(r) # "" =>
         IsClass(ClassOf(r)) /\ Exists(ClassOf(r)) /\ r \in Members(ClassOf(r))
  BY ClassLoaded DEF AtSubmission, KnownInv, Analyzable
<1> QED BY <1>1, <1>2, <1>3, LoadedInProgram DEF AtSubmission, KnownInv

\* _auto_register_class: all methods of a class that is registered.
LEMMA ClassDiscovered ==
  ASSUME NEW q, NEW src, Analyzable(prog), NEW c, NEW s \in Members(c), s \notin prog.opaque,
         \/ c \in CalledClasses(q, src) \/ c \in ClosureClasses(src)
         \/ \E h \in HooksNamed(q, src) : c \in Subclasses(h)
         \/ \E own \in OwnClass(q) : c \in AttrClasses(own) \cup prog.class[own].bases
  PROVE  s \in Discovered(q, src)
<1> DEFINE C == CalledClasses(q, src) \cup ClosureClasses(src)
                \cup (UNION {Subclasses(h) : h \in HooksNamed(q, src)})
                \cup (UNION {AttrClasses(own) \cup BasesOf(own) : own \in OwnClass(q)})
<1>1. IsFiniteSet(DOMAIN prog.class)
  BY DEF Analyzable
<1>2. ASSUME NEW own PROVE prog.class[own].bases \subseteq BasesOf(own)
  <2> DEFINE succ == [d \in DOMAIN prog.class |-> prog.class[d].bases]
  <2>1. BasesOf(own) = Closure(prog.class[own].bases, succ) /\ IsFiniteSet(DOMAIN succ)
    BY <1>1 DEF BasesOf
  <2> HIDE DEF succ
  <2> QED BY <2>1, ClosureIsLeast
<1>3. c \in C
  <2>1. CASE c \in CalledClasses(q, src) \/ c \in ClosureClasses(src)
    BY <2>1
  <2>2. CASE \E h \in HooksNamed(q, src) : c \in Subclasses(h)
    BY <2>2
  <2>3. CASE \E own \in OwnClass(q) : c \in AttrClasses(own) \cup prog.class[own].bases
    <3>1. PICK own \in OwnClass(q) : c \in AttrClasses(own) \cup prog.class[own].bases
      BY <2>3
    <3>2. c \in AttrClasses(own) \cup BasesOf(own)
      BY <1>2, <3>1
    <3> DEFINE around(x) == AttrClasses(x) \cup BasesOf(x)
    <3>3. UNION {around(x) : x \in OwnClass(q)} \subseteq C
      OBVIOUS
    <3>4. around(own) \subseteq UNION {around(x) : x \in OwnClass(q)} /\ c \in around(own)
      BY <3>2
    <3> HIDE DEF C, around
    <3> QED BY <3>3, <3>4
  <2> QED BY <2>1, <2>2, <2>3
<1>4. C \subseteq AlongWith(C)
  <2> DEFINE succ == [d \in DOMAIN prog.class |->
                        AttrClasses(d) \cup BasesOf(d)
                        \cup (IF prog.class[d].hook THEN Subclasses(d) ELSE {})]
  <2>1. AlongWith(C) = Closure(C, succ) /\ IsFiniteSet(DOMAIN succ)
    BY <1>1 DEF AlongWith
  <2> HIDE DEF succ, C
  <2> QED BY <2>1, ClosureIsLeast
<1>5. c \in AlongWith(C)
  BY <1>3, <1>4
<1>6. \A d \in AlongWith(C) : Members(d) \ prog.opaque \subseteq Discovered(q, src)
  BY Zenon DEF Discovered
<1> HIDE DEF C
<1> QED BY <1>5, <1>6

\* A method that is traced is a node; another one if its class is discovered.
LEMMA MethodKnown ==
  ASSUME NEW nodes, AtSubmission(nodes), NEW q \in DOMAIN nodes, NEW r \in Loaded, Cls(r) # "",
         NEW src, src = Captured(nodes, q), Readable(prog, r),
         r \notin prog.traced =>
           \/ ClassOf(r) \in CalledClasses(q, src) \/ ClassOf(r) \in ClosureClasses(src)
           \/ \E h \in HooksNamed(q, src) : ClassOf(r) \in Subclasses(h)
           \/ \E own \in OwnClass(q) : ClassOf(r) \in AttrClasses(own) \cup prog.class[own].bases
  PROVE  r \in DOMAIN nodes
<1>1. CASE r \in prog.traced
  BY <1>1, GraphAtSubmission
<1>2. CASE r \notin prog.traced
  <2>1. r \notin prog.opaque /\ r \in Members(ClassOf(r)) /\ Analyzable(prog)
    BY <1>2, GraphAtSubmission DEF Readable, AtSubmission, KnownInv
  <2>2. r \in Discovered(q, src)
    BY <1>2, <2>1, ClassDiscovered
  <2> QED BY <2>2, GraphAtSubmission
<1> QED BY <1>1, <1>2

\* A class that the code calls by its name is seen.
LEMMA BuiltSeen ==
  ASSUME NEW q, NEW src, NEW r, IsClass(ClassOf(r)), Exists(ClassOf(r)), Builds(prog, q, src, ClassOf(r))
  PROVE  ClassOf(r) \in CalledClasses(q, src) \/ ClassOf(r) \in ClosureClasses(src)
<1>1. CASE Sees(prog, Mod(q), ClassOf(r)[2], ClassOf(r))
  <2>1. ClassOf(r)[2] \in src.bare
    BY DEF Builds
  <2>2. ClassOf(r) \in Bound(Mod(q), src.bare)
    BY <1>1, <2>1 DEF Bound, Sees
  <2> QED BY <2>2 DEF CalledClasses
<1>2. CASE ClassOf(r) \in src.closure
  BY <1>2 DEF ClosureClasses
<1> QED BY <1>1, <1>2 DEF Builds

\* A method whose class the code calls is a node.
LEMMA KnownFound ==
  ASSUME NEW nodes, AtSubmission(nodes), NEW q \in DOMAIN nodes, NEW r \in Loaded, Cls(r) # "",
         Known(prog, q, Captured(nodes, q), r)
  PROVE  r \in DOMAIN nodes
<1>1. IsClass(ClassOf(r)) /\ Exists(ClassOf(r))
  BY GraphAtSubmission
<1>2. CASE r \in prog.traced
  BY <1>2, GraphAtSubmission
<1>3. CASE r \notin prog.opaque /\ Builds(prog, q, Captured(nodes, q), ClassOf(r))
  BY <1>1, <1>3, BuiltSeen, MethodKnown DEF Readable
<1> QED BY <1>2, <1>3 DEF Known

\* What is defined earlier is there.
LEMMA BeforeLoaded ==
  ASSUME GraphInv, InOrder(prog), NEW q \in Loaded, NEW s \in DOMAIN prog.body, Before(prog, s, q)
  PROVE  s \in Loaded
<1>1. /\ \A i \in 1..loaded : i \in DOMAIN prog.order
      /\ \A i \in 1..loaded, j \in DOMAIN prog.order : j < i => j \in 1..loaded
  BY OrderShape
<1>2. PICK i \in 1..loaded : prog.order[i] = q
  BY DEF Loaded
<1>3. PICK j \in DOMAIN prog.order : prog.order[j] = s
  BY DEF InOrder
<1>4. j < i
  BY <1>1, <1>2, <1>3 DEF Before
<1> QED BY <1>1, <1>2, <1>3, <1>4 DEF Loaded

\* A class that goes along with the one that q is a method of (_inclusion_deps).
LEMMA RelativeFound ==
  ASSUME NEW nodes, AtSubmission(nodes), NEW q \in DOMAIN nodes \cap Loaded, Cls(q) # "",
         NEW r \in Loaded, Cls(r) # "", Readable(prog, r),
         ClassOf(r) \in Relatives(prog, ClassOf(q))
  PROVE  r \in DOMAIN nodes /\ (r = q \/ r \in DependenciesOf(nodes, q))
<1> DEFINE own == ClassOf(q)
           c == ClassOf(r)
           src == Captured(nodes, q)
<1>1. Exists(own) /\ Exists(c) /\ IsClass(c) /\ r \in Members(c)
  BY GraphAtSubmission
<1>2. own \in OwnClass(q)
  BY <1>1 DEF OwnClass, ClassOf, Relatives
<1>3. c \in AttrClasses(own) \cup prog.class[own].bases
  <2>1. CASE c \in prog.class[own].bases
    BY <2>1
  <2>2. ASSUME NEW n \in prog.class[own].attrs, Sees(prog, own[1], n, c) PROVE c \in AttrClasses(own)
    <3>1. c \in Bound(own[1], prog.class[own].attrs)
      BY <1>1, <2>2 DEF Bound, Sees
    <3>2. c # own
      BY DEF Relatives
    <3> QED BY <1>1, <3>1, <3>2 DEF AttrClasses
  <2> QED BY <2>1, <2>2 DEF Relatives
<1>4. r \in DOMAIN nodes
  BY <1>2, <1>3, MethodKnown
<1>5. r \in Included(q, src)
  BY <1>1, <1>2, <1>3 DEF Included
<1> QED BY <1>4, <1>5 DEF DependenciesOf

\* All methods of a class that q takes along.
LEMMA TakenFound ==
  ASSUME NEW nodes, AtSubmission(nodes), NEW q \in DOMAIN nodes \cap Loaded,
         NEW r \in Loaded, Cls(r) # "", Readable(prog, r),
         Takes(prog, q, Captured(nodes, q), ClassOf(r))
  PROVE  r \in DOMAIN nodes /\ (r = q \/ r \in DependenciesOf(nodes, q))
<1> DEFINE c == ClassOf(r)
           src == Captured(nodes, q)
<1>1. Exists(c) /\ IsClass(c) /\ r \in Members(c)
  BY GraphAtSubmission
<1>2. DOMAIN nodes \subseteq DOMAIN prog.body /\ Analyzable(prog) /\ GraphInv
  BY GraphAtSubmission DEF NodesOK, AtSubmission, KnownInv
<1>3. CASE /\ Builds(prog, q, src, c)
           /\ \A s \in DOMAIN prog.body : Nm(s) # c[2] /\ (Cls(s) = c[2] => Nm(s) # "__init__")
  <2>1. c \in CalledClasses(q, src) \/ c \in ClosureClasses(src)
    BY <1>1, <1>3, BuiltSeen
  <2>2. r \in DOMAIN nodes
    BY <2>1, MethodKnown
  <2>3. c[2] = Cls(r) /\ c[2] \in src.bare
    BY <1>3 DEF ClassOf, Builds
  <2>4. {s \in DOMAIN nodes : Nm(s) = c[2]} = {}
    BY <1>2, <1>3
  <2>5. {s \in {x \in DOMAIN nodes : Cls(x) = c[2]} : Nm(s) = "__init__"} = {}
    BY <1>2, <1>3
  <2>6. r \in BareDeps(nodes, q, c[2])
    BY <2>2, <2>3, <2>4, <2>5 DEF BareDeps
  <2>7. r \in Detected(nodes, q, src)
    BY <2>3, <2>6 DEF Detected
  <2> QED BY <2>2, <2>7 DEF DependenciesOf
<1>4. ASSUME c \in DOMAIN prog.class, Cls(q) = "",
             NEW h \in prog.class[c].bases \cap DOMAIN prog.class, prog.class[h].hook,
             NEW n \in src.bare \cup src.names, Sees(prog, Mod(q), n, h)
      PROVE  r \in DOMAIN nodes /\ (r = q \/ r \in DependenciesOf(nodes, q))
  <2>1. Exists(h) /\ IsClass(h)
    BY <1>2, <1>4, BaseLoaded DEF Analyzable
  <2>2. h \in Bound(Mod(q), src.bare \cup src.names)
    BY <1>4, <2>1 DEF Bound, Sees
  <2>3. OwnClass(q) = {}
    <3>1. \A d \in DOMAIN prog.class : d # <<Mod(q), Cls(q)>>
      <4>1. <<Mod(q), Cls(q)>>[2] = ""
        BY <1>4
      <4> QED BY <1>2, <4>1 DEF Analyzable
    <3> QED BY <3>1 DEF OwnClass
  <2>4. h \in HooksNamed(q, src)
    BY <1>4, <2>1, <2>2, <2>3 DEF HooksNamed
  <2>5. c \in Subclasses(h)
    BY <1>1, <1>4 DEF Subclasses
  <2>6. r \in DOMAIN nodes
    BY <2>4, <2>5, MethodKnown
  <2>7. r \in Included(q, src)
    <3>1. c \in UNION {Subclasses(d) : d \in HooksNamed(q, src)}
      BY <2>4, <2>5
    <3> DEFINE kin == (UNION {AttrClasses(own) \cup prog.class[own].bases : own \in OwnClass(q)})
                            \cup (UNION {Subclasses(d) : d \in HooksNamed(q, src)})
    <3>2. Included(q, src) = UNION {Members(d) : d \in kin} /\ c \in kin
      BY <3>1 DEF Included
    <3> HIDE DEF kin
    <3> QED BY <1>1, <3>2
  <2> QED BY <2>6, <2>7 DEF DependenciesOf
<1> QED BY <1>3, <1>4 DEF Takes

\* Of one candidate there is nothing to prefer.
LEMMA PreferOnly ==
  ASSUME NEW nodes, NEW r \in DOMAIN nodes, nodes[r].at \in Nat, NEW m
  PROVE  Prefer(nodes, {r}, m) = r
<1>1. \A among : among = {r} => (CHOOSE x \in among : \A s \in among : nodes[x].at <= nodes[s].at) = r
  <2>1. nodes[r].at <= nodes[r].at
    OBVIOUS
  <2> QED BY <2>1
<1>2. {x \in {r} : Mod(x) = m} = {r} \/ {x \in {r} : Mod(x) = m} = {}
  OBVIOUS
<1> QED BY <1>1, <1>2 DEF Prefer

\* detect_traced_dependencies takes what each form of a call finds.
LEMMA DetectedParts ==
  ASSUME NEW nodes, NEW q, NEW src
  PROVE  /\ \A n \in src.bare : BareDeps(nodes, q, n) \subseteq Detected(nodes, q, src)
         /\ \A n \in src.self : SelfDeps(nodes, q, n) \subseteq Detected(nodes, q, src)
         /\ \A o \in src.obj : ObjDeps(nodes, o[1], o[2]) \subseteq Detected(nodes, q, src)
<1> DEFINE D(o) == ObjDeps(nodes, o[1], o[2])
<1>1. \A n \in src.bare : BareDeps(nodes, q, n) \subseteq Detected(nodes, q, src)
  BY DEF Detected
<1>2. \A n \in src.self : SelfDeps(nodes, q, n) \subseteq Detected(nodes, q, src)
  BY DEF Detected
<1>3. UNION {D(o) : o \in src.obj} \subseteq Detected(nodes, q, src)
  BY DEF Detected
<1>4. \A o \in src.obj : D(o) \subseteq UNION {D(x) : x \in src.obj}
  <2> HIDE DEF D
  <2> QED OBVIOUS
<1> QED BY <1>1, <1>2, <1>3, <1>4

\* A name without namesakes that the code calls means the function.
LEMMA NameFound ==
  ASSUME NEW nodes, AtSubmission(nodes), NEW q \in DOMAIN nodes, NEW r \in Loaded,
         \A s \in DOMAIN nodes : ~Namesakes(r, s), NEW src, src = Captured(nodes, q)
  PROVE  /\ ByName(prog, q, src, r) => r \in DOMAIN nodes /\ r \in Detected(nodes, q, src)
         /\ ByConstructor(prog, q, src, r) => r \in DOMAIN nodes /\ r \in Detected(nodes, q, src)
<1>1. NodesOK(nodes) /\ Loaded \subseteq DOMAIN prog.body /\ Analyzable(prog)
  BY GraphAtSubmission DEF AtSubmission, KnownInv
<1>2. ASSUME ByName(prog, q, src, r) PROVE r \in DOMAIN nodes /\ r \in Detected(nodes, q, src)
  <2>1. r \in DOMAIN nodes
    <3>1. CASE r \in prog.traced
      BY <3>1, GraphAtSubmission
    <3>2. CASE r \notin prog.opaque /\ Sees(prog, Mod(q), Nm(r), r)
      <4>1. ~IsClass(r) /\ Exists(r)
        BY <1>1 DEF Analyzable, Exists
      <4>2. r \in Bound(Mod(q), src.bare)
        BY <1>2, <3>2, <4>1 DEF Bound, Sees, ByName
      <4>3. r \in CalledFunctions(q, src)
        BY <1>2, <3>2, <4>1, <4>2 DEF CalledFunctions, Sees, ByName
      <4>4. r \in Discovered(q, src)
        BY <3>2, <4>3 DEF Discovered
      <4> QED BY <4>4, GraphAtSubmission
    <3> QED BY <1>2, <3>1, <3>2 DEF ByName
  <2>2. {s \in DOMAIN nodes : Nm(s) = Nm(r)} = {r}
    BY <1>2, <2>1 DEF ByName, Namesakes
  <2>3. r \in BareDeps(nodes, q, Nm(r))
    BY <1>1, <2>1, <2>2, PreferOnly DEF BareDeps, NodesOK
  <2> QED BY <1>2, <2>1, <2>3, DetectedParts DEF ByName
<1>3. ASSUME ByConstructor(prog, q, src, r) PROVE r \in DOMAIN nodes /\ r \in Detected(nodes, q, src)
  <2>1. r \in DOMAIN nodes
    BY <1>3, KnownFound DEF ByConstructor
  <2>2. {s \in DOMAIN nodes : Nm(s) = Cls(r)} = {}
    BY <1>1, <1>3 DEF ByConstructor, NodesOK
  <2>3. {s \in {x \in DOMAIN nodes : Cls(x) = Cls(r)} : Nm(s) = "__init__"} = {r}
    BY <1>3, <2>1 DEF ByConstructor, Namesakes
  <2>4. r \in BareDeps(nodes, q, Cls(r))
    BY <1>1, <2>1, <2>2, <2>3, PreferOnly DEF BareDeps, NodesOK
  <2> QED BY <1>3, <2>1, <2>4, DetectedParts DEF ByConstructor
<1> QED BY <1>2, <1>3

\* So does a method that it calls on self, or on another object.
LEMMA MethodFound ==
  ASSUME NEW nodes, AtSubmission(nodes), NEW q \in DOMAIN nodes \cap Loaded, NEW r \in Loaded,
         \A s \in DOMAIN nodes : ~Namesakes(r, s), NEW src, src = Captured(nodes, q)
  PROVE  /\ BySelf(prog, q, src, r) => r \in DOMAIN nodes /\ r \in Detected(nodes, q, src)
         /\ ByAnnotation(prog, q, src, r) => r \in DOMAIN nodes /\ r \in Detected(nodes, q, src)
         /\ ByOnlyMethod(prog, q, src, r) => r \in DOMAIN nodes /\ r \in Detected(nodes, q, src)
<1>1. NodesOK(nodes) /\ Loaded \subseteq DOMAIN prog.body /\ Analyzable(prog)
  BY GraphAtSubmission DEF AtSubmission, KnownInv
<1>2. ASSUME BySelf(prog, q, src, r) PROVE r \in DOMAIN nodes /\ r \in Detected(nodes, q, src)
  <2>1. Cls(r) = Cls(q) /\ Cls(q) # "" /\ Nm(r) \in src.self
    BY <1>2 DEF BySelf, ClassOf
  <2>2. r \in DOMAIN nodes
    <3>1. CASE r \in prog.traced
      BY <3>1, GraphAtSubmission
    <3>2. CASE r \notin prog.opaque /\ ClassOf(q) \in DOMAIN prog.class
      <4>1. Exists(ClassOf(q)) /\ r \in Members(ClassOf(q))
        BY <1>2, <2>1, GraphAtSubmission DEF BySelf
      <4>2. ClassOf(q) \in OwnClass(q)
        BY <3>2, <4>1 DEF OwnClass, ClassOf
      <4>3. r \in CalledMethods(q, src)
        <5> DEFINE own(c) == {m \in Members(c) : Nm(m) \in src.self}
        <5>1. r \in own(ClassOf(q))
          BY <2>1, <4>1
        <5>2. \A c \in OwnClass(q) : own(c) \subseteq CalledMethods(q, src)
          BY DEF CalledMethods
        <5> HIDE DEF own
        <5> QED BY <4>2, <5>1, <5>2
      <4>4. r \in Discovered(q, src)
        BY <3>2, <4>3 DEF Discovered
      <4> QED BY <4>4, GraphAtSubmission
    <3> QED BY <1>2, <3>1, <3>2 DEF BySelf
  <2>3. {s \in DOMAIN nodes : Nm(s) = Nm(r) /\ Cls(s) = Cls(q)} = {r}
    BY <2>1, <2>2 DEF Namesakes
  <2>4. r \in SelfDeps(nodes, q, Nm(r))
    BY <1>1, <2>1, <2>2, <2>3, PreferOnly DEF SelfDeps, NodesOK
  <2> QED BY <2>1, <2>2, <2>4, DetectedParts
<1>3. ASSUME ByAnnotation(prog, q, src, r) PROVE r \in DOMAIN nodes /\ r \in Detected(nodes, q, src)
  <2>1. r \in DOMAIN nodes
    BY <1>3, KnownFound DEF ByAnnotation
  <2> DEFINE typed == {s \in {x \in DOMAIN nodes : Nm(x) = Nm(r) /\ Cls(x) # ""} : Cls(s) = Cls(r)}
  <2>2. typed = {r}
    BY <1>3, <2>1 DEF ByAnnotation, Namesakes
  <2>3. ObjDeps(nodes, Cls(r), Nm(r)) = {x \in typed : \A s \in typed : nodes[s].at <= nodes[x].at}
    BY <1>3 DEF ObjDeps, ByAnnotation
  <2> HIDE DEF typed
  <2>4. nodes[r].at \in Nat
    BY <1>1, <2>1 DEF NodesOK
  <2>5. r \in ObjDeps(nodes, Cls(r), Nm(r))
    BY <2>2, <2>3, <2>4
  <2>6. <<Cls(r), Nm(r)>> \in src.obj
    BY <1>3 DEF ByAnnotation
  <2> DEFINE o == <<Cls(r), Nm(r)>>
  <2>7. r \in ObjDeps(nodes, o[1], o[2])
    BY <2>5
  <2>8. o \in src.obj
    BY <2>6
  <2> HIDE DEF o
  <2> QED BY <2>1, <2>7, <2>8, DetectedParts
<1>4. ASSUME ByOnlyMethod(prog, q, src, r) PROVE r \in DOMAIN nodes /\ r \in Detected(nodes, q, src)
  <2>1. r \in DOMAIN nodes
    BY <1>4, KnownFound DEF ByOnlyMethod
  <2>2. {x \in DOMAIN nodes : Nm(x) = Nm(r) /\ Cls(x) # ""} = {r}
    BY <1>1, <1>4, <2>1 DEF ByOnlyMethod, NodesOK
  <2>3. Cardinality({r}) = 1
    BY FS_Singleton
  <2> DEFINE o == <<"", Nm(r)>>
  <2>4. o[1] = "" /\ o[2] = Nm(r) /\ o \in src.obj
    BY <1>4 DEF ByOnlyMethod
  <2> HIDE DEF o
  <2>5. r \in ObjDeps(nodes, o[1], o[2])
    BY <2>2, <2>3, <2>4 DEF ObjDeps
  <2> QED BY <2>1, <2>4, <2>5, DetectedParts
<1> QED BY <1>2, <1>3, <1>4

\* What a submission carries is closed: whatever form a call has, it is found.
LEMMA UseReached ==
  ASSUME NEW nodes, AtSubmission(nodes), NEW tree, tree \subseteq DOMAIN nodes,
         \A x \in tree : DependenciesOf(nodes, x) \subseteq tree,
         NEW q \in tree \cap Loaded, NEW r \in Loaded, \A s \in DOMAIN nodes : ~Namesakes(r, s),
         Finds(prog, q, Captured(nodes, q), r)
  PROVE  r \in tree
<1> DEFINE src == Captured(nodes, q)
<1>1. r = q \/ r \in DependenciesOf(nodes, q) => r \in tree
  OBVIOUS
<1>2. r \in Detected(nodes, q, src) => r \in tree
  BY <1>1 DEF DependenciesOf
<1>3. CASE ByClosure(src, r)
  BY <1>1, <1>3 DEF DependenciesOf, ByClosure
<1>4. CASE ByName(prog, q, src, r) \/ ByConstructor(prog, q, src, r)
  BY <1>2, <1>4, NameFound
<1>5. CASE BySelf(prog, q, src, r) \/ ByAnnotation(prog, q, src, r) \/ ByOnlyMethod(prog, q, src, r)
  BY <1>2, <1>5, MethodFound
<1>6. CASE ByClass(prog, q, src, r)
  <2>1. Cls(r) # "" /\ Readable(prog, r)
    BY <1>6 DEF ByClass
  <2>2. CASE Cls(q) # "" /\ ClassOf(r) \in Relatives(prog, ClassOf(q))
    BY <1>1, <2>1, <2>2, RelativeFound
  <2>3. CASE Takes(prog, q, src, ClassOf(r))
    BY <1>1, <2>1, <2>3, TakenFound
  <2>4. ASSUME NEW s \in DOMAIN prog.body, Cls(s) # "", Readable(prog, s), Before(prog, s, q),
               Takes(prog, q, src, ClassOf(s)), ClassOf(r) \in Relatives(prog, ClassOf(s))
        PROVE  r \in tree
    <3>1. s \in Loaded
      BY <2>4, BeforeLoaded DEF AtSubmission, KnownInv, Analyzable
    <3>2. s \in DOMAIN nodes /\ (s = q \/ s \in DependenciesOf(nodes, q))
      BY <2>4, <3>1, TakenFound
    <3>3. s \in tree
      BY <3>2
    <3>4. r = s \/ r \in DependenciesOf(nodes, s)
      BY <2>1, <2>4, <3>1, <3>2, RelativeFound
    <3> QED BY <3>3, <3>4
  <2> QED BY <1>6, <2>2, <2>3, <2>4 DEF ByClass
<1> QED BY <1>3, <1>4, <1>5, <1>6 DEF Finds

\* Of a traced function a submission has the version of the process.
LEMMA CurrentAtSubmission ==
  ASSUME NEW nodes, AtSubmission(nodes), NEW q \in DOMAIN nodes, q \in prog.traced
  PROVE  nodes[q].ver = ver[q]
<1>1. \A x \in DOMAIN nodes : IF x \in DOMAIN node THEN nodes[x] = node[x] ELSE nodes[x].ver = ver[x]
  BY RefreshedNodes DEF AtSubmission, GraphInv
<1> QED BY <1>1 DEF AtSubmission, GraphInv

\* What is reached in the graph is reached in the store that is made of it.
LEMMA StoreOfWalk ==
  ASSUME NEW tree, IsFiniteSet(tree), NEW version, NEW deps,
         DOMAIN version = tree, DOMAIN deps = tree, \A q \in tree : deps[q] \subseteq tree,
         NEW f \in tree
  PROVE  LET store == StoreOf(version, deps)
             walked == Walk(store, store.refs[f])
         IN /\ Hash(f, version[f]) \in walked
            /\ \A q \in tree : Hash(q, version[q]) \in walked
                  => \A d \in deps[q] : Hash(d, version[d]) \in walked
<1> DEFINE store == StoreOf(version, deps)
           inner == {q \in tree : deps[q] # {}}
           walked == Walk(store, store.refs[f])
<1>1. /\ store.deps = [h \in {Hash(q, version[q]) : q \in inner} |->
                         {Hash(d, version[d]) : d \in deps[h[1]]}]
      /\ store.refs = [q \in tree |-> Hash(q, version[q])]
  BY DEF StoreOf
<1>2. Closed(store) /\ DOMAIN store.refs = tree
  BY StoreOfClosed
<1> HIDE DEF store
<1>3. store.refs[f] \in store.objects /\ store.refs[f] = Hash(f, version[f])
  BY <1>1, <1>2 DEF Closed
<1>4. /\ Hash(f, version[f]) \in walked
      /\ \A x \in walked \cap DOMAIN store.deps : store.deps[x] \subseteq walked
  BY <1>2, <1>3, WalkStays
<1> HIDE DEF walked
<1>5. ASSUME NEW q \in tree, Hash(q, version[q]) \in walked, NEW d \in deps[q]
      PROVE  Hash(d, version[d]) \in walked
  <2>1. q \in inner /\ Hash(q, version[q])[1] = q
    BY <1>5 DEF Hash
  <2>2. Hash(q, version[q]) \in DOMAIN store.deps
    BY <1>1, <2>1
  <2>3. store.deps[Hash(q, version[q])] = {Hash(x, version[x]) : x \in deps[q]}
    BY <1>1, <2>1, <2>2
  <2> QED BY <1>4, <1>5, <2>2, <2>3
<1> QED BY <1>4, <1>5 DEF walked, store

\* The dependencies of what a submission carries, and that its key has them all.
LEMMA SubtreeShape ==
  ASSUME GraphInv, NEW nodes, NodesOK(nodes), NEW f, Subtree(nodes, f) \subseteq DOMAIN nodes
  PROVE  /\ f \in Subtree(nodes, f)
         /\ \A q \in Subtree(nodes, f) :
              /\ DependenciesOf(nodes, q) \subseteq Subtree(nodes, f)
              /\ \E h \in SubgraphKey(ToStore(nodes, f), f) : h[1] = q
<1> DEFINE succ == [q \in DOMAIN nodes |-> DependenciesOf(nodes, q)]
           tree == Subtree(nodes, f)
           version == [q \in tree |-> nodes[q].ver]
           deps == [q \in tree |-> DependenciesOf(nodes, q)]
           key == SubgraphKey(ToStore(nodes, f), f)
           T == {q \in tree : Hash(q, version[q]) \in key}
<1>1. IsFiniteSet(DOMAIN nodes)
  BY FS_Subset DEF GraphInv, NodesOK, WellFormed
<1>2. DOMAIN succ = DOMAIN nodes /\ \A q \in DOMAIN nodes : succ[q] = DependenciesOf(nodes, q)
  OBVIOUS
<1>3. tree = Closure({f}, succ) /\ tree \subseteq DOMAIN nodes
  BY DEF Subtree
<1>4. /\ ToStore(nodes, f) = StoreOf(version, deps)
      /\ \A q \in tree : deps[q] = DependenciesOf(nodes, q)
      /\ DOMAIN version = tree /\ DOMAIN deps = tree
  BY DEF ToStore
<1> HIDE DEF succ, tree, version, deps
<1>5. f \in tree /\ \A q \in tree \cap DOMAIN succ : succ[q] \subseteq tree
  BY <1>1, <1>2, <1>3, ClosureIsLeast
<1>6. \A q \in tree : DependenciesOf(nodes, q) \subseteq tree
  BY <1>2, <1>3, <1>5
<1>7. IsFiniteSet(tree) /\ \A q \in tree : deps[q] \subseteq tree
  BY <1>1, <1>3, <1>4, <1>6, FS_Subset
<1>8. key = Walk(StoreOf(version, deps), StoreOf(version, deps).refs[f])
  BY <1>4 DEF SubgraphKey
<1> HIDE DEF key
<1>9. /\ Hash(f, version[f]) \in key
      /\ \A q \in tree : Hash(q, version[q]) \in key => \A d \in deps[q] : Hash(d, version[d]) \in key
  BY <1>4, <1>5, <1>7, <1>8, StoreOfWalk
<1>10. {f} \subseteq T
  BY <1>5, <1>9
<1>11. \A q \in T \cap DOMAIN succ : succ[q] \subseteq T
  BY <1>2, <1>3, <1>4, <1>6, <1>9
<1> HIDE DEF T
<1>12. tree \subseteq T
  BY <1>1, <1>2, <1>3, <1>10, <1>11, ClosureIsLeast
<1>13. \A q \in tree : Hash(q, version[q]) \in key /\ Hash(q, version[q])[1] = q
  BY <1>12 DEF T, Hash
<1>14. \A q \in tree : \E h \in key : h[1] = q
  BY <1>13
<1> QED BY <1>5, <1>6, <1>14 DEF tree, key

\* Of an analyzable program, a submission whose names are clear carries all
\* that the process could call.
LEMMA SubmissionComplete ==
  ASSUME NEW nodes, AtSubmission(nodes), NEW f \in prog.submits \cap Loaded,
         Subtree(nodes, f) \subseteq DOMAIN nodes, Unambiguous(nodes, Promised(nodes, f))
  PROVE  Promised(nodes, f) \subseteq Subtree(nodes, f)
<1> DEFINE Called(q) == (Source(q).uses \ Source(q).hidden) \cup {e[2] : e \in {x \in rt : x[1] = q}}
           Now(q) == {r \in Called(q) : r \in Loaded /\ ~Outdated(nodes, r)}
           succ == [q \in {p \in Loaded : ~Outdated(nodes, p)} |-> Now(q)]
           promised == Promised(nodes, f)
           tree == Subtree(nodes, f)
           T == {q \in tree : q \in promised /\ q \in Loaded}
<1>1. /\ GraphInv /\ Analyzable(prog) /\ NodesOK(nodes) /\ Loaded \subseteq DOMAIN prog.body
      /\ \A e \in rt : e[2] \in DOMAIN nodes
  BY GraphAtSubmission DEF AtSubmission, KnownInv
<1>2. /\ f \in tree /\ tree \subseteq DOMAIN nodes
      /\ \A q \in tree : DependenciesOf(nodes, q) \subseteq tree
  BY <1>1, SubtreeShape
<1>3. promised = Closure({f}, succ) /\ IsFiniteSet(DOMAIN succ)
  <2>1. promised = Closure({f}, succ)
    BY DEF Promised
  <2>2. IsFiniteSet(Loaded)
    BY <1>1, FS_Subset DEF GraphInv, WellFormed
  <2>3. IsFiniteSet({p \in Loaded : ~Outdated(nodes, p)})
    BY <2>2, FS_Subset
  <2> QED BY <2>1, <2>3
<1>4. /\ DOMAIN succ = {p \in Loaded : ~Outdated(nodes, p)}
      /\ \A q \in DOMAIN succ : succ[q] = Now(q)
  OBVIOUS
<1> HIDE DEF succ, promised, tree
<1>5. f \in promised /\ \A q \in promised \cap DOMAIN succ : succ[q] \subseteq promised
  BY <1>3, ClosureIsLeast
<1>6. ASSUME NEW q \in DOMAIN nodes, ~Outdated(nodes, q) PROVE Captured(nodes, q) = Source(q)
  <2>1. CASE q \in prog.traced
    BY <2>1, CurrentAtSubmission DEF Captured, Source
  <2>2. CASE q \notin prog.traced
    BY <1>6, <2>2 DEF Captured, Source, Outdated
  <2> QED BY <2>1, <2>2
<1>7. ASSUME NEW q \in T \cap DOMAIN succ, NEW r \in Now(q) PROVE r \in T
  <2>1. /\ r \in Called(q) /\ r \in Loaded /\ r \in promised
        /\ q \in tree /\ q \in Loaded /\ ~Outdated(nodes, q)
    BY <1>4, <1>5, <1>7
  <2>2. CASE r \in {e[2] : e \in {x \in rt : x[1] = q}}
    <3>1. r \in DOMAIN nodes
      BY <1>1, <2>2
    <3>2. r = q \/ r \in DependenciesOf(nodes, q)
      BY <2>2, <3>1 DEF DependenciesOf
    <3> QED BY <1>2, <2>1, <3>2
  <2>3. CASE r \in Source(q).uses \ Source(q).hidden
    <3>1. q \in DOMAIN prog.body /\ r \in DOMAIN prog.body /\ ver[q] \in DOMAIN prog.body[q]
      BY <1>1, <2>1 DEF GraphInv
    <3>2. Captured(nodes, q) = Source(q)
      BY <1>2, <1>6, <2>1
    <3>3. Finds(prog, q, Captured(nodes, q), r)
      BY <1>1, <2>3, <3>1, <3>2 DEF Analyzable, Source
    <3>4. \A s \in DOMAIN nodes : ~Namesakes(r, s)
      BY <2>1 DEF Unambiguous, promised
    <3>5. r \in tree
      BY <1>2, <2>1, <3>3, <3>4, UseReached
    <3> QED BY <2>1, <3>5
  <2> HIDE DEF Now
  <2> QED BY <2>1, <2>2, <2>3
<1>8. {f} \subseteq T
  BY <1>2, <1>5
<1>9. \A q \in T \cap DOMAIN succ : succ[q] \subseteq T
  BY <1>4, <1>7
<1> HIDE DEF T, Now
<1>10. promised \subseteq T
  BY <1>3, <1>8, <1>9, ClosureIsLeast
<1> QED BY <1>10 DEF T, promised, tree

\* The text does not change, so a program stays analyzable.
LEMMA AnalyzableKept ==
  ASSUME Analyzable(prog), TextKept
  PROVE  Analyzable(prog)'
<1>1. ASSUME NEW q, NEW src, NEW r, Finds(prog, q, src, r) PROVE Finds(prog, q, src, r)'
  <2>1. \A n, o : Sees(prog, Mod(q), n, o)' <=> Sees(prog, Mod(q), n, o)
    BY DEF TextKept, Sees
  <2>2. \A c : Relatives(prog, c)' = Relatives(prog, c)
    BY DEF TextKept, Sees, Relatives
  <2>3. \A c : Builds(prog, q, src, c)' <=> Builds(prog, q, src, c)
    BY <2>1 DEF Builds
  <2>4. \A c : Takes(prog, q, src, c)' <=> Takes(prog, q, src, c)
    BY <2>1, <2>3 DEF Takes, TextKept
  <2>5. \A s : /\ Readable(prog, s)' <=> Readable(prog, s)
               /\ Known(prog, q, src, s)' <=> Known(prog, q, src, s)
               /\ Before(prog, s, q)' <=> Before(prog, s, q)
    BY <2>3 DEF Readable, Known, Before, TextKept
  <2>6. ByName(prog, q, src, r) => ByName(prog, q, src, r)'
    BY <2>1 DEF ByName, TextKept
  <2>7. BySelf(prog, q, src, r) => BySelf(prog, q, src, r)'
    BY DEF BySelf, TextKept
  <2>8. /\ ByConstructor(prog, q, src, r) => ByConstructor(prog, q, src, r)'
        /\ ByAnnotation(prog, q, src, r) => ByAnnotation(prog, q, src, r)'
        /\ ByOnlyMethod(prog, q, src, r) => ByOnlyMethod(prog, q, src, r)'
    BY <2>5 DEF ByConstructor, ByAnnotation, ByOnlyMethod, TextKept
  <2>9. ByClass(prog, q, src, r) => ByClass(prog, q, src, r)'
    BY <2>2, <2>4, <2>5 DEF ByClass, TextKept
  <2> QED BY <1>1, <2>6, <2>7, <2>8, <2>9 DEF Finds, ByClosure
<1>2. InOrder(prog)'
  BY DEF TextKept, InOrder, Analyzable
<1> QED BY <1>1, <1>2 DEF Analyzable, TextKept

\* The steps of the client's program keep what the graph knows.
LEMMA ProgramKnown ==
  ASSUME GraphInv, KnownInv, TextKept, Program
  PROVE  KnownInv'
<1>1. Analyzable(prog)'
  BY AnalyzableKept DEF KnownInv
<1>2. CASE Define
  <2> DEFINE q == prog.order[loaded + 1]
  <2>1. q \in DOMAIN prog.body /\ ver[q] \in DOMAIN prog.body[q] /\ loaded \in Nat
    BY <1>2 DEF Define, GraphInv, WellFormed
  <2>2. /\ node' = IF q \in prog.traced THEN Register(q, ver[q]) ELSE node
        /\ loaded' = loaded + 1 /\ rt' = rt
    BY <1>2 DEF Define, traceVars
  <2>3. \A x \in Loaded' : x \in Loaded \/ x = q
    <3>1. \A i \in 1..(loaded + 1) : i \in 1..loaded \/ i = loaded + 1
      BY <2>1
    <3> QED BY <2>2, <3>1 DEF Loaded, TextKept
  <2>4. DOMAIN node \subseteq DOMAIN node' /\ (q \in prog.traced => q \in DOMAIN node')
    BY <2>1, <2>2, GraphGrows
  <2> HIDE DEF q
  <2> QED BY <1>1, <2>2, <2>3, <2>4 DEF KnownInv, TextKept
<1>3. CASE Edit
  <2>1. PICK q \in prog.edits \cap Loaded :
          /\ ver[q] < Len(prog.body[q])
          /\ node' = IF q \in prog.traced THEN Register(q, ver[q] + 1) ELSE node
    BY <1>3 DEF Edit
  <2>2. q \in DOMAIN prog.body /\ ver[q] + 1 \in DOMAIN prog.body[q]
    <3>1. q \in DOMAIN prog.body /\ ver[q] \in DOMAIN prog.body[q]
      BY LoadedInProgram DEF GraphInv
    <3>2. prog.body[q] \in Seq(Range(prog.body[q]))
      BY <3>1 DEF GraphInv, WellFormed
    <3> QED BY <2>1, <3>1, <3>2
  <2>3. DOMAIN node \subseteq DOMAIN node'
    BY <2>1, <2>2, GraphGrows
  <2>4. loaded' = loaded /\ rt' = rt
    BY <1>3 DEF Edit, traceVars
  <2>5. Loaded' = Loaded
    BY <2>4 DEF Loaded, TextKept
  <2> QED BY <1>1, <2>3, <2>4, <2>5 DEF KnownInv, TextKept
<1>4. CASE Restart
  <2>1. loaded' = 0 /\ rt' = {}
    BY <1>4 DEF Restart
  <2>2. Loaded' = {}
    BY <2>1 DEF Loaded
  <2> QED BY <1>1, <2>1, <2>2 DEF KnownInv
<1>5. CASE LocalCall /\ UNCHANGED node
  <2>1. loaded' = loaded /\ node' = node
    BY <1>5 DEF LocalCall
  <2>2. \A e \in rt' : e \in rt \/ e[2] \in prog.traced \cap Loaded
    <3>1. ASSUME NEW c \in Contexts, NEW q \in prog.traced, CallFunction(c, q) \/ MakeGenerator(c, q)
          PROVE  \A e \in rt' : e \in rt \/ e[2] \in prog.traced \cap Loaded
      <4>1. q \in prog.traced \cap Loaded
        BY <3>1 DEF CallFunction, MakeGenerator, MayCall
      <4>2. PICK s : RecordEdge(s, q)
        BY <3>1 DEF CallFunction, MakeGenerator
      <4>3. PICK x : rt' = rt \/ rt' = rt \cup {<<x, q>>}
        BY <4>2 DEF RecordEdge
      <4> QED BY <4>1, <4>3
    <3>2. ASSUME NEW c \in Contexts,
                 \/ \E g \in gens : ResumeGenerator(c, g)
                 \/ Return(c) \/ \E d \in Contexts : Spawn(c, d)
          PROVE  rt' = rt
      BY <3>2 DEF ResumeGenerator, Return, Spawn
    <3> QED BY <1>5, <3>1, <3>2 DEF LocalCall
  <2>3. Loaded' = Loaded
    BY <2>1 DEF Loaded, TextKept
  <2> QED BY <1>1, <2>1, <2>2, <2>3 DEF KnownInv, TextKept
<1> QED BY <1>2, <1>3, <1>4, <1>5 DEF Program

\* So do all others: at most they refresh the graph.
LEMMA NextKnown ==
  ASSUME GraphInv, KnownInv, [Next]_vars
  PROVE  KnownInv'
<1>1. TextKept
  BY ProgramKept
<1>2. ASSUME loaded' = loaded, rt' = rt, node' = Refreshed(node) \/ node' = node PROVE KnownInv'
  <2>1. Loaded' = Loaded
    BY <1>1, <1>2 DEF Loaded, TextKept
  <2>2. DOMAIN node \subseteq DOMAIN node'
    BY <1>2, GraphGrows
  <2> QED BY <1>1, <1>2, <2>1, <2>2, AnalyzableKept DEF KnownInv, TextKept
<1>3. ASSUME Submit \/ Keep
      PROVE  loaded' = loaded /\ rt' = rt /\ (node' = Refreshed(node) \/ node' = node)
  BY <1>3 DEF Submit, Keep, KeepStore, traceVars
<1>4. ASSUME Work \/ ClearCache \/ UNCHANGED vars PROVE loaded' = loaded /\ rt' = rt /\ node' = node
  BY <1>4 DEF Work, Hit, Miss, IsInstalled, PipInstall, Build, ClearCache, vars, graphVars, traceVars
<1> QED BY <1>1, <1>2, <1>3, <1>4, ProgramKnown DEF Next

\* A submission is complete, and stays what it was.
LEMMA SubmitComplete ==
  ASSUME GraphInv, KnownInv, TaskInv, AnalysisComplete, Submit
  PROVE  AnalysisComplete'
<1> DEFINE nodes == Refreshed(node)
<1>1. PICK f \in prog.submits \cap Loaded, args \in prog.args :
        Subtree(nodes, f) \subseteq DOMAIN nodes /\ tasks' = Append(tasks, Submission(nodes, f, args))
  BY DEF Submit
<1> DEFINE task == Submission(nodes, f, args)
<1>2. /\ task.func = f /\ task.store = ToStore(nodes, f)
      /\ task.clear = Unambiguous(nodes, Promised(nodes, f))
      /\ DOMAIN task.sent = Promised(nodes, f)
      /\ tasks' = Append(tasks, task)
  BY <1>1 DEF Submission
<1>3. AtSubmission(nodes) /\ NodesOK(nodes)
  <2>1. AtSubmission(nodes)
    BY DEF AtSubmission
  <2> HIDE DEF nodes
  <2> QED BY <2>1, GraphAtSubmission
<1> HIDE DEF nodes, task
<1>4. task.clear => \A q \in DOMAIN task.sent : \E h \in SubgraphKey(task.store, task.func) : h[1] = q
  <2>1. ASSUME task.clear PROVE Promised(nodes, f) \subseteq Subtree(nodes, f)
    BY <1>1, <1>2, <1>3, <2>1, SubmissionComplete
  <2>2. \A q \in Subtree(nodes, f) : \E h \in SubgraphKey(ToStore(nodes, f), f) : h[1] = q
    BY <1>1, <1>3, SubtreeShape
  <2> QED BY <1>2, <2>1, <2>2
<1>5. PICK n \in Nat : DOMAIN tasks = 1..n /\ tasks = [t \in 1..n |-> tasks[t]]
  BY DEF TaskInv
<1>6. /\ DOMAIN tasks' = 1..(n + 1) /\ tasks'[n + 1] = task
      /\ \A t \in 1..n : tasks'[t] = tasks[t]
  <2>1. tasks \in Seq(Range(tasks) \cup {task}) /\ Len(tasks) = n
    BY <1>5 DEF Range
  <2> QED BY <1>2, <1>5, <2>1
<1>7. \A t \in 1..(n + 1) : t \in 1..n \/ t = n + 1
  OBVIOUS
<1> QED BY <1>4, <1>5, <1>6, <1>7 DEF AnalysisComplete, Key

LEMMA NextComplete ==
  ASSUME GraphInv, KnownInv, TaskInv, AnalysisComplete, [Next]_vars
  PROVE  AnalysisComplete'
<1>1. ASSUME tasks' = tasks PROVE AnalysisComplete'
  BY <1>1 DEF AnalysisComplete, Key
<1>2. ASSUME ClearCache \/ Program \/ Keep \/ UNCHANGED vars PROVE tasks' = tasks
  BY <1>2 DEF ClearCache, Program, Keep, KeepStore, vars, workVars
<1>3. ASSUME Work PROVE AnalysisComplete'
  <2>1. DOMAIN tasks' = DOMAIN tasks /\ TasksKept
    BY <1>3, WorkShape
  <2> QED BY <2>1, KeysStay DEF AnalysisComplete, TasksKept
<1> QED BY <1>1, <1>2, <1>3, SubmitComplete DEF Next

\* Of programs that the analyzer sees through, everything runs as it was sent.
THEOREM AnalyzableProgramsRun ==
  ASSUME \A p \in Programs : Analyzable(p)
  PROVE  Spec => []RunsWhatWasSent
<1>1. Init => KnownInv /\ AnalysisComplete
  <2> SUFFICES ASSUME Init PROVE KnownInv /\ AnalysisComplete
    OBVIOUS
  <2>1. prog \in Programs /\ loaded = 0 /\ rt = {} /\ tasks = <<>> /\ DOMAIN tasks = {}
    BY DEF Init, GraphInit, TraceInit
  <2>2. Loaded = {}
    BY <2>1 DEF Loaded
  <2> QED BY <2>1, <2>2 DEF KnownInv, AnalysisComplete
<1>2. GraphInv /\ TaskInv /\ KnownInv /\ AnalysisComplete /\ [Next]_vars => (KnownInv /\ AnalysisComplete)'
  BY NextKnown, NextComplete
<1>3. Spec => []AnalysisComplete
  BY <1>1, <1>2, GraphInvariant, TaskInvariant, PTL DEF Spec
<1> QED BY <1>3, AnalysisSuffices, PTL

-----------------------------------------------------------------------------
(* Tracing.                                                                *)

\* No traced function is a coroutine: nothing is suspended but generators
\* between their steps.
NoCoroutines(p) == \A q \in p.traced : p.kind[q] \in {"sync", "gen"}

TracedFunctions == prog.traced \cap DOMAIN prog.body

Names(frames) == [i \in 1..Len(frames) |-> frames[i].fn]

\* Only c has frames, and its list, if it has one, is what these are; all
\* other lists are empty.
Runs(c) ==
  /\ \A d \in Contexts \ {c} : ctx[d].frames = <<>>
  /\ \A l \in DOMAIN heap : heap[l] = IF l = ctx[c].list THEN Names(ctx[c].frames) ELSE <<>>
  /\ ctx[c].list = 0 => ctx[c].frames = <<>>
  /\ \A i \in DOMAIN ctx[c].frames : ctx[c].frames[i].list = ctx[c].list

StackInv ==
  /\ NoCoroutines(prog)
  /\ heap \in Seq(Seq(TracedFunctions))
  /\ ctx \in [Contexts -> [live : BOOLEAN, list : 0..Len(heap), spawner : {{}},
                           frames : Seq([fn : TracedFunctions, list : Nat])]]
  /\ \E c \in Contexts : Runs(c)
  /\ \A g \in gens : g = [fn |-> g.fn, maker |-> g.maker, fresh |-> g.fresh] /\ g.fn \in TracedFunctions
  /\ \A e \in rt : e[1] \in DOMAIN prog.body
  /\ EdgesAreCalls

\* The innermost frame.
LEMMA LastFrame ==
  ASSUME NEW frames \in Seq([fn : TracedFunctions, list : Nat]), frames # <<>>
  PROVE  /\ Len(frames) \in 1..Len(frames) /\ Last(frames) = frames[Len(frames)]
         /\ Last(frames).fn \in TracedFunctions /\ Names(frames) # <<>> /\ Last(Names(frames)) = Last(frames).fn
<1>1. Len(frames) \in 1..Len(frames) /\ Last(frames) = frames[Len(frames)]
  BY DEF Last
<1>2. frames[Len(frames)] \in [fn : TracedFunctions, list : Nat]
  <2> DEFINE Frame == [fn : TracedFunctions, list : Nat]
  <2>1. frames \in Seq(Frame)
    OBVIOUS
  <2> HIDE DEF Frame
  <2>2. frames[Len(frames)] \in Frame
    BY <1>1, <2>1
  <2> QED BY <2>2 DEF Frame
<1>3. Len(Names(frames)) = Len(frames) /\ DOMAIN Names(frames) = 1..Len(frames)
  BY DEF Names
<1>4. Names(frames)[Len(frames)] = frames[Len(frames)].fn
  BY <1>1 DEF Names
<1>5. Last(Names(frames)) = Names(frames)[Len(frames)] /\ Names(frames) # <<>>
  <2> DEFINE names == Names(frames)
  <2>1. Last(names) = names[Len(names)]
    BY DEF Last
  <2> HIDE DEF names
  <2> QED BY <1>1, <1>3, <2>1 DEF names
<1> QED BY <1>1, <1>2, <1>4, <1>5

LEMMA NamesAppend ==
  ASSUME NEW frames \in Seq([fn : TracedFunctions, list : Nat]), NEW frame \in [fn : TracedFunctions, list : Nat]
  PROVE  Names(Append(frames, frame)) = Append(Names(frames), frame.fn)
<1> DEFINE after == Append(frames, frame)
           n == Len(frames)
<1>1. /\ Len(after) = n + 1 /\ after[n + 1] = frame /\ \A i \in 1..n : after[i] = frames[i]
      /\ n \in Nat
  OBVIOUS
<1>2. Names(after) = [i \in 1..(n + 1) |-> IF i = n + 1 THEN frame.fn ELSE frames[i].fn]
  <2> HIDE DEF after, n
  <2>1. \A i \in 1..(n + 1) : i = n + 1 \/ i \in 1..n
    BY <1>1
  <2> QED BY <1>1, <2>1 DEF Names
<1>3. Names(frames) \in Seq({frames[i].fn : i \in 1..n}) /\ Len(Names(frames)) = n
  BY DEF Names
<1>4. \A i \in 1..n : Names(frames)[i] = frames[i].fn
  BY DEF Names
<1>5. Append(Names(frames), frame.fn) = [i \in 1..(n + 1) |-> IF i = n + 1 THEN frame.fn ELSE Names(frames)[i]]
  <2> DEFINE names == Names(frames)
  <2>1. names \in Seq({frames[i].fn : i \in 1..n}) /\ Len(names) = n
    BY <1>3
  <2> HIDE DEF names, n
  <2> QED BY <1>1, <2>1 DEF names
<1>6. \A i \in 1..(n + 1) : i = n + 1 \/ i \in 1..n
  BY <1>1
<1> HIDE DEF after, n
<1> QED BY <1>2, <1>4, <1>5, <1>6 DEF after

\* The context that has the thread is the one that runs.
LEMMA ThreadRuns ==
  ASSUME StackInv, NEW c \in Contexts, HasThread(c)
  PROVE  Runs(c)
<1>1. PICK d \in Contexts : Runs(d)
  BY DEF StackInv
<1>2. ASSUME NEW e \in Contexts, e # c PROVE ctx[e].frames = <<>>
  <2>1. ctx[e].frames \in Seq([fn : TracedFunctions, list : Nat])
    BY DEF StackInv
  <2>2. ASSUME ctx[e].frames # <<>> PROVE FALSE
    <3>1. Last(ctx[e].frames).fn \in prog.traced
      BY <2>1, <2>2, LastFrame DEF TracedFunctions
    <3>2. prog.kind[Last(ctx[e].frames).fn] \in {"async", "agen"}
      BY <1>2, <2>2 DEF HasThread
    <3> QED BY <3>1, <3>2 DEF StackInv, NoCoroutines
  <2> QED BY <2>2
<1>3. CASE d = c
  BY <1>1, <1>3
<1>4. CASE d # c
  <2>1. ctx[d].frames = <<>> /\ ctx[c].frames = <<>>
    BY <1>1, <1>2, <1>4 DEF Runs
  <2>2. Names(<<>>) = <<>>
    BY DEF Names
  <2> QED BY <1>1, <1>2, <2>1, <2>2 DEF Runs
<1> QED BY <1>3, <1>4

\* _get_call_stack: the list that a context gets is what its frames are.
LEMMA StackFound ==
  ASSUME StackInv, NEW c \in Contexts, HasThread(c)
  PROVE  LET s == GetStack(c)
         IN /\ s.heap \in Seq(Seq(TracedFunctions)) /\ s.list \in 1..Len(s.heap) /\ Len(heap) <= Len(s.heap)
            /\ \A l \in DOMAIN s.heap : s.heap[l] = IF l = s.list THEN Names(ctx[c].frames) ELSE <<>>
            /\ \A i \in DOMAIN ctx[c].frames : ctx[c].frames[i].list = s.list
<1> DEFINE s == GetStack(c)
<1>1. Runs(c)
  BY ThreadRuns
<1>2. heap \in Seq(Seq(TracedFunctions)) /\ ctx[c].list \in 0..Len(heap)
  BY DEF StackInv
<1>3. CASE ctx[c].list # 0
  <2>1. s.heap = heap /\ s.list = ctx[c].list
    BY <1>3 DEF GetStack
  <2> HIDE DEF s
  <2> QED BY <1>1, <1>2, <1>3, <2>1 DEF Runs, s
<1>4. CASE ctx[c].list = 0
  <2>1. s.heap = Append(heap, <<>>) /\ s.list = Len(heap) + 1
    BY <1>4 DEF GetStack
  <2>2. ctx[c].frames = <<>> /\ Names(<<>>) = <<>> /\ <<>> \in Seq(TracedFunctions)
    BY <1>1, <1>4 DEF Runs, Names
  <2>3. \A l \in DOMAIN heap : heap[l] = <<>>
    BY <1>1, <1>2, <1>4 DEF Runs
  <2> HIDE DEF s
  <2>4. s.heap \in Seq(Seq(TracedFunctions)) /\ Len(s.heap) = Len(heap) + 1
    BY <1>2, <2>1, <2>2
  <2>5. \A l \in DOMAIN s.heap : s.heap[l] = <<>>
    BY <1>2, <2>1, <2>3
  <2> QED BY <1>2, <2>1, <2>2, <2>4, <2>5 DEF s
<1> QED BY <1>3, <1>4

\* _record_edge: the last of that list is the function that makes the call.
LEMMA EdgeIsCall ==
  ASSUME GraphInv, StackInv, NEW c \in Contexts, NEW q, MayCall(c, q), RecordEdge(GetStack(c), q)
  PROVE  \A e \in rt' : e[1] \in DOMAIN prog.body /\ \E v \in DOMAIN prog.body[e[1]] : e[2] \in prog.body[e[1]][v].uses
<1> DEFINE s == GetStack(c)
           frames == ctx[c].frames
           stack == s.heap[s.list]
<1>1. stack = Names(frames) /\ frames \in Seq([fn : TracedFunctions, list : Nat])
  <2>1. HasThread(c)
    BY DEF MayCall
  <2>2. s.list \in DOMAIN s.heap /\ s.heap[s.list] = Names(frames)
    BY <2>1, StackFound
  <2>3. frames \in Seq([fn : TracedFunctions, list : Nat])
    BY DEF StackInv
  <2> QED BY <2>2, <2>3
<1>2. rt' = rt \/ (stack # <<>> /\ rt' = rt \cup {<<Last(stack), q>>})
  BY DEF RecordEdge
<1> HIDE DEF s, stack
<1>3. CASE stack # <<>>
  <2>1. frames # <<>> /\ Last(stack) = Last(frames).fn /\ Last(frames).fn \in TracedFunctions
    <3>1. frames # <<>>
      <4>1. Names(<<>>) = <<>>
        BY DEF Names
      <4> QED BY <1>1, <1>3, <4>1
    <3> QED BY <1>1, <3>1, LastFrame
  <2>2. q \in Source(Last(stack)).uses
    BY <2>1 DEF MayCall, Running
  <2>3. Last(stack) \in DOMAIN prog.body /\ ver[Last(stack)] \in DOMAIN prog.body[Last(stack)]
    BY <2>1 DEF TracedFunctions, GraphInv
  <2>4. \A e \in rt' : e \in rt \/ (e[1] = Last(stack) /\ e[2] = q)
    BY <1>2
  <2> QED BY <2>2, <2>3, <2>4 DEF StackInv, EdgesAreCalls, Source
<1>4. CASE stack = <<>>
  BY <1>2, <1>4 DEF StackInv, EdgesAreCalls
<1> QED BY <1>3, <1>4

\* A frame on top: the list that it is pushed on is what the frames are.
LEMMA PushKeeps ==
  ASSUME StackInv, NEW c \in Contexts, HasThread(c), NEW q \in TracedFunctions, Push(c, q, GetStack(c)),
         NoCoroutines(prog)', TracedFunctions' = TracedFunctions
  PROVE  /\ heap' \in Seq(Seq(TracedFunctions))
         /\ ctx' \in [Contexts -> [live : BOOLEAN, list : 0..Len(heap'), spawner : {{}},
                                   frames : Seq([fn : TracedFunctions, list : Nat])]]
         /\ Runs(c)'
<1> DEFINE s == GetStack(c)
           frames == ctx[c].frames
           frame == [fn |-> q, list |-> s.list]
<1>1. /\ s.heap \in Seq(Seq(TracedFunctions)) /\ s.list \in 1..Len(s.heap) /\ Len(heap) <= Len(s.heap)
      /\ \A l \in DOMAIN s.heap : s.heap[l] = IF l = s.list THEN Names(frames) ELSE <<>>
      /\ \A i \in DOMAIN frames : frames[i].list = s.list
  BY StackFound
<1>2. /\ heap' = [s.heap EXCEPT ![s.list] = Append(@, q)]
      /\ ctx' = [ctx EXCEPT ![c].list = s.list, ![c].frames = Append(@, frame)]
  BY DEF Push
<1>3. /\ ctx \in [Contexts -> [live : BOOLEAN, list : 0..Len(heap), spawner : {{}},
                               frames : Seq([fn : TracedFunctions, list : Nat])]]
      /\ Len(heap) \in Nat
  <2>1. heap \in Seq(Seq(TracedFunctions))
    BY DEF StackInv
  <2>2. Len(heap) \in Nat
    BY <2>1
  <2> QED BY <2>2 DEF StackInv
<1>4. \A d \in Contexts \ {c} : ctx[d].frames = <<>>
  BY ThreadRuns DEF Runs
<1> HIDE DEF s
<1>5. frame \in [fn : TracedFunctions, list : Nat]
  BY <1>1
<1>6. /\ heap' \in Seq(Seq(TracedFunctions)) /\ Len(heap') = Len(s.heap) /\ DOMAIN heap' = DOMAIN s.heap
      /\ heap'[s.list] = Append(Names(frames), q)
      /\ \A l \in DOMAIN heap' : l # s.list => heap'[l] = <<>>
  BY <1>1, <1>2
<1> HIDE DEF frame
<1>7. /\ ctx'[c].list = s.list /\ ctx'[c].frames = Append(frames, frame)
      /\ \A d \in Contexts \ {c} : ctx'[d] = ctx[d]
  BY <1>2, <1>3
<1>8. frames \in Seq([fn : TracedFunctions, list : Nat]) /\ Append(frames, frame) \in Seq([fn : TracedFunctions, list : Nat])
  <2> DEFINE Frame == [fn : TracedFunctions, list : Nat]
  <2>1. frames \in Seq(Frame) /\ frame \in Frame
    BY <1>3, <1>5
  <2> HIDE DEF Frame, frames
  <2>2. Append(frames, frame) \in Seq(Frame)
    BY <2>1
  <2> QED BY <2>1, <2>2 DEF Frame
<1>9. ctx' \in [Contexts -> [live : BOOLEAN, list : 0..Len(heap'), spawner : {{}},
                             frames : Seq([fn : TracedFunctions, list : Nat])]]
  <2>1. 0..Len(heap) \subseteq 0..Len(heap') /\ s.list \in 0..Len(heap')
    BY <1>1, <1>3, <1>6
  <2> QED BY <1>2, <1>3, <1>8, <2>1
<1>10. frame.fn = q /\ frame.list = s.list
  BY DEF frame
<1>11. Names(Append(frames, frame)) = Append(Names(frames), q)
  <2>1. frames \in Seq([fn : TracedFunctions, list : Nat])
    BY <1>8
  <2> HIDE DEF frames
  <2> QED BY <1>5, <1>10, <2>1, NamesAppend
<1>13. \A i \in DOMAIN Append(frames, frame) : Append(frames, frame)[i].list = s.list
  <2>1. frames \in Seq([fn : TracedFunctions, list : Nat]) /\ \A i \in DOMAIN frames : frames[i].list = s.list
    BY <1>1, <1>8
  <2> HIDE DEF frames
  <2> QED BY <1>5, <1>10, <2>1
<1>12. s.list # 0
  BY <1>1
<1> QED BY <1>4, <1>6, <1>7, <1>9, <1>11, <1>12, <1>13 DEF Runs

\* What the steps that trace have in common.
StackTypes(h, contexts) ==
  /\ h \in Seq(Seq(TracedFunctions))
  /\ contexts \in [Contexts -> [live : BOOLEAN, list : 0..Len(h), spawner : {{}},
                                frames : Seq([fn : TracedFunctions, list : Nat])]]

EdgeOK(e) == e[1] \in DOMAIN prog.body /\ \E v \in DOMAIN prog.body[e[1]] : e[2] \in prog.body[e[1]][v].uses

Generator(g) == g = [fn |-> g.fn, maker |-> g.maker, fresh |-> g.fresh] /\ g.fn \in TracedFunctions

LEMMA TextFunctions ==
  ASSUME TextKept
  PROVE  /\ TracedFunctions' = TracedFunctions /\ (NoCoroutines(prog) <=> NoCoroutines(prog)')
         /\ \A e : EdgeOK(e)' <=> EdgeOK(e)
BY DEF TextKept, TracedFunctions, NoCoroutines, EdgeOK

LEMMA StackStep ==
  ASSUME StackInv, TextKept, StackTypes(heap', ctx'), NEW c \in Contexts, Runs(c)',
         \A g \in gens' : Generator(g), \A e \in rt' : EdgeOK(e)
  PROVE  StackInv'
<1>1. TracedFunctions' = TracedFunctions /\ NoCoroutines(prog)'
  BY TextFunctions DEF StackInv
<1>2. \A e \in rt' : EdgeOK(e)'
  BY TextFunctions
<1>3. heap' \in Seq(Seq(TracedFunctions'))
  BY <1>1 DEF StackTypes
<1>4. ctx' \in [Contexts -> [live : BOOLEAN, list : 0..Len(heap'), spawner : {{}},
                             frames : Seq([fn : TracedFunctions', list : Nat])]]
  BY <1>1 DEF StackTypes
<1>5. \A g \in gens' : g = [fn |-> g.fn, maker |-> g.maker, fresh |-> g.fresh] /\ g.fn \in TracedFunctions'
  BY <1>1 DEF Generator
<1>6. (\A e \in rt : e[1] \in DOMAIN prog.body)' /\ EdgesAreCalls'
  BY <1>2 DEF EdgeOK, EdgesAreCalls
<1>7. (\E d \in Contexts : Runs(d))'
  OBVIOUS
<1> QED BY <1>1, <1>3, <1>4, <1>5, <1>6, <1>7 DEF StackInv

LEMMA StackNow ==
  ASSUME StackInv
  PROVE  /\ StackTypes(heap, ctx) /\ \A g \in gens : Generator(g)
         /\ \A e \in rt : EdgeOK(e)
BY DEF StackInv, StackTypes, Generator, EdgeOK, EdgesAreCalls

\* A call of a function: its edge, and its frame on the list.
LEMMA CallKeepsStack ==
  ASSUME GraphInv, StackInv, TextKept, NEW c \in Contexts, NEW q \in prog.traced, CallFunction(c, q)
  PROVE  StackInv'
<1>1. MayCall(c, q) /\ HasThread(c) /\ q \in TracedFunctions
  <2>1. MayCall(c, q) /\ q \in Loaded /\ HasThread(c)
    BY DEF CallFunction, MayCall
  <2>2. Loaded \subseteq DOMAIN prog.body
    BY LoadedInProgram
  <2> QED BY <2>1, <2>2 DEF TracedFunctions
<1>2. prog.kind[q] # "async"
  BY DEF StackInv, NoCoroutines
<1>3. RecordEdge(GetStack(c), q) /\ Push(c, q, GetStack(c)) /\ gens' = gens
  BY <1>2 DEF CallFunction
<1>4. \A e \in rt' : EdgeOK(e)
  BY <1>1, <1>3, EdgeIsCall DEF EdgeOK
<1>5. StackTypes(heap', ctx') /\ Runs(c)'
  <2>1. TracedFunctions' = TracedFunctions /\ NoCoroutines(prog)'
    BY TextFunctions DEF StackInv
  <2> QED BY <1>1, <1>3, <2>1, PushKeeps DEF StackTypes
<1> QED BY <1>3, <1>4, <1>5, StackStep, StackNow

\* A generator is made: its edge, and the list that the context may get.
LEMMA MakeKeepsStack ==
  ASSUME GraphInv, StackInv, TextKept, NEW c \in Contexts, NEW q \in prog.traced, MakeGenerator(c, q)
  PROVE  StackInv'
<1> DEFINE s == GetStack(c)
<1>1. MayCall(c, q) /\ HasThread(c) /\ q \in TracedFunctions
  <2>1. MayCall(c, q) /\ q \in Loaded /\ HasThread(c)
    BY DEF MakeGenerator, MayCall
  <2>2. Loaded \subseteq DOMAIN prog.body
    BY LoadedInProgram
  <2> QED BY <2>1, <2>2 DEF TracedFunctions
<1>2. /\ RecordEdge(s, q) /\ heap' = s.heap /\ ctx' = [ctx EXCEPT ![c].list = s.list]
      /\ gens' = gens \cup {[fn |-> q, maker |-> Running(c), fresh |-> TRUE]}
  BY DEF MakeGenerator
<1>3. \A e \in rt' : EdgeOK(e)
  BY <1>1, <1>2, EdgeIsCall DEF EdgeOK
<1>4. \A g \in gens' : Generator(g)
  <2>1. Generator([fn |-> q, maker |-> Running(c), fresh |-> TRUE])
    BY <1>1 DEF Generator
  <2> QED BY <1>2, <2>1, StackNow
<1>5. /\ s.heap \in Seq(Seq(TracedFunctions)) /\ s.list \in 1..Len(s.heap) /\ Len(heap) <= Len(s.heap)
      /\ \A l \in DOMAIN s.heap : s.heap[l] = IF l = s.list THEN Names(ctx[c].frames) ELSE <<>>
      /\ \A i \in DOMAIN ctx[c].frames : ctx[c].frames[i].list = s.list
  BY <1>1, StackFound
<1>6. /\ ctx \in [Contexts -> [live : BOOLEAN, list : 0..Len(heap), spawner : {{}},
                               frames : Seq([fn : TracedFunctions, list : Nat])]]
      /\ Len(heap) \in Nat
  <2>1. heap \in Seq(Seq(TracedFunctions))
    BY DEF StackInv
  <2>2. Len(heap) \in Nat
    BY <2>1
  <2> QED BY <2>2 DEF StackInv
<1>7. \A d \in Contexts \ {c} : ctx[d].frames = <<>>
  BY <1>1, ThreadRuns DEF Runs
<1> HIDE DEF s
<1>8. StackTypes(heap', ctx')
  <2>1. 0..Len(heap) \subseteq 0..Len(s.heap) /\ s.list \in 0..Len(s.heap)
    BY <1>5, <1>6
  <2> QED BY <1>2, <1>5, <1>6, <2>1 DEF StackTypes
<1>9. /\ ctx'[c].list = s.list /\ ctx'[c].frames = ctx[c].frames
      /\ \A d \in Contexts \ {c} : ctx'[d] = ctx[d]
  BY <1>2, <1>6
<1>10. s.list # 0
  BY <1>5
<1>11. Runs(c)'
  BY <1>2, <1>5, <1>7, <1>9, <1>10 DEF Runs
<1> QED BY <1>3, <1>4, <1>8, <1>11, StackStep

\* A step of a generator: its frame on the list.
LEMMA ResumeKeepsStack ==
  ASSUME StackInv, TextKept, NEW c \in Contexts, NEW g \in gens, ResumeGenerator(c, g)
  PROVE  StackInv'
<1>1. Generator(g) /\ prog.kind[g.fn] # "agen"
  <2>1. Generator(g)
    BY StackNow
  <2>2. g.fn \in prog.traced
    BY <2>1 DEF Generator, TracedFunctions
  <2> QED BY <2>1, <2>2 DEF StackInv, NoCoroutines
<1>2. /\ HasThread(c) /\ Push(c, g.fn, GetStack(c)) /\ rt' = rt
      /\ gens' = (gens \ {g}) \cup {[g EXCEPT !.fresh = FALSE]}
  BY <1>1 DEF ResumeGenerator
<1>3. \A h \in gens' : Generator(h)
  <2>1. Generator([g EXCEPT !.fresh = FALSE])
    <3> DEFINE fn == g.fn
               maker == g.maker
               fresh == g.fresh
    <3>1. g = [fn |-> fn, maker |-> maker, fresh |-> fresh] /\ fn \in TracedFunctions
      BY <1>1 DEF Generator
    <3> HIDE DEF fn, maker, fresh
    <3>5. ASSUME NEW a, NEW b, NEW d, NEW e
          PROVE  [[fn |-> a, maker |-> b, fresh |-> d] EXCEPT !.fresh = e]
                   = [fn |-> a, maker |-> b, fresh |-> e]
      OBVIOUS
    <3>2. [g EXCEPT !.fresh = FALSE] = [fn |-> fn, maker |-> maker, fresh |-> FALSE]
      BY <3>1, <3>5, Zenon
    <3> DEFINE next == [fn |-> fn, maker |-> maker, fresh |-> FALSE]
    <3>3. next = [fn |-> next.fn, maker |-> next.maker, fresh |-> next.fresh] /\ next.fn = fn
      OBVIOUS
    <3> HIDE DEF next
    <3>4. Generator(next)
      BY <3>1, <3>3 DEF Generator
    <3> QED BY <3>2, <3>4 DEF next
  <2> QED BY <1>2, <2>1, StackNow
<1>4. StackTypes(heap', ctx') /\ Runs(c)'
  <2>1. TracedFunctions' = TracedFunctions /\ NoCoroutines(prog)'
    BY TextFunctions DEF StackInv
  <2>2. g.fn \in TracedFunctions
    BY <1>1 DEF Generator
  <2> QED BY <1>2, <2>1, <2>2, PushKeeps DEF StackTypes
<1> QED BY <1>2, <1>3, <1>4, StackStep, StackNow

LEMMA NamesFront ==
  ASSUME NEW frames \in Seq([fn : TracedFunctions, list : Nat]), frames # <<>>
  PROVE  /\ Front(frames) \in Seq([fn : TracedFunctions, list : Nat])
         /\ \A i \in DOMAIN Front(frames) : i \in DOMAIN frames /\ Front(frames)[i] = frames[i]
         /\ Names(Front(frames)) = Front(Names(frames))
<1> DEFINE Frame == [fn : TracedFunctions, list : Nat]
           front == Front(frames)
           n == Len(frames) - 1
<1>1. frames \in Seq(Frame) /\ n \in Nat /\ n + 1 = Len(frames) /\ front = SubSeq(frames, 1, n)
  BY DEF Front
<1> HIDE DEF Frame, front, n
<1>2. /\ front \in Seq(Frame) /\ Len(front) = n
      /\ \A i \in 1..n : i \in DOMAIN frames /\ front[i] = frames[i]
  BY <1>1
<1>3. Names(front) = [i \in 1..n |-> frames[i].fn]
  BY <1>2 DEF Names
<1>4. Front(Names(frames)) = [i \in 1..n |-> frames[i].fn]
  <2> DEFINE names == Names(frames)
  <2>1. names = [i \in 1..(n + 1) |-> frames[i].fn]
    BY <1>1 DEF Names
  <2> DEFINE fns == {frames[i].fn : i \in 1..(n + 1)}
  <2>2. names \in [1..(n + 1) -> fns]
    BY <2>1
  <2>5. n \in Nat
    BY <1>1
  <2> HIDE DEF names, fns
  <2>6. names \in Seq(fns) /\ Len(names) = n + 1
    BY <2>2, <2>5
  <2>3. Front(names) = SubSeq(names, 1, n)
    BY <2>5, <2>6 DEF Front
  <2>4. SubSeq(names, 1, n) = [i \in 1..n |-> names[i]]
    BY <2>5, <2>6
  <2>7. \A i \in 1..n : names[i] = frames[i].fn
    BY <2>1, <2>5
  <2> QED BY <2>3, <2>4, <2>7 DEF names
<1>5. DOMAIN front = 1..n
  BY <1>2
<1> QED BY <1>2, <1>3, <1>4, <1>5 DEF front, Frame

\* A frame ends: it is the last of the list that it was pushed on.
LEMMA ReturnKeepsStack ==
  ASSUME StackInv, TextKept, NEW c \in Contexts, Return(c)
  PROVE  StackInv'
<1> DEFINE frames == ctx[c].frames
           list == ctx[c].list
<1>1. HasThread(c) /\ frames # <<>> /\ gens' = gens /\ rt' = rt
  BY DEF Return
<1>2. Runs(c)
  BY <1>1, ThreadRuns
<1>3. /\ heap \in Seq(Seq(TracedFunctions)) /\ frames \in Seq([fn : TracedFunctions, list : Nat])
      /\ list \in 1..Len(heap)
  <2>1. heap \in Seq(Seq(TracedFunctions)) /\ frames \in Seq([fn : TracedFunctions, list : Nat]) /\ list \in 0..Len(heap)
    BY DEF StackInv
  <2>2. list # 0
    BY <1>1, <1>2 DEF Runs
  <2>3. Len(heap) \in Nat
    BY <2>1
  <2> HIDE DEF list, frames
  <2> QED BY <2>1, <2>2, <2>3
<1>4. Last(frames).list = list
  <2>1. Len(frames) \in DOMAIN frames /\ Last(frames) = frames[Len(frames)]
    <3>1. frames # <<>> /\ frames \in Seq([fn : TracedFunctions, list : Nat])
      BY <1>1, <1>3
    <3> HIDE DEF frames
    <3>2. DOMAIN frames = 1..Len(frames)
      BY <3>1
    <3> QED BY <3>1, <3>2, LastFrame
  <2> QED BY <1>2, <2>1 DEF Runs
<1>5. /\ heap' = [heap EXCEPT ![list] = Front(@)]
      /\ ctx' = [ctx EXCEPT ![c].frames = Front(@)]
  BY <1>4 DEF Return
<1>6. heap[list] = Names(frames) /\ \A l \in DOMAIN heap : l # list => heap[l] = <<>>
  BY <1>2, <1>3 DEF Runs
<1>7. /\ Front(frames) \in Seq([fn : TracedFunctions, list : Nat])
      /\ \A i \in DOMAIN Front(frames) : Front(frames)[i].list = list
      /\ Names(Front(frames)) = Front(Names(frames))
  <2>1. /\ Front(frames) \in Seq([fn : TracedFunctions, list : Nat])
        /\ \A i \in DOMAIN Front(frames) : i \in DOMAIN frames /\ Front(frames)[i] = frames[i]
        /\ Names(Front(frames)) = Front(Names(frames))
    <3> HIDE DEF frames
    <3> QED BY <1>1, <1>3, NamesFront
  <2> QED BY <1>2, <2>1 DEF Runs
<1>8. Front(Names(frames)) \in Seq(TracedFunctions)
  <2> DEFINE front == Front(frames)
  <2>1. front \in Seq([fn : TracedFunctions, list : Nat])
    BY <1>7
  <2> HIDE DEF front
  <2>2. \A i \in 1..Len(front) : front[i].fn \in TracedFunctions
    <3> DEFINE Frame == [fn : TracedFunctions, list : Nat]
    <3>1. \A x \in Frame : x.fn \in TracedFunctions
      OBVIOUS
    <3>2. front \in Seq(Frame)
      BY <2>1
    <3> HIDE DEF Frame
    <3>3. \A i \in 1..Len(front) : front[i] \in Frame
      BY <3>2
    <3> QED BY <3>1, <3>3
  <2>3. Names(front) \in Seq(TracedFunctions)
    <3>1. Len(front) \in Nat
      BY <2>1
    <3>2. Names(front) \in [1..Len(front) -> TracedFunctions]
      BY <2>2 DEF Names
    <3> QED BY <3>1, <3>2
  <2> QED BY <1>7, <2>3 DEF front
<1> HIDE DEF list, frames
<1>9. /\ heap' \in Seq(Seq(TracedFunctions)) /\ Len(heap') = Len(heap) /\ DOMAIN heap' = DOMAIN heap
      /\ heap'[list] = Names(Front(frames))
      /\ \A l \in DOMAIN heap' : l # list => heap'[l] = <<>>
  BY <1>3, <1>5, <1>6, <1>7, <1>8
<1>10. /\ ctx'[c].list = list /\ ctx'[c].frames = Front(frames)
       /\ \A d \in Contexts \ {c} : ctx'[d] = ctx[d]
  BY <1>5 DEF StackInv, frames, list
<1>11. StackTypes(heap', ctx')
  BY <1>5, <1>7, <1>9 DEF StackTypes, StackInv, frames
<1>12. list # 0
  BY <1>3
<1>13. Runs(c)'
  BY <1>2, <1>7, <1>9, <1>10, <1>12 DEF Runs
<1> QED BY <1>1, <1>11, <1>13, StackStep, StackNow

\* A task is created while no function runs: its context shares an empty list.
LEMMA SpawnKeepsStack ==
  ASSUME StackInv, TextKept, NEW c \in Contexts, NEW d \in Contexts, Spawn(c, d)
  PROVE  StackInv'
<1>1. /\ HasThread(c) /\ c # d /\ heap' = heap /\ gens' = gens /\ rt' = rt
      /\ ctx' = [ctx EXCEPT ![d] = [live |-> TRUE, list |-> ctx[c].list, frames |-> <<>>,
                                    spawner |-> Running(c)]]
  BY DEF Spawn, HasThread
<1>2. Runs(c)
  BY <1>1, ThreadRuns
<1>3. ctx[c].frames = <<>>
  <2> SUFFICES ASSUME ctx[c].frames # <<>> PROVE FALSE
    OBVIOUS
  <2>1. ctx[c].frames \in Seq([fn : TracedFunctions, list : Nat])
    BY DEF StackInv
  <2>2. Last(ctx[c].frames).fn \in TracedFunctions
    BY <2>1, LastFrame
  <2>3. prog.kind[Last(ctx[c].frames).fn] \in {"async", "agen"}
    BY DEF Spawn, Running
  <2> QED BY <2>2, <2>3 DEF TracedFunctions, StackInv, NoCoroutines
<1>4. Running(c) = {}
  BY <1>3 DEF Running, StackInv
<1>5. ctx'[c] = ctx[c] /\ \A e \in Contexts \ {c} : ctx'[e].frames = <<>>
  BY <1>1, <1>2 DEF StackInv, Runs
<1>6. StackTypes(heap', ctx')
  <2>1. <<>> \in Seq([fn : TracedFunctions, list : Nat])
    OBVIOUS
  <2> QED BY <1>1, <1>4, <2>1 DEF StackInv, StackTypes
<1>7. Runs(c)'
  BY <1>1, <1>2, <1>5 DEF Runs
<1> QED BY <1>1, <1>6, <1>7, StackStep, StackNow

\* What does not trace leaves the lists as they are.
LEMMA StackFrame ==
  ASSUME StackInv, TextKept, UNCHANGED traceVars
  PROVE  StackInv'
<1>1. PICK c \in Contexts : Runs(c)
  BY DEF StackInv
<1>2. heap' = heap /\ ctx' = ctx /\ gens' = gens /\ rt' = rt
  BY DEF traceVars
<1>3. Runs(c)'
  BY <1>1, <1>2 DEF Runs
<1> QED BY <1>2, <1>3, StackStep, StackNow

LEMMA FreshStack == NoCoroutines(prog) /\ TraceInit => StackInv
<1> SUFFICES ASSUME NoCoroutines(prog), TraceInit PROVE StackInv
  OBVIOUS
<1>1. heap = <<>> /\ gens = {} /\ rt = {} /\ ctx = [c \in Contexts |-> [NoContext EXCEPT !.live = (c = 1)]]
  BY DEF TraceInit
<1>2. ctx = [c \in Contexts |-> [live |-> (c = 1), list |-> 0, frames |-> <<>>, spawner |-> {}]]
  <2>1. \A c \in Contexts : [NoContext EXCEPT !.live = (c = 1)]
                           = [live |-> (c = 1), list |-> 0, frames |-> <<>>, spawner |-> {}]
    BY Z3 DEF NoContext
  <2> QED BY <1>1, <2>1
<1>3. Len(heap) = 0 /\ DOMAIN heap = {} /\ heap \in Seq(Seq(TracedFunctions))
  BY <1>1
<1>4. \A c \in Contexts : ctx[c].frames = <<>> /\ ctx[c].list = 0
  BY <1>2
<1>5. ctx \in [Contexts -> [live : BOOLEAN, list : 0..Len(heap), spawner : {{}},
                            frames : Seq([fn : TracedFunctions, list : Nat])]]
  <2>1. <<>> \in Seq([fn : TracedFunctions, list : Nat]) /\ 0 \in 0..Len(heap)
    BY <1>3
  <2> QED BY <1>2, <2>1
<1>6. 1 \in Contexts /\ Runs(1)
  <2>1. DOMAIN <<>> = {}
    OBVIOUS
  <2> QED BY <1>3, <1>4, <2>1 DEF Runs, Contexts
<1> QED BY <1>1, <1>3, <1>5, <1>6 DEF StackInv, EdgesAreCalls

LEMMA NextStack ==
  ASSUME GraphInv, StackInv, [Next]_vars
  PROVE  StackInv'
<1>1. TextKept
  BY ProgramKept
<1>2. ASSUME LocalCall PROVE StackInv'
  BY <1>1, <1>2, CallKeepsStack, MakeKeepsStack, ResumeKeepsStack, ReturnKeepsStack, SpawnKeepsStack
     DEF LocalCall
<1>3. ASSUME Restart PROVE StackInv'
  <2>1. TraceInit' /\ NoCoroutines(prog)'
    BY <1>1, <1>3, TextFunctions DEF Restart, TraceInit, StackInv
  <2>2. (NoCoroutines(prog) /\ TraceInit => StackInv)'
    BY FreshStack, PTL
  <2> QED BY <2>1, <2>2
<1>4. ASSUME Define \/ Edit \/ Submit \/ Work \/ ClearCache \/ Keep \/ UNCHANGED vars PROVE UNCHANGED traceVars
  BY <1>4 DEF Define, Edit, Submit, Work, Hit, Miss, IsInstalled, PipInstall, Build, ClearCache, Keep,
     KeepStore, vars, graphVars, traceVars
<1> QED BY <1>1, <1>2, <1>3, <1>4, StackFrame DEF Next, Program

\* In a program whose traced functions are no coroutines, every edge that the
\* tracing records is a call that some version of the caller's code makes, over
\* generators, tasks that share a list, edits and restarts; of programs with
\* coroutines the run on stale lists shows that it is not so.
THEOREM TracedCallsAreCalls == Spec => [](NoCoroutines(prog) => EdgesAreCalls)
<1> DEFINE Inv == NoCoroutines(prog) => StackInv
<1>1. Init => Inv
  BY FreshStack DEF Init, GraphInit
<1>2. GraphInv /\ Inv /\ [Next]_vars => Inv'
  <2> SUFFICES ASSUME GraphInv, Inv, [Next]_vars, NoCoroutines(prog)' PROVE StackInv'
    OBVIOUS
  <2>1. NoCoroutines(prog)
    BY ProgramKept, TextFunctions
  <2> QED BY <2>1, NextStack
<1>3. Inv => (NoCoroutines(prog) => EdgesAreCalls)
  BY DEF StackInv
<1> QED BY <1>1, <1>2, <1>3, GraphInvariant, PTL DEF Spec

=============================================================================
