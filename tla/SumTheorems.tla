---------------------------- MODULE SumTheorems ----------------------------
(***************************************************************************)
(* What SumFunction of the community modules computes on a finite domain.  *)
(*                                                                         *)
(* Induction over the subsets of the domain is done with a smallest        *)
(* counterexample (WFMin), which needs no theorem about predicates.        *)
(***************************************************************************)
EXTENDS Integers, FiniteSets, Functions, FiniteSetTheorems, WellFoundedInduction, TLAPS

\* The element that a fold takes from a set next.
Pick(s) == CHOOSE x \in s : TRUE

\* One unfolding of the recursion that defines the sum of f, over a table g of the sums
\* of smaller subsets.
SumStep(f, g, s) == IF s = {} THEN 0 ELSE f[Pick(s)] + g[s \ {Pick(s)}]

\* g has the sum of f over every subset of S.
IsSumTable(g, f, S) == g \in [SUBSET S -> Int] /\ \A s \in SUBSET S : g[s] = SumStep(f, g, s)

\* A nonempty set of naturals has a least element.
LEMMA LeastNatural ==
    ASSUME NEW T \in SUBSET Nat, T # {}
    PROVE  \E n \in T : \A m \in T : n <= m
<1>1. \E n \in T : \A m \in T : ~(<<m, n>> \in OpToRel(<, Nat))
  BY NatLessThanWellFounded, WFMin, Zenon
<1>2. PICK n \in T : \A m \in T : ~(<<m, n>> \in {ss \in Nat \X Nat : ss[1] < ss[2]})
  BY <1>1, Zenon DEF OpToRel
<1>3. ASSUME NEW m \in T PROVE n <= m
  <2>1. ~(<<m, n>> \in {ss \in Nat \X Nat : ss[1] < ss[2]})
    BY <1>2
  <2> QED BY <2>1
<1> QED BY <1>3

\* A nonempty bounded set of naturals has a greatest element.
LEMMA GreatestNatural ==
    ASSUME NEW n \in Nat, NEW S \in SUBSET (0..n), S # {}
    PROVE  \E x \in S : \A y \in S : y <= x
<1> DEFINE R == {k \in Nat : n - k \in S}
<1>1. R \in SUBSET Nat /\ R # {}
  <2>1. PICK x \in S : TRUE
    OBVIOUS
  <2>2. x \in 0..n
    OBVIOUS
  <2>3. n - x \in Nat /\ n - (n - x) = x
    BY <2>2
  <2>4. n - x \in R
    BY <2>1, <2>3
  <2> QED BY <2>4
<1>2. PICK k \in R : \A m \in R : k <= m
  <2> HIDE DEF R
  <2> QED BY <1>1, LeastNatural
<1>3. ASSUME NEW y \in S PROVE y <= n - k
  <2>1. y \in 0..n
    OBVIOUS
  <2>2. n - y \in Nat /\ n - (n - y) = y
    BY <2>1
  <2>3. n - y \in R
    BY <2>2
  <2>4. k <= n - y /\ k \in Nat
    BY <1>2, <2>3
  <2> HIDE DEF R
  <2> QED BY <2>1, <2>4
<1> QED BY <1>2, <1>3

LEMMA PickIn == ASSUME NEW s, s # {} PROVE Pick(s) \in s
BY DEF Pick

LEMMA SmallestCounterexample ==
    ASSUME NEW S, IsFiniteSet(S), NEW Bad \in SUBSET SUBSET S, Bad # {}
    PROVE  \E s \in Bad : \A t \in SUBSET s : t # s => t \notin Bad
<1>1. FiniteSubsetsOf(S) = SUBSET S
  BY FS_FiniteSubsetsOfFinite
<1>2. IsWellFoundedOn(StrictSubsetOrdering(S), SUBSET S)
  BY <1>1, FS_StrictSubsetOrderingWellFounded
<1>3. PICK s \in Bad : \A t \in Bad : ~(<<t, s>> \in StrictSubsetOrdering(S))
  BY <1>2, WFMin
<1>4. ASSUME NEW t \in SUBSET s, t # s PROVE t \notin Bad
  <2>1. t \in SUBSET S /\ s \in SUBSET S
    OBVIOUS
  <2>2. <<t, s>> \in StrictSubsetOrdering(S)
    BY <1>4, <2>1 DEF StrictSubsetOrdering
  <2> QED BY <1>3, <2>2
<1> QED BY <1>3, <1>4

\* Two tables of the same function are equal.
LEMMA SumTableUnique ==
    ASSUME NEW S, IsFiniteSet(S), NEW f, NEW g, NEW h,
           \A s \in SUBSET S : g[s] = SumStep(f, g, s),
           \A s \in SUBSET S : h[s] = SumStep(f, h, s)
    PROVE  \A s \in SUBSET S : g[s] = h[s]
<1> DEFINE Bad == {s \in SUBSET S : g[s] # h[s]}
<1> SUFFICES ASSUME Bad # {} PROVE FALSE
  OBVIOUS
<1>1. PICK s \in Bad : \A t \in SUBSET s : t # s => t \notin Bad
  BY SmallestCounterexample
<1>2. s # {}
  BY DEF SumStep
<1>3. Pick(s) \in s
  BY <1>2, PickIn
<1>4. s \ {Pick(s)} \in SUBSET s /\ s \ {Pick(s)} # s
  BY <1>3
<1>5. g[s \ {Pick(s)}] = h[s \ {Pick(s)}]
  BY <1>1, <1>4
<1> QED BY <1>2, <1>5 DEF SumStep

\* There is such a table.
LEMMA SumTableExists ==
    ASSUME NEW S, IsFiniteSet(S), NEW f \in [S -> Int]
    PROVE  \E g : IsSumTable(g, f, S)
<1> DEFINE Good(n) == \E g \in [SUBSET S -> Int] :
                        \A s \in SUBSET S : Cardinality(s) < n => g[s] = SumStep(f, g, s)
           Bad == {n \in Nat : ~Good(n)}
<1>1. \A s \in SUBSET S : Cardinality(s) \in Nat /\ IsFiniteSet(s)
  BY FS_Subset, FS_CardinalityType
<1>2. Bad = {}
  <2> SUFFICES ASSUME Bad # {} PROVE FALSE
    OBVIOUS
  <2>1. PICK n \in Bad : \A m \in Bad : n <= m
    <3> HIDE DEF Bad
    <3> Bad \subseteq Nat BY DEF Bad
    <3> QED BY LeastNatural
  <2>2. n # 0
    <3> DEFINE zero == [s \in SUBSET S |-> 0]
    <3>1. zero \in [SUBSET S -> Int]
      OBVIOUS
    <3>2. \A s \in SUBSET S : Cardinality(s) < 0 => zero[s] = SumStep(f, zero, s)
      <4> HIDE DEF zero
      <4> QED BY <1>1
    <3> HIDE DEF zero
    <3>3. Good(0)
      BY <3>1, <3>2
    <3> QED BY <3>3
  <2>3. n - 1 \in Nat /\ n \in Nat
    BY <2>2
  <2>4. n - 1 \notin Bad
    <3> HIDE DEF Bad
    <3> QED BY <2>1, <2>3
  <2>5. Good(n - 1)
    BY <2>3, <2>4
  <2>6. PICK g \in [SUBSET S -> Int] :
            \A s \in SUBSET S : Cardinality(s) < n - 1 => g[s] = SumStep(f, g, s)
    BY <2>5
  <2> DEFINE h == [s \in SUBSET S |-> SumStep(f, g, s)]
  <2>7. ASSUME NEW s \in SUBSET S, s # {}
        PROVE  /\ Pick(s) \in S /\ s \ {Pick(s)} \in SUBSET S
               /\ Cardinality(s \ {Pick(s)}) = Cardinality(s) - 1
    BY <1>1, <2>7, PickIn, FS_RemoveElement
  <2>8. h \in [SUBSET S -> Int]
    <3>1. ASSUME NEW s \in SUBSET S PROVE SumStep(f, g, s) \in Int
      <4>1. CASE s = {}
        BY <4>1 DEF SumStep
      <4>2. CASE s # {}
        <5>1. Pick(s) \in S /\ s \ {Pick(s)} \in SUBSET S
          BY <2>7, <4>2
        <5>2. f[Pick(s)] \in Int /\ g[s \ {Pick(s)}] \in Int
          BY <5>1
        <5> QED BY <4>2, <5>2 DEF SumStep
      <4> QED BY <4>1, <4>2
    <3> QED BY <3>1
  <2>9. ASSUME NEW s \in SUBSET S, Cardinality(s) < n PROVE h[s] = SumStep(f, h, s)
    <3>1. CASE s = {}
      BY <3>1 DEF SumStep
    <3>2. CASE s # {}
      <4> DEFINE t == s \ {Pick(s)}
      <4>1. t \in SUBSET S /\ Cardinality(t) < n - 1
        BY <1>1, <2>3, <2>7, <2>9, <3>2
      <4>2. g[t] = h[t]
        BY <2>6, <4>1
      <4> QED BY <3>2, <4>2 DEF SumStep
    <3> QED BY <3>1, <3>2
  <2>10. Good(n)
    BY <2>8, <2>9
  <2> QED BY <2>10
<1>3. Good(Cardinality(S) + 1)
  <2>1. Cardinality(S) + 1 \in Nat
    BY <1>1
  <2>2. \A n \in Nat : Good(n)
    BY <1>2
  <2> HIDE DEF Good
  <2> QED BY <2>1, <2>2
<1>4. PICK g \in [SUBSET S -> Int] :
        \A s \in SUBSET S : Cardinality(s) < Cardinality(S) + 1 => g[s] = SumStep(f, g, s)
  BY <1>3
<1>5. \A s \in SUBSET S : Cardinality(s) < Cardinality(S) + 1
  BY <1>1, FS_Subset
<1> QED BY <1>4, <1>5 DEF IsSumTable

\* The sum of a function is what any table of its sums says.
LEMMA SumByTable ==
    ASSUME NEW S, IsFiniteSet(S), NEW f \in [S -> Int], NEW g, IsSumTable(g, f, S)
    PROVE  SumFunction(f) = g[S]
<1> DEFINE h == CHOOSE h : h = [s \in SUBSET S |->
                    IF s = {} THEN 0
                    ELSE f[CHOOSE x \in s : TRUE] + h[s \ {CHOOSE x \in s : TRUE}]]
<1>1. SumFunction(f) = h[S]
  BY Zenon DEF SumFunction, SumFunctionOnSet, FoldFunctionOnSet, MapThenFoldSet
<1>2. g = [s \in SUBSET S |->
                    IF s = {} THEN 0
                    ELSE f[CHOOSE x \in s : TRUE] + g[s \ {CHOOSE x \in s : TRUE}]]
  BY DEF IsSumTable, SumStep, Pick
<1>3. h = [s \in SUBSET S |->
                    IF s = {} THEN 0
                    ELSE f[CHOOSE x \in s : TRUE] + h[s \ {CHOOSE x \in s : TRUE}]]
  BY <1>2, Zenon
<1> HIDE DEF h
<1>4. \A s \in SUBSET S : h[s] = SumStep(f, h, s)
  BY <1>3 DEF SumStep, Pick
<1>5. \A s \in SUBSET S : g[s] = SumStep(f, g, s)
  BY DEF IsSumTable
<1>6. h[S] = g[S]
  BY <1>4, <1>5, SumTableUnique
<1> QED BY <1>1, <1>6

-----------------------------------------------------------------------------
(* Sums of integer functions on a finite set.                              *)

LEMMA SumType ==
    ASSUME NEW S, IsFiniteSet(S), NEW f \in [S -> Int]
    PROVE  SumFunction(f) \in Int
<1>1. PICK g : IsSumTable(g, f, S)
  BY SumTableExists
<1> QED BY <1>1, SumByTable DEF IsSumTable

\* The sum of two functions is the sum of their sums.
LEMMA SumAdd ==
    ASSUME NEW S, IsFiniteSet(S), NEW f \in [S -> Int], NEW g \in [S -> Int],
           NEW h \in [S -> Int], \A x \in S : h[x] = f[x] + g[x]
    PROVE  SumFunction(h) = SumFunction(f) + SumFunction(g)
<1>1. PICK F : IsSumTable(F, f, S)
  BY SumTableExists
<1>2. PICK G : IsSumTable(G, g, S)
  BY SumTableExists
<1>3. PICK H : IsSumTable(H, h, S)
  BY SumTableExists
<1> DEFINE Bad == {s \in SUBSET S : H[s] # F[s] + G[s]}
<1>4. Bad = {}
  <2> SUFFICES ASSUME Bad # {} PROVE FALSE
    OBVIOUS
  <2>1. PICK s \in Bad : \A t \in SUBSET s : t # s => t \notin Bad
    <3> HIDE DEF Bad
    <3> Bad \in SUBSET SUBSET S BY DEF Bad
    <3> QED BY SmallestCounterexample
  <2>2. F[s] = SumStep(f, F, s) /\ G[s] = SumStep(g, G, s) /\ H[s] = SumStep(h, H, s)
    BY <1>1, <1>2, <1>3 DEF IsSumTable
  <2>3. CASE s = {}
    BY <2>2, <2>3 DEF SumStep
  <2>4. CASE s # {}
    <3> DEFINE x == Pick(s)
               t == s \ {Pick(s)}
    <3>1. x \in s
      BY <2>4, PickIn
    <3>2. t \in SUBSET s /\ t # s /\ t \in SUBSET S
      BY <3>1
    <3>3. H[t] = F[t] + G[t]
      BY <2>1, <3>2
    <3>4. H[s] = h[x] + H[t] /\ F[s] = f[x] + F[t] /\ G[s] = g[x] + G[t]
      BY <2>2, <2>4 DEF SumStep
    <3>5. /\ F[t] \in Int /\ G[t] \in Int /\ H[t] \in Int
          /\ f[x] \in Int /\ g[x] \in Int /\ h[x] = f[x] + g[x]
      BY <1>1, <1>2, <1>3, <3>1, <3>2 DEF IsSumTable
    <3>6. H[s] = F[s] + G[s]
      <4> HIDE DEF x, t, Bad
      <4> QED BY <3>3, <3>4, <3>5
    <3> QED BY <3>6
  <2> QED BY <2>3, <2>4
<1>5. H[S] = F[S] + G[S]
  BY <1>4
<1> QED BY <1>1, <1>2, <1>3, <1>5, SumByTable

\* Changing one value changes the sum by as much.
LEMMA SumChange ==
    ASSUME NEW S, IsFiniteSet(S), NEW f \in [S -> Int], NEW h \in [S -> Int],
           NEW a \in S, \A x \in S : x # a => h[x] = f[x]
    PROVE  SumFunction(h) = SumFunction(f) + (h[a] - f[a])
<1>1. PICK F : IsSumTable(F, f, S)
  BY SumTableExists
<1>3. PICK H : IsSumTable(H, h, S)
  BY SumTableExists
<1> DEFINE D(s) == IF a \in s THEN h[a] - f[a] ELSE 0
           Bad == {s \in SUBSET S : H[s] # F[s] + D(s)}
<1>4. Bad = {}
  <2> SUFFICES ASSUME Bad # {} PROVE FALSE
    OBVIOUS
  <2>1. PICK s \in Bad : \A t \in SUBSET s : t # s => t \notin Bad
    <3> HIDE DEF Bad
    <3> Bad \in SUBSET SUBSET S BY DEF Bad
    <3> QED BY SmallestCounterexample
  <2>2. F[s] = SumStep(f, F, s) /\ H[s] = SumStep(h, H, s)
    BY <1>1, <1>3 DEF IsSumTable
  <2>3. CASE s = {}
    BY <2>2, <2>3 DEF SumStep
  <2>4. CASE s # {}
    <3> DEFINE x == Pick(s)
               t == s \ {Pick(s)}
    <3>1. x \in s
      BY <2>4, PickIn
    <3>2. t \in SUBSET s /\ t # s /\ t \in SUBSET S
      BY <3>1
    <3>3. H[t] = F[t] + D(t)
      BY <2>1, <3>2
    <3>4. H[s] = h[x] + H[t] /\ F[s] = f[x] + F[t]
      BY <2>2, <2>4 DEF SumStep
    <3>5. /\ F[t] \in Int /\ H[t] \in Int
          /\ f[x] \in Int /\ h[x] \in Int /\ f[a] \in Int /\ h[a] \in Int
      BY <1>1, <1>3, <3>1, <3>2 DEF IsSumTable
    <3>6. x = a \/ h[x] = f[x]
      BY <3>1
    <3>7. D(s) = D(t) + (h[x] - f[x])
      BY <3>1, <3>5, <3>6
    <3>8. D(t) \in Int
      BY <3>5
    <3>9. H[s] = F[s] + D(s)
      <4> HIDE DEF x, t, Bad, D
      <4> QED BY <3>3, <3>4, <3>5, <3>7, <3>8
    <3> QED BY <3>9
  <2> QED BY <2>3, <2>4
<1>5. H[S] = F[S] + D(S)
  BY <1>4
<1> QED BY <1>1, <1>3, <1>5, SumByTable

\* A sum of non-negative values is at least each of them.
LEMMA SumBounds ==
    ASSUME NEW S, IsFiniteSet(S), NEW f \in [S -> Int], \A x \in S : f[x] >= 0
    PROVE  SumFunction(f) >= 0 /\ \A x \in S : f[x] <= SumFunction(f)
<1>1. PICK F : IsSumTable(F, f, S)
  BY SumTableExists
<1> DEFINE Bad == {s \in SUBSET S : ~(F[s] >= 0 /\ \A x \in s : f[x] <= F[s])}
<1>4. Bad = {}
  <2> SUFFICES ASSUME Bad # {} PROVE FALSE
    OBVIOUS
  <2>1. PICK s \in Bad : \A t \in SUBSET s : t # s => t \notin Bad
    <3> HIDE DEF Bad
    <3> Bad \in SUBSET SUBSET S BY DEF Bad
    <3> QED BY SmallestCounterexample
  <2>2. F[s] = SumStep(f, F, s)
    BY <1>1 DEF IsSumTable
  <2>3. CASE s = {}
    BY <2>2, <2>3 DEF SumStep
  <2>4. CASE s # {}
    <3> DEFINE x == Pick(s)
               t == s \ {Pick(s)}
    <3>1. x \in s
      BY <2>4, PickIn
    <3>2. t \in SUBSET s /\ t # s /\ t \in SUBSET S
      BY <3>1
    <3>3. F[t] >= 0 /\ \A y \in t : f[y] <= F[t]
      BY <2>1, <3>2
    <3>4. F[s] = f[x] + F[t]
      BY <2>2, <2>4 DEF SumStep
    <3>5. F[t] \in Int /\ f[x] \in Int /\ f[x] >= 0
      BY <1>1, <3>1, <3>2 DEF IsSumTable
    <3>6. F[s] >= 0 /\ F[s] >= F[t] /\ F[s] >= f[x] /\ F[s] \in Int
      <4> HIDE DEF x, t, Bad
      <4> QED BY <3>3, <3>4, <3>5
    <3>7. ASSUME NEW y \in s PROVE f[y] <= F[s]
      <4>1. y = x \/ y \in t
        OBVIOUS
      <4>2. f[y] \in Int
        OBVIOUS
      <4> HIDE DEF x, t, Bad
      <4> QED BY <3>3, <3>5, <3>6, <4>1, <4>2
    <3> QED BY <3>6, <3>7
  <2> QED BY <2>3, <2>4
<1>5. F[S] >= 0 /\ \A x \in S : f[x] <= F[S]
  BY <1>4
<1> QED BY <1>1, <1>5, SumByTable

\* A function that is zero everywhere sums to zero: it is its own double.
LEMMA SumZero ==
    ASSUME NEW S, IsFiniteSet(S), NEW f \in [S -> Int], \A x \in S : f[x] = 0
    PROVE  SumFunction(f) = 0
<1>1. SumFunction(f) = SumFunction(f) + SumFunction(f)
  BY SumAdd
<1> QED BY <1>1, SumType
=============================================================================
