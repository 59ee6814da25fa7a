------------------------ MODULE CodeVerifierProofs ------------------------
(***************************************************************************)
(* Proofs about the passes of CodeVerifier, for all programs.  The locals  *)
(* analysis ends, what it leaves is a fixed point, and no path through     *)
(* code without errors uses a local without a value or overwrites one that *)
(* cannot be dropped; on every path the operands of an instruction are on  *)
(* the stack and have the types it needs.                                  *)
(***************************************************************************)
EXTENDS CodeVerifier, SumTheorems, SequenceTheorems

-----------------------------------------------------------------------------
(* Code units and their blocks.                                            *)

\* Code that the pass on control flow lets through is not empty.
IsUnit(f, c) == f \in Functions /\ WellFormedCode(f, c) /\ c # <<>>

LEMMA UnitFacts ==
    ASSUME NEW f, NEW c, IsUnit(f, c)
    PROVE  /\ Len(c) \in Nat /\ Len(c) > 0 /\ Offsets(c) = 0..(Len(c) - 1) /\ Offsets(c) \subseteq Nat
           /\ \A pc \in Offsets(c) : /\ At(c, pc).a \in Nat
                                     /\ HasOffset(At(c, pc)) => At(c, pc).a \in Offsets(c)
                                     /\ At(c, pc).op \in LocalOps => At(c, pc).a \in Locals(f)
<1>1. c \in Seq([op : STRING, a : Nat, n : Nat]) /\ c # <<>>
  BY DEF IsUnit, WellFormedCode
<1>2. Len(c) \in Nat /\ Len(c) > 0
  BY <1>1
<1>3. Offsets(c) = 0..(Len(c) - 1) /\ Offsets(c) \subseteq Nat
  BY <1>2 DEF Offsets
<1>4. ASSUME NEW pc \in Offsets(c) PROVE At(c, pc).a \in Nat
  <2>1. pc + 1 \in 1..Len(c)
    BY <1>2, <1>3
  <2>2. c[pc + 1] \in [op : STRING, a : Nat, n : Nat]
    BY <1>1, <2>1, ElementOfSeq
  <2> QED BY <2>2 DEF At
<1>5. ASSUME NEW pc \in Offsets(c), HasOffset(At(c, pc)) PROVE At(c, pc).a \in Offsets(c)
  <2>1. At(c, pc).a < Len(c)
    BY <1>5 DEF IsUnit, WellFormedCode, InBounds
  <2> QED BY <1>2, <1>3, <1>4, <2>1
<1>6. \A pc \in Offsets(c) : At(c, pc).op \in LocalOps => At(c, pc).a \in Locals(f)
  BY DEF IsUnit, WellFormedCode
<1> QED BY <1>2, <1>3, <1>4, <1>5, <1>6

LEMMA LocalsFinite ==
    ASSUME NEW f \in Functions
    PROVE  IsFiniteSet(Locals(f)) /\ Locals(f) \subseteq Nat /\ Cardinality(Locals(f)) \in Nat
<1>1. LocalTypes(f) \in Seq(Types)
  BY SignatureTable DEF LocalTypes
<1>2. Len(LocalTypes(f)) \in Nat
  BY <1>1
<1> DEFINE n == Len(LocalTypes(f)) - 1
<1>3. n \in Int /\ 0 \in Int
  BY <1>2
<1>4. IsFiniteSet(0..n)
  <2> HIDE DEF n
  <2> QED BY <1>3, FS_Interval
<1> QED BY <1>4, FS_CardinalityType DEF Locals

LEMMA BlocksInside ==
    ASSUME NEW f, NEW c, IsUnit(f, c)
    PROVE  0 \in BlockIds(c) /\ BlockIds(c) \subseteq Offsets(c) /\ IsFiniteSet(BlockIds(c))
<1>1. 0 \in BlockIds(c)
  BY DEF BlockIds
<1>2. 0 \in Offsets(c)
  BY UnitFacts
<1>3. ASSUME NEW p \in Offsets(c), p + 1 < Len(c) PROVE p + 1 \in Offsets(c)
  BY <1>3, UnitFacts
<1>4. BlockIds(c) \subseteq Offsets(c)
  BY <1>2, <1>3, UnitFacts DEF BlockIds
<1>5. IsFiniteSet(Offsets(c))
  <2>1. Len(c) - 1 \in Int /\ Offsets(c) = 0..(Len(c) - 1)
    BY UnitFacts
  <2> QED BY <2>1, FS_Interval
<1> QED BY <1>1, <1>4, <1>5, FS_Subset

LEMMA BlockEndIs ==
    ASSUME NEW f, NEW c, IsUnit(f, c), NEW b \in BlockIds(c)
    PROVE  LET e == BlockEnd(c, b) IN
           /\ e \in Offsets(c) /\ e \in Nat /\ b \in Nat /\ b <= e /\ IsEndOfBlock(c, e)
           /\ \A p \in b..(e - 1) : ~IsEndOfBlock(c, p)
<1> DEFINE E == {e \in Offsets(c) : e >= b /\ IsEndOfBlock(c, e)}
           n == Len(c) - 1
<1>1. b \in Offsets(c) /\ b \in Nat /\ Offsets(c) \subseteq Nat /\ n \in Nat /\ n \in Offsets(c) /\ b <= n
  BY BlocksInside, UnitFacts
<1>2. n \in E
  <2>1. n + 1 = Len(c)
    BY UnitFacts
  <2> QED BY <1>1, <2>1 DEF IsEndOfBlock
<1>3. PICK e \in E : \A x \in E : e <= x
  <2>1. E \in SUBSET Nat /\ E # {}
    BY <1>1, <1>2
  <2> HIDE DEF E
  <2> QED BY <2>1, LeastNatural
<1>4. \A p \in b..(e - 1) : ~IsEndOfBlock(c, p)
  <2> SUFFICES ASSUME NEW p \in b..(e - 1), IsEndOfBlock(c, p) PROVE FALSE
    OBVIOUS
  <2>1. e \in Offsets(c) /\ e \in Nat /\ e \in 0..(Len(c) - 1)
    BY <1>1, <1>3, UnitFacts
  <2>2. p \in Nat /\ p >= b /\ p < e
    BY <1>1, <2>1
  <2>3. p \in Offsets(c)
    BY <2>1, <2>2, UnitFacts
  <2>4. p \in E
    BY <2>2, <2>3
  <2> HIDE DEF E
  <2> QED BY <1>3, <2>1, <2>2, <2>4
<1>5. \E x \in Offsets(c) : x >= b /\ IsEndOfBlock(c, x) /\ \A p \in b..(x - 1) : ~IsEndOfBlock(c, p)
  BY <1>3, <1>4
<1>6. LET x == BlockEnd(c, b) IN
      x \in Offsets(c) /\ x >= b /\ IsEndOfBlock(c, x) /\ \A p \in b..(x - 1) : ~IsEndOfBlock(c, p)
  BY <1>5 DEF BlockEnd, IsEndOfBlock
<1> QED BY <1>1, <1>6

\* The successors of an instruction are its target and the next instruction, in a list of
\* at most two.
LEMMA SuccessorsAre ==
    ASSUME NEW f, NEW c, IsUnit(f, c), NEW p \in Offsets(c)
    PROVE  LET s == Successors(c, p) IN
           /\ \/ s = <<>>
              \/ \E x : s = <<x>>
              \/ \E x, y : s = <<x, y>>
           /\ \A x \in Range(s) : \/ HasOffset(At(c, p)) /\ x = At(c, p).a
                                  \/ p + 1 < Len(c) /\ ~IsUnconditional(At(c, p)) /\ x = p + 1
<1> DEFINE i == At(c, p)
           target == IF HasOffset(i) THEN {i.a} ELSE {}
           next == IF p + 1 < Len(c) /\ ~IsUnconditional(i) THEN {p + 1} ELSE {}
           both == target \union next
           least == CHOOSE x \in both : \A y \in both : x <= y
           other == CHOOSE x \in both : x # least
           s == Successors(c, p)
<1>1. both \subseteq Nat
  BY UnitFacts
<1>2. \A x \in both : \/ HasOffset(i) /\ x = i.a
                      \/ p + 1 < Len(c) /\ ~IsUnconditional(i) /\ x = p + 1
  OBVIOUS
<1>3. s = IF both = {} THEN <<>>
          ELSE IF Cardinality(both) = 1 THEN <<least>> ELSE <<least, other>>
  BY DEF Successors
<1> HIDE DEF both
<1>4. both # {} => least \in both
  <2>1. both # {} => \E x \in both : \A y \in both : x <= y
    BY <1>1, LeastNatural
  <2> QED BY <2>1
<1> HIDE DEF least
<1>5. both # {} /\ Cardinality(both) # 1 => other \in both
  <2>1. Cardinality({least}) = 1
    BY FS_Singleton
  <2>2. both # {} /\ Cardinality(both) # 1 => \E x \in both : x # least
    <3> SUFFICES ASSUME both # {}, \A x \in both : x = least PROVE Cardinality(both) = 1
      OBVIOUS
    <3>1. both = {least}
      BY <1>4
    <3> QED BY <2>1, <3>1
  <2> QED BY <2>2
<1> HIDE DEF other, s
<1>6. /\ s = <<>> \/ (\E x : s = <<x>>) \/ \E x, y : s = <<x, y>>
      /\ Range(s) \subseteq both
  <2>1. CASE both = {}
    <3>1. Range(<<>>) = {}
      BY DEF Range
    <3> QED BY <1>3, <2>1, <3>1
  <2>2. CASE both # {} /\ Cardinality(both) = 1
    <3>1. Range(<<least>>) = {least}
      BY DEF Range
    <3> QED BY <1>3, <1>4, <2>2, <3>1
  <2>3. CASE both # {} /\ Cardinality(both) # 1
    <3>1. Range(<<least, other>>) = {least, other}
      BY DEF Range
    <3> QED BY <1>3, <1>4, <1>5, <2>3, <3>1
  <2> QED BY <2>1, <2>2, <2>3
<1> QED BY <1>2, <1>6 DEF s

\* Control goes on to blocks from the end of a block, and to the next instruction from
\* within it.
LEMMA NextBlocks ==
    ASSUME NEW f, NEW c, IsUnit(f, c), NEW p \in Offsets(c)
    PROVE  /\ IsEndOfBlock(c, p) => Range(Successors(c, p)) \subseteq BlockIds(c)
           /\ ~IsEndOfBlock(c, p) => Range(Successors(c, p)) \subseteq {p + 1}
<1> DEFINE i == At(c, p)
<1>1. \A x \in Range(Successors(c, p)) : \/ HasOffset(i) /\ x = i.a
                                         \/ p + 1 < Len(c) /\ ~IsUnconditional(i) /\ x = p + 1
  BY SuccessorsAre
<1>2. HasOffset(i) => i.a \in BlockIds(c)
  BY DEF BlockIds
<1>3. IsEndOfBlock(c, p) /\ p + 1 < Len(c) => p + 1 \in BlockIds(c)
  BY UnitFacts DEF IsEndOfBlock
<1>4. HasOffset(i) => IsEndOfBlock(c, p)
  <2> SUFFICES ASSUME HasOffset(i), p + 1 # Len(c) PROVE p + 1 \in BlockIds(c)
    BY DEF IsEndOfBlock
  <2>1. p + 1 < Len(c)
    BY UnitFacts
  <2>2. IsConditional(i) \/ IsUnconditional(i)
    BY DEF HasOffset, IsConditional, IsUnconditional
  <2> QED BY <2>1, <2>2 DEF BlockIds
<1> HIDE DEF i
<1> QED BY <1>1, <1>2, <1>3, <1>4

-----------------------------------------------------------------------------
(* The run through a block, instruction by instruction.                    *)

\* What FoldLeft makes of a set of positions of the list q.
RunNext(f, c, base, q, g, s) ==
    IF s = {} THEN base ELSE LocalsStep(f, c, g[s \ {Max(s)}], q[Max(s)])

IsRunTable(f, c, base, q, n, g) == g = [s \in SUBSET (1..n) |-> RunNext(f, c, base, q, g, s)]

LEMMA MaxIs ==
    ASSUME NEW n \in Nat, NEW s \in SUBSET (1..n), s # {}
    PROVE  Max(s) \in s /\ \A y \in s : y <= Max(s)
<1>1. s \in SUBSET (0..n)
  OBVIOUS
<1>2. \E x \in s : \A y \in s : y <= x
  BY <1>1, GreatestNatural
<1>3. \E x \in s : \A y \in s : x >= y
  BY <1>2
<1>4. Max(s) \in s /\ \A y \in s : Max(s) >= y
  BY <1>3, Zenon DEF Max
<1> QED BY <1>4

LEMMA RunTableExists ==
    ASSUME NEW f, NEW c, NEW base, NEW q, NEW n \in Nat
    PROVE  \E g : IsRunTable(f, c, base, q, n, g)
<1> DEFINE N(g, s) == RunNext(f, c, base, q, g, s)
           Good(k) == \E g : \A s \in SUBSET (1..n) : s \subseteq 1..k => g[s] = N(g, s)
           Bad == {k \in Nat : ~Good(k)}
<1>1. \A g, h, s : (s # {} => g[s \ {Max(s)}] = h[s \ {Max(s)}]) => N(g, s) = N(h, s)
  BY DEF RunNext
<1>2. \A k \in Nat : \A s \in SUBSET (1..n) :
          s # {} /\ s \subseteq 1..k => s \ {Max(s)} \in SUBSET (1..n) /\ s \ {Max(s)} \subseteq 1..(k - 1)
  <2> SUFFICES ASSUME NEW k \in Nat, NEW s \in SUBSET (1..n), s # {}, s \subseteq 1..k, NEW x \in s, x # Max(s)
               PROVE  x \in 1..(k - 1)
    OBVIOUS
  <2>1. Max(s) \in s /\ x <= Max(s)
    BY MaxIs
  <2>2. Max(s) \in 1..k /\ x \in 1..k
    BY <2>1
  <2> QED BY <2>1, <2>2
<1> HIDE DEF N
<1>3. Bad = {}
  <2> SUFFICES ASSUME Bad # {} PROVE FALSE
    OBVIOUS
  <2>1. PICK k \in Bad : \A m \in Bad : k <= m
    <3> HIDE DEF Bad
    <3> Bad \subseteq Nat BY DEF Bad
    <3> QED BY LeastNatural
  <2>2. ASSUME NEW g, \A s \in SUBSET (1..n) : s \subseteq 1..(k - 1) => g[s] = N(g, s) PROVE FALSE
    <3> DEFINE h == [s \in SUBSET (1..n) |-> N(g, s)]
    <3>1. ASSUME NEW s \in SUBSET (1..n), s \subseteq 1..k PROVE h[s] = N(h, s)
      <4>1. s # {} => h[s \ {Max(s)}] = g[s \ {Max(s)}]
        BY <1>2, <2>2, <3>1
      <4>2. h[s] = N(g, s)
        OBVIOUS
      <4> HIDE DEF h
      <4> QED BY <1>1, <4>1, <4>2
    <3> HIDE DEF h
    <3>2. Good(k)
      BY <3>1
    <3> QED BY <3>2
  <2>3. k # 0
    <3> SUFFICES ASSUME k = 0 PROVE FALSE
      OBVIOUS
    <3> DEFINE g == [s \in SUBSET (1..n) |-> N(s, s)]
    <3>1. ASSUME NEW s \in SUBSET (1..n), s \subseteq 1..0 PROVE g[s] = N(g, s)
      <4>1. s = {}
        BY <3>1
      <4>2. N(s, s) = N(g, s)
        BY <1>1, <4>1
      <4> QED BY <4>2
    <3> HIDE DEF g
    <3>2. Good(0)
      BY <3>1
    <3> QED BY <3>2
  <2>4. k - 1 \in Nat /\ k \in Nat
    BY <2>3
  <2>5. k - 1 \notin Bad
    <3> HIDE DEF Bad
    <3> QED BY <2>1, <2>4
  <2>6. Good(k - 1)
    BY <2>4, <2>5
  <2> QED BY <2>2, <2>6
<1>4. Good(n)
  BY <1>3
<1>5. PICK g : \A s \in SUBSET (1..n) : g[s] = N(g, s)
  BY <1>4
<1> DEFINE h == [s \in SUBSET (1..n) |-> N(g, s)]
<1>6. \A s \in SUBSET (1..n) : h[s] = g[s]
  BY <1>5
<1>7. \A s \in SUBSET (1..n) : N(h, s) = N(g, s)
  <2> SUFFICES ASSUME NEW s \in SUBSET (1..n) PROVE N(h, s) = N(g, s)
    OBVIOUS
  <2>1. s # {} => h[s \ {Max(s)}] = g[s \ {Max(s)}]
    BY <1>6
  <2> HIDE DEF h
  <2> QED BY <1>1, <2>1
<1>8. h = [s \in SUBSET (1..n) |-> N(h, s)]
  BY <1>7
<1> QED BY <1>8 DEF N, IsRunTable

\* The analysis of a block goes through its instructions in order.
LEMMA BlockRuns ==
    ASSUME NEW f, NEW c, NEW b, NEW pre, BlockEnd(c, b) - b + 1 \in Nat
    PROVE  LET n == BlockEnd(c, b) - b + 1 IN
           \E R : /\ R[0] = [ok |-> TRUE, s |-> pre]
                  /\ \A k \in 1..n : R[k] = LocalsStep(f, c, R[k - 1], b + k - 1)
                  /\ LocalsBlock(f, c, b, pre) = R[n]
<1> DEFINE n == BlockEnd(c, b) - b + 1
           base == [ok |-> TRUE, s |-> pre]
           q == BlockOffsets(c, b)
           T == CHOOSE g : IsRunTable(f, c, base, q, n, g)
<1>1. n \in Nat /\ DOMAIN q = 1..n /\ \A k \in 1..n : q[k] = b + k - 1
  BY DEF BlockOffsets
<1>2. LocalsBlock(f, c, b, pre) = T[1..n]
  <2>1. LocalsBlock(f, c, b, pre) = FoldLeft(LAMBDA r, pc : LocalsStep(f, c, r, pc), base, q)
    BY DEF LocalsBlock
  <2>2. DOMAIN q = 1..n
    BY <1>1
  <2> HIDE DEF q, n
  <2> QED BY <2>1, <2>2, Zenon DEF FoldLeft, MapThenFoldSet, RunNext, IsRunTable
<1> HIDE DEF n, q, base
<1>3. T = [s \in SUBSET (1..n) |-> RunNext(f, c, base, q, T, s)]
  <2>1. n \in Nat
    BY <1>1
  <2>2. \E g : IsRunTable(f, c, base, q, n, g)
    BY <2>1, RunTableExists
  <2>3. IsRunTable(f, c, base, q, n, T)
    BY <2>2, Zenon
  <2> QED BY <2>3, Zenon DEF IsRunTable
<1> HIDE DEF T
<1> DEFINE R == [k \in 0..n |-> T[1..k]]
<1>4. \A s \in SUBSET (1..n) : T[s] = RunNext(f, c, base, q, T, s)
  BY <1>3, Zenon
<1>5. R[0] = base
  <2>1. 1..0 = {} /\ 0 \in 0..n /\ {} \in SUBSET (1..n)
    BY <1>1
  <2>2. T[{}] = base
    BY <1>4, <2>1 DEF RunNext
  <2> QED BY <2>1, <2>2
<1>6. ASSUME NEW k \in 1..n PROVE R[k] = LocalsStep(f, c, R[k - 1], b + k - 1)
  <2> DEFINE s == 1..k
  <2>1. k \in Nat /\ k \in 0..n /\ k - 1 \in 0..n /\ s \in SUBSET (1..n) /\ s # {} /\ k \in s
    <3>1. n \in Nat
      BY <1>1
    <3>2. k \in Nat /\ 1 <= k /\ k <= n
      BY <3>1
    <3>3. k \in s
      BY <3>2
    <3>4. s \subseteq 1..n
      BY <3>1, <3>2
    <3> QED BY <3>1, <3>2, <3>3, <3>4
  <2>2. Max(s) = k
    <3>1. Max(s) \in s /\ \A y \in s : y <= Max(s)
      <4> HIDE DEF s
      <4> QED BY <1>1, <2>1, MaxIs
    <3> QED BY <2>1, <3>1
  <2>3. s \ {k} = 1..(k - 1)
    BY <2>1
  <2>4. T[s] = LocalsStep(f, c, T[s \ {Max(s)}], q[Max(s)])
    <3> HIDE DEF s
    <3> QED BY <1>4, <2>1 DEF RunNext
  <2>5. R[k] = T[s] /\ R[k - 1] = T[1..(k - 1)]
    BY <2>1
  <2> HIDE DEF s, R
  <2> QED BY <1>1, <2>2, <2>3, <2>4, <2>5
<1>7. R[n] = T[1..n]
  BY <1>1
<1> HIDE DEF R
<1>8. /\ R[0] = base
      /\ \A k \in 1..n : R[k] = LocalsStep(f, c, R[k - 1], b + k - 1)
      /\ LocalsBlock(f, c, b, pre) = R[n]
  BY <1>2, <1>5, <1>6, <1>7
<1> QED BY <1>8 DEF base, n

\* R goes through the block b, from pre on.
Length(c, b) == BlockEnd(c, b) - b + 1
IsRun(f, c, b, pre, R) ==
    /\ R[0] = [ok |-> TRUE, s |-> pre]
    /\ \A k \in 1..Length(c, b) : R[k] = LocalsStep(f, c, R[k - 1], b + k - 1)
    /\ LocalsBlock(f, c, b, pre) = R[Length(c, b)]

States(f) == [Locals(f) -> LocalStates]
Results(f) == [ok : BOOLEAN, s : States(f)]

LEMMA LengthIs ==
    ASSUME NEW f, NEW c, IsUnit(f, c), NEW b \in BlockIds(c)
    PROVE  /\ Length(c, b) \in Nat /\ Length(c, b) >= 1 /\ b \in Nat
           /\ \A k \in 1..Length(c, b) : b + k - 1 \in Offsets(c) /\ b + k - 1 <= BlockEnd(c, b)
<1>1. BlockEnd(c, b) \in Offsets(c) /\ BlockEnd(c, b) \in Nat /\ b \in Nat /\ b <= BlockEnd(c, b)
  BY BlockEndIs
<1>2. Length(c, b) \in Nat /\ Length(c, b) >= 1
  BY <1>1 DEF Length
<1>3. ASSUME NEW k \in 1..Length(c, b) PROVE b + k - 1 \in Offsets(c) /\ b + k - 1 <= BlockEnd(c, b)
  <2>1. b + k - 1 \in Nat /\ b + k - 1 <= BlockEnd(c, b)
    BY <1>1, <1>2 DEF Length
  <2> QED BY <1>1, <2>1, UnitFacts
<1> QED BY <1>1, <1>2, <1>3

LEMMA RunExists ==
    ASSUME NEW f, NEW c, IsUnit(f, c), NEW b \in BlockIds(c), NEW pre
    PROVE  \E R : IsRun(f, c, b, pre, R)
<1>1. BlockEnd(c, b) - b + 1 \in Nat
  BY LengthIs DEF Length
<1> QED BY <1>1, BlockRuns DEF IsRun, Length

LEMMA StepTyped ==
    ASSUME NEW f, NEW c, IsUnit(f, c), NEW pc \in Offsets(c), NEW r \in Results(f)
    PROVE  LET t == LocalsStep(f, c, r, pc) IN
           /\ t \in Results(f)
           /\ t.ok => r.ok /\ SafeToExecute(f, At(c, pc), r.s) /\ t.s = ExecuteInner(At(c, pc), r.s)
<1> DEFINE i == At(c, pc)
           t == LocalsStep(f, c, r, pc)
<1>1. r.ok \in BOOLEAN /\ r.s \in States(f)
  BY DEF Results
<1>2. ExecuteInner(i, r.s) \in States(f)
  <2>1. CASE i.op = "StLoc"
    <3>1. ExecuteInner(i, r.s) = [r.s EXCEPT ![i.a] = "Available"]
      BY <2>1 DEF ExecuteInner
    <3> QED BY <1>1, <3>1 DEF States, LocalStates
  <2>2. CASE i.op = "MoveLoc"
    <3>1. ExecuteInner(i, r.s) = [r.s EXCEPT ![i.a] = "Unavailable"]
      BY <2>2 DEF ExecuteInner
    <3> QED BY <1>1, <3>1 DEF States, LocalStates
  <2>3. CASE i.op # "StLoc" /\ i.op # "MoveLoc"
    BY <1>1, <2>3 DEF ExecuteInner
  <2> QED BY <2>1, <2>2, <2>3
<1>3. CASE r.ok /\ SafeToExecute(f, i, r.s)
  <2>1. t = [ok |-> TRUE, s |-> ExecuteInner(i, r.s)]
    BY <1>3 DEF LocalsStep
  <2> QED BY <1>2, <1>3, <2>1 DEF Results
<1>4. CASE ~(r.ok /\ SafeToExecute(f, i, r.s))
  <2>1. t = [ok |-> FALSE, s |-> r.s]
    BY <1>4 DEF LocalsStep
  <2> QED BY <1>1, <2>1 DEF Results
<1> QED BY <1>3, <1>4

LEMMA RunTyped ==
    ASSUME NEW f, NEW c, IsUnit(f, c), NEW b \in BlockIds(c), NEW pre \in States(f),
           NEW R, IsRun(f, c, b, pre, R)
    PROVE  \A k \in 0..Length(c, b) : R[k] \in Results(f)
<1> DEFINE n == Length(c, b)
           Bad == {k \in Nat : k <= n /\ R[k] \notin Results(f)}
<1>1. n \in Nat
  BY LengthIs
<1>2. Bad = {}
  <2> SUFFICES ASSUME Bad # {} PROVE FALSE
    OBVIOUS
  <2>1. PICK k \in Bad : \A m \in Bad : k <= m
    <3> HIDE DEF Bad
    <3> Bad \subseteq Nat BY DEF Bad
    <3> QED BY LeastNatural
  <2>2. k \in Nat /\ k <= n /\ R[k] \notin Results(f)
    OBVIOUS
  <2>3. k # 0
    <3>1. R[0] = [ok |-> TRUE, s |-> pre]
      BY DEF IsRun
    <3>2. R[0] \in Results(f)
      BY <3>1 DEF Results
    <3> QED BY <2>2, <3>2
  <2>4. k - 1 \in Nat /\ k - 1 <= n /\ k \in 1..n
    BY <1>1, <2>2, <2>3
  <2>5. R[k - 1] \in Results(f)
    <3>1. k - 1 \notin Bad
      <4> HIDE DEF Bad
      <4> QED BY <2>1, <2>2, <2>4
    <3> QED BY <2>4, <3>1
  <2>6. R[k] = LocalsStep(f, c, R[k - 1], b + k - 1)
    BY <2>4 DEF IsRun
  <2>7. b + k - 1 \in Offsets(c)
    BY <2>4, LengthIs
  <2>8. R[k] \in Results(f)
    BY <2>5, <2>6, <2>7, StepTyped
  <2> QED BY <2>2, <2>8
<1> QED BY <1>1, <1>2

\* Without an error at the end there was none before, and every instruction was safe.
LEMMA RunSafe ==
    ASSUME NEW f, NEW c, IsUnit(f, c), NEW b \in BlockIds(c), NEW pre \in States(f),
           NEW R, IsRun(f, c, b, pre, R), LocalsBlock(f, c, b, pre).ok
    PROVE  /\ \A k \in 0..Length(c, b) : R[k].ok
           /\ \A k \in 1..Length(c, b) :
                 /\ SafeToExecute(f, At(c, b + k - 1), R[k - 1].s)
                 /\ R[k].s = ExecuteInner(At(c, b + k - 1), R[k - 1].s)
<1> DEFINE n == Length(c, b)
           Bad == {k \in 0..n : ~R[k].ok}
<1>1. n \in Nat /\ R[n].ok
  BY LengthIs DEF IsRun
<1>2. \A k \in 1..n : R[k].ok => /\ R[k - 1].ok /\ SafeToExecute(f, At(c, b + k - 1), R[k - 1].s)
                                /\ R[k].s = ExecuteInner(At(c, b + k - 1), R[k - 1].s)
  <2> SUFFICES ASSUME NEW k \in 1..n, R[k].ok
               PROVE  /\ R[k - 1].ok /\ SafeToExecute(f, At(c, b + k - 1), R[k - 1].s)
                      /\ R[k].s = ExecuteInner(At(c, b + k - 1), R[k - 1].s)
    OBVIOUS
  <2>1. k - 1 \in 0..n
    BY <1>1
  <2>2. R[k - 1] \in Results(f)
    BY <2>1, RunTyped
  <2>3. R[k] = LocalsStep(f, c, R[k - 1], b + k - 1) /\ b + k - 1 \in Offsets(c)
    BY LengthIs DEF IsRun
  <2> QED BY <2>2, <2>3, StepTyped
<1>3. Bad = {}
  <2> SUFFICES ASSUME Bad # {} PROVE FALSE
    OBVIOUS
  <2>1. PICK k \in Bad : \A m \in Bad : m <= k
    <3> HIDE DEF Bad
    <3> Bad \subseteq 0..n BY DEF Bad
    <3> QED BY <1>1, GreatestNatural
  <2>2. k \in 0..n /\ ~R[k].ok
    OBVIOUS
  <2>3. k # n
    BY <1>1, <2>2
  <2>4. k + 1 \in 0..n /\ k + 1 \in 1..n /\ (k + 1) - 1 = k
    BY <1>1, <2>2, <2>3
  <2>5. R[k + 1].ok
    <3>1. k + 1 \notin Bad
      <4> HIDE DEF Bad
      <4> QED BY <1>1, <2>1, <2>2, <2>4
    <3> QED BY <2>4, <3>1
  <2> QED BY <1>2, <2>2, <2>4, <2>5
<1>4. \A k \in 0..n : R[k].ok
  BY <1>3
<1>5. \A k \in 1..n : k \in 0..n
  BY <1>1
<1> QED BY <1>2, <1>4, <1>5

LEMMA BlockTyped ==
    ASSUME NEW f, NEW c, IsUnit(f, c), NEW b \in BlockIds(c), NEW pre \in States(f)
    PROVE  LocalsBlock(f, c, b, pre) \in Results(f)
<1>1. PICK R : IsRun(f, c, b, pre, R)
  BY RunExists
<1>2. Length(c, b) \in 0..Length(c, b)
  BY LengthIs
<1> QED BY <1>1, <1>2, RunTyped DEF IsRun

-----------------------------------------------------------------------------
(* The join of two states.                                                 *)

LEMMA JoinFacts ==
    ASSUME NEW f, NEW s \in States(f), NEW t
    PROVE  LET j == Join(s, t) IN
           /\ j \in States(f)
           /\ \A l \in Locals(f) : j[l] = s[l] \/ j[l] = "MaybeAvailable"
           /\ j # s => \E l \in Locals(f) : s[l] # "MaybeAvailable" /\ j[l] = "MaybeAvailable"
<1> DEFINE j == Join(s, t)
<1>1. DOMAIN s = Locals(f)
  BY DEF States
<1>2. j = [l \in Locals(f) |-> IF s[l] = t[l] THEN s[l] ELSE "MaybeAvailable"]
  BY <1>1 DEF Join
<1>3. j \in States(f)
  BY <1>2 DEF States, LocalStates
<1>4. \A l \in Locals(f) : j[l] = s[l] \/ j[l] = "MaybeAvailable"
  BY <1>2
<1> HIDE DEF j
<1>5. j # s => \E l \in Locals(f) : j[l] # s[l]
  BY <1>3 DEF States
<1> QED BY <1>3, <1>4, <1>5 DEF j

\* What a state covered it covers after it has grown.
LEMMA JoinKeeps ==
    ASSUME NEW f, NEW s \in States(f), NEW t, NEW x, Join(s, t) = s
    PROVE  Join(Join(s, x), t) = Join(s, x)
<1> DEFINE j == Join(s, x)
<1>1. j \in States(f) /\ \A l \in Locals(f) : j[l] = s[l] \/ j[l] = "MaybeAvailable"
  BY JoinFacts
<1>2. DOMAIN s = Locals(f) /\ DOMAIN j = Locals(f)
  BY <1>1 DEF States
<1>3. \A l \in Locals(f) : s[l] = t[l] \/ s[l] = "MaybeAvailable"
  <2> SUFFICES ASSUME NEW l \in Locals(f) PROVE s[l] = t[l] \/ s[l] = "MaybeAvailable"
    OBVIOUS
  <2>1. Join(s, t)[l] = IF s[l] = t[l] THEN s[l] ELSE "MaybeAvailable"
    BY <1>2 DEF Join
  <2> QED BY <2>1
<1> HIDE DEF j
<1>4. \A l \in Locals(f) : (IF j[l] = t[l] THEN j[l] ELSE "MaybeAvailable") = j[l]
  BY <1>1, <1>3
<1>5. Join(j, t) = [l \in Locals(f) |-> j[l]]
  BY <1>2, <1>4 DEF Join
<1>6. j = [l \in Locals(f) |-> j[l]]
  BY <1>1 DEF States
<1> QED BY <1>5, <1>6 DEF j

-----------------------------------------------------------------------------
(* The state after a block is passed on to at most two successors.         *)

PassNext(m, post, q, g, s) ==
    IF s = {} THEN m ELSE Propagate(g[s \ {Max(s)}], q[Max(s)], post)
IsPassTable(m, post, q, n, g) == g = [s \in SUBSET (1..n) |-> PassNext(m, post, q, g, s)]
Passes(m, post, q, n, g) ==
    /\ PropagateAll(m, q, post) = g[1..n]
    /\ \A s \in SUBSET (1..n) : g[s] = PassNext(m, post, q, g, s)

LEMMA PassTableExists ==
    ASSUME NEW m, NEW post, NEW q, NEW n \in 0..2
    PROVE  \E g : IsPassTable(m, post, q, n, g)
<1> DEFINE one == Propagate(m, q[1], post)
           V(s) == IF s = {} THEN m ELSE IF s = {1} THEN one
                   ELSE IF s = {2} THEN Propagate(m, q[2], post) ELSE Propagate(one, q[2], post)
           g == [s \in SUBSET (1..n) |-> V(s)]
<1>1. ASSUME NEW s \in SUBSET (1..n) PROVE V(s) = PassNext(m, post, q, g, s)
  <2>1. n \in Nat /\ (s # {} => Max(s) \in s /\ \A y \in s : y <= Max(s))
    BY MaxIs
  <2>2. s = {} \/ s = {1} \/ s = {2} \/ s = {1, 2}
    <3>1. \A x \in s : x = 1 \/ x = 2
      OBVIOUS
    <3> QED BY <3>1
  <2>3. s # {} => s \ {Max(s)} \in SUBSET (1..n)
    OBVIOUS
  <2>4. CASE s = {}
    BY <2>4 DEF PassNext
  <2>5. CASE s = {1}
    <3>1. Max(s) = 1 /\ s \ {Max(s)} = {}
      BY <2>1, <2>5
    <3>2. g[{}] = m
      BY <2>3, <2>5, <3>1
    <3> QED BY <2>5, <3>1, <3>2 DEF PassNext
  <2>6. CASE s = {2}
    <3>1. Max(s) = 2 /\ s \ {Max(s)} = {}
      BY <2>1, <2>6
    <3>2. g[{}] = m
      BY <2>3, <2>6, <3>1
    <3> QED BY <2>6, <3>1, <3>2 DEF PassNext
  <2>7. CASE s = {1, 2}
    <3>1. Max(s) = 2 /\ s \ {Max(s)} = {1}
      BY <2>1, <2>7
    <3>2. g[{1}] = one
      BY <2>3, <2>7, <3>1
    <3>3. s # {} /\ s # {1} /\ s # {2}
      BY <2>7
    <3> HIDE DEF one
    <3> QED BY <3>1, <3>2, <3>3 DEF PassNext
  <2> QED BY <2>2, <2>4, <2>5, <2>6, <2>7
<1>2. g = [s \in SUBSET (1..n) |-> PassNext(m, post, q, g, s)]
  BY <1>1
<1> HIDE DEF g
<1> QED BY <1>2 DEF IsPassTable

LEMMA PassTable ==
    ASSUME NEW m, NEW post, NEW q, NEW n \in 0..2, DOMAIN q = 1..n
    PROVE  \E g : Passes(m, post, q, n, g)
<1> DEFINE T == CHOOSE g : IsPassTable(m, post, q, n, g)
<1>1. PropagateAll(m, q, post) = T[1..n]
  BY Zenon DEF PropagateAll, FoldLeft, MapThenFoldSet, PassNext, IsPassTable
<1>2. IsPassTable(m, post, q, n, T)
  <2>1. \E g : IsPassTable(m, post, q, n, g)
    BY PassTableExists
  <2> QED BY <2>1, Zenon
<1> HIDE DEF T
<1>3. \A s \in SUBSET (1..n) : T[s] = PassNext(m, post, q, T, s)
  <2>1. T = [s \in SUBSET (1..n) |-> PassNext(m, post, q, T, s)]
    BY <1>2, Zenon DEF IsPassTable
  <2> QED BY <2>1, Zenon
<1>4. Passes(m, post, q, n, T)
  BY <1>1, <1>3 DEF Passes
<1> QED BY <1>4

LEMMA PropagateAllIs ==
    ASSUME NEW m, NEW post, NEW x
    PROVE  /\ PropagateAll(m, <<>>, post) = m
           /\ PropagateAll(m, <<x>>, post) = Propagate(m, x, post)
<1>1. PropagateAll(m, <<>>, post) = m
  <2>1. 0 \in 0..2 /\ DOMAIN <<>> = 1..0 /\ 1..0 = {}
    OBVIOUS
  <2>0. PICK g : Passes(m, post, <<>>, 0, g)
    BY <2>1, PassTable
  <2>2. /\ PropagateAll(m, <<>>, post) = g[1..0]
        /\ \A s \in SUBSET (1..0) : g[s] = PassNext(m, post, <<>>, g, s)
    BY <2>0 DEF Passes
  <2>3. g[{}] = m
    BY <2>1, <2>2 DEF PassNext
  <2> QED BY <2>1, <2>2, <2>3
<1>2. PropagateAll(m, <<x>>, post) = Propagate(m, x, post)
  <2> DEFINE q == <<x>>
  <2>1. 1 \in 0..2 /\ DOMAIN q = 1..1 /\ q[1] = x
    OBVIOUS
  <2> HIDE DEF q
  <2>0. PICK g : Passes(m, post, q, 1, g)
    BY <2>1, PassTable
  <2>2. /\ PropagateAll(m, q, post) = g[1..1]
        /\ \A s \in SUBSET (1..1) : g[s] = PassNext(m, post, q, g, s)
    BY <2>0 DEF Passes
  <2>3. g[{}] = m
    BY <2>2 DEF PassNext
  <2>4. Max(1..1) = 1 /\ (1..1) \ {1} = {} /\ 1..1 # {}
    <3>1. Max(1..1) \in 1..1
      BY MaxIs
    <3> QED BY <3>1
  <2>5. g[1..1] = Propagate(m, x, post)
    BY <2>1, <2>2, <2>3, <2>4 DEF PassNext
  <2> QED BY <2>2, <2>5 DEF q
<1> QED BY <1>1, <1>2

LEMMA PropagateTwo ==
    ASSUME NEW m, NEW post, NEW x, NEW y
    PROVE  PropagateAll(m, <<x, y>>, post) = Propagate(Propagate(m, x, post), y, post)
<1> DEFINE q == <<x, y>>
<1>1. 2 \in 0..2 /\ DOMAIN q = 1..2 /\ q[1] = x /\ q[2] = y
  OBVIOUS
<1> HIDE DEF q
<1>0. PICK g : Passes(m, post, q, 2, g)
  BY <1>1, PassTable
<1>2. /\ PropagateAll(m, q, post) = g[1..2]
      /\ \A s \in SUBSET (1..2) : g[s] = PassNext(m, post, q, g, s)
  BY <1>0 DEF Passes
<1>3. g[{}] = m
  BY <1>2 DEF PassNext
<1>4. Max({1}) = 1 /\ {1} \ {1} = {} /\ {1} # {} /\ {1} \in SUBSET (1..2)
  <2>1. {1} \in SUBSET (1..2) /\ {1} # {}
    OBVIOUS
  <2>2. Max({1}) \in {1}
    BY <2>1, MaxIs
  <2> QED BY <2>1, <2>2
<1>5. g[{1}] = Propagate(m, x, post)
  BY <1>1, <1>2, <1>3, <1>4 DEF PassNext
<1>6. Max(1..2) = 2 /\ (1..2) \ {2} = {1} /\ 1..2 # {}
  <2>1. 1..2 \in SUBSET (1..2) /\ 1..2 # {} /\ 2 \in 1..2
    OBVIOUS
  <2>2. Max(1..2) \in 1..2 /\ \A z \in 1..2 : z <= Max(1..2)
    BY <2>1, MaxIs
  <2>3. Max(1..2) = 2
    BY <2>1, <2>2
  <2> QED BY <2>1, <2>3
<1>7. g[1..2] = Propagate(Propagate(m, x, post), y, post)
  BY <1>1, <1>2, <1>5, <1>6 DEF PassNext
<1> QED BY <1>2, <1>7 DEF q

-----------------------------------------------------------------------------
(* The worklist.  m is the invariant map with the worklist.                *)

Entries == [pre : States(fn), post : {"Unprocessed", "Success", "Error"}]

MapOK(m) ==
    /\ DOMAIN m.inv \subseteq BlockIds(Body)
    /\ m.inv \in [DOMAIN m.inv -> Entries]
    /\ m.work \in Seq(DOMAIN m.inv)

\* The state s adds nothing to what is known at the start of the block next.
Passed(m, next, s) == next \in DOMAIN m.inv /\ Join(m.inv[next].pre, s) = m.inv[next].pre

\* What passing a state on may do to the map: an entry that changes is scheduled.
Grows(m, n) ==
    /\ DOMAIN m.inv \subseteq DOMAIN n.inv
    /\ Range(m.work) \subseteq Range(n.work)
    /\ \A x \in DOMAIN n.inv : x \in Range(n.work) \/ (x \in DOMAIN m.inv /\ n.inv[x] = m.inv[x])
    /\ \A y, s : Passed(m, y, s) => Passed(n, y, s)
    /\ Variant(n.inv, n.work) <= Variant(m.inv, m.work)

LEMMA RangeAppend ==
    ASSUME NEW S, NEW s \in Seq(S), NEW x
    PROVE  Range(Append(s, x)) = Range(s) \union {x}
<1> DEFINE t == Append(s, x)
<1>1. Len(s) \in Nat /\ DOMAIN s = 1..Len(s)
  OBVIOUS
<1>2. DOMAIN t = 1..(Len(s) + 1) /\ t[Len(s) + 1] = x /\ \A k \in 1..Len(s) : t[k] = s[k]
  OBVIOUS
<1> HIDE DEF t
<1>3. DOMAIN t = DOMAIN s \union {Len(s) + 1}
  BY <1>1, <1>2
<1>4. Range(t) = Range(s) \union {x}
  BY <1>1, <1>2, <1>3 DEF Range
<1> QED BY <1>4 DEF t

LEMMA UndecidedType ==
    ASSUME fn \in Functions, NEW map, NEW b
    PROVE  /\ Undecided(map, b) \in Nat /\ Undecided(map, b) <= Cardinality(Locals(fn)) + 1
           /\ b \in DOMAIN map => Undecided(map, b) <= Cardinality(Locals(fn))
<1> DEFINE L == Locals(fn)
           D == {l \in L : map[b].pre[l] # "MaybeAvailable"}
<1>1. IsFiniteSet(L) /\ Cardinality(L) \in Nat
  BY LocalsFinite
<1>2. IsFiniteSet(D) /\ Cardinality(D) <= Cardinality(L)
  <2>1. D \in SUBSET L
    OBVIOUS
  <2> HIDE DEF D, L
  <2> QED BY <1>1, <2>1, FS_Subset
<1>3. Cardinality(D) \in Nat
  BY <1>2, FS_CardinalityType
<1>4. Undecided(map, b) = IF b \in DOMAIN map THEN Cardinality(D) ELSE Cardinality(L) + 1
  BY DEF Undecided
<1> HIDE DEF D, L
<1>5. Undecided(map, b) \in Nat /\ Undecided(map, b) <= Cardinality(L) + 1
  BY <1>1, <1>2, <1>3, <1>4
<1>6. b \in DOMAIN map => Undecided(map, b) <= Cardinality(L)
  BY <1>2, <1>4
<1> QED BY <1>5, <1>6 DEF L

LEMMA VariantType ==
    ASSUME IsUnit(fn, Body), NEW m, MapOK(m)
    PROVE  Variant(m.inv, m.work) \in Int
<1> DEFINE u == [b \in BlockIds(Body) |-> Undecided(m.inv, b)]
<1>1. u \in [BlockIds(Body) -> Int]
  BY UndecidedType DEF IsUnit
<1>2. IsFiniteSet(BlockIds(Body))
  BY BlocksInside
<1>3. Len(m.work) \in Nat
  BY DEF MapOK
<1>4. SumFunction(u) \in Int
  <2> HIDE DEF u
  <2> QED BY <1>1, <1>2, SumType
<1>5. Variant(m.inv, m.work) = Len(m.work) + 2 * SumFunction(u)
  BY DEF Variant
<1> HIDE DEF u
<1> QED BY <1>3, <1>4, <1>5

\* Scheduling a block is paid for by what is decided about it.
LEMMA VariantPays ==
    ASSUME IsUnit(fn, Body), NEW m, MapOK(m), NEW n, NEW next \in BlockIds(Body),
           \A b \in BlockIds(Body) : b # next => Undecided(n.inv, b) = Undecided(m.inv, b),
           Undecided(n.inv, next) < Undecided(m.inv, next),
           Len(n.work) = Len(m.work) + 1
    PROVE  Variant(n.inv, n.work) <= Variant(m.inv, m.work)
<1> DEFINE B == BlockIds(Body)
           u == [b \in B |-> Undecided(m.inv, b)]
           v == [b \in B |-> Undecided(n.inv, b)]
<1>1. \A b : Undecided(m.inv, b) \in Int /\ Undecided(n.inv, b) \in Int
  BY UndecidedType DEF IsUnit
<1>2. u \in [B -> Int] /\ v \in [B -> Int] /\ IsFiniteSet(B)
  BY <1>1, BlocksInside
<1>3. \A x \in B : x # next => v[x] = u[x]
  OBVIOUS
<1>4. v[next] < u[next] /\ u[next] \in Int /\ v[next] \in Int
  BY <1>1
<1>5. Variant(m.inv, m.work) = Len(m.work) + 2 * SumFunction(u)
  BY DEF Variant
<1>6. Variant(n.inv, n.work) = Len(n.work) + 2 * SumFunction(v)
  BY DEF Variant
<1>7. next \in B
  OBVIOUS
<1> HIDE DEF u, v, B
<1>8. SumFunction(v) = SumFunction(u) + (v[next] - u[next]) /\ SumFunction(u) \in Int
  BY <1>2, <1>3, <1>7, SumChange, SumType
<1>9. Len(m.work) \in Nat
  BY DEF MapOK
<1>10. SumFunction(v) <= SumFunction(u) - 1 /\ SumFunction(v) \in Int
  BY <1>4, <1>8
<1> QED BY <1>5, <1>6, <1>8, <1>9, <1>10

LEMMA GrowsTrans ==
    ASSUME IsUnit(fn, Body), NEW m, NEW n, NEW o, MapOK(m), MapOK(n), MapOK(o), Grows(m, n), Grows(n, o)
    PROVE  Grows(m, o)
<1>1. Variant(o.inv, o.work) <= Variant(m.inv, m.work)
  <2>1. Variant(m.inv, m.work) \in Int /\ Variant(n.inv, n.work) \in Int /\ Variant(o.inv, o.work) \in Int
    BY VariantType
  <2>2. Variant(n.inv, n.work) <= Variant(m.inv, m.work) /\ Variant(o.inv, o.work) <= Variant(n.inv, n.work)
    BY DEF Grows
  <2> QED BY <2>1, <2>2
<1>2. /\ DOMAIN m.inv \subseteq DOMAIN o.inv
      /\ Range(m.work) \subseteq Range(o.work)
      /\ \A y, s : Passed(m, y, s) => Passed(o, y, s)
  BY DEF Grows
<1>3. \A x \in DOMAIN o.inv : x \in Range(o.work) \/ (x \in DOMAIN m.inv /\ o.inv[x] = m.inv[x])
  <2> SUFFICES ASSUME NEW x \in DOMAIN o.inv, x \notin Range(o.work)
               PROVE  x \in DOMAIN m.inv /\ o.inv[x] = m.inv[x]
    OBVIOUS
  <2>1. x \in DOMAIN n.inv /\ o.inv[x] = n.inv[x] /\ x \notin Range(n.work)
    BY DEF Grows
  <2> QED BY <2>1 DEF Grows
<1> QED BY <1>1, <1>2, <1>3 DEF Grows

LEMMA GrowsSelf ==
    ASSUME IsUnit(fn, Body), NEW m, MapOK(m)
    PROVE  Grows(m, m)
<1>1. Variant(m.inv, m.work) <= Variant(m.inv, m.work)
  BY VariantType
<1> QED BY <1>1 DEF Grows

LEMMA PropagateNew ==
    ASSUME IsUnit(fn, Body), NEW m, MapOK(m), NEW next \in BlockIds(Body), NEW s \in States(fn),
           next \notin DOMAIN m.inv
    PROVE  LET n == Propagate(m, next, s) IN MapOK(n) /\ Grows(m, n) /\ Passed(n, next, s)
<1> DEFINE n == Propagate(m, next, s)
           entry == [pre |-> s, post |-> "Success"]
<1>1. n.inv = Entered(m.inv, next, s) /\ n.work = Append(m.work, next)
  BY DEF Propagate
<1>2. n.inv = [x \in DOMAIN m.inv \union {next} |-> IF x = next THEN entry ELSE m.inv[x]]
  BY <1>1 DEF Entered
<1> HIDE DEF n
<1>3. /\ DOMAIN n.inv = DOMAIN m.inv \union {next} /\ n.inv[next] = entry
      /\ \A x \in DOMAIN m.inv : n.inv[x] = m.inv[x]
  BY <1>2
<1>4. m.work \in Seq(DOMAIN m.inv) /\ DOMAIN m.inv \subseteq BlockIds(Body) /\ m.inv \in [DOMAIN m.inv -> Entries]
  BY DEF MapOK
<1>5. entry \in Entries
  BY DEF Entries
<1>6. n.inv \in [DOMAIN n.inv -> Entries]
  <2>1. \A x \in DOMAIN n.inv : n.inv[x] \in Entries
    BY <1>3, <1>4, <1>5
  <2>2. n.inv = [x \in DOMAIN n.inv |-> n.inv[x]]
    BY <1>2
  <2> HIDE DEF entry
  <2> QED BY <2>1, <2>2
<1>7. n.work \in Seq(DOMAIN n.inv) /\ Len(n.work) = Len(m.work) + 1
  <2>1. m.work \in Seq(DOMAIN n.inv)
    BY <1>3, <1>4
  <2>2. next \in DOMAIN n.inv
    BY <1>3
  <2> QED BY <1>1, <2>1, <2>2
<1>8. MapOK(n)
  BY <1>3, <1>4, <1>6, <1>7 DEF MapOK
<1>9. Range(n.work) = Range(m.work) \union {next}
  BY <1>1, <1>4, RangeAppend
<1>10. Join(s, s) = s
  <2>1. s = [l \in DOMAIN s |-> s[l]]
    BY DEF States
  <2> QED BY <2>1 DEF Join
<1>11. Passed(n, next, s)
  BY <1>3, <1>10 DEF Passed
<1>12. \A y, t : Passed(m, y, t) => Passed(n, y, t)
  BY <1>3 DEF Passed
<1>13. Variant(n.inv, n.work) <= Variant(m.inv, m.work)
  <2>1. \A b \in BlockIds(Body) : b # next => Undecided(n.inv, b) = Undecided(m.inv, b)
    BY <1>3 DEF Undecided
  <2>2. Undecided(m.inv, next) = Cardinality(Locals(fn)) + 1
    BY DEF Undecided
  <2>3. Undecided(n.inv, next) <= Cardinality(Locals(fn)) /\ Undecided(n.inv, next) \in Nat
    BY <1>3, UndecidedType DEF IsUnit
  <2>4. Cardinality(Locals(fn)) \in Nat
    BY LocalsFinite DEF IsUnit
  <2>5. Undecided(n.inv, next) < Undecided(m.inv, next)
    BY <2>2, <2>3, <2>4
  <2> QED BY <1>7, <2>1, <2>5, VariantPays
<1>14. Grows(m, n)
  BY <1>3, <1>9, <1>12, <1>13 DEF Grows
<1> QED BY <1>8, <1>11, <1>14 DEF n

LEMMA PropagateOld ==
    ASSUME IsUnit(fn, Body), verdict = "locals", NEW m, MapOK(m), NEW next \in DOMAIN m.inv,
           NEW s \in States(fn), Join(m.inv[next].pre, s) # m.inv[next].pre
    PROVE  LET n == Propagate(m, next, s) IN MapOK(n) /\ Grows(m, n) /\ Passed(n, next, s)
<1> DEFINE n == Propagate(m, next, s)
           old == m.inv[next].pre
           j == Join(old, s)
<1>1. n.inv = [m.inv EXCEPT ![next].pre = j] /\ n.work = Append(m.work, next)
  BY DEF Propagate, JoinPre
<1> HIDE DEF n
<1>2. m.work \in Seq(DOMAIN m.inv) /\ DOMAIN m.inv \subseteq BlockIds(Body) /\ m.inv \in [DOMAIN m.inv -> Entries]
  BY DEF MapOK
<1>3. m.inv[next] \in Entries /\ old \in States(fn)
  BY <1>2 DEF Entries
<1>4. /\ j \in States(fn) /\ \A l \in Locals(fn) : j[l] = old[l] \/ j[l] = "MaybeAvailable"
      /\ \E l \in Locals(fn) : old[l] # "MaybeAvailable" /\ j[l] = "MaybeAvailable"
  BY <1>3, JoinFacts
<1> HIDE DEF j, old
<1>5. /\ DOMAIN n.inv = DOMAIN m.inv /\ n.inv[next] = [m.inv[next] EXCEPT !.pre = j]
      /\ \A x \in DOMAIN m.inv : x # next => n.inv[x] = m.inv[x]
  BY <1>1, <1>2
<1>6. n.inv[next] \in Entries /\ n.inv[next].pre = j
  BY <1>3, <1>4, <1>5 DEF Entries
<1>7. n.inv \in [DOMAIN n.inv -> Entries]
  <2>1. \A x \in DOMAIN n.inv : n.inv[x] \in Entries
    BY <1>2, <1>5, <1>6
  <2>2. n.inv = [x \in DOMAIN n.inv |-> n.inv[x]]
    BY <1>1, <1>2
  <2> QED BY <2>1, <2>2
<1>8. n.work \in Seq(DOMAIN n.inv) /\ Len(n.work) = Len(m.work) + 1
  BY <1>1, <1>2, <1>5
<1>9. MapOK(n)
  BY <1>2, <1>5, <1>7, <1>8 DEF MapOK
<1>10. Range(n.work) = Range(m.work) \union {next}
  BY <1>1, <1>2, RangeAppend
<1>11. Join(j, s) = j
  <2>1. DOMAIN old = Locals(fn) /\ DOMAIN j = Locals(fn) /\ j = [l \in Locals(fn) |-> j[l]]
    BY <1>3, <1>4 DEF States
  <2>2. \A l \in Locals(fn) : j[l] = IF old[l] = s[l] THEN old[l] ELSE "MaybeAvailable"
    BY <2>1 DEF j, Join
  <2>3. \A l \in Locals(fn) : (IF j[l] = s[l] THEN j[l] ELSE "MaybeAvailable") = j[l]
    BY <2>2
  <2> QED BY <2>1, <2>3 DEF Join
<1>12. Passed(n, next, s)
  BY <1>5, <1>6, <1>11 DEF Passed
<1>13. ASSUME NEW y, NEW t, Passed(m, y, t) PROVE Passed(n, y, t)
  <2>1. CASE y # next
    BY <1>5, <1>13, <2>1 DEF Passed
  <2>2. CASE y = next
    <3>1. Join(old, t) = old
      BY <1>13, <2>2 DEF Passed, old
    <3>2. Join(j, t) = j
      BY <1>3, <3>1, JoinKeeps DEF j
    <3> QED BY <1>5, <1>6, <2>2, <3>2 DEF Passed
  <2> QED BY <2>1, <2>2
<1>14. Variant(n.inv, n.work) <= Variant(m.inv, m.work)
  <2>1. \A b \in BlockIds(Body) : b # next => Undecided(n.inv, b) = Undecided(m.inv, b)
    BY <1>5 DEF Undecided
  <2> DEFINE C == {l \in Locals(fn) : old[l] # "MaybeAvailable"}
             D == {l \in Locals(fn) : j[l] # "MaybeAvailable"}
  <2>2. Undecided(m.inv, next) = Cardinality(C)
    BY DEF Undecided, old
  <2>3. Undecided(n.inv, next) = Cardinality(D)
    BY <1>5, <1>6 DEF Undecided
  <2>4. D \in SUBSET C /\ D # C
    BY <1>4
  <2>5. C \in SUBSET Locals(fn) /\ IsFiniteSet(Locals(fn))
    BY LocalsFinite DEF IsUnit
  <2> HIDE DEF C, D
  <2>6. IsFiniteSet(C)
    BY <2>5, FS_Subset
  <2>7. IsFiniteSet(D) /\ Cardinality(D) <= Cardinality(C) /\ Cardinality(D) # Cardinality(C)
    BY <2>4, <2>6, FS_Subset
  <2>8. Cardinality(C) \in Nat /\ Cardinality(D) \in Nat
    BY <2>6, <2>7, FS_CardinalityType
  <2>9. Undecided(n.inv, next) < Undecided(m.inv, next)
    BY <2>2, <2>3, <2>7, <2>8
  <2>10. next \in BlockIds(Body)
    BY <1>2
  <2> QED BY <1>8, <2>1, <2>9, <2>10, VariantPays
<1>15. Grows(m, n)
  <2>1. \A x \in DOMAIN n.inv : x \in Range(n.work) \/ (x \in DOMAIN m.inv /\ n.inv[x] = m.inv[x])
    BY <1>5, <1>10
  <2> QED BY <1>5, <1>10, <1>13, <1>14, <2>1 DEF Grows
<1> QED BY <1>9, <1>12, <1>15 DEF n

LEMMA PropagateStep ==
    ASSUME IsUnit(fn, Body), verdict = "locals", NEW m, MapOK(m), NEW next \in BlockIds(Body), NEW s \in States(fn)
    PROVE  LET n == Propagate(m, next, s) IN MapOK(n) /\ Grows(m, n) /\ Passed(n, next, s)
<1>1. CASE next \notin DOMAIN m.inv
  BY <1>1, PropagateNew
<1>2. CASE next \in DOMAIN m.inv /\ Join(m.inv[next].pre, s) # m.inv[next].pre
  BY <1>2, PropagateOld
<1>3. CASE next \in DOMAIN m.inv /\ Join(m.inv[next].pre, s) = m.inv[next].pre
  <2>1. Propagate(m, next, s) = m
    BY <1>3 DEF Propagate, JoinPre
  <2>2. Passed(m, next, s)
    BY <1>3 DEF Passed
  <2> QED BY <2>1, <2>2, GrowsSelf
<1> QED BY <1>1, <1>2, <1>3

LEMMA PropagateAllStep ==
    ASSUME IsUnit(fn, Body), verdict = "locals", NEW m, MapOK(m), NEW e \in Offsets(Body), IsEndOfBlock(Body, e),
           NEW s \in States(fn)
    PROVE  LET n == PropagateAll(m, Successors(Body, e), s) IN
           MapOK(n) /\ Grows(m, n) /\ \A next \in Range(Successors(Body, e)) : Passed(n, next, s)
<1> DEFINE q == Successors(Body, e)
<1>1. q = <<>> \/ (\E x : q = <<x>>) \/ \E x, y : q = <<x, y>>
  BY SuccessorsAre
<1>2. Range(q) \subseteq BlockIds(Body)
  BY NextBlocks
<1> HIDE DEF q
<1>3. CASE q = <<>>
  <2>1. Range(<<>>) = {}
    BY DEF Range
  <2> QED BY <1>3, <2>1, GrowsSelf, PropagateAllIs DEF q
<1>4. ASSUME NEW x, q = <<x>>
      PROVE  LET n == PropagateAll(m, q, s) IN
             MapOK(n) /\ Grows(m, n) /\ \A next \in Range(q) : Passed(n, next, s)
  <2>1. Range(<<x>>) = {x}
    BY DEF Range
  <2>2. PropagateAll(m, q, s) = Propagate(m, x, s)
    BY <1>4, PropagateAllIs
  <2> QED BY <1>2, <1>4, <2>1, <2>2, PropagateStep
<1>5. ASSUME NEW x, NEW y, q = <<x, y>>
      PROVE  LET n == PropagateAll(m, q, s) IN
             MapOK(n) /\ Grows(m, n) /\ \A next \in Range(q) : Passed(n, next, s)
  <2>1. Range(<<x, y>>) = {x, y}
    BY DEF Range
  <2> DEFINE n == Propagate(m, x, s)
             o == Propagate(n, y, s)
  <2>2. PropagateAll(m, <<x, y>>, s) = o
    BY PropagateTwo
  <2>3. x \in BlockIds(Body) /\ y \in BlockIds(Body)
    BY <1>2, <1>5, <2>1
  <2>4. MapOK(n) /\ Grows(m, n) /\ Passed(n, x, s)
    BY <2>3, PropagateStep
  <2> HIDE DEF n
  <2>5. MapOK(o) /\ Grows(n, o) /\ Passed(o, y, s)
    BY <2>3, <2>4, PropagateStep
  <2> HIDE DEF o
  <2>6. Grows(m, o)
    BY <2>4, <2>5, GrowsTrans
  <2>7. Passed(o, x, s)
    BY <2>4, <2>5 DEF Grows
  <2> QED BY <1>5, <2>1, <2>2, <2>5, <2>6, <2>7
<1> QED BY <1>1, <1>3, <1>4, <1>5 DEF q

\* Taking the last block off the worklist and marking it uses up one unit of the variant.
LEMMA TakeBlock ==
    ASSUME IsUnit(fn, Body), NEW m, MapOK(m), m.work # <<>>, NEW post \in {"Success", "Error"}
    PROVE  LET b == Last(m.work)
               n == [inv |-> [m.inv EXCEPT ![b].post = post], work |-> Front(m.work)]
           IN  /\ b \in DOMAIN m.inv
               /\ MapOK(n) /\ DOMAIN n.inv = DOMAIN m.inv
               /\ Variant(n.inv, n.work) = Variant(m.inv, m.work) - 1
               /\ Range(m.work) \subseteq Range(n.work) \union {b}
               /\ \A x \in DOMAIN m.inv : n.inv[x].pre = m.inv[x].pre /\ (x # b => n.inv[x] = m.inv[x])
               /\ n.inv[b].post = post
<1> DEFINE b == Last(m.work)
           n == [inv |-> [m.inv EXCEPT ![b].post = post], work |-> Front(m.work)]
           D == DOMAIN m.inv
           w == m.work
<1>1. w \in Seq(D) /\ w # <<>> /\ m.inv \in [D -> Entries] /\ D \subseteq BlockIds(Body)
  BY DEF MapOK
<1>2. Len(w) \in Nat /\ Len(w) >= 1 /\ DOMAIN w = 1..Len(w)
  BY <1>1
<1>3. b = w[Len(w)] /\ b \in D
  BY <1>1, <1>2, ElementOfSeq DEF Last
<1>4. Front(w) \in Seq(D) /\ Len(Front(w)) = Len(w) - 1 /\ \A k \in 1..(Len(w) - 1) : Front(w)[k] = w[k]
  <2>1. Front(w) = SubSeq(w, 1, Len(w) - 1)
    BY DEF Front
  <2>2. \A k \in 1..(Len(w) - 1) : w[k] \in D
    BY <1>1, <1>2, ElementOfSeq
  <2>3. 1 \in Int /\ Len(w) - 1 \in Int
    BY <1>2
  <2> HIDE DEF w, D
  <2>4. /\ SubSeq(w, 1, Len(w) - 1) \in Seq(D)
        /\ Len(SubSeq(w, 1, Len(w) - 1)) = IF 1 <= Len(w) - 1 THEN Len(w) - 1 - 1 + 1 ELSE 0
        /\ \A k \in 1..(Len(w) - 1 - 1 + 1) : SubSeq(w, 1, Len(w) - 1)[k] = w[1 + k - 1]
    BY <2>2, <2>3, SubSeqProperties
  <2>5. Len(SubSeq(w, 1, Len(w) - 1)) = Len(w) - 1
    BY <1>2, <2>4
  <2>6. ASSUME NEW k \in 1..(Len(w) - 1) PROVE SubSeq(w, 1, Len(w) - 1)[k] = w[k]
    <3>1. k \in 1..(Len(w) - 1 - 1 + 1) /\ 1 + k - 1 = k
      BY <1>2
    <3> QED BY <2>4, <3>1
  <2> QED BY <2>1, <2>4, <2>5, <2>6
<1> HIDE DEF b
<1>5. n.inv \in [D -> Entries] /\ DOMAIN n.inv = D
  BY <1>1, <1>3 DEF Entries
<1>6. /\ \A x \in D : n.inv[x].pre = m.inv[x].pre /\ (x # b => n.inv[x] = m.inv[x])
      /\ n.inv[b].post = post
  BY <1>1, <1>3 DEF Entries
<1>7. MapOK(n)
  BY <1>1, <1>4, <1>5 DEF MapOK
<1>8. Range(w) \subseteq Range(n.work) \union {b}
  <2> SUFFICES ASSUME NEW k \in 1..Len(w) PROVE w[k] \in Range(n.work) \union {b}
    BY <1>2 DEF Range
  <2>1. CASE k = Len(w)
    BY <1>3, <2>1
  <2>2. CASE k # Len(w)
    <3>1. k \in 1..(Len(w) - 1) /\ DOMAIN Front(w) = 1..(Len(w) - 1)
      BY <1>2, <1>4, <2>2
    <3> QED BY <1>4, <3>1 DEF Range
  <2> QED BY <2>1, <2>2
<1>9. Variant(n.inv, n.work) = Variant(m.inv, m.work) - 1
  <2> DEFINE u == [x \in BlockIds(Body) |-> Undecided(m.inv, x)]
             v == [x \in BlockIds(Body) |-> Undecided(n.inv, x)]
  <2>1. ASSUME NEW x \in BlockIds(Body) PROVE Undecided(n.inv, x) = Undecided(m.inv, x)
    BY <1>5, <1>6 DEF Undecided
  <2>2. u = v
    BY <2>1
  <2>3. Variant(m.inv, w) = Len(w) + 2 * SumFunction(u) /\ Variant(n.inv, n.work) = Len(n.work) + 2 * SumFunction(v)
    BY DEF Variant
  <2>4. u \in [BlockIds(Body) -> Int]
    BY UndecidedType DEF IsUnit
  <2>5. SumFunction(u) \in Int
    <3> HIDE DEF u
    <3> QED BY <2>4, SumType, BlocksInside
  <2>6. Len(n.work) = Len(w) - 1
    BY <1>4
  <2>7. Len(n.work) + 2 * SumFunction(v) = (Len(w) + 2 * SumFunction(u)) - 1
    <3> DEFINE k == Len(w)
               y == Len(n.work)
               su == SumFunction(u)
               sv == SumFunction(v)
    <3>1. su = sv
      BY <2>2, Zenon
    <3>2. k \in Nat /\ su \in Int /\ y = k - 1
      BY <1>2, <2>5, <2>6
    <3> HIDE DEF k, y, su, sv
    <3>3. y + 2 * sv = (k + 2 * su) - 1
      BY <3>1, <3>2
    <3> QED BY <3>3 DEF k, y, su, sv
  <2> QED BY <2>3, <2>7, Zenon
<1> QED BY <1>3, <1>5, <1>6, <1>7, <1>8, <1>9 DEF b

\* A block is settled: it is scheduled, an error was found in it, or it has no error and its
\* state is passed on to all successors.
Settled(m, b) ==
    \/ b \in Range(m.work)
    \/ m.inv[b].post = "Error"
    \/ LET r == LocalsBlock(fn, Body, b, m.inv[b].pre)
       IN  r.ok /\ \A next \in Range(Successors(Body, BlockEnd(Body, b))) : Passed(m, next, r.s)

AllSettled(m) == \A b \in DOMAIN m.inv : Settled(m, b)

\* One round of the worklist.
Round(m) ==
    LET b == Last(m.work)
        r == LocalsBlock(fn, Body, b, m.inv[b].pre)
        marked == [m.inv EXCEPT ![b].post = IF r.ok THEN "Success" ELSE "Error"]
    IN  PropagateAll([inv |-> marked, work |-> Front(m.work)],
                     IF r.ok THEN Successors(Body, BlockEnd(Body, b)) ELSE <<>>, r.s)

LEMMA RoundStep ==
    ASSUME IsUnit(fn, Body), verdict = "locals", NEW m, MapOK(m), AllSettled(m), m.work # <<>>
    PROVE  LET o == Round(m) IN
           /\ MapOK(o) /\ AllSettled(o)
           /\ \A y, s : Passed(m, y, s) => Passed(o, y, s)
           /\ Variant(o.inv, o.work) < Variant(m.inv, m.work)
<1> DEFINE b == Last(m.work)
           r == LocalsBlock(fn, Body, b, m.inv[b].pre)
           post == IF r.ok THEN "Success" ELSE "Error"
           n == [inv |-> [m.inv EXCEPT ![b].post = post], work |-> Front(m.work)]
           nexts == Successors(Body, BlockEnd(Body, b))
           o == Round(m)
<1>1. post \in {"Success", "Error"}
  OBVIOUS
<1>2. /\ b \in DOMAIN m.inv
      /\ MapOK(n) /\ DOMAIN n.inv = DOMAIN m.inv
      /\ Variant(n.inv, n.work) = Variant(m.inv, m.work) - 1
      /\ Range(m.work) \subseteq Range(n.work) \union {b}
      /\ \A x \in DOMAIN m.inv : n.inv[x].pre = m.inv[x].pre /\ (x # b => n.inv[x] = m.inv[x])
      /\ n.inv[b].post = post
  <2> HIDE DEF post
  <2> QED BY <1>1, TakeBlock
<1>3. b \in BlockIds(Body) /\ m.inv[b].pre \in States(fn)
  BY <1>2 DEF MapOK, Entries
<1>4. r.ok \in BOOLEAN /\ r.s \in States(fn)
  <2>1. r \in Results(fn)
    <3> HIDE DEF b
    <3> QED BY <1>3, BlockTyped
  <2> HIDE DEF r
  <2> QED BY <2>1 DEF Results
<1>5. o = PropagateAll(n, IF r.ok THEN nexts ELSE <<>>, r.s)
  BY DEF Round
<1>6. MapOK(o) /\ Grows(n, o) /\ (r.ok => \A next \in Range(nexts) : Passed(o, next, r.s)) /\ (~r.ok => o = n)
  <2> DEFINE e == BlockEnd(Body, b)
  <2>1. e \in Offsets(Body) /\ IsEndOfBlock(Body, e)
    <3> HIDE DEF b
    <3> QED BY <1>3, BlockEndIs
  <2> HIDE DEF b, r, n, o, post
  <2>2. CASE r.ok
    <3>1. o = PropagateAll(n, Successors(Body, e), r.s)
      BY <1>5, <2>2
    <3> DEFINE s == r.s
    <3>2. s \in States(fn)
      BY <1>4
    <3> HIDE DEF s, e
    <3>3. LET z == PropagateAll(n, Successors(Body, e), s) IN
          MapOK(z) /\ Grows(n, z) /\ \A next \in Range(Successors(Body, e)) : Passed(z, next, s)
      BY <1>2, <2>1, <3>2, PropagateAllStep
    <3> QED BY <2>2, <3>1, <3>3 DEF e, s
  <2>3. CASE ~r.ok
    <3>1. o = n
      BY <1>5, <2>3, PropagateAllIs
    <3> QED BY <1>2, <2>3, <3>1, GrowsSelf
  <2> QED BY <2>2, <2>3
<1>7. \A y, s : Passed(m, y, s) => Passed(n, y, s)
  <2> HIDE DEF n, b
  <2> QED BY <1>2 DEF Passed
<1>8. \A y, s : Passed(n, y, s) => Passed(o, y, s)
  <2> HIDE DEF n, b, o
  <2> QED BY <1>6 DEF Grows
<1>9. Variant(o.inv, o.work) < Variant(m.inv, m.work)
  <2> DEFINE vm == Variant(m.inv, m.work)
             vn == Variant(n.inv, n.work)
             vo == Variant(o.inv, o.work)
  <2>1. vn = vm - 1 /\ vo <= vn
    BY <1>2, <1>6 DEF Grows
  <2>2. vm \in Int /\ vo \in Int
    BY <1>6, VariantType
  <2> HIDE DEF vm, vn, vo
  <2>3. vo < vm
    BY <2>1, <2>2
  <2> QED BY <2>3 DEF vm, vo
<1>10. AllSettled(o)
  <2> SUFFICES ASSUME NEW x \in DOMAIN o.inv, x \notin Range(o.work) PROVE Settled(o, x)
    BY DEF AllSettled, Settled
  <2>1. x \in DOMAIN n.inv /\ o.inv[x] = n.inv[x] /\ x \notin Range(n.work) /\ x \in DOMAIN m.inv
    <3> HIDE DEF n, o, b
    <3> QED BY <1>2, <1>6 DEF Grows
  <2>2. o.inv[x].pre = m.inv[x].pre
    BY <1>2, <2>1
  <2>3. CASE x = b
    <3>1. CASE r.ok
      <4>1. LocalsBlock(fn, Body, x, o.inv[x].pre) = r
        BY <2>2, <2>3
      <4> HIDE DEF r, o, n, post, b
      <4> QED BY <1>6, <2>3, <3>1, <4>1 DEF Settled
    <3>2. CASE ~r.ok
      <4>1. o.inv[x].post = post /\ post = "Error"
        BY <1>2, <2>1, <2>3, <3>2
      <4> QED BY <4>1 DEF Settled
    <3> QED BY <3>1, <3>2
  <2>4. CASE x # b
    <3>1. x \notin Range(m.work)
      BY <1>2, <2>1, <2>4
    <3>2. o.inv[x] = m.inv[x]
      BY <1>2, <2>1, <2>4
    <3>3. Settled(m, x)
      BY <2>1 DEF AllSettled
    <3> HIDE DEF o, n, b
    <3> QED BY <1>7, <1>8, <3>1, <3>2, <3>3 DEF Settled
  <2> QED BY <2>3, <2>4
<1> QED BY <1>6, <1>7, <1>8, <1>9, <1>10

-----------------------------------------------------------------------------
(* Paths.                                                                  *)

\* The abstract state s tells the truth about the locals that hold a value.
CoversHeld(f, s, held) ==
    \A l \in Locals(f) : /\ s[l] = "Available" => l \in held
                         /\ s[l] = "Unavailable" => l \notin held

AtEntry(f) == <<0, {l \in Locals(f) : l < Len(Sig[f].params)}>>

\* A path through the code of f: it begins with the parameters and follows the edges of the
\* control flow graph.
IsPath(f, c, p) ==
    /\ p[1] = AtEntry(f)
    /\ \A k \in 1..(Len(p) - 1) : p[k + 1] \in PathStep(c, p[k])

\* No path through the code of f uses a local that holds no value, overwrites one whose
\* value cannot be dropped, or returns while a local holds such a value.
LocalsSafe(f, c) ==
    \A p \in Seq(Nat \X SUBSET Nat) :
        IsPath(f, c, p) => \A k \in 1..Len(p) : PathSafe(f, c, p[k])

LEMMA CoveredIsSafe ==
    ASSUME NEW f, NEW c, IsUnit(f, c), NEW pc \in Offsets(c), NEW s \in States(f), NEW held,
           CoversHeld(f, s, held), SafeToExecute(f, At(c, pc), s)
    PROVE  PathSafe(f, c, <<pc, held>>)
<1> DEFINE i == At(c, pc)
<1>1. i.op \in LocalOps => i.a \in Locals(f)
  BY UnitFacts
<1>2. /\ i.op = "StLoc" => s[i.a] = "Unavailable" \/ LocalAt(f, i.a) \in Droppable
      /\ i.op \in {"MoveLoc", "CopyLoc", "MutBorrowLoc", "ImmBorrowLoc"} => s[i.a] = "Available"
      /\ i.op = "Ret" => \A l \in Locals(f) : s[l] = "Unavailable" \/ LocalAt(f, l) \in Droppable
  BY DEF SafeToExecute, HoldsUndroppable
<1> HIDE DEF i
<1>3. i.op = "StLoc" => i.a \notin held \intersect {l \in Locals(f) : LocalAt(f, l) \notin Droppable}
  BY <1>2 DEF CoversHeld
<1>4. i.op \in {"MoveLoc", "CopyLoc", "MutBorrowLoc", "ImmBorrowLoc"} => i.a \in held
  BY <1>1, <1>2 DEF CoversHeld, LocalOps
<1>5. i.op = "Ret" => held \intersect {l \in Locals(f) : LocalAt(f, l) \notin Droppable} = {}
  BY <1>2 DEF CoversHeld
<1> QED BY <1>3, <1>4, <1>5 DEF PathSafe, i

\* What a step of a path does to the locals that hold a value.
HeldAfter(i, held) ==
    IF i.op = "StLoc" THEN held \union {i.a}
    ELSE IF i.op = "MoveLoc" THEN held \ {i.a} ELSE held

LEMMA CoversStep ==
    ASSUME NEW f, NEW c, IsUnit(f, c), NEW pc \in Offsets(c), NEW s \in States(f), NEW held, CoversHeld(f, s, held)
    PROVE  CoversHeld(f, ExecuteInner(At(c, pc), s), HeldAfter(At(c, pc), held))
<1> DEFINE i == At(c, pc)
<1> HIDE DEF i
<1> SUFFICES ASSUME NEW l \in Locals(f)
             PROVE  /\ ExecuteInner(i, s)[l] = "Available" => l \in HeldAfter(i, held)
                    /\ ExecuteInner(i, s)[l] = "Unavailable" => l \notin HeldAfter(i, held)
  BY DEF CoversHeld, i
<1>1. /\ s[l] = "Available" => l \in held
      /\ s[l] = "Unavailable" => l \notin held
  BY DEF CoversHeld
<1>2. l \in DOMAIN s
  BY DEF States
<1>3. CASE i.op = "StLoc"
  <2>1. ExecuteInner(i, s) = [s EXCEPT ![i.a] = "Available"] /\ HeldAfter(i, held) = held \union {i.a}
    BY <1>3 DEF ExecuteInner, HeldAfter
  <2> QED BY <1>1, <1>2, <2>1
<1>4. CASE i.op = "MoveLoc"
  <2>1. ExecuteInner(i, s) = [s EXCEPT ![i.a] = "Unavailable"] /\ HeldAfter(i, held) = held \ {i.a}
    BY <1>4 DEF ExecuteInner, HeldAfter
  <2> QED BY <1>1, <1>2, <2>1
<1>5. CASE i.op # "StLoc" /\ i.op # "MoveLoc"
  <2>1. ExecuteInner(i, s) = s /\ HeldAfter(i, held) = held
    BY <1>5 DEF ExecuteInner, HeldAfter
  <2> QED BY <1>1, <2>1
<1> QED BY <1>3, <1>4, <1>5

LEMMA CoversJoin ==
    ASSUME NEW f, NEW pre \in States(f), NEW s, NEW held, CoversHeld(f, s, held), Join(pre, s) = pre
    PROVE  CoversHeld(f, pre, held)
<1>1. DOMAIN pre = Locals(f)
  BY DEF States
<1>2. ASSUME NEW l \in Locals(f), pre[l] # "MaybeAvailable" PROVE pre[l] = s[l]
  <2>1. Join(pre, s)[l] = IF pre[l] = s[l] THEN pre[l] ELSE "MaybeAvailable"
    BY <1>1 DEF Join
  <2> QED BY <1>2, <2>1
<1> QED BY <1>2 DEF CoversHeld

\* The analysis explains a point of a path: the point lies in a block it has met, and the
\* state it computes there covers the locals.
Explained(m, x) ==
    \E b \in DOMAIN m.inv : \E R :
        /\ IsRun(fn, Body, b, m.inv[b].pre, R)
        /\ \E j \in 1..Length(Body, b) : x[1] = b + j - 1 /\ CoversHeld(fn, R[j - 1].s, x[2])

\* The analysis has ended without an error.
Clean(m) == MapOK(m) /\ AllSettled(m) /\ m.work = <<>> /\ \A b \in DOMAIN m.inv : m.inv[b].post # "Error"

LEMMA CleanBlocks ==
    ASSUME NEW m, Clean(m), NEW b \in DOMAIN m.inv
    PROVE  LET r == LocalsBlock(fn, Body, b, m.inv[b].pre) IN
           r.ok /\ \A next \in Range(Successors(Body, BlockEnd(Body, b))) : Passed(m, next, r.s)
<1>1. Range(m.work) = {}
  BY DEF Clean, Range
<1>2. Settled(m, b) /\ m.inv[b].post # "Error"
  BY DEF Clean, AllSettled
<1> QED BY <1>1, <1>2 DEF Settled

LEMMA EnteredIsExplained ==
    ASSUME IsUnit(fn, Body), NEW m, Clean(m), NEW q, NEW s, NEW held, Passed(m, q, s), CoversHeld(fn, s, held)
    PROVE  Explained(m, <<q, held>>)
<1>1. q \in DOMAIN m.inv /\ q \in BlockIds(Body) /\ m.inv[q].pre \in States(fn)
  BY DEF Passed, Clean, MapOK, Entries
<1>2. CoversHeld(fn, m.inv[q].pre, held)
  BY <1>1, CoversJoin DEF Passed
<1>3. PICK R : IsRun(fn, Body, q, m.inv[q].pre, R)
  BY <1>1, RunExists
<1>4. R[0].s = m.inv[q].pre
  BY <1>3 DEF IsRun
<1>5. 1 \in 1..Length(Body, q) /\ q + 1 - 1 = q /\ 1 - 1 = 0
  BY <1>1, LengthIs
<1> QED BY <1>1, <1>2, <1>3, <1>4, <1>5 DEF Explained

LEMMA ExplainedStep ==
    ASSUME IsUnit(fn, Body), NEW m, Clean(m), NEW pc, NEW held, Explained(m, <<pc, held>>)
    PROVE  /\ PathSafe(fn, Body, <<pc, held>>)
           /\ \A y \in PathStep(Body, <<pc, held>>) : Explained(m, y)
<1>1. PICK b, R, j :
        /\ b \in DOMAIN m.inv /\ IsRun(fn, Body, b, m.inv[b].pre, R)
        /\ j \in 1..Length(Body, b) /\ pc = b + j - 1 /\ CoversHeld(fn, R[j - 1].s, held)
  BY DEF Explained
<1>2. b \in BlockIds(Body) /\ m.inv[b].pre \in States(fn)
  BY <1>1 DEF Clean, MapOK, Entries
<1> DEFINE L == Length(Body, b)
           r == LocalsBlock(fn, Body, b, m.inv[b].pre)
           h == HeldAfter(At(Body, pc), held)
           e == BlockEnd(Body, b)
<1>3. r.ok /\ \A next \in Range(Successors(Body, e)) : Passed(m, next, r.s)
  BY <1>1, CleanBlocks
<1>4. L \in Nat /\ b \in Nat /\ j \in Nat /\ j >= 1 /\ j <= L /\ pc \in Offsets(Body)
  BY <1>1, <1>2, LengthIs
<1>5. \A k \in 0..L : R[k] \in Results(fn)
  BY <1>1, <1>2, RunTyped
<1>6. R[j - 1].s \in States(fn)
  <2>1. j - 1 \in 0..L
    BY <1>4
  <2> HIDE DEF L
  <2> QED BY <1>5, <2>1 DEF Results
<1>7. SafeToExecute(fn, At(Body, pc), R[j - 1].s) /\ R[j].s = ExecuteInner(At(Body, pc), R[j - 1].s)
  BY <1>1, <1>2, <1>3, RunSafe
<1>8. PathSafe(fn, Body, <<pc, held>>)
  BY <1>1, <1>4, <1>6, <1>7, CoveredIsSafe
<1>9. CoversHeld(fn, R[j].s, h)
  BY <1>1, <1>4, <1>6, <1>7, CoversStep
<1>10. PathStep(Body, <<pc, held>>) = {<<q, h>> : q \in Range(Successors(Body, pc))}
  BY DEF PathStep, HeldAfter
<1>11. /\ e \in Nat /\ IsEndOfBlock(Body, e) /\ L = e - b + 1
       /\ \A p \in b..(e - 1) : ~IsEndOfBlock(Body, p)
  <2>1. e \in Nat /\ IsEndOfBlock(Body, e) /\ \A p \in b..(e - 1) : ~IsEndOfBlock(Body, p)
    BY <1>2, BlockEndIs
  <2> QED BY <2>1 DEF Length
<1> SUFFICES ASSUME NEW q \in Range(Successors(Body, pc)) PROVE Explained(m, <<q, h>>)
  BY <1>8, <1>10
<1> HIDE DEF h
<1>12. CASE j < L
  <2>1. pc \in b..(e - 1)
    <3> HIDE DEF L, e
    <3> QED BY <1>1, <1>4, <1>11, <1>12
  <2>2. ~IsEndOfBlock(Body, pc)
    <3> HIDE DEF e
    <3> QED BY <1>11, <2>1
  <2>3. q = pc + 1
    BY <1>4, <2>2, NextBlocks
  <2>4. j + 1 \in 1..L /\ q = b + (j + 1) - 1 /\ (j + 1) - 1 = j
    <3> HIDE DEF L
    <3> QED BY <1>1, <1>4, <1>12, <2>3
  <2> QED BY <1>1, <1>9, <2>4 DEF Explained
<1>13. CASE j = L
  <2>1. pc = e
    <3> HIDE DEF L, e
    <3> QED BY <1>1, <1>4, <1>11, <1>13
  <2>2. R[j] = r
    BY <1>1, <1>13 DEF IsRun
  <2>3. Passed(m, q, r.s) /\ CoversHeld(fn, r.s, h)
    BY <1>3, <1>9, <2>1, <2>2
  <2> HIDE DEF r
  <2> QED BY <2>3, EnteredIsExplained
<1> QED BY <1>4, <1>12, <1>13

LEMMA CleanIsSafe ==
    ASSUME IsUnit(fn, Body), NEW m, Clean(m), Passed(m, 0, InitialLocals(fn))
    PROVE  LocalsSafe(fn, Body)
<1> SUFFICES ASSUME NEW p \in Seq(Nat \X SUBSET Nat), IsPath(fn, Body, p), NEW k \in 1..Len(p)
             PROVE  PathSafe(fn, Body, p[k])
  BY DEF LocalsSafe
<1> DEFINE n == Len(p)
           Bad == {i \in 1..n : ~Explained(m, p[i])}
<1>1. n \in Nat /\ \A i \in 1..n : p[i] \in Nat \X SUBSET Nat
  BY ElementOfSeq
<1>2. \A i \in 1..n : p[i] = <<p[i][1], p[i][2]>>
  BY <1>1
<1>3. Explained(m, p[1])
  <2> DEFINE held == {l \in Locals(fn) : l < Len(Sig[fn].params)}
  <2>1. CoversHeld(fn, InitialLocals(fn), held)
    BY DEF CoversHeld, InitialLocals
  <2>2. p[1] = <<0, held>>
    BY DEF IsPath, AtEntry
  <2> HIDE DEF held
  <2> QED BY <2>1, <2>2, EnteredIsExplained
<1>4. ASSUME NEW i \in 1..(n - 1), Explained(m, p[i]) PROVE Explained(m, p[i + 1])
  <2>1. p[i + 1] \in PathStep(Body, p[i])
    BY DEF IsPath
  <2>2. i \in 1..n
    BY <1>1
  <2>3. PICK pc, held : p[i] = <<pc, held>>
    BY <1>2, <2>2
  <2> QED BY <1>4, <2>1, <2>3, ExplainedStep
<1> HIDE DEF n
<1>5. Bad = {}
  <2> SUFFICES ASSUME Bad # {} PROVE FALSE
    OBVIOUS
  <2>1. Bad \in SUBSET Nat
    BY <1>1
  <2>2. PICK i \in Bad : \A x \in Bad : i <= x
    <3> HIDE DEF Bad
    <3> QED BY <2>1, LeastNatural
  <2>3. i \in 1..n /\ ~Explained(m, p[i])
    OBVIOUS
  <2>4. i # 1
    BY <1>3, <2>3
  <2>5. i - 1 \in 1..(n - 1) /\ i - 1 \in 1..n /\ i - 1 < i /\ (i - 1) + 1 = i
    <3>1. n \in Nat /\ i \in 1..n
      BY <1>1, <2>3
    <3> HIDE DEF Bad
    <3> QED BY <2>4, <3>1
  <2>6. i - 1 \notin Bad
    <3> HIDE DEF Bad
    <3> QED BY <1>1, <2>2, <2>3, <2>5
  <2>7. Explained(m, p[i - 1])
    BY <2>5, <2>6
  <2> QED BY <1>4, <2>3, <2>5, <2>7
<1>6. k \in 1..n
  BY DEF n
<1>7. Explained(m, p[k])
  BY <1>5, <1>6
<1>8. PICK pc, held : p[k] = <<pc, held>>
  BY <1>2, <1>6
<1> QED BY <1>7, <1>8, ExplainedStep

-----------------------------------------------------------------------------
(* The invariant of the verifier.                                          *)

LocalsMap == [inv |-> invMap, work |-> workList]

\* The program is one of the programs to consider, and fn one of its functions.
InProgram ==
    /\ \E i, j \in Int : DOMAIN program = i..j
    /\ \A f \in DOMAIN program : f \in Functions /\ WellFormedCode(f, program[f])
    /\ fn \in DOMAIN program

\* During the locals pass the map is typed, and every block it has met is settled.
Analysing ==
    verdict = "locals" =>
        IsUnit(fn, Body) /\ MapOK(LocalsMap) /\ AllSettled(LocalsMap) /\ Passed(LocalsMap, 0, InitialLocals(fn))

\* The functions that are past the locals pass are safe.
PassedFunctions == {f \in DOMAIN program : f < fn \/ (f = fn /\ verdict \in {"references", "accepted"})}

LInv ==
    /\ InProgram /\ Analysing
    /\ \A f \in PassedFunctions : LocalsSafe(f, program[f])
    /\ verdict = "accepted" => \A f \in DOMAIN program : f <= fn

LEMMA FunctionsAreNumbered ==
    ASSUME InProgram
    PROVE  /\ DOMAIN program \subseteq Int
           /\ FirstFunction \in DOMAIN program /\ \A g \in DOMAIN program : FirstFunction <= g
           /\ LastFunction \in DOMAIN program /\ \A g \in DOMAIN program : g <= LastFunction
           /\ \A f \in DOMAIN program : f # LastFunction => f + 1 \in DOMAIN program
<1> DEFINE D == DOMAIN program
<1>1. PICK i \in Int, j \in Int : D = i..j
  BY DEF InProgram
<1>2. i <= j
  BY <1>1 DEF InProgram
<1>3. i \in D /\ j \in D /\ D \subseteq Int /\ \A g \in D : i <= g /\ g <= j
  BY <1>1, <1>2
<1>4. FirstFunction \in D /\ \A g \in D : FirstFunction <= g
  BY <1>3, Zenon DEF FirstFunction
<1>5. LastFunction \in D /\ \A g \in D : g <= LastFunction
  BY <1>3, Zenon DEF LastFunction
<1>6. ASSUME NEW f \in D, f # LastFunction PROVE f + 1 \in D
  <2>1. LastFunction \in Int /\ LastFunction <= j /\ j <= LastFunction
    BY <1>3, <1>5
  <2>2. LastFunction = j
    BY <2>1
  <2> QED BY <1>1, <1>3, <1>6, <2>2
<1> QED BY <1>3, <1>4, <1>5, <1>6

LEMMA StartsInside ==
    ASSUME NEW family \in Programs, program \in family, VerifierInit
    PROVE  LInv
<1>1. PICK i \in Functions, j \in Functions : i <= j /\ DOMAIN program = i..j
  BY ProgramsAssumption
<1>2. i \in Int /\ j \in Int /\ i \in DOMAIN program /\ \A g \in DOMAIN program : i <= g
  <2>1. i \in Int /\ j \in Int
    BY SignatureTable
  <2> QED BY <1>1, <2>1
<1>3. \A f \in DOMAIN program : f \in Functions /\ WellFormedCode(f, program[f])
  BY ProgramsAssumption
<1>4. FirstFunction \in DOMAIN program /\ \A g \in DOMAIN program : FirstFunction <= g
  BY <1>2, Zenon DEF FirstFunction
<1>5. fn = FirstFunction /\ verdict = "begin"
  BY DEF VerifierInit
<1>6. InProgram
  BY <1>1, <1>2, <1>3, <1>4, <1>5 DEF InProgram
<1>7. PassedFunctions = {}
  <2>1. \A f \in DOMAIN program : f \in Int /\ fn \in Int /\ fn <= f
    BY <1>1, <1>2, <1>4, <1>5
  <2> QED BY <1>5, <2>1 DEF PassedFunctions
<1> QED BY <1>5, <1>6, <1>7 DEF LInv, Analysing

\* The steps that leave the locals pass, or do not touch it.
LEMMA InProgramStep ==
    ASSUME InProgram, program' = program, fn' \in DOMAIN program
    PROVE  InProgram'
BY DEF InProgram

LEMMA CommonStep ==
    ASSUME LInv, VerifyCommon, program' = program
    PROVE  LInv'
<1>0. fn' = fn /\ verdict = "begin"
  BY DEF VerifyCommon, StartAnalysis, Reject
<1>1. InProgram'
  BY <1>0, InProgramStep DEF LInv, InProgram
<1>2. verdict' \in {"locals", "rejected"}
  BY DEF VerifyCommon, StartAnalysis, Reject
<1>3. PassedFunctions' = PassedFunctions
  BY <1>0, <1>2 DEF PassedFunctions
<1>4. \A f \in PassedFunctions' : LocalsSafe(f, program'[f])
  BY <1>3 DEF LInv
<1>5. ASSUME verdict' = "locals"
      PROVE  /\ IsUnit(fn, Body)' /\ MapOK(LocalsMap)' /\ AllSettled(LocalsMap)'
             /\ Passed(LocalsMap, 0, InitialLocals(fn))'
  <2> DEFINE initial == InitialLocals(fn)
             entry == [pre |-> initial, post |-> "Unprocessed"]
  <2>1. /\ CF!Accepted(Body)
        /\ invMap' = [b \in {0} |-> entry]
        /\ workList' = <<0>>
    BY <1>5 DEF VerifyCommon, StartAnalysis, Reject
  <2>2. IsUnit(fn, Body)
    BY <2>1 DEF LInv, InProgram, IsUnit, CF!Accepted, Body
  <2>3. initial \in States(fn)
    BY DEF InitialLocals, States, LocalStates
  <2>4. 0 \in BlockIds(Body)
    BY DEF BlockIds
  <2>5. entry \in Entries
    BY <2>3 DEF Entries
  <2>6. IsUnit(fn, Body)'
    BY <1>0, <2>2 DEF Body
  <2>7. invMap'[0].pre = initial /\ DOMAIN invMap' = {0}
    BY <2>1
  <2>8. MapOK(LocalsMap)'
    <3>1. invMap' \in [{0} -> Entries]
      BY <2>1, <2>5
    <3>2. Entries' = Entries /\ BlockIds(Body)' = BlockIds(Body)
      BY <1>0 DEF Entries, States, Body
    <3>3. workList' \in Seq({0})
      BY <2>1
    <3>4. LocalsMap' = [inv |-> invMap', work |-> workList']
      BY DEF LocalsMap
    <3> QED BY <2>4, <2>7, <3>1, <3>2, <3>3, <3>4 DEF MapOK
  <2>9. AllSettled(LocalsMap)'
    <3>1. 0 \in Range(workList')
      BY <2>1 DEF Range
    <3> QED BY <2>7, <3>1 DEF AllSettled, Settled, LocalsMap
  <2>10. Passed(LocalsMap, 0, InitialLocals(fn))'
    <3>1. Join(initial, initial) = initial
      BY <2>3 DEF Join, States
    <3>2. (InitialLocals(fn))' = initial
      BY <1>0 DEF InitialLocals
    <3> HIDE DEF initial
    <3> QED BY <2>7, <3>1, <3>2 DEF Passed, LocalsMap
  <2> QED BY <2>6, <2>8, <2>9, <2>10
<1> QED BY <1>1, <1>2, <1>4, <1>5 DEF LInv, Analysing

LEMMA RoundTaken ==
    ASSUME AnalyzeBlock, verdict = "locals"
    PROVE  invMap' = Round(LocalsMap).inv /\ workList' = Round(LocalsMap).work /\ LocalsMap.work # <<>>
BY DEF AnalyzeBlock, Round, LocalsMap, ExecuteBlock, Panics, PostOf

LEMMA AnalyzeVerdict ==
    ASSUME AnalyzeBlock
    PROVE  /\ fn' = fn
           /\ verdict' = verdict \/ (verdict = "references" /\ verdict' = "rejected")
           /\ verdict \in {"locals", "references"}
BY DEF AnalyzeBlock, Panics, Reject

LEMMA AnalyzeStep ==
    ASSUME LInv, AnalyzeBlock, program' = program
    PROVE  LInv'
<1>0. fn' = fn /\ (verdict' = verdict \/ (verdict = "references" /\ verdict' = "rejected"))
  BY AnalyzeVerdict
<1>1. InProgram'
  BY <1>0, InProgramStep DEF LInv, InProgram
<1>2. PassedFunctions' \subseteq PassedFunctions
  BY <1>0 DEF PassedFunctions
<1>3. (\A f \in PassedFunctions : LocalsSafe(f, program[f]))'
  BY <1>2 DEF LInv
<1>4. ASSUME verdict = "locals"
      PROVE  /\ IsUnit(fn, Body)' /\ MapOK(LocalsMap)' /\ AllSettled(LocalsMap)'
             /\ Passed(LocalsMap, 0, InitialLocals(fn))'
  <2> DEFINE o == Round(LocalsMap)
  <2>1. IsUnit(fn, Body) /\ MapOK(LocalsMap) /\ AllSettled(LocalsMap) /\ Passed(LocalsMap, 0, InitialLocals(fn))
    BY <1>4 DEF LInv, Analysing
  <2>2. invMap' = o.inv /\ workList' = o.work /\ LocalsMap.work # <<>>
    BY <1>4, RoundTaken
  <2>3. MapOK(o) /\ AllSettled(o) /\ \A y, s : Passed(LocalsMap, y, s) => Passed(o, y, s)
    BY <1>4, <2>1, <2>2, RoundStep
  <2>4. Passed(o, 0, InitialLocals(fn))
    BY <2>1, <2>3
  <2> HIDE DEF o
  <2>5. /\ Body' = Body /\ BlockIds(Body)' = BlockIds(Body) /\ Entries' = Entries
        /\ (InitialLocals(fn))' = InitialLocals(fn)
    BY <1>0 DEF Entries, States, Body, InitialLocals
  <2>6. LocalsMap'.inv = o.inv /\ LocalsMap'.work = o.work
    BY <2>2 DEF LocalsMap
  <2>7. IsUnit(fn, Body)'
    BY <1>0, <2>1, <2>5
  <2>8. MapOK(LocalsMap)'
    BY <2>3, <2>5, <2>6 DEF MapOK
  <2>9. AllSettled(LocalsMap)'
    BY <1>0, <2>3, <2>5, <2>6 DEF AllSettled, Settled, Passed
  <2>10. Passed(LocalsMap, 0, InitialLocals(fn))'
    BY <2>4, <2>5, <2>6 DEF Passed
  <2> QED BY <2>7, <2>8, <2>9, <2>10
<1>5. verdict # "accepted"
  BY AnalyzeVerdict
<1> QED BY <1>0, <1>1, <1>3, <1>4, <1>5 DEF LInv, Analysing

LEMMA LocalsEndClean ==
    ASSUME Analysing, verdict = "locals", workList = <<>>, NoErrors
    PROVE  IsUnit(fn, Body) /\ Clean(LocalsMap) /\ Passed(LocalsMap, 0, InitialLocals(fn))
BY DEF Analysing, Clean, NoErrors, LocalsMap

LEMMA FinishLocalsStep ==
    ASSUME LInv, FinishLocals, program' = program
    PROVE  LInv'
<1>0. fn' = fn /\ verdict = "locals" /\ workList = <<>>
  BY DEF FinishLocals, StartAnalysis, Reject
<1>1. InProgram'
  BY <1>0, InProgramStep DEF LInv, InProgram
<1>2. verdict' = "rejected" \/ (verdict' = "references" /\ NoErrors)
  BY DEF FinishLocals, StartAnalysis, Reject
<1>3. ASSUME NEW f \in PassedFunctions' PROVE LocalsSafe(f, program'[f])
  <2>1. CASE f \in PassedFunctions
    BY <2>1 DEF LInv
  <2>2. CASE f \notin PassedFunctions
    <3>1. f = fn /\ NoErrors
      BY <1>0, <1>2, <2>2 DEF PassedFunctions
    <3>2. LocalsSafe(fn, Body)
      <4>1. IsUnit(fn, Body) /\ Clean(LocalsMap) /\ Passed(LocalsMap, 0, InitialLocals(fn))
        BY <1>0, <3>1, LocalsEndClean DEF LInv
      <4> QED BY <4>1, CleanIsSafe
    <3> QED BY <1>0, <3>1, <3>2 DEF Body
  <2> QED BY <2>1, <2>2
<1> QED BY <1>1, <1>2, <1>3 DEF LInv, Analysing

LEMMA FinishReferencesStep ==
    ASSUME LInv, FinishReferences, program' = program
    PROVE  LInv'
<1>0. InProgram /\ verdict = "references" /\ fn \in DOMAIN program
  BY DEF LInv, InProgram, FinishReferences
<1>1. CASE verdict' = "rejected" /\ fn' = fn
  <2>1. InProgram'
    BY <1>0, <1>1, InProgramStep
  <2>2. PassedFunctions' \subseteq PassedFunctions
    BY <1>0, <1>1 DEF PassedFunctions
  <2> QED BY <1>1, <2>1, <2>2 DEF LInv, Analysing
<1>2. CASE verdict' = "accepted" /\ fn' = fn /\ fn = LastFunction
  <2>1. InProgram'
    BY <1>0, <1>2, InProgramStep
  <2>2. PassedFunctions' = PassedFunctions
    BY <1>0, <1>2 DEF PassedFunctions
  <2>3. \A f \in DOMAIN program : f <= fn
    BY <1>0, <1>2, FunctionsAreNumbered
  <2> QED BY <1>2, <2>1, <2>2, <2>3 DEF LInv, Analysing
<1>3. CASE verdict' = "begin" /\ fn' = fn + 1 /\ fn # LastFunction
  <2>1. fn' \in DOMAIN program /\ DOMAIN program \subseteq Int
    BY <1>0, <1>3, FunctionsAreNumbered
  <2>2. InProgram'
    BY <1>0, <2>1, InProgramStep
  <2>3. ASSUME NEW f \in PassedFunctions' PROVE f \in PassedFunctions
    <3>1. f \in DOMAIN program /\ f < fn'
      BY <1>3 DEF PassedFunctions
    <3>2. f \in Int /\ fn \in Int
      BY <1>0, <2>1, <3>1
    <3>3. f < fn \/ f = fn
      BY <1>3, <3>1, <3>2
    <3> QED BY <1>0, <3>1, <3>3 DEF PassedFunctions
  <2> QED BY <1>3, <2>2, <2>3 DEF LInv, Analysing
<1> QED BY <1>1, <1>2, <1>3 DEF FinishReferences, Reject

LEMMA StutterStep ==
    ASSUME LInv, UNCHANGED <<program, verifierVars>>
    PROVE  LInv'
<1>1. program' = program /\ fn' = fn /\ invMap' = invMap /\ workList' = workList /\ verdict' = verdict
  BY DEF verifierVars
<1>2. LocalsMap' = LocalsMap /\ Body' = Body /\ Entries' = Entries /\ PassedFunctions' = PassedFunctions
  BY <1>1 DEF LocalsMap, Body, Entries, States, PassedFunctions
<1>3. InProgram'
  BY <1>1 DEF LInv, InProgram
<1>4. ASSUME verdict = "locals"
      PROVE  /\ IsUnit(fn, Body)' /\ MapOK(LocalsMap)' /\ AllSettled(LocalsMap)'
             /\ Passed(LocalsMap, 0, InitialLocals(fn))'
  <2>1. IsUnit(fn, Body) /\ MapOK(LocalsMap) /\ AllSettled(LocalsMap) /\ Passed(LocalsMap, 0, InitialLocals(fn))
    BY <1>4 DEF LInv, Analysing
  <2>2. MapOK(LocalsMap)'
    BY <1>2, <2>1 DEF MapOK
  <2>3. AllSettled(LocalsMap)'
    BY <1>1, <1>2, <2>1 DEF AllSettled, Settled, Passed
  <2>4. Passed(LocalsMap, 0, InitialLocals(fn))'
    BY <1>1, <1>2, <2>1 DEF Passed, InitialLocals
  <2> QED BY <1>1, <1>2, <2>1, <2>2, <2>3, <2>4
<1> QED BY <1>1, <1>2, <1>3, <1>4 DEF LInv, Analysing

LEMMA InvariantStep ==
    ASSUME LInv, [VerifierNext /\ UNCHANGED program]_<<program, verifierVars>>
    PROVE  LInv'
<1>1. CASE UNCHANGED <<program, verifierVars>>
  BY <1>1, StutterStep
<1>2. CASE VerifyCommon /\ program' = program
  BY <1>2, CommonStep
<1>3. CASE AnalyzeBlock /\ program' = program
  BY <1>3, AnalyzeStep
<1>4. CASE FinishLocals /\ program' = program
  BY <1>4, FinishLocalsStep
<1>5. CASE FinishReferences /\ program' = program
  BY <1>5, FinishReferencesStep
<1> QED BY <1>1, <1>2, <1>3, <1>4, <1>5 DEF VerifierNext

LEMMA VerifierInvariant == VerifierSpec => []LInv
<1>1. (\E family \in Programs : program \in family) /\ VerifierInit => LInv
  BY StartsInside
<1> QED BY <1>1, InvariantStep, PTL DEF VerifierSpec

-----------------------------------------------------------------------------
(* Every round of the locals analysis uses up some of a natural number, so *)
(* the analysis of every code unit ends (analyze_function in absint.rs     *)
(* loops until the worklist is empty and has no other bound).              *)
THEOREM LocalsAnalysisEnds == VerifierSpec => AnalysisProgresses
<1>1. ASSUME LInv, AnalyzeBlock, verdict = "locals"
      PROVE  Variant(invMap', workList') < Variant(invMap, workList)
  <2> DEFINE o == Round(LocalsMap)
  <2>1. IsUnit(fn, Body) /\ MapOK(LocalsMap) /\ AllSettled(LocalsMap)
    BY <1>1 DEF LInv, Analysing
  <2>2. invMap' = o.inv /\ workList' = o.work /\ LocalsMap.work # <<>>
    BY <1>1, RoundTaken
  <2>3. Variant(o.inv, o.work) < Variant(LocalsMap.inv, LocalsMap.work)
    BY <1>1, <2>1, <2>2, RoundStep
  <2>4. LocalsMap.inv = invMap /\ LocalsMap.work = workList
    BY DEF LocalsMap
  <2> HIDE DEF o
  <2> QED BY <2>2, <2>3, <2>4
<1>2. LInv => [AnalyzeBlock /\ verdict = "locals" =>
                  Variant(invMap', workList') < Variant(invMap, workList)]_verifierVars
  BY <1>1
<1> QED BY <1>2, VerifierInvariant, PTL DEF AnalysisProgresses

\* What a round uses up never drops below zero.
VariantIsNatural == verdict = "locals" => Variant(invMap, workList) \in Nat

(* The quantity that AnalysisProgresses decreases is a natural number      *)
(* during the locals pass, so its rounds cannot go on forever.             *)
THEOREM VariantStaysNatural == VerifierSpec => []VariantIsNatural
<1>1. LInv => VariantIsNatural
  <2> SUFFICES ASSUME LInv, verdict = "locals" PROVE Variant(invMap, workList) \in Nat
    BY DEF VariantIsNatural
  <2>1. IsUnit(fn, Body) /\ workList \in Seq(DOMAIN invMap)
    BY DEF LInv, Analysing, MapOK, LocalsMap
  <2> DEFINE u == [b \in BlockIds(Body) |-> Undecided(invMap, b)]
             k == Len(workList)
             su == SumFunction(u)
  <2>2. u \in [BlockIds(Body) -> Int] /\ \A b \in BlockIds(Body) : u[b] >= 0
    BY <2>1, UndecidedType DEF IsUnit
  <2>3. su \in Int /\ su >= 0
    <3> HIDE DEF u
    <3> QED BY <2>1, <2>2, SumType, SumBounds, BlocksInside
  <2>4. k \in Nat
    BY <2>1
  <2>5. Variant(invMap, workList) = k + 2 * su
    BY DEF Variant
  <2> HIDE DEF k, su
  <2> QED BY <2>3, <2>4, <2>5
<1> QED BY <1>1, VerifierInvariant, PTL

(* The locals analysis ends in a fixed point: when the worklist is empty   *)
(* and no error was found, the state after every block adds nothing to the *)
(* precondition of its successors, though a block that was analysed early  *)
(* is not looked at again unless a later join changed what it starts from. *)
THEOREM LocalsFixedPoint == VerifierSpec => [](verdict = "locals" => FixedPointReached)
<1>1. LInv => (verdict = "locals" => FixedPointReached)
  <2> SUFFICES ASSUME LInv, verdict = "locals", workList = <<>>, NoErrors, NEW b \in DOMAIN invMap,
                      NEW next \in Range(Successors(Body, BlockEnd(Body, b)))
               PROVE  /\ next \in DOMAIN invMap
                      /\ LET after == ExecuteBlock(fn, Body, b, invMap[b].pre).s
                         IN  JoinPre(invMap[next].pre, after) = invMap[next].pre
    BY DEF FixedPointReached
  <2>1. Clean(LocalsMap)
    BY LocalsEndClean DEF LInv
  <2>2. LocalsMap.inv = invMap
    BY DEF LocalsMap
  <2>3. Passed(LocalsMap, next, LocalsBlock(fn, Body, b, invMap[b].pre).s)
    BY <2>1, <2>2, CleanBlocks
  <2> QED BY <2>2, <2>3 DEF Passed, ExecuteBlock, JoinPre
<1> QED BY <1>1, VerifierInvariant, PTL

\* No function of an accepted module has an unsafe path.
AcceptedLocalsSafe == verdict = "accepted" => \A f \in DOMAIN program : LocalsSafe(f, program[f])

(* Soundness of locals_safety::verify for every module the verifier        *)
(* accepts: along every path through the code of every function, whatever  *)
(* the conditions evaluate to, no instruction moves, copies or borrows a   *)
(* local without a value, and no store or return destroys a value that     *)
(* cannot be dropped.                                                      *)
THEOREM AcceptedCodeUsesLocalsSafely == VerifierSpec => []AcceptedLocalsSafe
<1>1. LInv => AcceptedLocalsSafe
  <2> SUFFICES ASSUME LInv, verdict = "accepted", NEW f \in DOMAIN program
               PROVE  LocalsSafe(f, program[f])
    BY DEF AcceptedLocalsSafe
  <2>1. f \in Int /\ fn \in Int
    BY FunctionsAreNumbered DEF LInv, InProgram
  <2>2. f <= fn
    BY DEF LInv
  <2>3. f \in PassedFunctions
    BY <2>1, <2>2 DEF PassedFunctions
  <2> QED BY <2>3 DEF LInv
<1> QED BY <1>1, VerifierInvariant, PTL

-----------------------------------------------------------------------------
(* The other direction: an error is found only where some path is unsafe.  *)

\* Some path through the code leads to the point x.
Reached(f, c, x) ==
    \E p \in Seq(Nat \X SUBSET Nat) : IsPath(f, c, p) /\ p # <<>> /\ p[Len(p)] = x

LEMMA ReachedEntry ==
    ASSUME NEW f \in Functions, NEW c
    PROVE  Reached(f, c, AtEntry(f))
<1> DEFINE x == AtEntry(f)
           p == <<x>>
<1>1. x \in Nat \X SUBSET Nat
  BY LocalsFinite DEF AtEntry
<1> HIDE DEF x
<1>2. p \in Seq(Nat \X SUBSET Nat) /\ p # <<>> /\ Len(p) = 1 /\ p[1] = x
  BY <1>1
<1>3. IsPath(f, c, p)
  BY <1>2 DEF IsPath, x
<1> HIDE DEF p
<1>4. p[Len(p)] = x
  BY <1>2
<1> QED BY <1>2, <1>3, <1>4 DEF Reached, x

LEMMA ReachedNext ==
    ASSUME NEW f, NEW c, IsUnit(f, c), NEW pc \in Offsets(c), NEW held, Reached(f, c, <<pc, held>>),
           NEW q \in Range(Successors(c, pc))
    PROVE  Reached(f, c, <<q, HeldAfter(At(c, pc), held)>>)
<1> DEFINE x == <<pc, held>>
           h == HeldAfter(At(c, pc), held)
           y == <<q, h>>
<1>1. PICK p \in Seq(Nat \X SUBSET Nat) : IsPath(f, c, p) /\ p # <<>> /\ p[Len(p)] = x
  BY DEF Reached
<1> DEFINE r == Append(p, y)
           n == Len(p)
<1>2. n \in Nat /\ n >= 1
  BY <1>1
<1>3. x \in Nat \X SUBSET Nat
  <2>1. n \in 1..n
    BY <1>2
  <2> QED BY <1>1, <2>1, ElementOfSeq
<1>4. y \in Nat \X SUBSET Nat
  <2>1. q \in Nat
    BY UnitFacts, SuccessorsAre
  <2>2. h \in SUBSET Nat
    <3>1. held \in SUBSET Nat /\ At(c, pc).a \in Nat
      BY <1>3, UnitFacts
    <3> QED BY <3>1 DEF HeldAfter
  <2> HIDE DEF h
  <2> QED BY <2>1, <2>2
<1>5. y \in PathStep(c, x)
  BY DEF PathStep, HeldAfter
<1> HIDE DEF x, y
<1>6. /\ r \in Seq(Nat \X SUBSET Nat) /\ Len(r) = n + 1 /\ r[n + 1] = y
      /\ \A k \in 1..n : r[k] = p[k]
  BY <1>2, <1>4, AppendProperties
<1> HIDE DEF r
<1>7. r # <<>>
  BY <1>2, <1>6
<1>8. r[1] = AtEntry(f)
  BY <1>1, <1>2, <1>6 DEF IsPath
<1>9. ASSUME NEW k \in 1..(Len(r) - 1) PROVE r[k + 1] \in PathStep(c, r[k])
  <2>1. k \in 1..n /\ r[k] = p[k]
    BY <1>2, <1>6
  <2>2. CASE k = n
    BY <1>1, <1>5, <1>6, <2>1, <2>2
  <2>3. CASE k # n
    <3>1. k \in 1..(n - 1) /\ k + 1 \in 1..n
      BY <1>2, <2>1, <2>3
    <3>2. p[k + 1] \in PathStep(c, p[k])
      BY <1>1, <3>1 DEF IsPath
    <3> QED BY <1>6, <2>1, <3>1, <3>2
  <2> QED BY <2>2, <2>3
<1>10. IsPath(f, c, r)
  BY <1>8, <1>9 DEF IsPath
<1>11. Reached(f, c, y)
  BY <1>6, <1>7, <1>10 DEF Reached
<1> QED BY <1>11 DEF y

LEMMA ReachedUnsafe ==
    ASSUME NEW f, NEW c, NEW x, Reached(f, c, x), ~PathSafe(f, c, x)
    PROVE  ~LocalsSafe(f, c)
<1>1. PICK p \in Seq(Nat \X SUBSET Nat) : IsPath(f, c, p) /\ p # <<>> /\ p[Len(p)] = x
  BY DEF Reached
<1>2. Len(p) \in 1..Len(p)
  BY <1>1
<1> QED BY <1>1, <1>2 DEF LocalsSafe

\* What an instruction inside a block is followed by.
LEMMA FallsThrough ==
    ASSUME NEW f, NEW c, IsUnit(f, c), NEW p \in Offsets(c), ~IsEndOfBlock(c, p)
    PROVE  p + 1 \in Range(Successors(c, p))
<1> DEFINE i == At(c, p)
<1>1. p \in Nat /\ Len(c) \in Nat /\ p + 1 # Len(c) /\ p + 1 \notin BlockIds(c) /\ p + 1 < Len(c)
  BY UnitFacts DEF IsEndOfBlock
<1>2. ~IsConditional(i) /\ ~IsUnconditional(i)
  BY <1>1 DEF BlockIds
<1>3. ~HasOffset(i)
  BY <1>2 DEF HasOffset, IsConditional, IsUnconditional
<1> DEFINE both == (IF HasOffset(i) THEN {i.a} ELSE {})
                     \union (IF p + 1 < Len(c) /\ ~IsUnconditional(i) THEN {p + 1} ELSE {})
<1>4. both = {p + 1}
  BY <1>1, <1>2, <1>3
<1>5. Cardinality(both) = 1 /\ both # {}
  BY <1>4, FS_Singleton
<1>6. Successors(c, p) = <<CHOOSE z \in both : \A w \in both : z <= w>>
  BY <1>5 DEF Successors
<1>7. (CHOOSE z \in both : \A w \in both : z <= w) = p + 1
  <2>1. p + 1 \in both /\ \A w \in both : p + 1 <= w
    BY <1>1, <1>4
  <2>2. \A z \in both : z = p + 1
    BY <1>4
  <2> HIDE DEF both
  <2> QED BY <2>1, <2>2
<1> HIDE DEF both
<1>8. Successors(c, p) = <<p + 1>>
  BY <1>6, <1>7
<1> QED BY <1>8 DEF Range

\* Every doubt of the abstract state s at the offset pc has a path behind it.
Witnessed(f, c, pc, s) ==
    /\ \E held : Reached(f, c, <<pc, held>>)
    /\ \A l \in Locals(f) :
          /\ s[l] # "Unavailable" => \E held : l \in held /\ Reached(f, c, <<pc, held>>)
          /\ s[l] # "Available" => \E held : l \notin held /\ Reached(f, c, <<pc, held>>)

LEMMA WitnessedStep ==
    ASSUME NEW f, NEW c, IsUnit(f, c), NEW pc \in Offsets(c), NEW s \in States(f), Witnessed(f, c, pc, s),
           NEW q \in Range(Successors(c, pc))
    PROVE  Witnessed(f, c, q, ExecuteInner(At(c, pc), s))
<1> DEFINE i == At(c, pc)
           t == ExecuteInner(i, s)
<1>1. \A held : Reached(f, c, <<pc, held>>) => Reached(f, c, <<q, HeldAfter(i, held)>>)
  BY ReachedNext
<1>2. PICK some : Reached(f, c, <<pc, some>>)
  BY DEF Witnessed
<1>3. ASSUME NEW l \in Locals(f)
      PROVE  /\ t[l] # "Unavailable" => \E held : l \in held /\ Reached(f, c, <<q, held>>)
             /\ t[l] # "Available" => \E held : l \notin held /\ Reached(f, c, <<q, held>>)
  <2> HIDE DEF i
  <2>1. l \in DOMAIN s
    BY DEF States
  <2>2. CASE i.op = "StLoc" /\ i.a = l
    <3>1. t[l] = "Available"
      BY <2>1, <2>2 DEF ExecuteInner
    <3>2. l \in HeldAfter(i, some)
      BY <2>2 DEF HeldAfter
    <3> QED BY <1>1, <1>2, <3>1, <3>2
  <2>3. CASE i.op = "MoveLoc" /\ i.a = l
    <3>1. t[l] = "Unavailable"
      BY <2>1, <2>3 DEF ExecuteInner
    <3>2. l \notin HeldAfter(i, some)
      BY <2>3 DEF HeldAfter
    <3> QED BY <1>1, <1>2, <3>1, <3>2
  <2>4. CASE ~(i.op \in {"StLoc", "MoveLoc"} /\ i.a = l)
    <3>1. t[l] = s[l]
      BY <2>1, <2>4 DEF ExecuteInner
    <3>2. \A held : l \in HeldAfter(i, held) <=> l \in held
      BY <2>4 DEF HeldAfter
    <3>3. /\ s[l] # "Unavailable" => \E held : l \in held /\ Reached(f, c, <<pc, held>>)
          /\ s[l] # "Available" => \E held : l \notin held /\ Reached(f, c, <<pc, held>>)
      BY DEF Witnessed
    <3> QED BY <1>1, <3>1, <3>2, <3>3
  <2> QED BY <2>2, <2>3, <2>4
<1> QED BY <1>1, <1>2, <1>3 DEF Witnessed

LEMMA WitnessedUnsafe ==
    ASSUME NEW f, NEW c, IsUnit(f, c), NEW pc \in Offsets(c), NEW s \in States(f), Witnessed(f, c, pc, s),
           ~SafeToExecute(f, At(c, pc), s)
    PROVE  ~LocalsSafe(f, c)
<1> DEFINE i == At(c, pc)
<1>1. i.op \in LocalOps => i.a \in Locals(f)
  BY UnitFacts
<1>2. \/ i.op = "StLoc" /\ s[i.a] # "Unavailable" /\ LocalAt(f, i.a) \notin Droppable
      \/ i.op \in {"MoveLoc", "CopyLoc", "MutBorrowLoc", "ImmBorrowLoc"} /\ s[i.a] # "Available"
      \/ i.op = "Ret" /\ \E l \in Locals(f) : s[l] # "Unavailable" /\ LocalAt(f, l) \notin Droppable
  BY DEF SafeToExecute, HoldsUndroppable
<1>3. \A held : \/ i.op = "StLoc" /\ i.a \in held /\ i.a \in Locals(f) /\ LocalAt(f, i.a) \notin Droppable
                \/ i.op \in {"MoveLoc", "CopyLoc", "MutBorrowLoc", "ImmBorrowLoc"} /\ i.a \notin held
                \/ i.op = "Ret" /\ \E l \in Locals(f) : l \in held /\ LocalAt(f, l) \notin Droppable
                => ~PathSafe(f, c, <<pc, held>>)
  BY DEF PathSafe
<1> HIDE DEF i
<1>4. \E held : Reached(f, c, <<pc, held>>) /\ ~PathSafe(f, c, <<pc, held>>)
  <2>1. CASE i.op = "StLoc" /\ s[i.a] # "Unavailable" /\ LocalAt(f, i.a) \notin Droppable
    BY <1>1, <1>3, <2>1 DEF Witnessed, LocalOps
  <2>2. CASE i.op \in {"MoveLoc", "CopyLoc", "MutBorrowLoc", "ImmBorrowLoc"} /\ s[i.a] # "Available"
    BY <1>1, <1>3, <2>2 DEF Witnessed, LocalOps
  <2>3. CASE i.op = "Ret" /\ \E l \in Locals(f) : s[l] # "Unavailable" /\ LocalAt(f, l) \notin Droppable
    BY <1>3, <2>3 DEF Witnessed
  <2> QED BY <1>2, <2>1, <2>2, <2>3
<1> QED BY <1>4, ReachedUnsafe

\* Through a block, as long as no error is met.
LEMMA WitnessedRun ==
    ASSUME NEW f, NEW c, IsUnit(f, c), NEW b \in BlockIds(c), NEW pre \in States(f), Witnessed(f, c, b, pre),
           NEW R, IsRun(f, c, b, pre, R), NEW n \in 0..(Length(c, b) - 1), \A k \in 0..n : R[k].ok
    PROVE  Witnessed(f, c, b + n, R[n].s)
<1> DEFINE L == Length(c, b)
           e == BlockEnd(c, b)
           Bad == {k \in 0..n : ~Witnessed(f, c, b + k, R[k].s)}
<1>1. /\ L \in Nat /\ b \in Nat /\ e \in Nat /\ L = e - b + 1
      /\ \A k \in 1..L : b + k - 1 \in Offsets(c)
      /\ \A p \in b..(e - 1) : ~IsEndOfBlock(c, p)
  <2>1. e \in Nat /\ \A p \in b..(e - 1) : ~IsEndOfBlock(c, p)
    BY BlockEndIs
  <2> QED BY <2>1, LengthIs DEF Length
<1>2. \A k \in 0..L : R[k] \in Results(f)
  BY RunTyped
<1>3. \A k \in 1..L : R[k] = LocalsStep(f, c, R[k - 1], b + k - 1)
  BY DEF IsRun
<1>4. R[0].s = pre
  BY DEF IsRun
<1> HIDE DEF L, e
<1>5. n \in 0..(L - 1)
  BY DEF L
<1>6. Bad = {}
  <2> SUFFICES ASSUME Bad # {} PROVE FALSE
    OBVIOUS
  <2>1. Bad \in SUBSET Nat
    BY <1>1, <1>5
  <2>2. PICK k \in Bad : \A x \in Bad : k <= x
    <3> HIDE DEF Bad
    <3> QED BY <2>1, LeastNatural
  <2>3. k \in 0..n /\ ~Witnessed(f, c, b + k, R[k].s)
    OBVIOUS
  <2>4. k # 0
    BY <1>1, <1>4, <2>3
  <2> DEFINE j == k - 1
             pc == b + j
  <2>5. j \in Nat /\ j \in 0..n /\ k \in 1..L /\ j \in 0..L /\ j < k /\ b + k - 1 = pc /\ pc + 1 = b + k /\ pc \in b..(e - 1)
    <3>1. n \in Int /\ L \in Int /\ n <= L - 1 /\ k \in Int /\ 0 <= k /\ k <= n
      BY <1>1, <1>5, <2>3
    <3> HIDE DEF Bad
    <3> QED BY <1>1, <2>4, <3>1
  <2>6. j \notin Bad
    <3> HIDE DEF Bad
    <3> QED BY <2>1, <2>2, <2>5
  <2>7. Witnessed(f, c, pc, R[j].s)
    BY <2>5, <2>6
  <2>8. pc \in Offsets(c) /\ ~IsEndOfBlock(c, pc)
    <3> HIDE DEF Bad
    <3> QED BY <1>1, <2>5
  <2>9. R[j] \in Results(f) /\ R[k].ok
    BY <1>2, <2>3, <2>5
  <2>10. R[j].s \in States(f) /\ R[k].s = ExecuteInner(At(c, pc), R[j].s)
    <3>1. R[k] = LocalsStep(f, c, R[j], pc)
      <4> HIDE DEF Bad
      <4> QED BY <1>3, <2>5
    <3> QED BY <2>8, <2>9, <3>1, StepTyped DEF Results
  <2>11. pc + 1 \in Range(Successors(c, pc))
    BY <2>8, FallsThrough
  <2> DEFINE s == R[j].s
  <2>12. Witnessed(f, c, pc, s) /\ s \in States(f)
    BY <2>7, <2>10
  <2> HIDE DEF pc, s
  <2>13. Witnessed(f, c, pc + 1, ExecuteInner(At(c, pc), s))
    BY <2>8, <2>11, <2>12, WitnessedStep
  <2>14. ExecuteInner(At(c, pc), s) = R[k].s
    BY <2>10 DEF s
  <2> QED BY <2>3, <2>5, <2>13, <2>14
<1>7. n \in 0..n
  BY <1>1, <1>5
<1> QED BY <1>6, <1>7

LEMMA WitnessedBlock ==
    ASSUME NEW f, NEW c, IsUnit(f, c), NEW b \in BlockIds(c), NEW pre \in States(f), Witnessed(f, c, b, pre)
    PROVE  LET r == LocalsBlock(f, c, b, pre) IN
           /\ ~r.ok => ~LocalsSafe(f, c)
           /\ r.ok => \A q \in Range(Successors(c, BlockEnd(c, b))) : Witnessed(f, c, q, r.s)
<1> DEFINE L == Length(c, b)
           r == LocalsBlock(f, c, b, pre)
<1>1. PICK R : IsRun(f, c, b, pre, R)
  BY RunExists
<1>2. /\ L \in Nat /\ L >= 1 /\ b \in Nat /\ L = BlockEnd(c, b) - b + 1 /\ BlockEnd(c, b) \in Nat
      /\ \A k \in 1..L : b + k - 1 \in Offsets(c)
  BY LengthIs, BlockEndIs DEF Length
<1>3. \A k \in 0..L : R[k] \in Results(f)
  BY <1>1, RunTyped
<1>4. /\ R[0] = [ok |-> TRUE, s |-> pre] /\ R[L] = r
      /\ \A k \in 1..L : R[k] = LocalsStep(f, c, R[k - 1], b + k - 1)
  BY <1>1 DEF IsRun
<1> HIDE DEF L, r
<1>5. ASSUME ~r.ok PROVE ~LocalsSafe(f, c)
  <2> DEFINE Bad == {k \in 0..L : ~R[k].ok}
  <2>1. Bad \in SUBSET Nat /\ L \in Bad
    BY <1>2, <1>4, <1>5
  <2>2. PICK k \in Bad : \A x \in Bad : k <= x
    <3> HIDE DEF Bad
    <3> QED BY <2>1, LeastNatural
  <2>3. k \in 0..L /\ ~R[k].ok /\ k # 0
    BY <1>4
  <2> DEFINE j == k - 1
             pc == b + j
             s == R[j].s
  <2>4. j \in Nat /\ j \in 0..(L - 1) /\ j \in 0..L /\ k \in 1..L /\ j < k /\ b + k - 1 = pc
    <3>1. L \in Int /\ k \in 0..L /\ k # 0
      BY <1>2, <2>3
    <3> HIDE DEF Bad
    <3> QED BY <1>2, <3>1
  <2>5. \A x \in 0..j : R[x].ok
    <3> SUFFICES ASSUME NEW x \in 0..j, ~R[x].ok PROVE FALSE
      OBVIOUS
    <3>1. x \in Nat /\ x < k /\ x \in 0..L
      <4>1. j \in Int /\ k \in Int /\ L \in Int /\ j < k /\ k <= L
        BY <1>2, <2>3, <2>4
      <4> HIDE DEF Bad, j
      <4> QED BY <4>1
    <3>2. x \in Bad
      BY <3>1
    <3>3. k \in Nat
      BY <2>1
    <3> HIDE DEF Bad
    <3> QED BY <2>2, <3>1, <3>2, <3>3
  <2>6. Witnessed(f, c, pc, s)
    <3> HIDE DEF j
    <3> QED BY <1>1, <2>4, <2>5, WitnessedRun DEF L
  <2>7. pc \in Offsets(c) /\ s \in States(f) /\ R[k] = LocalsStep(f, c, R[j], pc) /\ R[j].ok
    <3>1. R[j] \in Results(f)
      BY <1>3, <2>4
    <3>2. j \in 0..j
      BY <2>4
    <3>3. R[j].ok
      BY <2>5, <3>2
    <3>4. pc \in Offsets(c) /\ R[k] = LocalsStep(f, c, R[j], pc)
      <4> HIDE DEF Bad
      <4> QED BY <1>2, <1>4, <2>4
    <3> QED BY <3>1, <3>3, <3>4 DEF Results
  <2>8. ~SafeToExecute(f, At(c, pc), s)
    BY <2>3, <2>7 DEF LocalsStep
  <2> HIDE DEF pc, s
  <2> QED BY <2>6, <2>7, <2>8, WitnessedUnsafe
<1>6. ASSUME r.ok, NEW q \in Range(Successors(c, BlockEnd(c, b))) PROVE Witnessed(f, c, q, r.s)
  <2> DEFINE j == L - 1
             pc == b + j
             s == R[j].s
  <2>1. /\ \A k \in 0..L : R[k].ok
        /\ \A k \in 1..L : R[k].s = ExecuteInner(At(c, b + k - 1), R[k - 1].s)
    BY <1>1, <1>6, RunSafe DEF L, r
  <2>2. j \in 0..(L - 1) /\ j \in 0..L /\ L \in 1..L /\ b + L - 1 = pc /\ pc = BlockEnd(c, b) /\ 0..j \subseteq 0..L
    BY <1>2
  <2>3. pc \in Offsets(c) /\ s \in States(f) /\ r.s = ExecuteInner(At(c, pc), s)
    <3>1. R[j] \in Results(f) /\ R[L] = r
      BY <1>3, <1>4, <2>2
    <3> QED BY <1>2, <2>1, <2>2, <3>1 DEF Results
  <2>4. Witnessed(f, c, pc, s)
    <3>1. \A k \in 0..j : R[k].ok
      BY <2>1, <2>2
    <3> HIDE DEF j
    <3> QED BY <1>1, <2>2, <3>1, WitnessedRun DEF L
  <2>5. q \in Range(Successors(c, pc))
    BY <1>6, <2>2
  <2> HIDE DEF pc, s
  <2>6. Witnessed(f, c, q, ExecuteInner(At(c, pc), s))
    BY <2>3, <2>4, <2>5, WitnessedStep
  <2> QED BY <2>3, <2>6
<1> QED BY <1>5, <1>6 DEF r

LEMMA WitnessedJoin ==
    ASSUME NEW f, NEW c, NEW pc, NEW s \in States(f), NEW t \in States(f),
           Witnessed(f, c, pc, s), Witnessed(f, c, pc, t)
    PROVE  Witnessed(f, c, pc, Join(s, t))
<1> DEFINE j == Join(s, t)
<1>1. ASSUME NEW l \in Locals(f)
      PROVE  /\ j[l] # "Unavailable" => s[l] # "Unavailable" \/ t[l] # "Unavailable"
             /\ j[l] # "Available" => s[l] # "Available" \/ t[l] # "Available"
  BY DEF States, Join
<1> HIDE DEF j
<1>2. ASSUME NEW l \in Locals(f), j[l] # "Unavailable"
      PROVE  \E held : l \in held /\ Reached(f, c, <<pc, held>>)
  BY <1>1, <1>2 DEF Witnessed
<1>3. ASSUME NEW l \in Locals(f), j[l] # "Available"
      PROVE  \E held : l \notin held /\ Reached(f, c, <<pc, held>>)
  BY <1>1, <1>3 DEF Witnessed
<1>4. \E held : Reached(f, c, <<pc, held>>)
  BY DEF Witnessed
<1>5. Witnessed(f, c, pc, j)
  BY <1>2, <1>3, <1>4 DEF Witnessed
<1> QED BY <1>5 DEF j

\* What the map says of every block has paths behind it, and so have the errors.
Truthful(m) ==
    \A b \in DOMAIN m.inv : /\ Witnessed(fn, Body, b, m.inv[b].pre)
                            /\ m.inv[b].post = "Error" => ~LocalsSafe(fn, Body)

LEMMA PropagateTruth ==
    ASSUME verdict = "locals", NEW m, MapOK(m), Truthful(m), NEW next, NEW s \in States(fn),
           Witnessed(fn, Body, next, s)
    PROVE  Truthful(Propagate(m, next, s))
<1> DEFINE n == Propagate(m, next, s)
<1>1. CASE next \notin DOMAIN m.inv
  <2>1. n.inv = Entered(m.inv, next, s)
    BY <1>1 DEF Propagate
  <2>2. /\ DOMAIN n.inv = DOMAIN m.inv \union {next} /\ n.inv[next] = [pre |-> s, post |-> "Success"]
        /\ \A x \in DOMAIN m.inv : n.inv[x] = m.inv[x]
    BY <1>1, <2>1 DEF Entered
  <2> HIDE DEF n
  <2>3. Truthful(n)
    BY <2>2 DEF Truthful
  <2> QED BY <2>3 DEF n
<1>2. CASE next \in DOMAIN m.inv /\ Join(m.inv[next].pre, s) # m.inv[next].pre
  <2> DEFINE old == m.inv[next].pre
             j == Join(old, s)
  <2>1. n.inv = [m.inv EXCEPT ![next].pre = j]
    BY <1>2 DEF Propagate, JoinPre
  <2>2. old \in States(fn) /\ Witnessed(fn, Body, next, old)
    BY <1>2 DEF MapOK, Entries, Truthful
  <2>3. Witnessed(fn, Body, next, j)
    <3> HIDE DEF old
    <3> QED BY <2>2, WitnessedJoin
  <2> HIDE DEF j
  <2>4. /\ DOMAIN n.inv = DOMAIN m.inv /\ n.inv[next].pre = j /\ n.inv[next].post = m.inv[next].post
        /\ \A x \in DOMAIN m.inv : x # next => n.inv[x] = m.inv[x]
    BY <1>2, <2>1 DEF MapOK, Entries
  <2> HIDE DEF n
  <2>5. Truthful(n)
    BY <1>2, <2>3, <2>4 DEF Truthful
  <2> QED BY <2>5 DEF n
<1>3. CASE next \in DOMAIN m.inv /\ Join(m.inv[next].pre, s) = m.inv[next].pre
  <2>1. n = m
    BY <1>3 DEF Propagate, JoinPre
  <2> QED BY <2>1
<1> QED BY <1>1, <1>2, <1>3

LEMMA PropagateAllTruth ==
    ASSUME IsUnit(fn, Body), verdict = "locals", NEW m, MapOK(m), Truthful(m),
           NEW e \in Offsets(Body), IsEndOfBlock(Body, e), NEW s \in States(fn),
           \A next \in Range(Successors(Body, e)) : Witnessed(fn, Body, next, s)
    PROVE  Truthful(PropagateAll(m, Successors(Body, e), s))
<1> DEFINE q == Successors(Body, e)
<1>1. q = <<>> \/ (\E x : q = <<x>>) \/ \E x, y : q = <<x, y>>
  BY SuccessorsAre
<1>2. Range(q) \subseteq BlockIds(Body) /\ \A x \in Range(q) : Witnessed(fn, Body, x, s)
  BY NextBlocks
<1> HIDE DEF q
<1>3. CASE q = <<>>
  BY <1>3, PropagateAllIs DEF q
<1>4. ASSUME NEW x, q = <<x>> PROVE Truthful(PropagateAll(m, q, s))
  <2>1. Range(<<x>>) = {x}
    BY DEF Range
  <2>2. PropagateAll(m, <<x>>, s) = Propagate(m, x, s)
    BY PropagateAllIs
  <2> QED BY <1>2, <1>4, <2>1, <2>2, PropagateTruth
<1>5. ASSUME NEW x, NEW y, q = <<x, y>> PROVE Truthful(PropagateAll(m, q, s))
  <2>1. Range(<<x, y>>) = {x, y}
    BY DEF Range
  <2> DEFINE n == Propagate(m, x, s)
             o == Propagate(n, y, s)
  <2>2. PropagateAll(m, <<x, y>>, s) = o
    BY PropagateTwo
  <2>3. x \in BlockIds(Body) /\ Witnessed(fn, Body, x, s) /\ Witnessed(fn, Body, y, s)
    BY <1>2, <1>5, <2>1
  <2>4. MapOK(n) /\ Truthful(n)
    BY <2>3, PropagateStep, PropagateTruth
  <2> HIDE DEF n
  <2>5. Truthful(o)
    BY <2>3, <2>4, PropagateTruth
  <2> QED BY <1>5, <2>2, <2>5
<1> QED BY <1>1, <1>3, <1>4, <1>5 DEF q

LEMMA RoundTruth ==
    ASSUME IsUnit(fn, Body), verdict = "locals", NEW m, MapOK(m), m.work # <<>>, Truthful(m)
    PROVE  Truthful(Round(m))
<1> DEFINE b == Last(m.work)
           r == LocalsBlock(fn, Body, b, m.inv[b].pre)
           post == IF r.ok THEN "Success" ELSE "Error"
           n == [inv |-> [m.inv EXCEPT ![b].post = post], work |-> Front(m.work)]
           e == BlockEnd(Body, b)
           o == Round(m)
<1>1. post \in {"Success", "Error"}
  OBVIOUS
<1>2. /\ b \in DOMAIN m.inv
      /\ MapOK(n) /\ DOMAIN n.inv = DOMAIN m.inv
      /\ Variant(n.inv, n.work) = Variant(m.inv, m.work) - 1
      /\ Range(m.work) \subseteq Range(n.work) \union {b}
      /\ \A x \in DOMAIN m.inv : n.inv[x].pre = m.inv[x].pre /\ (x # b => n.inv[x] = m.inv[x])
      /\ n.inv[b].post = post
  <2> HIDE DEF post
  <2> QED BY <1>1, TakeBlock
<1>3. b \in BlockIds(Body) /\ m.inv[b].pre \in States(fn) /\ Witnessed(fn, Body, b, m.inv[b].pre)
  BY <1>2 DEF MapOK, Entries, Truthful
<1>4. /\ r \in Results(fn)
      /\ ~r.ok => ~LocalsSafe(fn, Body)
      /\ r.ok => \A q \in Range(Successors(Body, e)) : Witnessed(fn, Body, q, r.s)
  <2> HIDE DEF b
  <2> QED BY <1>3, BlockTyped, WitnessedBlock
<1>5. o = PropagateAll(n, IF r.ok THEN Successors(Body, e) ELSE <<>>, r.s)
  BY DEF Round
<1>6. e \in Offsets(Body) /\ IsEndOfBlock(Body, e)
  <2> HIDE DEF b
  <2> QED BY <1>3, BlockEndIs
<1>7. post = "Error" => ~LocalsSafe(fn, Body)
  BY <1>4
<1> HIDE DEF b, r, n, o, post, e
<1>8. Truthful(n)
  BY <1>2, <1>7 DEF Truthful
<1>9. CASE r.ok
  <2>1. r.s \in States(fn)
    BY <1>4 DEF Results
  <2> DEFINE s == r.s
  <2>2. s \in States(fn) /\ \A q \in Range(Successors(Body, e)) : Witnessed(fn, Body, q, s)
    BY <1>4, <1>9, <2>1
  <2> HIDE DEF s
  <2>3. Truthful(PropagateAll(n, Successors(Body, e), s))
    BY <1>2, <1>6, <1>8, <2>2, PropagateAllTruth
  <2> QED BY <1>5, <1>9, <2>3 DEF s, o
<1>10. CASE ~r.ok
  <2>1. o = n
    BY <1>5, <1>10, PropagateAllIs
  <2> QED BY <1>8, <2>1 DEF o
<1> QED BY <1>4, <1>9, <1>10 DEF Results

TInv == verdict = "locals" => Truthful(LocalsMap)

LEMMA TruthStep ==
    ASSUME LInv, TInv, [VerifierNext /\ UNCHANGED program]_<<program, verifierVars>>
    PROVE  TInv'
<1>1. CASE UNCHANGED <<program, verifierVars>>
  <2>1. Body' = Body /\ LocalsMap' = LocalsMap /\ verdict' = verdict /\ fn' = fn
    BY <1>1 DEF verifierVars, Body, LocalsMap
  <2> QED BY <2>1 DEF TInv, Truthful
<1>2. ASSUME VerifyCommon, program' = program, verdict' = "locals" PROVE Truthful(LocalsMap)'
  <2> DEFINE initial == InitialLocals(fn)
  <2>1. /\ fn' = fn /\ CF!Accepted(Body)
        /\ invMap' = [b \in {0} |-> [pre |-> initial, post |-> "Unprocessed"]]
    BY <1>2 DEF VerifyCommon, StartAnalysis, Reject
  <2>2. fn \in Functions
    BY DEF LInv, InProgram
  <2>3. Reached(fn, Body, AtEntry(fn))
    BY <2>2, ReachedEntry
  <2>4. Witnessed(fn, Body, 0, initial)
    <3> DEFINE held == {l \in Locals(fn) : l < Len(Sig[fn].params)}
    <3>1. Reached(fn, Body, <<0, held>>)
      BY <2>3 DEF AtEntry
    <3>2. ASSUME NEW l \in Locals(fn)
          PROVE  (initial[l] # "Unavailable" => l \in held) /\ (initial[l] # "Available" => l \notin held)
      BY DEF InitialLocals
    <3> HIDE DEF held, initial
    <3> QED BY <3>1, <3>2 DEF Witnessed
  <2> HIDE DEF initial
  <2>5. LocalsMap'.inv = invMap' /\ Body' = Body
    BY <1>2, <2>1 DEF LocalsMap, Body
  <2>6. DOMAIN invMap' = {0} /\ invMap'[0].pre = initial /\ invMap'[0].post = "Unprocessed"
    BY <2>1
  <2> QED BY <2>1, <2>4, <2>5, <2>6 DEF Truthful
<1>3. ASSUME AnalyzeBlock, program' = program, verdict' = "locals" PROVE Truthful(LocalsMap)'
  <2> DEFINE o == Round(LocalsMap)
  <2>1. fn' = fn /\ verdict = "locals" /\ Body' = Body
    BY <1>3, AnalyzeVerdict DEF Body
  <2>2. IsUnit(fn, Body) /\ MapOK(LocalsMap) /\ Truthful(LocalsMap)
    BY <2>1 DEF LInv, Analysing, TInv
  <2>3. invMap' = o.inv /\ workList' = o.work /\ LocalsMap.work # <<>>
    BY <1>3, <2>1, RoundTaken
  <2>4. Truthful(o)
    BY <2>1, <2>2, <2>3, RoundTruth
  <2> HIDE DEF o
  <2>5. LocalsMap'.inv = o.inv
    BY <2>3 DEF LocalsMap
  <2> QED BY <2>1, <2>4, <2>5 DEF Truthful
<1>4. CASE FinishLocals
  BY <1>4 DEF FinishLocals, StartAnalysis, Reject, TInv
<1>5. CASE FinishReferences
  BY <1>5 DEF FinishReferences, Reject, TInv
<1> QED BY <1>1, <1>2, <1>3, <1>4, <1>5 DEF VerifierNext, TInv

\* When the worklist is empty the locals pass has found an error exactly when some path
\* through the function is unsafe.
VerdictExact == verdict = "locals" /\ workList = <<>> => (NoErrors <=> LocalsSafe(fn, Body))

(* locals_safety::verify is exact for every function: it refuses a         *)
(* function only when some path of its control flow graph leads to an      *)
(* unsafe instruction, and it misses none.  The joins lose nothing: a      *)
(* local that may be available has a path that leaves it with a value and  *)
(* one that leaves it without.                                             *)
THEOREM LocalsAnalysisIsExact == VerifierSpec => []VerdictExact
<1>1. (\E family \in Programs : program \in family) /\ VerifierInit => TInv
  BY DEF VerifierInit, TInv
<1>2. VerifierSpec => []TInv
  BY <1>1, VerifierInvariant, TruthStep, PTL DEF VerifierSpec
<1>3. LInv /\ TInv => VerdictExact
  <2> SUFFICES ASSUME LInv, TInv, verdict = "locals", workList = <<>>
               PROVE  NoErrors <=> LocalsSafe(fn, Body)
    BY DEF VerdictExact
  <2>1. ASSUME NoErrors PROVE LocalsSafe(fn, Body)
    <3>1. IsUnit(fn, Body) /\ Clean(LocalsMap) /\ Passed(LocalsMap, 0, InitialLocals(fn))
      BY <2>1, LocalsEndClean DEF LInv
    <3> QED BY <3>1, CleanIsSafe
  <2>2. ASSUME ~NoErrors PROVE ~LocalsSafe(fn, Body)
    <3>1. PICK b \in DOMAIN invMap : invMap[b].post \in {"Error", "Litter"}
      BY <2>2 DEF NoErrors
    <3>2. LocalsMap.inv = invMap /\ MapOK(LocalsMap) /\ Truthful(LocalsMap)
      BY DEF LocalsMap, LInv, Analysing, TInv
    <3>3. invMap[b].post = "Error"
      BY <3>1, <3>2 DEF MapOK, Entries
    <3> QED BY <3>2, <3>3 DEF Truthful
  <2> QED BY <2>1, <2>2
<1> QED BY <1>2, <1>3, VerifierInvariant, PTL

-----------------------------------------------------------------------------
(* Stack usage and type safety: the type checker walks the code once, from *)
(* the first instruction to the last, with one stack.  In code whose       *)
(* blocks are balanced that is enough for every path.                      *)

-----------------------------------------------------------------------------
(* The walk of the type checker.                                           *)

TypeStart == [ok |-> TRUE, stacks |-> << <<>> >>]

\* What FoldLeft makes of a set of positions of the code q.
TypeNext(f, q, g, s) ==
    IF s = {} THEN TypeStart ELSE TypeStep(f, g[s \ {Max(s)}], q[Max(s)])

IsTypeTable(f, q, n, g) == g = [s \in SUBSET (1..n) |-> TypeNext(f, q, g, s)]

LEMMA TypeTableExists ==
    ASSUME NEW f, NEW q, NEW n \in Nat
    PROVE  \E g : IsTypeTable(f, q, n, g)
<1> DEFINE N(g, s) == TypeNext(f, q, g, s)
           Good(k) == \E g : \A s \in SUBSET (1..n) : s \subseteq 1..k => g[s] = N(g, s)
           Bad == {k \in Nat : ~Good(k)}
<1>1. \A g, h, s : (s # {} => g[s \ {Max(s)}] = h[s \ {Max(s)}]) => N(g, s) = N(h, s)
  BY DEF TypeNext
<1>2. \A k \in Nat : \A s \in SUBSET (1..n) :
          s # {} /\ s \subseteq 1..k => s \ {Max(s)} \in SUBSET (1..n) /\ s \ {Max(s)} \subseteq 1..(k - 1)
  <2> SUFFICES ASSUME NEW k \in Nat, NEW s \in SUBSET (1..n), s # {}, s \subseteq 1..k, NEW x \in s, x # Max(s)
               PROVE  x \in 1..(k - 1)
    OBVIOUS
  <2>1. Max(s) \in s /\ x <= Max(s)
    BY MaxIs
  <2>2. Max(s) \in 1..k /\ x \in 1..k
    BY <2>1
  <2> QED BY <2>1, <2>2
<1> HIDE DEF N
<1>3. Bad = {}
  <2> SUFFICES ASSUME Bad # {} PROVE FALSE
    OBVIOUS
  <2>1. PICK k \in Bad : \A m \in Bad : k <= m
    <3> HIDE DEF Bad
    <3> Bad \subseteq Nat BY DEF Bad
    <3> QED BY LeastNatural
  <2>2. ASSUME NEW g, \A s \in SUBSET (1..n) : s \subseteq 1..(k - 1) => g[s] = N(g, s) PROVE FALSE
    <3> DEFINE h == [s \in SUBSET (1..n) |-> N(g, s)]
    <3>1. ASSUME NEW s \in SUBSET (1..n), s \subseteq 1..k PROVE h[s] = N(h, s)
      <4>1. s # {} => h[s \ {Max(s)}] = g[s \ {Max(s)}]
        BY <1>2, <2>2, <3>1
      <4>2. h[s] = N(g, s)
        OBVIOUS
      <4> HIDE DEF h
      <4> QED BY <1>1, <4>1, <4>2
    <3> HIDE DEF h
    <3>2. Good(k)
      BY <3>1
    <3> QED BY <3>2
  <2>3. k # 0
    <3> SUFFICES ASSUME k = 0 PROVE FALSE
      OBVIOUS
    <3> DEFINE g == [s \in SUBSET (1..n) |-> N(s, s)]
    <3>1. ASSUME NEW s \in SUBSET (1..n), s \subseteq 1..0 PROVE g[s] = N(g, s)
      <4>1. s = {}
        BY <3>1
      <4>2. N(s, s) = N(g, s)
        BY <1>1, <4>1
      <4> QED BY <4>2
    <3> HIDE DEF g
    <3>2. Good(0)
      BY <3>1
    <3> QED BY <3>2
  <2>4. k - 1 \in Nat /\ k \in Nat
    BY <2>3
  <2>5. k - 1 \notin Bad
    <3> HIDE DEF Bad
    <3> QED BY <2>1, <2>4
  <2>6. Good(k - 1)
    BY <2>4, <2>5
  <2> QED BY <2>2, <2>6
<1>4. Good(n)
  BY <1>3
<1>5. PICK g : \A s \in SUBSET (1..n) : g[s] = N(g, s)
  BY <1>4
<1> DEFINE h == [s \in SUBSET (1..n) |-> N(g, s)]
<1>6. \A s \in SUBSET (1..n) : h[s] = g[s]
  BY <1>5
<1>7. \A s \in SUBSET (1..n) : N(h, s) = N(g, s)
  <2> SUFFICES ASSUME NEW s \in SUBSET (1..n) PROVE N(h, s) = N(g, s)
    OBVIOUS
  <2>1. s # {} => h[s \ {Max(s)}] = g[s \ {Max(s)}]
    BY <1>6
  <2> HIDE DEF h
  <2> QED BY <1>1, <2>1
<1>8. h = [s \in SUBSET (1..n) |-> N(h, s)]
  BY <1>7
<1> QED BY <1>8 DEF N, IsTypeTable

\* R goes through the code, one instruction after the other.
IsWalk(f, c, R) ==
    /\ R[0] = TypeStart
    /\ \A k \in 1..Len(c) : R[k] = TypeStep(f, R[k - 1], c[k])
    /\ TypeStacks(f, c) = R[Len(c)]

LEMMA WalkExists ==
    ASSUME NEW f, NEW c, IsUnit(f, c)
    PROVE  \E R : IsWalk(f, c, R)
<1> DEFINE n == Len(c)
           T == CHOOSE g : IsTypeTable(f, c, n, g)
<1>1. n \in Nat /\ DOMAIN c = 1..n
  <2>1. c \in Seq([op : STRING, a : Nat, n : Nat])
    BY DEF IsUnit, WellFormedCode
  <2> QED BY <2>1
<1>2. TypeStacks(f, c) = T[1..n]
  <2>1. TypeStacks(f, c) = FoldLeft(LAMBDA r, i : TypeStep(f, r, i), TypeStart, c)
    BY DEF TypeStacks, TypeStart
  <2>2. DOMAIN c = 1..n
    BY <1>1
  <2> HIDE DEF n
  <2> QED BY <2>1, <2>2, Zenon DEF FoldLeft, MapThenFoldSet, TypeNext, IsTypeTable
<1> HIDE DEF n
<1>3. T = [s \in SUBSET (1..n) |-> TypeNext(f, c, T, s)]
  <2>1. n \in Nat
    BY <1>1
  <2>2. \E g : IsTypeTable(f, c, n, g)
    BY <2>1, TypeTableExists
  <2>3. IsTypeTable(f, c, n, T)
    BY <2>2, Zenon
  <2> QED BY <2>3, Zenon DEF IsTypeTable
<1> HIDE DEF T
<1> DEFINE R == [k \in 0..n |-> T[1..k]]
<1>4. \A s \in SUBSET (1..n) : T[s] = TypeNext(f, c, T, s)
  BY <1>3, Zenon
<1>5. R[0] = TypeStart
  <2>1. 1..0 = {} /\ 0 \in 0..n /\ {} \in SUBSET (1..n)
    BY <1>1
  <2>2. T[{}] = TypeStart
    BY <1>4, <2>1 DEF TypeNext
  <2> QED BY <2>1, <2>2
<1>6. ASSUME NEW k \in 1..n PROVE R[k] = TypeStep(f, R[k - 1], c[k])
  <2> DEFINE s == 1..k
  <2>1. k \in Nat /\ k \in 0..n /\ k - 1 \in 0..n /\ s \in SUBSET (1..n) /\ s # {} /\ k \in s
    <3>1. n \in Nat
      BY <1>1
    <3>2. k \in Nat /\ 1 <= k /\ k <= n
      BY <3>1
    <3>3. k \in s
      BY <3>2
    <3>4. s \subseteq 1..n
      BY <3>1, <3>2
    <3> QED BY <3>1, <3>2, <3>3, <3>4
  <2>2. Max(s) = k
    <3>1. Max(s) \in s /\ \A y \in s : y <= Max(s)
      <4> HIDE DEF s
      <4> QED BY <1>1, <2>1, MaxIs
    <3> QED BY <2>1, <3>1
  <2>3. s \ {k} = 1..(k - 1)
    BY <2>1
  <2>4. T[s] = TypeStep(f, T[s \ {Max(s)}], c[Max(s)])
    <3> HIDE DEF s
    <3> QED BY <1>4, <2>1 DEF TypeNext
  <2>5. R[k] = T[s] /\ R[k - 1] = T[1..(k - 1)]
    BY <2>1
  <2> HIDE DEF s, R
  <2> QED BY <1>1, <2>2, <2>3, <2>4, <2>5
<1>7. R[n] = T[1..n]
  BY <1>1
<1> HIDE DEF R
<1>8. IsWalk(f, c, R)
  BY <1>2, <1>5, <1>6, <1>7 DEF IsWalk, n
<1> QED BY <1>8

-----------------------------------------------------------------------------
(* Sequences whose elements are of no matter.                              *)

IsSeq(s) == \E S : s \in Seq(S)

LEMMA SeqLen ==
    ASSUME NEW s, IsSeq(s)
    PROVE  Len(s) \in Nat /\ (Len(s) = 0 <=> s = <<>>)
BY DEF IsSeq

LEMMA SeqOne ==
    ASSUME NEW x
    PROVE  IsSeq(<<x>>) /\ Len(<<x>>) = 1
<1>1. <<x>> \in Seq({x}) /\ Len(<<x>>) = 1
  OBVIOUS
<1> QED BY <1>1 DEF IsSeq

LEMMA SeqNone == IsSeq(<<>>) /\ Len(<<>>) = 0
<1>1. <<>> \in Seq({})
  OBVIOUS
<1> QED BY <1>1 DEF IsSeq

LEMMA SeqAppend ==
    ASSUME NEW s, IsSeq(s), NEW x
    PROVE  IsSeq(Append(s, x)) /\ Append(s, x) # <<>> /\ Last(Append(s, x)) = x
<1>1. PICK S : s \in Seq(S)
  BY DEF IsSeq
<1>2. s \in Seq(S \union {x}) /\ x \in S \union {x}
  BY <1>1
<1> DEFINE U == S \union {x}
<1> HIDE DEF U
<1>3. s \in Seq(U) /\ x \in U
  BY <1>2 DEF U
<1>4. /\ Append(s, x) \in Seq(U) /\ Append(s, x) # <<>> /\ Len(Append(s, x)) = Len(s) + 1
      /\ Append(s, x)[Len(s) + 1] = x
  BY <1>3, AppendProperties
<1>5. Last(Append(s, x)) = x
  BY <1>4 DEF Last
<1> QED BY <1>4, <1>5 DEF IsSeq

LEMMA SeqConcat ==
    ASSUME NEW s, NEW t, IsSeq(s), IsSeq(t)
    PROVE  IsSeq(s \o t) /\ Len(s \o t) = Len(s) + Len(t)
<1>1. PICK S : s \in Seq(S)
  BY DEF IsSeq
<1>2. PICK T : t \in Seq(T)
  BY DEF IsSeq
<1> DEFINE U == S \union T
<1>3. s \in Seq(U) /\ t \in Seq(U)
  BY <1>1, <1>2
<1> HIDE DEF U
<1>4. s \o t \in Seq(U) /\ Len(s \o t) = Len(s) + Len(t)
  BY <1>3, ConcatProperties
<1> QED BY <1>4 DEF IsSeq

LEMMA SeqPrefix ==
    ASSUME NEW s, IsSeq(s), NEW n \in Nat, n <= Len(s)
    PROVE  IsSeq(SubSeq(s, 1, n)) /\ Len(SubSeq(s, 1, n)) = n
<1>1. PICK S : s \in Seq(S)
  BY DEF IsSeq
<1>2. \A i \in 1..n : s[i] \in S
  <2> SUFFICES ASSUME NEW i \in 1..n PROVE s[i] \in S
    OBVIOUS
  <2>1. i \in 1..Len(s)
    BY <1>1
  <2> QED BY <1>1, <2>1, ElementOfSeq
<1>3. 1 \in Int /\ n \in Int
  OBVIOUS
<1>4. /\ SubSeq(s, 1, n) \in Seq(S)
      /\ Len(SubSeq(s, 1, n)) = IF 1 <= n THEN n - 1 + 1 ELSE 0
  BY <1>2, <1>3, SubSeqProperties
<1>5. Len(SubSeq(s, 1, n)) = n
  BY <1>4
<1> QED BY <1>4, <1>5 DEF IsSeq

LEMMA SeqWhole ==
    ASSUME NEW s, IsSeq(s)
    PROVE  SubSeq(s, 1, Len(s)) = s
BY SubSeqFull DEF IsSeq

-----------------------------------------------------------------------------
(* What an instruction pops and pushes.                                    *)

LEMMA EffectsAreNumbers ==
    ASSUME NEW f, NEW c, IsUnit(f, c), NEW pc \in Offsets(c)
    PROVE  NumPops(f, At(c, pc)) \in Nat /\ NumPushes(f, At(c, pc)) \in Nat
<1> DEFINE i == At(c, pc)
<1>1. i.n \in Nat
  <2>0. pc + 1 \in 1..Len(c)
    BY UnitFacts
  <2>1. c \in Seq([op : STRING, a : Nat, n : Nat])
    BY DEF IsUnit, WellFormedCode
  <2>2. i \in [op : STRING, a : Nat, n : Nat]
    BY <2>0, <2>1, ElementOfSeq DEF At
  <2> QED BY <2>2
<1>2. /\ i.op \in {"Pack", "Unpack"} => Pool[i.a] \in Types
      /\ i.op = "Call" => i.a \in Functions
  BY DEF IsUnit, WellFormedCode, PoolOps
<1>3. Len(Sig[f].rets) \in Nat
  BY SignatureTable DEF IsUnit
<1>4. i.op = "Call" => Len(Sig[i.a].params) \in Nat /\ Len(Sig[i.a].rets) \in Nat
  BY <1>2, SignatureTable
<1>5. i.op \in {"Pack", "Unpack"} => Len(Desc[Pool[i.a]].args) \in Nat
  BY <1>2, TypeTable
<1> HIDE DEF i
<1>6. NumPops(f, i) \in Nat
  BY <1>1, <1>3, <1>4, <1>5 DEF NumPops
<1>7. NumPushes(f, i) \in Nat
  BY <1>1, <1>4, <1>5 DEF NumPushes
<1> QED BY <1>6, <1>7 DEF i

LEMMA PushedIs ==
    ASSUME NEW f, NEW c, IsUnit(f, c), NEW pc \in Offsets(c), NEW o
    PROVE  LET i == At(c, pc) IN IsSeq(Pushed(f, i, o)) /\ Len(Pushed(f, i, o)) = NumPushes(f, i)
<1> DEFINE i == At(c, pc)
           w == Pushed(f, i, o)
<1>1. i.n \in Nat
  <2>0. pc + 1 \in 1..Len(c)
    BY UnitFacts
  <2>1. c \in Seq([op : STRING, a : Nat, n : Nat])
    BY DEF IsUnit, WellFormedCode
  <2>2. i \in [op : STRING, a : Nat, n : Nat]
    BY <2>0, <2>1, ElementOfSeq DEF At
  <2> QED BY <2>2
<1>2. /\ i.op = "Unpack" => Pool[i.a] \in Types
      /\ i.op = "Call" => i.a \in Functions
  BY DEF IsUnit, WellFormedCode, PoolOps
<1> HIDE DEF i
<1>3. CASE i.op = "Call"
  <2>1. w = Sig[i.a].rets /\ NumPushes(f, i) = Len(Sig[i.a].rets)
    BY <1>3 DEF Pushed, NumPushes
  <2>2. IsSeq(w)
    BY <1>2, <1>3, <2>1, SignatureTable DEF IsSeq
  <2> QED BY <2>1, <2>2 DEF i
<1>4. CASE i.op = "Unpack"
  <2>1. w = Desc[Pool[i.a]].args /\ NumPushes(f, i) = Len(Desc[Pool[i.a]].args)
    BY <1>4 DEF Pushed, NumPushes
  <2>2. IsSeq(w)
    BY <1>2, <1>4, <2>1, TypeTable DEF IsSeq
  <2> QED BY <2>1, <2>2 DEF i
<1>5. CASE i.op = "VecUnpack"
  <2>1. w = [k \in 1..i.n |-> Pool[i.a]] /\ NumPushes(f, i) = i.n
    BY <1>5 DEF Pushed, NumPushes
  <2>2. w \in Seq({Pool[i.a]}) /\ Len(w) = i.n
    <3> DEFINE m == i.n
               y == Pool[i.a]
    <3>1. m \in Nat /\ w = [k \in 1..m |-> y]
      BY <1>1, <2>1
    <3> HIDE DEF m, y, w
    <3>2. w \in [1..m -> {y}]
      BY <3>1
    <3>3. w \in Seq({y}) /\ Len(w) = m
      BY <3>1, <3>2, IsASeq
    <3> QED BY <3>3 DEF m, y
  <2> QED BY <2>1, <2>2 DEF i, IsSeq
<1> DEFINE One == {"LdU64", "LdTrue", "LdFalse", "CopyLoc", "MoveLoc", "Not",
                   "Add", "Eq", "And", "Lt", "Pack", "VecPack", "CastU8", "CastU64", "FreezeRef",
                   "ReadRef", "MutBorrowLoc", "ImmBorrowLoc", "MutBorrowField", "ImmBorrowField",
                   "MutBorrowGlobal", "ImmBorrowGlobal", "Exists", "MoveFrom", "VecLen",
                   "VecMutBorrow", "VecImmBorrow", "VecPopBack"}
<1>6. CASE i.op \in One
  <2>1. NumPushes(f, i) = 1
    BY <1>6 DEF NumPushes
  <2>2. \E x : w = <<x>>
    BY <1>6 DEF Pushed
  <2> QED BY <2>1, <2>2, SeqOne DEF i
<1>7. CASE i.op \notin One \union {"Call", "Unpack", "VecUnpack"}
  <2>1. NumPushes(f, i) = 0
    BY <1>7 DEF NumPushes
  <2>2. w = <<>>
    BY <1>7 DEF Pushed
  <2> QED BY <2>1, <2>2, SeqNone DEF i
<1> QED BY <1>3, <1>4, <1>5, <1>6, <1>7

-----------------------------------------------------------------------------
(* The heights that the stack usage pass computes.                         *)

HeightNext(f, c, g, pc) ==
    IF pc \in BlockIds(c) THEN 0
    ELSE g[pc - 1] - NumPops(f, At(c, pc - 1)) + NumPushes(f, At(c, pc - 1))

IsHeightTable(f, c, g) == g = [pc \in Offsets(c) |-> HeightNext(f, c, g, pc)]

LEMMA HeightTableExists ==
    ASSUME NEW f, NEW c, IsUnit(f, c)
    PROVE  \E g : IsHeightTable(f, c, g)
<1> DEFINE N(g, pc) == HeightNext(f, c, g, pc)
           Good(n) == \E g : \A pc \in Offsets(c) : pc < n => g[pc] = N(g, pc)
           Bad == {n \in Nat : ~Good(n)}
<1>1. \A g, h, pc : (pc # 0 => g[pc - 1] = h[pc - 1]) => N(g, pc) = N(h, pc)
  <2>1. 0 \in BlockIds(c)
    BY BlocksInside
  <2> QED BY <2>1 DEF HeightNext
<1>2. /\ Len(c) \in Nat
      /\ \A pc \in Offsets(c) : pc \in Nat /\ pc < Len(c) /\ (pc # 0 => pc - 1 \in Offsets(c))
  BY UnitFacts
<1> HIDE DEF N
<1>3. Bad = {}
  <2> SUFFICES ASSUME Bad # {} PROVE FALSE
    OBVIOUS
  <2>1. PICK n \in Bad : \A m \in Bad : n <= m
    <3> HIDE DEF Bad
    <3> Bad \subseteq Nat BY DEF Bad
    <3> QED BY LeastNatural
  <2>2. n # 0
    <3>1. \A pc \in Offsets(c) : ~(pc < 0)
      BY <1>2
    <3> QED BY <3>1
  <2>3. n - 1 \in Nat /\ n \in Nat
    BY <2>2
  <2>4. Good(n - 1)
    <3>1. n - 1 \notin Bad
      <4> HIDE DEF Bad
      <4> QED BY <2>1, <2>3
    <3> QED BY <2>3, <3>1
  <2>5. PICK g : \A pc \in Offsets(c) : pc < n - 1 => g[pc] = N(g, pc)
    BY <2>4
  <2> DEFINE h == [pc \in Offsets(c) |-> N(g, pc)]
  <2>6. ASSUME NEW pc \in Offsets(c), pc < n PROVE h[pc] = N(h, pc)
    <3>1. pc # 0 => h[pc - 1] = g[pc - 1]
      <4> SUFFICES ASSUME pc # 0 PROVE h[pc - 1] = g[pc - 1]
        OBVIOUS
      <4>1. pc - 1 \in Offsets(c) /\ pc - 1 < n - 1
        BY <1>2, <2>3, <2>6
      <4> QED BY <2>5, <4>1
    <3>2. h[pc] = N(g, pc)
      OBVIOUS
    <3> HIDE DEF h
    <3> QED BY <1>1, <3>1, <3>2
  <2> HIDE DEF h
  <2>7. Good(n)
    BY <2>6
  <2> QED BY <2>7
<1>4. Good(Len(c))
  BY <1>2, <1>3
<1>5. PICK g : \A pc \in Offsets(c) : g[pc] = N(g, pc)
  BY <1>2, <1>4
<1> DEFINE h == [pc \in Offsets(c) |-> N(g, pc)]
<1>6. \A pc \in Offsets(c) : N(h, pc) = N(g, pc)
  <2> SUFFICES ASSUME NEW pc \in Offsets(c) PROVE N(h, pc) = N(g, pc)
    OBVIOUS
  <2>1. pc # 0 => h[pc - 1] = g[pc - 1]
    BY <1>2, <1>5
  <2> HIDE DEF h
  <2> QED BY <1>1, <2>1
<1>7. h = [pc \in Offsets(c) |-> N(h, pc)]
  BY <1>6
<1> QED BY <1>7 DEF N, IsHeightTable

LEMMA HeightIs ==
    ASSUME NEW f, NEW c, IsUnit(f, c)
    PROVE  \A pc \in Offsets(c) : Height(f, c)[pc] = HeightNext(f, c, Height(f, c), pc)
<1> DEFINE T == CHOOSE g : IsHeightTable(f, c, g)
<1>1. IsHeightTable(f, c, T)
  BY HeightTableExists
<1>2. Height(f, c) = T
  BY Zenon DEF Height, HeightNext, IsHeightTable
<1> HIDE DEF T
<1>3. \A pc \in Offsets(c) : T[pc] = HeightNext(f, c, T, pc)
  BY <1>1, Zenon DEF IsHeightTable
<1> QED BY <1>2, <1>3

-----------------------------------------------------------------------------
(* The stack of the walk has the height of the stack usage pass.           *)

\* The type stack before the instruction at the offset k.
StackAt(R, k) == Last(R[k].stacks)

\* What an instruction makes of a type stack.
After(f, i, st) == SubSeq(st, 1, Len(st) - NumPops(f, i)) \o Pushed(f, i, Operands(f, i, st))

LEMMA WalkOk ==
    ASSUME NEW f, NEW c, IsUnit(f, c), TypesOk(f, c), NEW R, IsWalk(f, c, R)
    PROVE  \A k \in 0..Len(c) : R[k].ok
<1> DEFINE n == Len(c)
           Bad == {k \in 0..n : ~R[k].ok}
<1>1. n \in Nat
  BY UnitFacts
<1>2. R[n].ok /\ \A k \in 1..n : R[k] = TypeStep(f, R[k - 1], c[k])
  BY DEF TypesOk, IsWalk
<1> HIDE DEF n
<1> SUFFICES ASSUME Bad # {} PROVE FALSE
  BY DEF n
<1>3. PICK k \in Bad : \A x \in Bad : x <= k
  <2>1. Bad \in SUBSET (0..n)
    OBVIOUS
  <2> HIDE DEF Bad
  <2> QED BY <1>1, <2>1, GreatestNatural
<1>4. k \in 0..n /\ ~R[k].ok /\ k # n
  BY <1>2
<1>5. k \in Nat /\ k + 1 \in 1..n /\ k + 1 \in 0..n /\ (k + 1) - 1 = k
  <2>1. n \in Nat /\ k \in 0..n /\ k # n
    BY <1>1, <1>4
  <2> HIDE DEF Bad
  <2> QED BY <2>1
<1>6. R[k + 1] = TypeStep(f, R[k], c[k + 1])
  <2> HIDE DEF Bad
  <2> QED BY <1>2, <1>5
<1>7. ~R[k + 1].ok
  BY <1>4, <1>6 DEF TypeStep
<1>8. k + 1 \in Bad
  BY <1>5, <1>7
<1> HIDE DEF Bad
<1> QED BY <1>3, <1>5, <1>8

LEMMA WalkStep ==
    ASSUME NEW f, NEW c, IsUnit(f, c), TypesOk(f, c), NEW R, IsWalk(f, c, R), NEW pc \in Offsets(c)
    PROVE  LET i == At(c, pc) IN
           /\ TypeCheck(f, i, Operands(f, i, StackAt(R, pc)))
           /\ R[pc + 1].stacks = Append(R[pc].stacks, After(f, i, StackAt(R, pc)))
<1>1. pc + 1 \in 1..Len(c) /\ pc + 1 \in 0..Len(c) /\ (pc + 1) - 1 = pc
  BY UnitFacts
<1>2. R[pc + 1].ok
  BY <1>1, WalkOk
<1>3. R[pc + 1] = TypeStep(f, R[pc], At(c, pc))
  BY <1>1 DEF IsWalk, At
<1> DEFINE i == At(c, pc)
           st == StackAt(R, pc)
           ok == TypeCheck(f, i, Operands(f, i, st))
           x == After(f, i, st)
           yes == [ok |-> TRUE, stacks |-> Append(R[pc].stacks, x)]
           no == [ok |-> FALSE, stacks |-> R[pc].stacks]
<1>4. R[pc + 1] = IF R[pc].ok /\ ok THEN yes ELSE no
  BY <1>3 DEF TypeStep, StackAt, After
<1>5. ~no.ok /\ yes.stacks = Append(R[pc].stacks, x)
  OBVIOUS
<1> HIDE DEF yes, no, ok, x, st
<1>6. ok /\ R[pc + 1] = yes
  BY <1>2, <1>4, <1>5
<1> QED BY <1>5, <1>6 DEF ok, x, st

LEMMA WalkStacks ==
    ASSUME NEW f, NEW c, IsUnit(f, c), TypesOk(f, c), NEW R, IsWalk(f, c, R)
    PROVE  /\ StackAt(R, 0) = <<>>
           /\ \A pc \in Offsets(c) : StackAt(R, pc + 1) = After(f, At(c, pc), StackAt(R, pc))
<1> DEFINE n == Len(c)
           Bad == {k \in 0..n : ~IsSeq(R[k].stacks)}
<1>1. n \in Nat /\ Offsets(c) = 0..(n - 1)
  BY UnitFacts
<1>2. R[0].stacks = << <<>> >>
  BY DEF IsWalk, TypeStart
<1>3. StackAt(R, 0) = <<>> /\ IsSeq(R[0].stacks)
  <2>1. IsSeq(<< <<>> >>) /\ Len(<< <<>> >>) = 1
    BY SeqOne
  <2> QED BY <1>2, <2>1 DEF StackAt, Last
<1> HIDE DEF n
<1>4. Bad = {}
  <2> SUFFICES ASSUME Bad # {} PROVE FALSE
    OBVIOUS
  <2>1. Bad \in SUBSET Nat
    BY <1>1
  <2>2. PICK k \in Bad : \A x \in Bad : k <= x
    <3> HIDE DEF Bad
    <3> QED BY <2>1, LeastNatural
  <2>3. k \in 0..n /\ ~IsSeq(R[k].stacks) /\ k # 0
    BY <1>3
  <2>4. k \in Nat /\ k - 1 \in Nat /\ k - 1 \in 0..(n - 1) /\ k - 1 \in 0..n /\ (k - 1) + 1 = k
    <3>1. n \in Nat /\ k \in 0..n /\ k # 0
      BY <1>1, <2>3
    <3> HIDE DEF Bad
    <3> QED BY <3>1
  <2>5. IsSeq(R[k - 1].stacks)
    <3>1. k - 1 \notin Bad
      <4> HIDE DEF Bad
      <4> QED BY <2>2, <2>4
    <3> QED BY <2>4, <3>1
  <2> DEFINE pc == k - 1
  <2>6. pc \in Offsets(c) /\ pc + 1 = k
    BY <1>1, <2>4
  <2> HIDE DEF pc, Bad
  <2>7. R[pc + 1].stacks = Append(R[pc].stacks, After(f, At(c, pc), StackAt(R, pc)))
    BY <2>6, WalkStep
  <2> QED BY <2>3, <2>5, <2>6, <2>7, SeqAppend DEF pc
<1>5. ASSUME NEW pc \in Offsets(c) PROVE StackAt(R, pc + 1) = After(f, At(c, pc), StackAt(R, pc))
  <2>1. pc \in 0..n
    BY <1>1
  <2>2. IsSeq(R[pc].stacks)
    BY <1>4, <2>1
  <2>3. R[pc + 1].stacks = Append(R[pc].stacks, After(f, At(c, pc), StackAt(R, pc)))
    BY WalkStep
  <2> QED BY <2>2, <2>3, SeqAppend DEF StackAt
<1> QED BY <1>3, <1>5

LEMMA AfterIs ==
    ASSUME NEW f, NEW c, IsUnit(f, c), NEW pc \in Offsets(c), NEW st, IsSeq(st),
           NumPops(f, At(c, pc)) <= Len(st)
    PROVE  LET i == At(c, pc) IN
           /\ IsSeq(After(f, i, st))
           /\ Len(After(f, i, st)) = Len(st) - NumPops(f, i) + NumPushes(f, i)
<1> DEFINE i == At(c, pc)
           n == Len(st) - NumPops(f, i)
           w == Pushed(f, i, Operands(f, i, st))
           v == SubSeq(st, 1, n)
<1>1. NumPops(f, i) \in Nat /\ NumPushes(f, i) \in Nat
  BY EffectsAreNumbers
<1>2. Len(st) \in Nat
  BY SeqLen
<1>3. n \in Nat /\ n <= Len(st)
  <2>1. NumPops(f, i) <= Len(st)
    OBVIOUS
  <2> HIDE DEF i
  <2> QED BY <1>1, <1>2, <2>1
<1>4. IsSeq(w) /\ Len(w) = NumPushes(f, i)
  BY PushedIs
<1> HIDE DEF n
<1>5. IsSeq(v) /\ Len(v) = n
  BY <1>3, SeqPrefix
<1> HIDE DEF v, w
<1>6. IsSeq(v \o w) /\ Len(v \o w) = n + NumPushes(f, i)
  <2>1. IsSeq(v \o w) /\ Len(v \o w) = Len(v) + Len(w)
    BY <1>4, <1>5, SeqConcat
  <2> QED BY <1>4, <1>5, <2>1
<1> QED BY <1>6 DEF n, v, w, After

\* The walk has the stack of the height before the instruction, and its operands are there.
Matches(f, c, R, pc) ==
    /\ IsSeq(StackAt(R, pc))
    /\ Len(StackAt(R, pc)) = Height(f, c)[pc]
    /\ NumPops(f, At(c, pc)) <= Len(StackAt(R, pc))

LEMMA MatchStep ==
    ASSUME NEW f, NEW c, IsUnit(f, c), StackUsageOk(f, c), TypesOk(f, c), NEW R, IsWalk(f, c, R),
           NEW pc \in Offsets(c), Matches(f, c, R, pc)
    PROVE  /\ IsEndOfBlock(c, pc) => Len(StackAt(R, pc + 1)) = 0
           /\ pc + 1 \in Offsets(c) => Matches(f, c, R, pc + 1)
<1> DEFINE H == Height(f, c)
           i == At(c, pc)
           st == StackAt(R, pc)
           nx == StackAt(R, pc + 1)
<1>1. NumPops(f, i) \in Nat /\ NumPushes(f, i) \in Nat
  BY EffectsAreNumbers
<1>2. IsSeq(st) /\ Len(st) = H[pc] /\ NumPops(f, i) <= Len(st)
  BY DEF Matches
<1>3. nx = After(f, i, st)
  BY WalkStacks
<1>4. IsSeq(nx) /\ Len(nx) = H[pc] - NumPops(f, i) + NumPushes(f, i)
  BY <1>2, <1>3, AfterIs
<1>5. IsEndOfBlock(c, pc) => H[pc] - NumPops(f, i) + NumPushes(f, i) = 0
  BY DEF StackUsageOk, EndsLevel
<1>6. IsEndOfBlock(c, pc) => Len(nx) = 0
  BY <1>4, <1>5
<1>7. ASSUME pc + 1 \in Offsets(c) PROVE Len(nx) = H[pc + 1]
  <2>1. (pc + 1) - 1 = pc
    BY UnitFacts
  <2>2. H[pc + 1] = HeightNext(f, c, H, pc + 1)
    BY <1>7, HeightIs
  <2>3. CASE pc + 1 \in BlockIds(c)
    <3>1. H[pc + 1] = 0
      BY <2>2, <2>3 DEF HeightNext
    <3>2. IsEndOfBlock(c, pc)
      BY <2>3 DEF IsEndOfBlock
    <3> QED BY <1>6, <3>1, <3>2
  <2>4. CASE pc + 1 \notin BlockIds(c)
    <3>1. H[pc + 1] = H[pc] - NumPops(f, i) + NumPushes(f, i)
      BY <2>1, <2>2, <2>4 DEF HeightNext
    <3> QED BY <1>4, <3>1
  <2> QED BY <2>3, <2>4
<1>8. ASSUME pc + 1 \in Offsets(c) PROVE Matches(f, c, R, pc + 1)
  <2>1. H[pc + 1] >= NumPops(f, At(c, pc + 1))
    BY <1>8 DEF StackUsageOk
  <2>2. Len(nx) \in Nat /\ NumPops(f, At(c, pc + 1)) \in Nat
    BY <1>4, <1>8, SeqLen, EffectsAreNumbers
  <2>3. Len(nx) = H[pc + 1]
    BY <1>7, <1>8
  <2>4. NumPops(f, At(c, pc + 1)) <= Len(nx)
    <3> HIDE DEF nx, H
    <3> QED BY <2>1, <2>2, <2>3
  <2> QED BY <1>4, <2>3, <2>4 DEF Matches
<1> QED BY <1>6, <1>8

LEMMA HeightsMatch ==
    ASSUME NEW f, NEW c, IsUnit(f, c), StackUsageOk(f, c), TypesOk(f, c), NEW R, IsWalk(f, c, R)
    PROVE  \A pc \in Offsets(c) : Matches(f, c, R, pc)
<1> DEFINE Bad == {pc \in Offsets(c) : ~Matches(f, c, R, pc)}
<1>1. Offsets(c) \subseteq Nat /\ 0 \in Offsets(c) /\ \A pc \in Offsets(c) : pc # 0 => pc - 1 \in Offsets(c)
  BY UnitFacts
<1>2. Matches(f, c, R, 0)
  <2>1. StackAt(R, 0) = <<>>
    BY WalkStacks
  <2>2. Height(f, c)[0] = 0
    <3>1. 0 \in BlockIds(c)
      BY BlocksInside
    <3>2. Height(f, c)[0] = HeightNext(f, c, Height(f, c), 0)
      BY <1>1, HeightIs
    <3> QED BY <3>1, <3>2 DEF HeightNext
  <2>3. NumPops(f, At(c, 0)) <= 0
    <3>1. Height(f, c)[0] >= NumPops(f, At(c, 0))
      BY <1>1 DEF StackUsageOk
    <3>2. NumPops(f, At(c, 0)) \in Nat
      BY <1>1, EffectsAreNumbers
    <3> QED BY <2>2, <3>1, <3>2
  <2> QED BY <2>1, <2>2, <2>3, SeqNone DEF Matches
<1> SUFFICES ASSUME Bad # {} PROVE FALSE
  OBVIOUS
<1>3. PICK n \in Bad : \A m \in Bad : n <= m
  <2> HIDE DEF Bad
  <2> Bad \subseteq Nat BY <1>1 DEF Bad
  <2> QED BY LeastNatural
<1>4. n \in Offsets(c) /\ ~Matches(f, c, R, n)
  OBVIOUS
<1>5. n # 0
  BY <1>2, <1>4
<1>6. n - 1 \in Offsets(c) /\ n - 1 \in Nat /\ n \in Nat /\ (n - 1) + 1 = n
  BY <1>1, <1>4, <1>5
<1>7. n - 1 \notin Bad
  <2> HIDE DEF Bad
  <2> QED BY <1>3, <1>6
<1>8. Matches(f, c, R, n - 1)
  BY <1>6, <1>7
<1>9. (n - 1) + 1 \in Offsets(c) => Matches(f, c, R, (n - 1) + 1)
  BY <1>6, <1>8, MatchStep
<1> QED BY <1>4, <1>6, <1>9

-----------------------------------------------------------------------------
(* Every path.                                                             *)

\* A point of a path: an offset, and the types of the values on the part of the stack that
\* belongs to the call.
StackStep(f, c, x) ==
    {<<q, After(f, At(c, x[1]), x[2])>> : q \in Range(Successors(c, x[1]))}

\* The first n points of a path p through the code of f, which begins with nothing on the
\* stack and follows the edges of the control flow graph.
IsStackPath(f, c, p, n) ==
    /\ p[0] = <<0, <<>>>>
    /\ \A k \in 0..(n - 1) : p[k + 1] \in StackStep(f, c, p[k])

\* The operands of the instruction are on the stack and have the types it needs; a return
\* leaves with exactly the declared results.
StackPointSafe(f, c, x) ==
    LET i == At(c, x[1]) IN
    /\ x[1] \in Offsets(c)
    /\ NumPops(f, i) <= Len(x[2])
    /\ TypeCheck(f, i, Operands(f, i, x[2]))
    /\ i.op = "Ret" => x[2] = Sig[f].rets

StackSafe(f, c) ==
    \A n \in Nat : \A p : IsStackPath(f, c, p, n) => \A k \in 0..n : StackPointSafe(f, c, p[k])

LEMMA PointSafe ==
    ASSUME NEW f, NEW c, IsUnit(f, c), StackUsageOk(f, c), TypesOk(f, c), NEW R, IsWalk(f, c, R),
           NEW pc \in Offsets(c)
    PROVE  StackPointSafe(f, c, <<pc, StackAt(R, pc)>>)
<1> DEFINE i == At(c, pc)
           st == StackAt(R, pc)
<1>1. Matches(f, c, R, pc)
  BY HeightsMatch
<1>2. IsSeq(st) /\ NumPops(f, i) <= Len(st)
  BY <1>1 DEF Matches
<1>3. TypeCheck(f, i, Operands(f, i, st))
  BY WalkStep
<1>4. ASSUME i.op = "Ret" PROVE st = Sig[f].rets
  <2>1. Operands(f, i, st) = Sig[f].rets
    BY <1>3, <1>4 DEF TypeCheck, DeclaredOk
  <2>2. IsEndOfBlock(c, pc)
    <3>1. pc + 1 # Len(c) => pc + 1 < Len(c)
      BY UnitFacts
    <3>2. IsUnconditional(i)
      BY <1>4 DEF IsUnconditional
    <3> QED BY <3>1, <3>2 DEF IsEndOfBlock, BlockIds
  <2>3. Height(f, c)[pc] - NumPops(f, i) + NumPushes(f, i) = 0
    BY <2>2 DEF StackUsageOk, EndsLevel
  <2>4. NumPushes(f, i) = 0
    BY <1>4 DEF NumPushes
  <2>5. Len(st) = Height(f, c)[pc] /\ Len(st) \in Nat /\ NumPops(f, i) \in Nat
    BY <1>1, <1>2, SeqLen, EffectsAreNumbers DEF Matches
  <2>6. Len(st) - NumPops(f, i) + 1 = 1
    <3> HIDE DEF i, st
    <3> QED BY <2>3, <2>4, <2>5
  <2>7. Operands(f, i, st) = SubSeq(st, 1, Len(st))
    BY <2>6 DEF Operands
  <2>8. SubSeq(st, 1, Len(st)) = st
    BY <1>2, SeqWhole
  <2> QED BY <2>1, <2>7, <2>8
<1> QED BY <1>2, <1>3, <1>4 DEF StackPointSafe

LEMMA PathStays ==
    ASSUME NEW f, NEW c, IsUnit(f, c), StackUsageOk(f, c), TypesOk(f, c), NEW R, IsWalk(f, c, R),
           NEW pc \in Offsets(c), NEW y \in StackStep(f, c, <<pc, StackAt(R, pc)>>)
    PROVE  y[1] \in Offsets(c) /\ y = <<y[1], StackAt(R, y[1])>>
<1>1. PICK q \in Range(Successors(c, pc)) : y = <<q, After(f, At(c, pc), StackAt(R, pc))>>
  BY DEF StackStep
<1>2. StackAt(R, pc + 1) = After(f, At(c, pc), StackAt(R, pc))
  BY WalkStacks
<1>3. Matches(f, c, R, pc)
  BY HeightsMatch
<1>4. q \in Offsets(c)
  <2>1. \/ HasOffset(At(c, pc)) /\ q = At(c, pc).a
        \/ pc + 1 < Len(c) /\ ~IsUnconditional(At(c, pc)) /\ q = pc + 1
    BY <1>1, SuccessorsAre
  <2>2. HasOffset(At(c, pc)) => At(c, pc).a \in Offsets(c)
    BY UnitFacts
  <2>3. pc + 1 < Len(c) => pc + 1 \in Offsets(c)
    BY UnitFacts
  <2> QED BY <2>1, <2>2, <2>3
<1>5. StackAt(R, q) = StackAt(R, pc + 1)
  <2>1. CASE ~IsEndOfBlock(c, pc)
    BY <1>1, <2>1, NextBlocks
  <2>2. CASE IsEndOfBlock(c, pc)
    <3>1. q \in BlockIds(c)
      BY <1>1, <2>2, NextBlocks
    <3>2. Matches(f, c, R, q)
      BY <1>4, HeightsMatch
    <3>3. Height(f, c)[q] = 0
      <4>1. Height(f, c)[q] = HeightNext(f, c, Height(f, c), q)
        BY <1>4, HeightIs
      <4> QED BY <3>1, <4>1 DEF HeightNext
    <3>4. StackAt(R, q) = <<>>
      BY <3>2, <3>3, SeqLen DEF Matches
    <3>5. Len(StackAt(R, pc + 1)) = 0
      BY <1>3, <2>2, MatchStep
    <3>6. IsSeq(StackAt(R, pc + 1))
      BY <1>2, <1>3, AfterIs DEF Matches
    <3> QED BY <3>4, <3>5, <3>6, SeqLen
  <2> QED BY <2>1, <2>2
<1> QED BY <1>1, <1>2, <1>4, <1>5

\* What the stack usage pass and the type checker accept is safe on every path.
LEMMA CheckedIsSafe ==
    ASSUME NEW f, NEW c, IsUnit(f, c), StackUsageOk(f, c), TypesOk(f, c)
    PROVE  StackSafe(f, c)
<1>1. PICK R : IsWalk(f, c, R)
  BY WalkExists
<1> SUFFICES ASSUME NEW n \in Nat, NEW p, IsStackPath(f, c, p, n)
             PROVE  \A k \in 0..n : StackPointSafe(f, c, p[k])
  BY DEF StackSafe
<1> DEFINE Good(k) == p[k][1] \in Offsets(c) /\ p[k] = <<p[k][1], StackAt(R, p[k][1])>>
           Bad == {k \in Nat : k <= n /\ ~Good(k)}
<1>2. Good(0)
  <2>1. p[0] = <<0, <<>>>>
    BY DEF IsStackPath
  <2>2. StackAt(R, 0) = <<>>
    BY <1>1, WalkStacks
  <2>3. 0 \in Offsets(c)
    BY UnitFacts
  <2> QED BY <2>1, <2>2, <2>3
<1>3. ASSUME NEW k \in 0..(n - 1), Good(k) PROVE Good(k + 1)
  <2>1. p[k + 1] \in StackStep(f, c, p[k])
    BY DEF IsStackPath
  <2> DEFINE pc == p[k][1]
             y == p[k + 1]
  <2>2. pc \in Offsets(c) /\ y \in StackStep(f, c, <<pc, StackAt(R, pc)>>)
    BY <1>3, <2>1
  <2> HIDE DEF pc, y
  <2>3. y[1] \in Offsets(c) /\ y = <<y[1], StackAt(R, y[1])>>
    BY <1>1, <2>2, PathStays
  <2> QED BY <2>3 DEF y
<1> HIDE DEF Good
<1>4. Bad = {}
  <2> SUFFICES ASSUME Bad # {} PROVE FALSE
    OBVIOUS
  <2>1. PICK m \in Bad : \A x \in Bad : m <= x
    <3> HIDE DEF Bad
    <3> Bad \subseteq Nat BY DEF Bad
    <3> QED BY LeastNatural
  <2>2. m \in Nat /\ m <= n /\ ~Good(m)
    OBVIOUS
  <2> HIDE DEF Bad
  <2>3. m # 0
    BY <1>2, <2>2
  <2>4. m - 1 \in Nat /\ m - 1 <= n /\ m - 1 \in 0..(n - 1) /\ (m - 1) + 1 = m
    BY <2>2, <2>3
  <2>5. m - 1 \notin Bad
    BY <2>1, <2>2, <2>4
  <2>6. Good(m - 1)
    BY <2>4, <2>5 DEF Bad
  <2>7. Good((m - 1) + 1)
    BY <1>3, <2>4, <2>6
  <2> QED BY <2>2, <2>4, <2>7
<1> SUFFICES ASSUME NEW k \in 0..n PROVE StackPointSafe(f, c, p[k])
  OBVIOUS
<1>5. Good(k)
  <2>1. k \in Nat /\ k <= n
    OBVIOUS
  <2> QED BY <1>4, <2>1
<1> DEFINE pc == p[k][1]
<1>6. pc \in Offsets(c) /\ p[k] = <<pc, StackAt(R, pc)>>
  BY <1>5 DEF Good
<1> HIDE DEF pc
<1> QED BY <1>1, <1>6, PointSafe

-----------------------------------------------------------------------------
(* The verifier.                                                           *)

\* What the passes before the locals analysis have established.
Checked(f, c) ==
    IsUnit(f, c) /\ IsUnconditional(At(c, Len(c) - 1)) /\ StackUsageOk(f, c) /\ TypesOk(f, c)

\* The functions that are past the type checker.
CheckedFunctions ==
    {f \in DOMAIN program : f < fn \/ (f = fn /\ verdict \in {"locals", "references", "accepted"})}

CheckedInv == LInv /\ \A f \in CheckedFunctions : Checked(f, program[f])

LEMMA NoneChecked ==
    ASSUME LInv, VerifierInit
    PROVE  CheckedInv
<1>1. \A f \in DOMAIN program : f \in Int /\ fn \in Int /\ fn <= f
  BY FunctionsAreNumbered DEF LInv, VerifierInit
<1>2. verdict = "begin"
  BY DEF VerifierInit
<1>3. CheckedFunctions = {}
  BY <1>1, <1>2 DEF CheckedFunctions
<1> QED BY <1>3 DEF CheckedInv

LEMMA CheckedStep ==
    ASSUME CheckedInv, [VerifierNext /\ UNCHANGED program]_<<program, verifierVars>>
    PROVE  CheckedInv'
<1>0. LInv /\ InProgram /\ fn \in DOMAIN program /\ \A f \in CheckedFunctions : Checked(f, program[f])
  BY DEF CheckedInv, LInv, InProgram
<1>1. LInv'
  BY <1>0, InvariantStep
<1>2. program' = program
  BY DEF verifierVars
<1> SUFFICES ASSUME NEW f \in CheckedFunctions' PROVE Checked(f, program[f])
  BY <1>1, <1>2 DEF CheckedInv
<1>3. f \in DOMAIN program /\ (f < fn' \/ (f = fn' /\ verdict' \in {"locals", "references", "accepted"}))
  BY <1>2 DEF CheckedFunctions
<1>4. CASE UNCHANGED <<program, verifierVars>>
  <2>1. f \in CheckedFunctions
    BY <1>3, <1>4 DEF CheckedFunctions, verifierVars
  <2> QED BY <1>0, <2>1
<1>5. CASE VerifyCommon
  <2>1. fn' = fn
    BY <1>5 DEF VerifyCommon, StartAnalysis, Reject
  <2>2. CASE f < fn
    BY <1>0, <1>3, <2>2 DEF CheckedFunctions
  <2>3. CASE ~(f < fn)
    <3>1. f = fn /\ verdict' # "rejected"
      BY <1>3, <2>1, <2>3
    <3>2. CF!Accepted(Body) /\ StackUsageOk(fn, Body) /\ TypesOk(fn, Body)
      BY <1>5, <3>1 DEF VerifyCommon, Reject
    <3>3. Body # <<>> /\ IsUnconditional(At(Body, Len(Body) - 1))
      BY <3>2 DEF CF!Accepted, CF!IsUnconditional, CF!At, IsUnconditional, At
    <3>4. IsUnit(fn, Body)
      BY <1>0, <3>3 DEF InProgram, IsUnit, Body
    <3>5. Checked(fn, Body)
      BY <3>2, <3>3, <3>4 DEF Checked
    <3> QED BY <3>1, <3>5 DEF Body
  <2> QED BY <2>2, <2>3
<1>6. CASE AnalyzeBlock
  <2>1. f \in CheckedFunctions
    BY <1>3, <1>6, AnalyzeVerdict DEF CheckedFunctions
  <2> QED BY <1>0, <2>1
<1>7. CASE FinishLocals
  <2>1. fn' = fn /\ verdict = "locals"
    BY <1>7 DEF FinishLocals, StartAnalysis, Reject
  <2>2. f \in CheckedFunctions
    BY <1>3, <2>1 DEF CheckedFunctions
  <2> QED BY <1>0, <2>2
<1>8. CASE FinishReferences
  <2>1. verdict = "references" /\ (fn' = fn \/ (fn' = fn + 1 /\ verdict' = "begin"))
    BY <1>8 DEF FinishReferences, Reject
  <2>2. f \in Int /\ fn \in Int
    BY <1>0, <1>3, FunctionsAreNumbered
  <2>3. f < fn \/ f = fn
    BY <1>3, <2>1, <2>2
  <2>4. f \in CheckedFunctions
    BY <1>3, <2>1, <2>3 DEF CheckedFunctions
  <2> QED BY <1>0, <2>4
<1> QED BY <1>4, <1>5, <1>6, <1>7, <1>8 DEF VerifierNext

LEMMA AllChecked ==
    ASSUME CheckedInv, verdict = "accepted", NEW f \in DOMAIN program
    PROVE  Checked(f, program[f]) /\ LocalsSafe(f, program[f])
<1>1. f <= fn /\ InProgram /\ fn \in DOMAIN program
  BY DEF CheckedInv, LInv, InProgram
<1>2. f \in Int /\ fn \in Int
  BY <1>1, FunctionsAreNumbered
<1>3. f < fn \/ f = fn
  BY <1>1, <1>2
<1>4. f \in CheckedFunctions /\ f \in PassedFunctions
  BY <1>3 DEF CheckedFunctions, PassedFunctions
<1> QED BY <1>4 DEF CheckedInv, LInv

\* The functions of an accepted module keep to the stack that was checked.
AcceptedStackSafe ==
    verdict = "accepted" => \A f \in DOMAIN program : StackSafe(f, program[f])

\* In every module the verifier accepts, along every path through every function, the
\* operands of each instruction are on the part of the stack that belongs to the call and have the
\* types the instruction needs, and a return leaves with exactly the declared results:
\* type_safety::verify walks the blocks once with one stack and unwraps every pop
\* (type_safety.rs:90, :385), and the interpreter pops without looking at types.
THEOREM AcceptedCodeKeepsTheStack == VerifierSpec => []AcceptedStackSafe
<1>1. ASSUME NEW family \in Programs, program \in family, VerifierInit PROVE CheckedInv
  BY <1>1, StartsInside, NoneChecked
<1>2. (\E family \in Programs : program \in family) /\ VerifierInit => CheckedInv
  BY <1>1
<1>3. CheckedInv /\ [VerifierNext /\ UNCHANGED program]_<<program, verifierVars>> => CheckedInv'
  BY CheckedStep
<1>4. CheckedInv => AcceptedStackSafe
  <2> SUFFICES ASSUME CheckedInv, verdict = "accepted", NEW f \in DOMAIN program
               PROVE  StackSafe(f, program[f])
    BY DEF AcceptedStackSafe
  <2> QED BY AllChecked, CheckedIsSafe DEF Checked
<1> QED BY <1>2, <1>3, <1>4, PTL DEF VerifierSpec
=============================================================================
