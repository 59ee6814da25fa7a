-------------------------- MODULE ExecutionProofs --------------------------
(***************************************************************************)
(* Verified code passes the checks of the interpreter: along every run the *)
(* operand stack, the locals and the resources hold what the type checker  *)
(* computed, and a reference that may be used leads to a value of the type *)
(* it refers to.                                                           *)
(***************************************************************************)
EXTENDS CodeVerifierProofs, VerifiedRun

-----------------------------------------------------------------------------
(* Values.                                                                 *)

\* A value is built as its type says, and so is everything in it.
Typed(v) == \E W : v \in W /\ \A w \in W : WellBuilt(w, W)

\* The type of the k-th component of a value of type t.
Component(t, k) == Desc[t].args[IF Kind(t) = "vector" THEN 1 ELSE k]

ReferenceKinds == {"ref", "mut"}

\* What a typed value consists of: as many components as its type says, each typed.
LEMMA TypedParts ==
    ASSUME NEW v, Typed(v)
    PROVE  /\ v = Val(v.ty, v.b, v.f) /\ v.ty \in Types /\ v.b \in BOOLEAN
           /\ Kind(v.ty) \notin ReferenceKinds
           /\ IsSeq(v.f)
           /\ Kind(v.ty) # "vector" => Len(v.f) = Len(Desc[v.ty].args)
           /\ \A k \in 1..Len(v.f) : Typed(v.f[k]) /\ v.f[k].ty = Component(v.ty, k)
<1>1. PICK W : v \in W /\ \A w \in W : WellBuilt(w, W)
  BY DEF Typed
<1>2. WellBuilt(v, W)
  BY <1>1
<1>3. v = Val(v.ty, v.b, v.f) /\ v.ty \in Types /\ v.b \in BOOLEAN /\ Kind(v.ty) \notin ReferenceKinds
  BY <1>2 DEF WellBuilt, ReferenceKinds
<1>4. v.f \in Seq(W)
  BY <1>2 DEF WellBuilt
<1>5. Kind(v.ty) # "vector" => Len(v.f) = Len(Desc[v.ty].args)
  BY <1>2 DEF WellBuilt
<1>6. ASSUME NEW k \in 1..Len(v.f) PROVE Typed(v.f[k]) /\ v.f[k].ty = Component(v.ty, k)
  <2>1. v.f[k] \in W /\ k \in DOMAIN v.f
    BY <1>4
  <2>2. Typed(v.f[k])
    BY <1>1, <2>1 DEF Typed
  <2> QED BY <1>2, <2>1, <2>2 DEF WellBuilt, Component
<1>7. IsSeq(v.f)
  BY <1>4 DEF IsSeq
<1> QED BY <1>3, <1>5, <1>6, <1>7

\* A value made of typed components of the right types is typed.
LEMMA TypedBuild ==
    ASSUME NEW t \in Types, Kind(t) \notin ReferenceKinds, NEW b \in BOOLEAN, NEW q, IsSeq(q),
           Kind(t) # "vector" => Len(q) = Len(Desc[t].args),
           \A k \in 1..Len(q) : Typed(q[k]) /\ q[k].ty = Component(t, k)
    PROVE  Typed(Val(t, b, q))
<1> DEFINE v == Val(t, b, q)
           In(k) == CHOOSE W : q[k] \in W /\ \A w \in W : WellBuilt(w, W)
           U == {v} \union UNION {In(k) : k \in 1..Len(q)}
<1>1. ASSUME NEW k \in 1..Len(q) PROVE q[k] \in In(k) /\ \A w \in In(k) : WellBuilt(w, In(k))
  <2>1. \E W : q[k] \in W /\ \A w \in W : WellBuilt(w, W)
    BY DEF Typed
  <2> QED BY <2>1, Zenon
<1> HIDE DEF In
<1>2. \A k \in 1..Len(q) : In(k) \subseteq U
  OBVIOUS
<1>3. v.ty = t /\ v.b = b /\ v.f = q
  BY DEF Val
<1>4. v \in U /\ \A w \in U : w = v \/ \E k \in 1..Len(q) : w \in In(k)
  OBVIOUS
<1> HIDE DEF U, v
<1>5. q \in Seq(U)
  <2>1. PICK S : q \in Seq(S)
    BY DEF IsSeq
  <2>2. \A k \in 1..Len(q) : q[k] \in U
    BY <1>1, <1>2
  <2> QED BY <2>1, <2>2
<1>6. WellBuilt(v, U)
  <2>1. DOMAIN q = 1..Len(q)
    BY DEF IsSeq
  <2>2. v = Val(v.ty, v.b, v.f)
    BY <1>3 DEF v
  <2> QED BY <1>3, <1>5, <2>1, <2>2 DEF WellBuilt, ReferenceKinds, Component
<1>7. ASSUME NEW k \in 1..Len(q), NEW w \in In(k) PROVE WellBuilt(w, U)
  <2>1. WellBuilt(w, In(k)) /\ In(k) \subseteq U
    BY <1>1, <1>2
  <2>2. w.f \in Seq(U)
    <3>1. w.f \in Seq(In(k))
      BY <2>1 DEF WellBuilt
    <3> QED BY <2>1, <3>1
  <2> QED BY <2>1, <2>2 DEF WellBuilt
<1>8. \A w \in U : WellBuilt(w, U)
  BY <1>4, <1>6, <1>7
<1> QED BY <1>4, <1>8 DEF Typed, v

\* Values from outside are typed.
LEMMA InputsTyped ==
    ASSUME NEW v \in Inputs
    PROVE  Typed(v)
BY InterpreterConstants DEF Typed

\* A reference value.
RefVal(t, at, mark) == [ty |-> t, b |-> FALSE, f |-> <<>>, at |-> at, mark |-> mark]

\* A reference that gets another mark.
LEMMA Remark ==
    ASSUME NEW t, NEW at, NEW x, NEW m
    PROVE  [RefVal(t, at, x) EXCEPT !.mark = m] = RefVal(t, at, m)
<1> DEFINE r == RefVal(t, at, x)
           s == RefVal(t, at, m)
<1>1. DOMAIN r = DOMAIN s /\ DOMAIN s = {"ty", "b", "f", "at", "mark"}
  BY DEF RefVal
<1>2. r.ty = s.ty /\ r.b = s.b /\ r.f = s.f /\ r.at = s.at /\ s.mark = m
  BY DEF RefVal
<1>3. s = [k \in DOMAIN s |-> s[k]]
  BY DEF RefVal
<1> HIDE DEF r, s
<1>4. [r EXCEPT !.mark = m] = [k \in DOMAIN r |-> IF k = "mark" THEN m ELSE r[k]]
  OBVIOUS
<1>5. [k \in DOMAIN r |-> IF k = "mark" THEN m ELSE r[k]] = [k \in DOMAIN s |-> s[k]]
  BY <1>1, <1>2
<1> QED BY <1>3, <1>4, <1>5 DEF r, s

\* A reference that leads to another place.
LEMMA Replace ==
    ASSUME NEW t, NEW at, NEW x, NEW a
    PROVE  [RefVal(t, at, x) EXCEPT !.at = a] = RefVal(t, a, x)
<1> DEFINE r == RefVal(t, at, x)
           s == RefVal(t, a, x)
<1>1. DOMAIN r = DOMAIN s /\ DOMAIN s = {"ty", "b", "f", "at", "mark"}
  BY DEF RefVal
<1>2. r.ty = s.ty /\ r.b = s.b /\ r.f = s.f /\ r.mark = s.mark /\ s.at = a
  BY DEF RefVal
<1>3. s = [k \in DOMAIN s |-> s[k]]
  BY DEF RefVal
<1> HIDE DEF r, s
<1>4. [r EXCEPT !.at = a] = [k \in DOMAIN r |-> IF k = "at" THEN a ELSE r[k]]
  OBVIOUS
<1>5. [k \in DOMAIN r |-> IF k = "at" THEN a ELSE r[k]] = [k \in DOMAIN s |-> s[k]]
  BY <1>1, <1>2
<1> QED BY <1>3, <1>4, <1>5 DEF r, s

\* The run time representation of a value of type t.
HasType(v, t) ==
    /\ t \in Types
    /\ IF Kind(t) \in ReferenceKinds THEN v = RefVal(t, v.at, v.mark) ELSE Typed(v) /\ v.ty = t

\* The value of an empty local has no type of the table.
LEMMA InvalidIs == Invalid.ty = "Invalid" /\ ~IsReference(Invalid) /\ Invalid.ty \notin Types
BY TypeTable DEF Invalid, Val, IsReference

\* What a value of a type looks like to the interpreter's casts.
LEMMA HasTypeFacts ==
    ASSUME NEW v, NEW t, HasType(v, t)
    PROVE  /\ t \in Types /\ v.ty = t /\ v # Invalid /\ Rep(v) = Kind(t)
           /\ IsReference(v) <=> Kind(t) \in ReferenceKinds
<1>1. CASE Kind(t) \in ReferenceKinds
  <2>1. v = RefVal(t, v.at, v.mark)
    BY <1>1 DEF HasType
  <2>2. v.ty = t /\ IsReference(v)
    BY <2>1 DEF RefVal, IsReference
  <2>3. t \in Types
    BY DEF HasType
  <2> QED BY <1>1, <2>2, <2>3, InvalidIs DEF Rep
<1>2. CASE Kind(t) \notin ReferenceKinds
  <2>1. Typed(v) /\ v.ty = t /\ t \in Types
    BY <1>2 DEF HasType
  <2>2. v = Val(v.ty, v.b, v.f)
    BY <2>1, TypedParts
  <2>3. ~IsReference(v)
    <3>1. DOMAIN Val(v.ty, v.b, v.f) = {"ty", "b", "f"}
      BY DEF Val
    <3> QED BY <2>2, <3>1 DEF IsReference
  <2> QED BY <1>2, <2>1, <2>3, InvalidIs DEF Rep
<1> QED BY <1>1, <1>2

\* w is v, or v as a reference that is of no use, and may have followed its container elsewhere.
Marked(v, w) ==
    \/ w = v
    \/ /\ IsReference(v)
       /\ \E m \in {"dangling", "stale"} : \E r :
            r = [v EXCEPT !.mark = m] /\ (w = r \/ \E a : w = [r EXCEPT !.at = a])

\* A mark does not change the type of a reference.
LEMMA MarkedType ==
    ASSUME NEW v, NEW w, NEW t, HasType(v, t), Marked(v, w)
    PROVE  HasType(w, t)
<1>1. CASE w = v
  BY <1>1
<1>2. CASE w # v
  <2>1. Kind(t) \in ReferenceKinds
    BY <1>2, HasTypeFacts DEF Marked
  <2>2. v = RefVal(t, v.at, v.mark) /\ t \in Types
    BY <2>1 DEF HasType
  <2>3. PICK m, r : r = [v EXCEPT !.mark = m] /\ (w = r \/ \E a : w = [r EXCEPT !.at = a])
    BY <1>2 DEF Marked
  <2>4. r = RefVal(t, v.at, m)
    <3>1. [RefVal(t, v.at, v.mark) EXCEPT !.mark = m] = RefVal(t, v.at, m)
      BY Remark
    <3> QED BY <2>2, <2>3, <3>1
  <2>5. ASSUME NEW a, w = [r EXCEPT !.at = a] PROVE w = RefVal(t, a, m)
    <3>1. [RefVal(t, v.at, m) EXCEPT !.at = a] = RefVal(t, a, m)
      BY Replace
    <3> QED BY <2>4, <2>5, <3>1
  <2>6. \E a : w = RefVal(t, a, m)
    BY <2>3, <2>4, <2>5
  <2>7. PICK a : w = RefVal(t, a, m)
    BY <2>6
  <2>8. w.at = a /\ w.mark = m
    BY <2>7 DEF RefVal
  <2> QED BY <2>1, <2>2, <2>7, <2>8 DEF HasType
<1> QED BY <1>1, <1>2

\* Marking makes no value out of an empty local and leaves none behind.
LEMMA MarkedInvalid ==
    ASSUME NEW v, NEW w, Marked(v, w)
    PROVE  v = Invalid <=> w = Invalid
<1>1. CASE w = v
  BY <1>1
<1>2. CASE /\ IsReference(v)
           /\ \E m \in {"dangling", "stale"} : \E r :
                r = [v EXCEPT !.mark = m] /\ (w = r \/ \E a : w = [r EXCEPT !.at = a])
  <2>1. DOMAIN w = DOMAIN v
    BY <1>2
  <2>2. IsReference(w)
    BY <1>2, <2>1 DEF IsReference
  <2> QED BY <1>2, <2>2, InvalidIs
<1> QED BY <1>1, <1>2 DEF Marked

-----------------------------------------------------------------------------
(* What the verifier computed for an instruction.                          *)

Static(f, c, pc) == StackAt(CHOOSE R : IsWalk(f, c, R), pc)

\* Where control goes on from an instruction is among its successors.
LEMMA SuccessorsHave ==
    ASSUME NEW f, NEW c, IsUnit(f, c), NEW p \in Offsets(c)
    PROVE  /\ HasOffset(At(c, p)) => At(c, p).a \in Range(Successors(c, p))
           /\ p + 1 < Len(c) /\ ~IsUnconditional(At(c, p)) => p + 1 \in Range(Successors(c, p))
<1> DEFINE i == At(c, p)
           target == IF HasOffset(i) THEN {i.a} ELSE {}
           next == IF p + 1 < Len(c) /\ ~IsUnconditional(i) THEN {p + 1} ELSE {}
           both == target \union next
           least == CHOOSE x \in both : \A y \in both : x <= y
           other == CHOOSE x \in both : x # least
           s == Successors(c, p)
<1>1. both \subseteq Nat /\ (both = {} \/ (\E x : both = {x}) \/ \E x, y : x # y /\ both = {x, y})
  <2>1. both \subseteq Nat
    BY UnitFacts
  <2>2. CASE target = {}
    BY <2>1, <2>2
  <2>3. CASE next = {}
    BY <2>1, <2>3
  <2>4. CASE target = {i.a} /\ next = {p + 1}
    <3>1. both = {i.a, p + 1}
      BY <2>4
    <3> HIDE DEF both
    <3> QED BY <2>1, <3>1
  <2> QED BY <2>2, <2>3, <2>4
<1>2. s = IF both = {} THEN <<>>
          ELSE IF Cardinality(both) = 1 THEN <<least>> ELSE <<least, other>>
  BY DEF Successors
<1>3. /\ HasOffset(i) => i.a \in both
      /\ p + 1 < Len(c) /\ ~IsUnconditional(i) => p + 1 \in both
  OBVIOUS
<1> HIDE DEF both
<1>4. both # {} => least \in both
  <2>1. both # {} => \E x \in both : \A y \in both : x <= y
    BY <1>1, LeastNatural
  <2> QED BY <2>1
<1> HIDE DEF least, s
<1>5. /\ Range(<<least>>) = {least}
      /\ Range(<<least, other>>) = {least, other}
  <2> HIDE DEF other
  <2>1. Range(<<least>>) = {least}
    BY DEF Range
  <2>2. Range(<<least, other>>) = {least, other}
    BY DEF Range
  <2> QED BY <2>1, <2>2
<1>6. both \subseteq Range(s)
  <2>1. CASE both = {}
    BY <2>1
  <2>2. ASSUME NEW x, both = {x} PROVE both \subseteq Range(s)
    <3>1. Cardinality(both) = 1 /\ least = x
      BY <1>4, <2>2, FS_Singleton
    <3> QED BY <1>2, <1>5, <2>2, <3>1
  <2>3. ASSUME NEW x, NEW y, x # y, both = {x, y} PROVE both \subseteq Range(s)
    <3>1. Cardinality({x}) = 1 /\ IsFiniteSet({x})
      BY FS_Singleton
    <3>2. Cardinality({x} \union {y}) = 2
      BY <2>3, <3>1, FS_AddElement
    <3>3. {x} \union {y} = both
      BY <2>3
    <3>4. other \in both /\ other # least
      BY <1>4, <2>3
    <3> HIDE DEF other
    <3>5. both # {} /\ Cardinality(both) # 1
      BY <2>3, <3>2, <3>3
    <3>6. s = <<least, other>>
      BY <1>2, <3>5
    <3>7. Range(s) = {least, other}
      BY <1>5, <3>6
    <3> QED BY <1>4, <2>3, <3>4, <3>7
  <2> QED BY <1>1, <2>1, <2>2, <2>3
<1> QED BY <1>3, <1>6 DEF s

\* The stack of the walk in the result of the type checker.
LEMMA WalkEntries ==
    ASSUME NEW f, NEW c, IsUnit(f, c), TypesOk(f, c), NEW R, IsWalk(f, c, R)
    PROVE  \A pc \in Offsets(c) : TypeStacks(f, c).stacks[pc + 1] = StackAt(R, pc)
<1> DEFINE n == Len(c)
           Good(k) == /\ IsSeq(R[k].stacks) /\ Len(R[k].stacks) = k + 1
                      /\ \A j \in 0..k : R[k].stacks[j + 1] = StackAt(R, j)
           Bad == {k \in 0..n : ~Good(k)}
<1>1. n \in Nat /\ Offsets(c) = 0..(n - 1)
  BY UnitFacts
<1>2. TypeStacks(f, c) = R[n]
  BY DEF IsWalk
<1>3. Good(0)
  <2>1. R[0].stacks = << <<>> >>
    BY DEF IsWalk, TypeStart
  <2>2. IsSeq(<< <<>> >>) /\ Len(<< <<>> >>) = 1 /\ << <<>> >>[1] = <<>>
    BY SeqOne
  <2>3. StackAt(R, 0) = <<>>
    BY WalkStacks
  <2>4. \A j \in 0..0 : j = 0
    OBVIOUS
  <2> HIDE DEF n
  <2> QED BY <2>1, <2>2, <2>3, <2>4
<1> HIDE DEF n
<1>4. ASSUME NEW k \in 0..(n - 1), Good(k) PROVE Good(k + 1)
  <2> DEFINE s == R[k].stacks
             x == After(f, At(c, k), StackAt(R, k))
  <2>1. k \in Offsets(c)
    BY <1>1
  <2>2. R[k + 1].stacks = Append(s, x)
    BY <2>1, WalkStep
  <2>3. StackAt(R, k + 1) = x
    BY <2>1, WalkStacks
  <2>4. IsSeq(s) /\ Len(s) = k + 1 /\ \A j \in 0..k : s[j + 1] = StackAt(R, j)
    BY <1>4
  <2> HIDE DEF s, x
  <2>5. PICK S : s \in Seq(S)
    BY <2>4 DEF IsSeq
  <2>6. s \in Seq(S \union {x})
    BY <2>5
  <2>7. /\ Append(s, x) \in Seq(S \union {x}) /\ Len(Append(s, x)) = k + 2
        /\ Append(s, x)[k + 2] = x /\ \A j \in 1..(k + 1) : Append(s, x)[j] = s[j]
    BY <1>1, <2>4, <2>6
  <2>8. ASSUME NEW j \in 0..(k + 1) PROVE Append(s, x)[j + 1] = StackAt(R, j)
    <3>1. CASE j = k + 1
      BY <1>1, <2>3, <2>7, <3>1
    <3>2. CASE j # k + 1
      BY <1>1, <2>4, <2>7, <3>2
    <3> QED BY <3>1, <3>2
  <2>9. IsSeq(Append(s, x)) /\ Len(Append(s, x)) = (k + 1) + 1
    BY <1>1, <2>7 DEF IsSeq
  <2> QED BY <2>2, <2>8, <2>9
<1> HIDE DEF Good
<1>5. Bad = {}
  <2> SUFFICES ASSUME Bad # {} PROVE FALSE
    OBVIOUS
  <2>1. PICK m \in Bad : \A y \in Bad : m <= y
    <3> Bad \subseteq Nat BY <1>1
    <3> HIDE DEF Bad
    <3> QED BY LeastNatural
  <2>2. m \in 0..n /\ ~Good(m) /\ m # 0
    BY <1>3
  <2>3. m - 1 \in 0..n /\ m - 1 \in 0..(n - 1) /\ (m - 1) + 1 = m /\ ~(m <= m - 1)
    <3> HIDE DEF Bad
    <3> QED BY <1>1, <2>2
  <2>4. Good(m - 1)
    <3>1. m - 1 \notin Bad
      <4> HIDE DEF Bad
      <4> QED BY <2>1, <2>3
    <3> QED BY <2>3, <3>1
  <2>5. Good((m - 1) + 1)
    BY <1>4, <2>3, <2>4
  <2> QED BY <2>2, <2>3, <2>5
<1>6. Good(n)
  <2>1. n \in 0..n
    BY <1>1
  <2> QED BY <1>5, <2>1
<1> SUFFICES ASSUME NEW pc \in Offsets(c) PROVE R[n].stacks[pc + 1] = StackAt(R, pc)
  BY <1>2
<1>7. pc \in 0..n
  BY <1>1
<1> QED BY <1>6, <1>7 DEF Good

\* What is known of the code of a function that runs.
Vetted(f, c) ==
    /\ IsUnit(f, c) /\ StackUsageOk(f, c) /\ TypesOk(f, c) /\ LocalsSafe(f, c)
    /\ IsUnconditional(At(c, Len(c) - 1))
    /\ \A pc \in Offsets(c) : LET i == At(c, pc) IN
         i.op = "VecPack" => Operands(f, i, TypeStacks(f, c).stacks[pc + 1]) = [k \in 1..i.n |-> Pool[i.a]]

\* At every instruction of vetted code the operands are on the static stack and have the types needed.
LEMMA StaticFacts ==
    ASSUME NEW f, NEW c, Vetted(f, c), NEW pc \in Offsets(c)
    PROVE  LET i == At(c, pc)
               st == Static(f, c, pc)
           IN  /\ IsSeq(st) /\ NumPops(f, i) \in Nat /\ NumPops(f, i) <= Len(st)
               /\ NumPushes(f, i) \in Nat
               /\ TypeCheck(f, i, Operands(f, i, st))
               /\ i.op = "Ret" => st = Sig[f].rets
               /\ i.op = "VecPack" => Operands(f, i, st) = [k \in 1..i.n |-> Pool[i.a]]
<1>1. IsUnit(f, c) /\ StackUsageOk(f, c) /\ TypesOk(f, c)
  BY DEF Vetted
<1> DEFINE R == CHOOSE r : IsWalk(f, c, r)
           i == At(c, pc)
           st == StackAt(R, pc)
<1>2. IsWalk(f, c, R)
  <2>1. \E r : IsWalk(f, c, r)
    BY <1>1, WalkExists
  <2> QED BY <2>1, Zenon
<1>3. Static(f, c, pc) = st
  BY DEF Static
<1> HIDE DEF R
<1>4. Matches(f, c, R, pc)
  BY <1>1, <1>2, HeightsMatch
<1>5. StackPointSafe(f, c, <<pc, st>>)
  BY <1>1, <1>2, PointSafe
<1>6. NumPops(f, i) <= Len(st) /\ TypeCheck(f, i, Operands(f, i, st)) /\ (i.op = "Ret" => st = Sig[f].rets)
  BY <1>5 DEF StackPointSafe
<1>7. NumPops(f, i) \in Nat /\ NumPushes(f, i) \in Nat
  BY <1>1, EffectsAreNumbers
<1>8. TypeStacks(f, c).stacks[pc + 1] = st
  BY <1>1, <1>2, WalkEntries
<1>9. i.op = "VecPack" => Operands(f, i, st) = [k \in 1..i.n |-> Pool[i.a]]
  BY <1>8 DEF Vetted
<1> QED BY <1>3, <1>4, <1>6, <1>7, <1>9 DEF Matches

\* The static stack is empty at the first instruction.
LEMMA StaticStart ==
    ASSUME NEW f, NEW c, Vetted(f, c)
    PROVE  Static(f, c, 0) = <<>>
<1>1. IsUnit(f, c) /\ StackUsageOk(f, c) /\ TypesOk(f, c)
  BY DEF Vetted
<1> DEFINE R == CHOOSE r : IsWalk(f, c, r)
<1>2. IsWalk(f, c, R)
  <2>1. \E r : IsWalk(f, c, r)
    BY <1>1, WalkExists
  <2> QED BY <2>1, Zenon
<1>3. Static(f, c, 0) = StackAt(R, 0)
  BY DEF Static
<1> HIDE DEF R
<1> QED BY <1>1, <1>2, <1>3, WalkStacks

\* From an instruction to a successor the static stack changes as the type checker says.
LEMMA StaticNext ==
    ASSUME NEW f, NEW c, Vetted(f, c), NEW pc \in Offsets(c), NEW q \in Range(Successors(c, pc))
    PROVE  q \in Offsets(c) /\ Static(f, c, q) = After(f, At(c, pc), Static(f, c, pc))
<1>1. IsUnit(f, c) /\ StackUsageOk(f, c) /\ TypesOk(f, c)
  BY DEF Vetted
<1> DEFINE R == CHOOSE r : IsWalk(f, c, r)
           y == <<q, After(f, At(c, pc), StackAt(R, pc))>>
<1>2. IsWalk(f, c, R)
  <2>1. \E r : IsWalk(f, c, r)
    BY <1>1, WalkExists
  <2> QED BY <2>1, Zenon
<1>3. \A x : Static(f, c, x) = StackAt(R, x)
  BY DEF Static
<1> HIDE DEF R
<1>4. y \in StackStep(f, c, <<pc, StackAt(R, pc)>>)
  BY DEF StackStep
<1>5. y[1] = q /\ y[2] = After(f, At(c, pc), StackAt(R, pc))
  OBVIOUS
<1> HIDE DEF y
<1>6. y[1] \in Offsets(c) /\ y = <<y[1], StackAt(R, y[1])>>
  BY <1>1, <1>2, <1>4, PathStays
<1>7. y[2] = StackAt(R, q)
  BY <1>5, <1>6
<1> QED BY <1>3, <1>5, <1>6, <1>7

\* Only a branch, a return and an abort may be the last instruction.
LEMMA GoesOn ==
    ASSUME NEW f, NEW c, Vetted(f, c), NEW pc \in Offsets(c), ~IsUnconditional(At(c, pc))
    PROVE  pc + 1 < Len(c) /\ pc + 1 \in Range(Successors(c, pc))
<1>1. IsUnit(f, c) /\ IsUnconditional(At(c, Len(c) - 1))
  BY DEF Vetted
<1>2. pc + 1 < Len(c)
  <2>1. Len(c) \in Nat /\ Offsets(c) = 0..(Len(c) - 1)
    BY <1>1, UnitFacts
  <2>2. pc # Len(c) - 1
    BY <1>1
  <2> QED BY <2>1, <2>2
<1> QED BY <1>1, <1>2, SuccessorsHave

-----------------------------------------------------------------------------
(* The frames and the operand stack.  cs are the suspended frames, fr is   *)
(* the current one, S the operand stack.                                   *)

FrameAt(cs, fr, k) == IF k <= Len(cs) THEN cs[k] ELSE fr

Depths(cs) == 1..(Len(cs) + 1)

InstrOf(p, fr) == At(p[fr.fn], fr.pc)

StackOf(p, fr) == Static(fr.fn, p[fr.fn], fr.pc)

Filled(fr) == {l \in Locals(fr.fn) : fr.locals[l] # Invalid}

IsFrame(fr) == fr = [fn |-> fr.fn, pc |-> fr.pc, locals |-> fr.locals]

LocalsTyped(f, locals) ==
    /\ locals = [l \in Locals(f) |-> locals[l]]
    /\ \A l \in Locals(f) : locals[l] = Invalid \/ HasType(locals[l], LocalAt(f, l))

FrameOK(p, fr) ==
    /\ IsFrame(fr) /\ fr.fn \in DOMAIN p /\ fr.pc \in Offsets(p[fr.fn])
    /\ LocalsTyped(fr.fn, fr.locals)
    /\ Reached(fr.fn, p[fr.fn], <<fr.pc, Filled(fr)>>)

\* How many values on the stack belong to the k-th frame; the arguments of a call do no longer.
Own(p, cs, fr, k) ==
    LET g == FrameAt(cs, fr, k)
    IN  Len(StackOf(p, g)) - (IF k <= Len(cs) THEN NumPops(g.fn, InstrOf(p, g)) ELSE 0)

\* base says under which part of the stack the values of a frame begin.
IsLayout(p, cs, fr, S, base) ==
    /\ base \in [Depths(cs) -> Nat] /\ base[1] = 0
    /\ \A k \in 1..Len(cs) : base[k + 1] = base[k] + Own(p, cs, fr, k)
    /\ base[Len(cs) + 1] + Own(p, cs, fr, Len(cs) + 1) = Len(S)
    /\ \A k \in Depths(cs) : \A j \in 1..Own(p, cs, fr, k) :
          HasType(S[base[k] + j], StackOf(p, FrameAt(cs, fr, k))[j])

ShapeOK(p, cs, fr, S) ==
    /\ IsSeq(cs) /\ IsSeq(S)
    /\ \A k \in Depths(cs) : FrameOK(p, FrameAt(cs, fr, k))
    /\ \A k \in 1..Len(cs) : /\ InstrOf(p, cs[k]).op = "Call"
                             /\ InstrOf(p, cs[k]).a = FrameAt(cs, fr, k + 1).fn
    /\ \E base : IsLayout(p, cs, fr, S, base)

ProgramOK(p) ==
    \A f \in DOMAIN p : /\ Vetted(f, p[f])
                        /\ \A pc \in Offsets(p[f]) : At(p[f], pc).op = "Call" => At(p[f], pc).a \in DOMAIN p

\* A frame of the call stack is at an instruction whose operands the static stack holds.
LEMMA FrameFacts ==
    ASSUME NEW p, ProgramOK(p), NEW fr, FrameOK(p, fr)
    PROVE  LET i == InstrOf(p, fr)
               st == StackOf(p, fr)
           IN  /\ Vetted(fr.fn, p[fr.fn]) /\ fr.pc \in Offsets(p[fr.fn]) /\ IsUnit(fr.fn, p[fr.fn])
               /\ IsSeq(st) /\ Len(st) \in Nat
               /\ NumPops(fr.fn, i) \in Nat /\ NumPops(fr.fn, i) <= Len(st) /\ NumPushes(fr.fn, i) \in Nat
<1>1. Vetted(fr.fn, p[fr.fn]) /\ fr.pc \in Offsets(p[fr.fn])
  BY DEF FrameOK, ProgramOK
<1>2. IsUnit(fr.fn, p[fr.fn])
  BY <1>1 DEF Vetted
<1>3. LET i == At(p[fr.fn], fr.pc)
          st == Static(fr.fn, p[fr.fn], fr.pc)
      IN  /\ IsSeq(st) /\ NumPops(fr.fn, i) \in Nat /\ NumPops(fr.fn, i) <= Len(st)
          /\ NumPushes(fr.fn, i) \in Nat
  BY <1>1, StaticFacts
<1> QED BY <1>1, <1>2, <1>3, SeqLen DEF InstrOf, StackOf

\* The last n elements of a sequence.
LEMMA SeqSuffix ==
    ASSUME NEW s, IsSeq(s), NEW n \in Nat, n <= Len(s)
    PROVE  LET q == SubSeq(s, Len(s) - n + 1, Len(s))
           IN  IsSeq(q) /\ Len(q) = n /\ \A k \in 1..n : q[k] = s[Len(s) - n + k]
<1>1. PICK S : s \in Seq(S)
  BY DEF IsSeq
<1> DEFINE a == Len(s) - n + 1
           b == Len(s)
<1>2. b \in Nat /\ a \in Nat /\ a >= 1 /\ a \in 1..(b + 1)
  BY <1>1
<1>3. SubSeq(s, a, b) \in Seq(S)
  BY <1>1, <1>2
<1>4. Len(SubSeq(s, a, b)) = n
  BY <1>1, <1>2
<1>5. \A k \in 1..n : SubSeq(s, a, b)[k] = s[a + k - 1]
  BY <1>1, <1>2
<1>6. \A k \in 1..n : a + k - 1 = Len(s) - n + k
  BY <1>2
<1> QED BY <1>3, <1>4, <1>5, <1>6 DEF IsSeq

\* The elements of a concatenation.
LEMMA SeqParts ==
    ASSUME NEW s, NEW t, IsSeq(s), IsSeq(t)
    PROVE  /\ \A k \in 1..Len(s) : (s \o t)[k] = s[k]
           /\ \A k \in 1..Len(t) : (s \o t)[Len(s) + k] = t[k]
<1>1. PICK A : s \in Seq(A)
  BY DEF IsSeq
<1>2. PICK B : t \in Seq(B)
  BY DEF IsSeq
<1>3. s \in Seq(A \union B) /\ t \in Seq(A \union B)
  BY <1>1, <1>2
<1> QED BY <1>3

\* The elements of a prefix.
LEMMA SeqElements ==
    ASSUME NEW s, IsSeq(s), NEW n \in Nat, n <= Len(s)
    PROVE  \A k \in 1..n : SubSeq(s, 1, n)[k] = s[k]
<1>1. PICK S : s \in Seq(S)
  BY DEF IsSeq
<1> QED BY <1>1

\* A function on 1..n is a sequence.
LEMMA FunIsSeq ==
    ASSUME NEW s, NEW n \in Nat, s = [k \in 1..n |-> s[k]]
    PROVE  IsSeq(s) /\ Len(s) = n
<1> DEFINE S == {s[k] : k \in 1..n}
<1>1. \A k \in 1..n : s[k] \in S
  OBVIOUS
<1> HIDE DEF S
<1>2. s \in [1..n -> S]
  BY <1>1
<1>3. s \in Seq(S) /\ Len(s) = n
  BY <1>2
<1> QED BY <1>3 DEF IsSeq

\* The operands of the current instruction are on top of the stack and have the types that
\* the type checker saw.
LEMMA OperandsThere ==
    ASSUME NEW p, ProgramOK(p), NEW cs, NEW fr, NEW S, ShapeOK(p, cs, fr, S)
    PROVE  LET i == InstrOf(p, fr)
               n == NumPops(fr.fn, i)
               o == Operands(fr.fn, i, StackOf(p, fr))
           IN  /\ Len(S) \in Nat /\ n \in Nat /\ n <= Len(S)
               /\ IsSeq(o) /\ Len(o) = n
               /\ TypeCheck(fr.fn, i, o)
               /\ \A k \in 1..n : HasType(S[Len(S) - n + k], o[k])
<1> DEFINE i == InstrOf(p, fr)
           n == NumPops(fr.fn, i)
           st == StackOf(p, fr)
           o == Operands(fr.fn, i, st)
           m == Len(cs) + 1
<1>1. Len(cs) \in Nat /\ Len(S) \in Nat
  BY SeqLen DEF ShapeOK
<1>2. m \in Depths(cs) /\ FrameAt(cs, fr, m) = fr /\ ~(m <= Len(cs))
  BY <1>1 DEF Depths, FrameAt
<1>3. FrameOK(p, fr)
  BY <1>2 DEF ShapeOK
<1>4. /\ Vetted(fr.fn, p[fr.fn]) /\ fr.pc \in Offsets(p[fr.fn])
      /\ IsSeq(st) /\ Len(st) \in Nat /\ n \in Nat /\ n <= Len(st)
  BY <1>3, FrameFacts
<1>5. TypeCheck(fr.fn, i, o)
  BY <1>4, StaticFacts DEF InstrOf, StackOf
<1>6. PICK base : IsLayout(p, cs, fr, S, base)
  BY DEF ShapeOK
<1>7. Own(p, cs, fr, m) = Len(st)
  <2>1. Own(p, cs, fr, m) = Len(st) - 0
    BY <1>2 DEF Own
  <2> HIDE DEF st
  <2> QED BY <1>4, <2>1
<1>8. base[m] \in Nat /\ base[m] + Len(st) = Len(S)
  BY <1>2, <1>6, <1>7 DEF IsLayout
<1>9. \A j \in 1..Len(st) : HasType(S[base[m] + j], st[j])
  BY <1>2, <1>6, <1>7 DEF IsLayout
<1>10. IsSeq(o) /\ Len(o) = n /\ \A k \in 1..n : o[k] = st[Len(st) - n + k]
  <2> HIDE DEF st, n
  <2> QED BY <1>4, SeqSuffix DEF Operands, n
<1> HIDE DEF st, n, o, i, m
<1>11. n <= Len(S)
  BY <1>1, <1>4, <1>8
<1>12. ASSUME NEW k \in 1..n PROVE HasType(S[Len(S) - n + k], o[k])
  <2>1. Len(st) - n + k \in 1..Len(st) /\ base[m] + (Len(st) - n + k) = Len(S) - n + k
    BY <1>1, <1>4, <1>8
  <2> QED BY <1>9, <1>10, <2>1
<1> QED BY <1>1, <1>4, <1>5, <1>10, <1>11, <1>12 DEF st, n, o, i

\* A frame that is left where it is: its locals may be marked or written through references.
KeptFrame(g, h) ==
    /\ IsFrame(h) /\ h.fn = g.fn /\ h.pc = g.pc
    /\ LocalsTyped(g.fn, h.locals) /\ Filled(h) = Filled(g)

\* A frame that keeps its types and its filled locals stays a frame of the program.
LEMMA KeptFrameOK ==
    ASSUME NEW p, NEW g, FrameOK(p, g), NEW h, KeptFrame(g, h)
    PROVE  FrameOK(p, h)
BY DEF FrameOK, KeptFrame

\* The current frame goes on to another instruction.
LEMMA AdvancedFrameOK ==
    ASSUME NEW p, ProgramOK(p), NEW fr, FrameOK(p, fr), NEW fr2, IsFrame(fr2), fr2.fn = fr.fn,
           fr2.pc \in Range(Successors(p[fr.fn], fr.pc)), LocalsTyped(fr.fn, fr2.locals),
           Filled(fr2) = HeldAfter(InstrOf(p, fr), Filled(fr))
    PROVE  FrameOK(p, fr2) /\ StackOf(p, fr2) = After(fr.fn, InstrOf(p, fr), StackOf(p, fr))
<1> DEFINE f == fr.fn
           c == p[f]
           q == fr2.pc
<1>1. Vetted(f, c) /\ fr.pc \in Offsets(c) /\ IsUnit(f, c)
  BY FrameFacts
<1>2. q \in Offsets(c) /\ Static(f, c, q) = After(f, At(c, fr.pc), Static(f, c, fr.pc))
  BY <1>1, StaticNext
<1>3. Reached(f, c, <<fr.pc, Filled(fr)>>)
  BY DEF FrameOK
<1>4. Reached(f, c, <<q, HeldAfter(At(c, fr.pc), Filled(fr))>>)
  BY <1>1, <1>3, ReachedNext
<1>5. FrameOK(p, fr2)
  BY <1>2, <1>4 DEF FrameOK, InstrOf
<1> QED BY <1>2, <1>5 DEF StackOf, InstrOf

\* The numbers in Advance: a and s are the lengths of the stack and of the part of the frame that
\* begins above b, n operands are replaced by w results.
Sums(a, n, s, w, b) ==
    /\ b + (s - n + w) = a - n + w
    /\ \A k \in Nat, o \in Nat : k + o <= b => \A j \in 1..o : k + j \in 1..(a - n)
    /\ \A j \in 1..(s - n) : j \in 1..s /\ b + j \in 1..(a - n)
    /\ \A j \in 1..(s - n + w) : ~(j <= s - n) =>
          \E d \in 1..w : j = s - n + d /\ b + j = a - n + d

\* The arithmetic of the stack's layout when the current frame goes on.
LEMMA AdvanceSums ==
    ASSUME NEW a \in Nat, NEW n \in Nat, NEW s \in Nat, n <= s, NEW w \in Nat, NEW b \in Nat, b + s = a
    PROVE  Sums(a, n, s, w, b)
<1>1. b + (s - n + w) = a - n + w
  OBVIOUS
<1>2. \A k \in Nat, o \in Nat : k + o <= b => \A j \in 1..o : k + j \in 1..(a - n)
  OBVIOUS
<1>3. \A j \in 1..(s - n) : j \in 1..s /\ b + j \in 1..(a - n)
  OBVIOUS
<1>4. ASSUME NEW j \in 1..(s - n + w), ~(j <= s - n)
      PROVE  \E d \in 1..w : j = s - n + d /\ b + j = a - n + d
  <2> DEFINE d == j - (s - n)
  <2>1. d \in 1..w /\ j = s - n + d /\ b + j = a - n + d
    BY <1>4
  <2> HIDE DEF d
  <2> QED BY <2>1
<1> QED BY <1>1, <1>2, <1>3, <1>4 DEF Sums

\* An instruction that stays in its function: suspended frames are kept, the operands are
\* replaced by results of the types that were computed, and control goes to a successor.
LEMMA Advance ==
    ASSUME NEW p, ProgramOK(p), NEW cs, NEW fr, NEW S, ShapeOK(p, cs, fr, S),
           NEW cs2, NEW fr2, NEW S2,
           IsSeq(cs2), Len(cs2) = Len(cs), \A k \in 1..Len(cs) : KeptFrame(cs[k], cs2[k]),
           IsFrame(fr2), fr2.fn = fr.fn,
           fr2.pc \in Range(Successors(p[fr.fn], fr.pc)), LocalsTyped(fr.fn, fr2.locals),
           Filled(fr2) = HeldAfter(InstrOf(p, fr), Filled(fr)),
           NEW n, n = NumPops(fr.fn, InstrOf(p, fr)),
           NEW w, w = Pushed(fr.fn, InstrOf(p, fr), Operands(fr.fn, InstrOf(p, fr), StackOf(p, fr))),
           IsSeq(S2), Len(S2) = Len(S) - n + Len(w),
           \A j \in 1..(Len(S) - n) : Marked(S[j], S2[j]),
           \A j \in 1..Len(w) : HasType(S2[Len(S) - n + j], w[j])
    PROVE  ShapeOK(p, cs2, fr2, S2)
<1> DEFINE i == InstrOf(p, fr)
           st == StackOf(p, fr)
           m == Len(cs) + 1
           F(k) == FrameAt(cs, fr, k)
           F2(k) == FrameAt(cs2, fr2, k)
           O(k) == Own(p, cs, fr, k)
           O2(k) == Own(p, cs2, fr2, k)
<1>1. Len(cs) \in Nat /\ Len(S) \in Nat
  BY SeqLen DEF ShapeOK
<1>2. m \in Depths(cs) /\ F(m) = fr /\ F2(m) = fr2 /\ ~(m <= Len(cs)) /\ Depths(cs2) = Depths(cs)
  BY <1>1 DEF Depths, FrameAt
<1>3. FrameOK(p, fr)
  BY <1>2 DEF ShapeOK
<1>4. /\ Vetted(fr.fn, p[fr.fn]) /\ fr.pc \in Offsets(p[fr.fn]) /\ IsUnit(fr.fn, p[fr.fn])
      /\ IsSeq(st) /\ Len(st) \in Nat /\ n \in Nat /\ n <= Len(st)
  BY <1>3, FrameFacts
<1>5. FrameOK(p, fr2) /\ StackOf(p, fr2) = After(fr.fn, i, st)
  BY <1>3, AdvancedFrameOK
<1>6. \A k \in 1..Len(cs) : k \in Depths(cs) /\ F(k) = cs[k] /\ F2(k) = cs2[k]
  BY <1>1 DEF Depths, FrameAt
<1>7. ASSUME NEW k \in Depths(cs) PROVE k = m \/ k \in 1..Len(cs)
  BY <1>1 DEF Depths
<1>8. \A k \in Depths(cs) : FrameOK(p, F2(k))
  <2>1. \A k \in 1..Len(cs) : FrameOK(p, cs[k])
    BY <1>6 DEF ShapeOK
  <2>2. \A k \in 1..Len(cs) : FrameOK(p, cs2[k])
    BY <2>1, KeptFrameOK
  <2> QED BY <1>2, <1>5, <1>6, <1>7, <2>2
<1>9. \A k \in 1..Len(cs) : /\ StackOf(p, cs2[k]) = StackOf(p, cs[k])
                            /\ InstrOf(p, cs2[k]) = InstrOf(p, cs[k])
                            /\ cs2[k].fn = cs[k].fn
  BY DEF KeptFrame, StackOf, InstrOf
<1>10. \A k \in 1..Len(cs) : /\ InstrOf(p, cs2[k]).op = "Call"
                             /\ InstrOf(p, cs2[k]).a = F2(k + 1).fn
  <2> SUFFICES ASSUME NEW k \in 1..Len(cs) PROVE InstrOf(p, cs2[k]).op = "Call" /\ InstrOf(p, cs2[k]).a = F2(k + 1).fn
    OBVIOUS
  <2>1. InstrOf(p, cs[k]).op = "Call" /\ InstrOf(p, cs[k]).a = F(k + 1).fn
    BY DEF ShapeOK
  <2>2. F2(k + 1).fn = F(k + 1).fn
    <3>1. CASE k + 1 <= Len(cs)
      <4>1. k + 1 \in 1..Len(cs)
        BY <1>1, <3>1
      <4> QED BY <1>6, <1>9, <4>1
    <3>2. CASE ~(k + 1 <= Len(cs))
      BY <3>2 DEF FrameAt
    <3> QED BY <3>1, <3>2
  <2> QED BY <1>9, <2>1, <2>2
<1>11. \A k \in 1..Len(cs) : O2(k) = O(k)
  <2> SUFFICES ASSUME NEW k \in 1..Len(cs) PROVE O2(k) = O(k)
    OBVIOUS
  <2>1. k <= Len(cs) /\ k <= Len(cs2)
    BY <1>1
  <2>2. O(k) = Len(StackOf(p, cs[k])) - NumPops(cs[k].fn, InstrOf(p, cs[k]))
    BY <1>6, <2>1 DEF Own
  <2>3. O2(k) = Len(StackOf(p, cs2[k])) - NumPops(cs2[k].fn, InstrOf(p, cs2[k]))
    BY <1>6, <2>1 DEF Own
  <2> QED BY <1>9, <2>2, <2>3
<1>12. O(m) = Len(st)
  <2>1. O(m) = Len(st) - 0
    BY <1>2 DEF Own
  <2> HIDE DEF st
  <2> QED BY <1>4, <2>1
<1> DEFINE nx == After(fr.fn, i, st)
<1>13. /\ IsSeq(nx) /\ Len(nx) = Len(st) - n + Len(w) /\ Len(w) \in Nat
       /\ \A j \in 1..(Len(st) - n) : nx[j] = st[j]
       /\ \A j \in 1..Len(w) : nx[Len(st) - n + j] = w[j]
  <2>1. IsSeq(w)
    BY <1>4, PushedIs DEF InstrOf
  <2>2. Len(w) \in Nat
    BY <2>1, SeqLen
  <2> DEFINE v == SubSeq(st, 1, Len(st) - n)
  <2>3. nx = v \o w
    BY DEF After
  <2>4. Len(st) - n \in Nat /\ Len(st) - n <= Len(st)
    <3> HIDE DEF st
    <3> QED BY <1>4
  <2>5. IsSeq(v) /\ Len(v) = Len(st) - n
    BY <1>4, <2>4, SeqPrefix
  <2>6. \A j \in 1..(Len(st) - n) : v[j] = st[j]
    BY <1>4, <2>4, SeqElements
  <2> HIDE DEF v, nx, st
  <2>7. IsSeq(v \o w) /\ Len(v \o w) = Len(v) + Len(w)
    BY <2>1, <2>5, SeqConcat
  <2>8. /\ \A k \in 1..Len(v) : (v \o w)[k] = v[k]
        /\ \A k \in 1..Len(w) : (v \o w)[Len(v) + k] = w[k]
    BY <2>1, <2>5, SeqParts
  <2> QED BY <2>2, <2>3, <2>5, <2>6, <2>7, <2>8
<1>14. O2(m) = Len(nx)
  <2>1. O2(m) = Len(nx) - 0
    BY <1>2, <1>5 DEF Own
  <2>2. Len(nx) \in Nat
    BY <1>13, SeqLen
  <2> HIDE DEF nx
  <2> QED BY <2>1, <2>2
<1>15. PICK base : IsLayout(p, cs, fr, S, base)
  BY DEF ShapeOK
<1>16. /\ base \in [Depths(cs) -> Nat]
       /\ \A k \in 1..Len(cs) : base[k + 1] = base[k] + O(k)
       /\ base[m] + Len(st) = Len(S)
       /\ \A k \in Depths(cs) : \A j \in 1..O(k) : HasType(S[base[k] + j], StackOf(p, F(k))[j])
  BY <1>12, <1>15 DEF IsLayout
<1>17. \A k \in 1..Len(cs) : O(k) \in Nat
  <2> SUFFICES ASSUME NEW k \in 1..Len(cs) PROVE O(k) \in Nat
    OBVIOUS
  <2>1. FrameOK(p, cs[k])
    BY <1>6 DEF ShapeOK
  <2> DEFINE a == Len(StackOf(p, cs[k]))
             b == NumPops(cs[k].fn, InstrOf(p, cs[k]))
  <2>2. a \in Nat /\ b \in Nat /\ b <= a
    BY <2>1, FrameFacts
  <2>3. O(k) = a - b
    <3>1. k <= Len(cs)
      BY <1>1
    <3> QED BY <1>6, <3>1 DEF Own
  <2> HIDE DEF a, b
  <2> QED BY <2>2, <2>3
<1> HIDE DEF O, O2, F, F2, i, st, nx, m
\* The parts of suspended frames lie under that of the current one.
<1>18. \A k \in 1..Len(cs) : base[k] + O(k) <= base[m]
  <2> DEFINE Bad == {k \in 1..Len(cs) : ~(base[k] + O(k) <= base[m])}
  <2> SUFFICES ASSUME Bad # {} PROVE FALSE
    OBVIOUS
  <2>1. PICK k \in Bad : \A x \in Bad : x <= k
    <3> Bad \in SUBSET (0..Len(cs)) BY <1>1
    <3> HIDE DEF Bad
    <3> QED BY <1>1, GreatestNatural
  <2>2. k \in 1..Len(cs) /\ ~(base[k] + O(k) <= base[m])
    OBVIOUS
  <2>3. base[k + 1] = base[k] + O(k) /\ k + 1 \in Depths(cs)
    BY <1>1, <1>16, <2>2 DEF Depths
  <2>4. base[k + 1] \in Nat /\ base[m] \in Nat
    BY <1>2, <1>16, <2>3
  <2>5. CASE k = Len(cs)
    BY <2>2, <2>3, <2>4, <2>5 DEF m
  <2>6. CASE k # Len(cs)
    <3>1. k + 1 \in 1..Len(cs) /\ ~(k + 1 <= k)
      <4> HIDE DEF Bad
      <4> QED BY <1>1, <2>2, <2>6
    <3>2. k + 1 \notin Bad
      <4> HIDE DEF Bad
      <4> QED BY <2>1, <3>1
    <3>3. base[k + 1] + O(k + 1) <= base[m] /\ O(k + 1) \in Nat
      BY <1>17, <3>1, <3>2
    <3> HIDE DEF Bad
    <3> QED BY <2>2, <2>3, <2>4, <3>3
  <2> QED BY <2>5, <2>6
<1>23. /\ Len(S) \in Nat /\ n \in Nat /\ Len(st) \in Nat /\ n <= Len(st) /\ Len(w) \in Nat
       /\ base[m] \in Nat /\ base[m] + Len(st) = Len(S)
       /\ Len(nx) = Len(st) - n + Len(w) /\ Len(S2) = Len(S) - n + Len(w)
  <2>1. base[m] \in Nat /\ base[m] + Len(st) = Len(S)
    BY <1>2, <1>16
  <2>2. Len(w) \in Nat /\ Len(nx) = Len(st) - n + Len(w)
    BY <1>13
  <2>3. Len(S) \in Nat /\ n \in Nat /\ Len(st) \in Nat /\ n <= Len(st)
    BY <1>1, <1>4
  <2> QED BY <2>1, <2>2, <2>3
<1>24. /\ base[m] + (Len(st) - n + Len(w)) = Len(S) - n + Len(w)
       /\ \A k \in Nat, o \in Nat : k + o <= base[m] => \A j \in 1..o : k + j \in 1..(Len(S) - n)
       /\ \A j \in 1..(Len(st) - n) : j \in 1..Len(st) /\ base[m] + j \in 1..(Len(S) - n)
       /\ \A j \in 1..(Len(st) - n + Len(w)) : ~(j <= Len(st) - n) =>
             \E d \in 1..Len(w) : j = Len(st) - n + d /\ base[m] + j = Len(S) - n + d
  <2>1. Sums(Len(S), n, Len(st), Len(w), base[m])
    BY <1>23, AdvanceSums
  <2> QED BY <2>1 DEF Sums
<1>19. base[m] \in Nat /\ base[m] + Len(nx) = Len(S2)
  BY <1>23, <1>24, Zenon
<1>20. ASSUME NEW k \in 1..Len(cs), NEW j \in 1..O2(k)
       PROVE  HasType(S2[base[k] + j], StackOf(p, F2(k))[j])
  <2>1. j \in 1..O(k) /\ O(k) \in Nat
    BY <1>11, <1>17
  <2>2. HasType(S[base[k] + j], StackOf(p, F(k))[j])
    BY <1>6, <1>16, <2>1
  <2>3. base[k] \in Nat /\ base[m] \in Nat
    BY <1>2, <1>6, <1>16
  <2>4. base[k] + j \in 1..(Len(S) - n)
    <3>1. base[k] + O(k) <= base[m]
      BY <1>18
    <3> QED BY <1>24, <2>1, <2>3, <3>1
  <2>5. Marked(S[base[k] + j], S2[base[k] + j])
    BY <2>4
  <2>6. StackOf(p, F2(k)) = StackOf(p, F(k))
    BY <1>6, <1>9
  <2> QED BY <2>2, <2>5, <2>6, MarkedType
<1>21. ASSUME NEW j \in 1..O2(m) PROVE HasType(S2[base[m] + j], nx[j])
  <2>1. j \in 1..Len(nx) /\ base[m] \in Nat
    BY <1>14, <1>19
  <2>2. CASE j <= Len(st) - n
    <3>1. j \in 1..(Len(st) - n) /\ j \in 1..Len(st) /\ base[m] + j \in 1..(Len(S) - n)
      <4>1. Len(nx) = Len(st) - n + Len(w) /\ Len(st) \in Nat /\ n \in Nat /\ Len(w) \in Nat /\ n <= Len(st)
        BY <1>23
      <4>2. j \in 1..(Len(st) - n)
        BY <2>1, <2>2, <4>1
      <4> QED BY <1>24, <4>2
    <3>2. HasType(S[base[m] + j], st[j])
      <4>1. HasType(S[base[m] + j], StackOf(p, F(m))[j])
        BY <1>2, <1>12, <1>16, <3>1
      <4> QED BY <1>2, <4>1 DEF st
    <3>3. Marked(S[base[m] + j], S2[base[m] + j])
      BY <3>1
    <3>4. HasType(S2[base[m] + j], st[j])
      BY <3>2, <3>3, MarkedType
    <3> QED BY <1>13, <3>1, <3>4
  <2>3. CASE ~(j <= Len(st) - n)
    <3>1. PICK d \in 1..Len(w) : j = Len(st) - n + d /\ base[m] + j = Len(S) - n + d
      <4>1. j \in 1..(Len(st) - n + Len(w))
        BY <1>23, <2>1, Zenon
      <4> QED BY <1>24, <2>3, <4>1
    <3>2. HasType(S2[Len(S) - n + d], w[d])
      BY <3>1
    <3> QED BY <1>13, <3>1, <3>2
  <2> QED BY <2>2, <2>3
<1>22. IsLayout(p, cs2, fr2, S2, base)
  <2>1. base \in [Depths(cs2) -> Nat]
    BY <1>2, <1>16
  <2>2. \A k \in 1..Len(cs2) : base[k + 1] = base[k] + Own(p, cs2, fr2, k)
    BY <1>11, <1>16 DEF O2
  <2>3. base[Len(cs2) + 1] + Own(p, cs2, fr2, Len(cs2) + 1) = Len(S2)
    BY <1>14, <1>19 DEF m, O2
  <2>4. \A j \in 1..Own(p, cs2, fr2, m) : HasType(S2[base[m] + j], StackOf(p, FrameAt(cs2, fr2, m))[j])
    BY <1>2, <1>5, <1>21 DEF O2, F2, nx, i, st
  <2>5. \A k \in 1..Len(cs) : \A j \in 1..Own(p, cs2, fr2, k) :
            HasType(S2[base[k] + j], StackOf(p, FrameAt(cs2, fr2, k))[j])
    BY <1>20 DEF O2, F2
  <2>6. \A k \in Depths(cs2) : \A j \in 1..Own(p, cs2, fr2, k) :
            HasType(S2[base[k] + j], StackOf(p, FrameAt(cs2, fr2, k))[j])
    BY <1>2, <1>7, <2>4, <2>5
  <2>7. base[1] = 0
    BY <1>15 DEF IsLayout
  <2> QED BY <2>1, <2>2, <2>3, <2>6, <2>7 DEF IsLayout
<1> QED BY <1>2, <1>8, <1>10, <1>22 DEF ShapeOK, F2

-----------------------------------------------------------------------------
(* Frames that differ in one field.                                        *)

FrameRec(f, pc, locals) == [fn |-> f, pc |-> pc, locals |-> locals]

\* A frame with other locals.
LEMMA SetLocals ==
    ASSUME NEW g, IsFrame(g), NEW b
    PROVE  [g EXCEPT !.locals = b] = FrameRec(g.fn, g.pc, b)
<1> DEFINE D == {"fn", "pc", "locals"}
<1>1. DOMAIN g = D
  BY DEF IsFrame
<1>2. ASSUME NEW x, NEW y, NEW z
      PROVE  FrameRec(z, x, y) = [k \in D |-> IF k = "fn" THEN z ELSE IF k = "pc" THEN x ELSE y]
  BY DEF FrameRec
<1> QED BY <1>1, <1>2

\* A frame at another instruction.
LEMMA SetPc ==
    ASSUME NEW g, IsFrame(g), NEW q
    PROVE  [g EXCEPT !.pc = q] = FrameRec(g.fn, q, g.locals)
<1> DEFINE D == {"fn", "pc", "locals"}
<1>1. DOMAIN g = D
  BY DEF IsFrame
<1>2. ASSUME NEW x, NEW y, NEW z
      PROVE  FrameRec(z, x, y) = [k \in D |-> IF k = "fn" THEN z ELSE IF k = "pc" THEN x ELSE y]
  BY DEF FrameRec
<1> QED BY <1>1, <1>2

\* A frame with one other local.
LEMMA SetLocal ==
    ASSUME NEW g, IsFrame(g), NEW l, NEW v
    PROVE  [g EXCEPT !.locals[l] = v] = FrameRec(g.fn, g.pc, [g.locals EXCEPT ![l] = v])
<1> DEFINE D == {"fn", "pc", "locals"}
<1>1. DOMAIN g = D
  BY DEF IsFrame
<1>2. ASSUME NEW x, NEW y, NEW z
      PROVE  FrameRec(z, x, y) = [k \in D |-> IF k = "fn" THEN z ELSE IF k = "pc" THEN x ELSE y]
  BY DEF FrameRec
<1> QED BY <1>1, <1>2

\* A frame with one other local at another instruction.
LEMMA SetBoth ==
    ASSUME NEW g, IsFrame(g), NEW q, NEW b
    PROVE  [g EXCEPT !.locals = b, !.pc = q] = FrameRec(g.fn, q, b)
<1> DEFINE h == [g EXCEPT !.locals = b]
<1>1. [g EXCEPT !.locals = b, !.pc = q] = [h EXCEPT !.pc = q]
  OBVIOUS
<1>2. h = FrameRec(g.fn, g.pc, b)
  BY SetLocals
<1>3. IsFrame(h) /\ h.fn = g.fn /\ h.locals = b
  BY <1>2 DEF FrameRec, IsFrame
<1> HIDE DEF h
<1>4. [h EXCEPT !.pc = q] = FrameRec(h.fn, q, h.locals)
  BY <1>3, SetPc
<1> QED BY <1>1, <1>3, <1>4

\* The fields of a frame.
LEMMA FrameRecIs ==
    ASSUME NEW f, NEW pc, NEW a
    PROVE  LET g == FrameRec(f, pc, a) IN IsFrame(g) /\ g.fn = f /\ g.pc = pc /\ g.locals = a
BY DEF FrameRec, IsFrame

-----------------------------------------------------------------------------
(* References that may be used lead to values of the type referred to.     *)

\* x is the value of a root, a local of one of the d lowest frames or elsewhere.
RootHas(cs, fr, G, d, root, x) ==
    \/ \E k \in 1..d : \E l \in Locals(FrameAt(cs, fr, k).fn) :
          root = LocalRoot(k, l) /\ x = FrameAt(cs, fr, k).locals[l]
    \/ \E t \in Keyed : root = GlobalRoot(t) /\ x = G[t]
    \/ \E t \in Types : Kind(t) = "signer" /\ root = SignerRoot(t) /\ x = SignerValue(t)

\* h are the values on the way from x to a place.
IsTrail(at, x, h) ==
    /\ h[0] = x
    /\ \A j \in 1..(Len(at) - 1) : /\ at[j + 1] \in 1..Len(h[j - 1].f)
                                   /\ h[j] = h[j - 1].f[at[j + 1]]

Marks == {"live", "dangling", "stale"}

GoodRef(cs, fr, G, d, v) ==
    IsReference(v) =>
        /\ "mark" \in DOMAIN v /\ v.mark \in Marks
        /\ v.mark = "live" =>
              /\ IsSeq(v.at) /\ Len(v.at) >= 1
              /\ v.at[1][1] = "signer" => Kind(v.ty) = "ref"
              /\ \E x, h : /\ RootHas(cs, fr, G, d, v.at[1], x) /\ Typed(x)
                           /\ IsTrail(v.at, x, h) /\ h[Len(v.at) - 1].ty = RefersTo(v)

RefsOK(cs, fr, S, G) ==
    /\ \A j \in 1..Len(S) : GoodRef(cs, fr, G, Len(cs) + 1, S[j])
    /\ \A k \in Depths(cs) : \A l \in Locals(FrameAt(cs, fr, k).fn) :
          GoodRef(cs, fr, G, k, FrameAt(cs, fr, k).locals[l])

GlobalOK(G) ==
    /\ G = [t \in Keyed |-> G[t]]
    /\ \A t \in Keyed : G[t] = Invalid \/ HasType(G[t], t)

RunOK(p, cs, fr, S, G) ==
    ProgramOK(p) /\ ShapeOK(p, cs, fr, S) /\ GlobalOK(G) /\ RefsOK(cs, fr, S, G)

\* No typed value is a reference or the value of an empty local.
LEMMA TypedIsNoReference ==
    ASSUME NEW x, Typed(x)
    PROVE  ~IsReference(x) /\ x # Invalid
<1>1. HasType(x, x.ty)
  BY TypedParts DEF HasType
<1> QED BY <1>1, TypedParts, HasTypeFacts

\* A typed value is never marked.
LEMMA MarkedTyped ==
    ASSUME NEW x, Typed(x), NEW y, Marked(x, y)
    PROVE  y = x
BY TypedIsNoReference DEF Marked

\* A reference that is live after marking was live before.
LEMMA MarkedLive ==
    ASSUME NEW v, IsReference(v) => "mark" \in DOMAIN v, NEW w, Marked(v, w), IsReference(w)
    PROVE  /\ IsReference(v) /\ (w.mark = "live" => w = v) /\ (v.mark \in Marks => w.mark \in Marks)
           /\ "mark" \in DOMAIN w
<1>1. CASE w = v
  BY <1>1
<1>2. ASSUME IsReference(v), NEW m \in {"dangling", "stale"}, NEW r,
             r = [v EXCEPT !.mark = m], w = r \/ \E a : w = [r EXCEPT !.at = a]
      PROVE  w.mark = m /\ "mark" \in DOMAIN w
  BY <1>2
<1> QED BY <1>1, <1>2 DEF Marked, Marks

\* A value that is no usable reference into the roots L.
NotInto(L, w) == IsReference(w) /\ w.mark = "live" => w.at[1] \notin L

\* The values of all roots but L stay, up to marks.
Moves(cs, fr, G, cs2, fr2, G2, L) ==
    /\ \A k \in Depths(cs) :
          /\ FrameAt(cs2, fr2, k).fn = FrameAt(cs, fr, k).fn
          /\ \A l \in Locals(FrameAt(cs, fr, k).fn) :
                LocalRoot(k, l) \notin L =>
                    Marked(FrameAt(cs, fr, k).locals[l], FrameAt(cs2, fr2, k).locals[l])
    /\ \A t \in Keyed : GlobalRoot(t) \notin L => G2[t] = G[t]

\* A root outside L keeps its value.
LEMMA RootHasMoves ==
    ASSUME NEW cs, Len(cs) \in Nat, NEW fr, NEW G, NEW cs2, NEW fr2, NEW G2, NEW L,
           Moves(cs, fr, G, cs2, fr2, G2, L), NEW d \in 1..(Len(cs) + 1),
           NEW root, root \notin L, NEW x, Typed(x), RootHas(cs, fr, G, d, root, x)
    PROVE  RootHas(cs2, fr2, G2, d, root, x)
<1>1. ASSUME NEW k \in 1..d, NEW l \in Locals(FrameAt(cs, fr, k).fn),
             root = LocalRoot(k, l), x = FrameAt(cs, fr, k).locals[l]
      PROVE  RootHas(cs2, fr2, G2, d, root, x)
  <2>1. k \in Depths(cs)
    BY DEF Depths
  <2>2. Marked(x, FrameAt(cs2, fr2, k).locals[l]) /\ FrameAt(cs2, fr2, k).fn = FrameAt(cs, fr, k).fn
    BY <1>1, <2>1 DEF Moves
  <2>3. FrameAt(cs2, fr2, k).locals[l] = x
    BY <2>2, MarkedTyped
  <2> QED BY <1>1, <2>2, <2>3 DEF RootHas
<1>2. ASSUME NEW t \in Keyed, root = GlobalRoot(t), x = G[t]
      PROVE  RootHas(cs2, fr2, G2, d, root, x)
  BY <1>2 DEF Moves, RootHas
<1>3. ASSUME NEW t \in Types, Kind(t) = "signer", root = SignerRoot(t), x = SignerValue(t)
      PROVE  RootHas(cs2, fr2, G2, d, root, x)
  BY <1>3 DEF RootHas
<1> QED BY <1>1, <1>2, <1>3 DEF RootHas

\* A reference that does not lead into L stays good.
LEMMA GoodRefMoves ==
    ASSUME NEW cs, Len(cs) \in Nat, NEW fr, NEW G, NEW cs2, NEW fr2, NEW G2, NEW L,
           Moves(cs, fr, G, cs2, fr2, G2, L), NEW d \in 1..(Len(cs) + 1),
           NEW v, GoodRef(cs, fr, G, d, v), NEW w, Marked(v, w), NotInto(L, w)
    PROVE  GoodRef(cs2, fr2, G2, d, w)
<1> SUFFICES ASSUME IsReference(w)
             PROVE  GoodRef(cs2, fr2, G2, d, w)
  BY DEF GoodRef
<1>1. IsReference(v) /\ (w.mark = "live" => w = v) /\ w.mark \in Marks /\ "mark" \in DOMAIN w
  BY MarkedLive DEF GoodRef
<1>2. CASE w.mark # "live"
  BY <1>1, <1>2 DEF GoodRef
<1>3. CASE w.mark = "live"
  <2>1. w = v /\ v.mark = "live"
    BY <1>1, <1>3
  <2>2. /\ IsSeq(v.at) /\ Len(v.at) >= 1
        /\ v.at[1][1] = "signer" => Kind(v.ty) = "ref"
    BY <1>1, <2>1 DEF GoodRef
  <2>3. PICK x, h : /\ RootHas(cs, fr, G, d, v.at[1], x) /\ Typed(x)
                    /\ IsTrail(v.at, x, h) /\ h[Len(v.at) - 1].ty = RefersTo(v)
    BY <1>1, <2>1 DEF GoodRef
  <2>4. v.at[1] \notin L
    BY <1>1, <2>1 DEF NotInto
  <2>5. RootHas(cs2, fr2, G2, d, v.at[1], x)
    BY <2>3, <2>4, RootHasMoves
  <2> QED BY <1>1, <2>1, <2>2, <2>3, <2>5 DEF GoodRef
<1> QED BY <1>2, <1>3

\* A frame whose references were marked.
MarkedFrame(L, g, h) ==
    /\ IsFrame(h) /\ h.fn = g.fn /\ h.pc = g.pc
    /\ h.locals = [l \in Locals(g.fn) |-> h.locals[l]]
    /\ \A l \in Locals(g.fn) : Marked(g.locals[l], h.locals[l]) /\ NotInto(L, h.locals[l])

\* A frame whose references were marked keeps its types.
LEMMA MarkedFrameKept ==
    ASSUME NEW L, NEW g, LocalsTyped(g.fn, g.locals), NEW h, MarkedFrame(L, g, h)
    PROVE  KeptFrame(g, h)
<1>1. \A l \in Locals(g.fn) : g.locals[l] = Invalid <=> h.locals[l] = Invalid
  BY MarkedInvalid DEF MarkedFrame
<1>2. Filled(h) = Filled(g)
  BY <1>1 DEF Filled, MarkedFrame
<1>3. ASSUME NEW l \in Locals(g.fn), h.locals[l] # Invalid
      PROVE  HasType(h.locals[l], LocalAt(g.fn, l))
  <2>1. HasType(g.locals[l], LocalAt(g.fn, l)) /\ Marked(g.locals[l], h.locals[l])
    BY <1>1, <1>3 DEF LocalsTyped, MarkedFrame
  <2> QED BY <2>1, MarkedType
<1>4. LocalsTyped(g.fn, h.locals)
  BY <1>3 DEF LocalsTyped, MarkedFrame
<1> QED BY <1>2, <1>4 DEF KeptFrame, MarkedFrame

Split(a, n, b, j) == j \in 1..(a - n) \/ \E d \in 1..b : j = a - n + d

\* A position of the stack is below the operands or among the results.
LEMMA SplitIndex ==
    ASSUME NEW a \in Nat, NEW n \in Nat, n <= a, NEW b \in Nat, NEW j \in 1..(a - n + b)
    PROVE  Split(a, n, b, j)
<1>1. CASE j <= a - n
  BY <1>1 DEF Split
<1>2. CASE ~(j <= a - n)
  <2> DEFINE d == j - (a - n)
  <2>1. d \in 1..b /\ j = a - n + d
    BY <1>2
  <2> HIDE DEF d
  <2> QED BY <2>1 DEF Split
<1> QED BY <1>1, <1>2

\* An instruction that stays in its function and writes at most the roots L: globals and locals
\* of the current frame; it takes n values off the stack and leaves values of the types w.
MoveFacts(p, cs, fr, S, G, cs2, fr2, S2, G2, L, n, w) ==
    /\ IsSeq(cs2) /\ Len(cs2) = Len(cs) /\ \A k \in 1..Len(cs) : MarkedFrame(L, cs[k], cs2[k])
    /\ IsFrame(fr2) /\ fr2.fn = fr.fn /\ fr2.pc \in Range(Successors(p[fr.fn], fr.pc))
    /\ LocalsTyped(fr.fn, fr2.locals) /\ Filled(fr2) = HeldAfter(InstrOf(p, fr), Filled(fr))
    /\ \A l \in Locals(fr.fn) :
          IF LocalRoot(Len(cs) + 1, l) \in L THEN GoodRef(cs2, fr2, G2, Len(cs) + 1, fr2.locals[l])
          ELSE Marked(fr.locals[l], fr2.locals[l]) /\ NotInto(L, fr2.locals[l])
    /\ GlobalOK(G2) /\ \A t \in Keyed : GlobalRoot(t) \notin L => G2[t] = G[t]
    /\ n = NumPops(fr.fn, InstrOf(p, fr))
    /\ w = Pushed(fr.fn, InstrOf(p, fr), Operands(fr.fn, InstrOf(p, fr), StackOf(p, fr)))
    /\ IsSeq(S2) /\ Len(S2) = Len(S) - n + Len(w)
    /\ \A j \in 1..(Len(S) - n) : Marked(S[j], S2[j]) /\ NotInto(L, S2[j])
    /\ \A j \in 1..Len(w) : /\ HasType(S2[Len(S) - n + j], w[j])
                             /\ GoodRef(cs2, fr2, G2, Len(cs) + 1, S2[Len(S) - n + j])

\* An instruction that stays in its function keeps the invariant of the run.
LEMMA MoveOnFrom ==
    ASSUME NEW p, NEW cs, NEW fr, NEW S, NEW G, RunOK(p, cs, fr, S, G),
           NEW cs2, NEW fr2, NEW S2, NEW G2, NEW L, NEW n, NEW w,
           MoveFacts(p, cs, fr, S, G, cs2, fr2, S2, G2, L, n, w)
    PROVE  RunOK(p, cs2, fr2, S2, G2)
<1> SUFFICES ASSUME IsSeq(cs2), Len(cs2) = Len(cs),
                 \A k \in 1..Len(cs) : MarkedFrame(L, cs[k], cs2[k]),
                 IsFrame(fr2), fr2.fn = fr.fn,
                 fr2.pc \in Range(Successors(p[fr.fn], fr.pc)), LocalsTyped(fr.fn, fr2.locals),
                 Filled(fr2) = HeldAfter(InstrOf(p, fr), Filled(fr)),
                 \A l \in Locals(fr.fn) :
                     IF LocalRoot(Len(cs) + 1, l) \in L THEN GoodRef(cs2, fr2, G2, Len(cs) + 1, fr2.locals[l])
                     ELSE Marked(fr.locals[l], fr2.locals[l]) /\ NotInto(L, fr2.locals[l]),
                 GlobalOK(G2), \A t \in Keyed : GlobalRoot(t) \notin L => G2[t] = G[t],
                 n = NumPops(fr.fn, InstrOf(p, fr)),
                 w = Pushed(fr.fn, InstrOf(p, fr), Operands(fr.fn, InstrOf(p, fr), StackOf(p, fr))),
                 IsSeq(S2), Len(S2) = Len(S) - n + Len(w),
                 \A j \in 1..(Len(S) - n) : Marked(S[j], S2[j]) /\ NotInto(L, S2[j]),
                 \A j \in 1..Len(w) : /\ HasType(S2[Len(S) - n + j], w[j])
                                      /\ GoodRef(cs2, fr2, G2, Len(cs) + 1, S2[Len(S) - n + j])
             PROVE  RunOK(p, cs2, fr2, S2, G2)
  BY DEF MoveFacts
<1> DEFINE m == Len(cs) + 1
<1>1. ProgramOK(p) /\ ShapeOK(p, cs, fr, S) /\ RefsOK(cs, fr, S, G)
  BY DEF RunOK
<1>2. Len(cs) \in Nat /\ Len(S) \in Nat
  BY <1>1, SeqLen DEF ShapeOK
<1>3. /\ Depths(cs2) = Depths(cs) /\ m \in Depths(cs) /\ FrameAt(cs, fr, m) = fr /\ FrameAt(cs2, fr2, m) = fr2
      /\ \A k \in 1..Len(cs) : k \in Depths(cs) /\ FrameAt(cs, fr, k) = cs[k] /\ FrameAt(cs2, fr2, k) = cs2[k]
      /\ \A k \in Depths(cs) : k = m \/ k \in 1..Len(cs)
  BY <1>2 DEF Depths, FrameAt
<1> HIDE DEF m
<1>4. \A k \in Depths(cs) : FrameOK(p, FrameAt(cs, fr, k))
  BY <1>1 DEF ShapeOK
<1>5. \A k \in 1..Len(cs) : KeptFrame(cs[k], cs2[k])
  <2>1. \A k \in 1..Len(cs) : LocalsTyped(cs[k].fn, cs[k].locals)
    BY <1>3, <1>4 DEF FrameOK
  <2> QED BY <2>1, MarkedFrameKept
<1>6. ShapeOK(p, cs2, fr2, S2)
  <2>1. \A j \in 1..(Len(S) - n) : Marked(S[j], S2[j])
    OBVIOUS
  <2>2. \A j \in 1..Len(w) : HasType(S2[Len(S) - n + j], w[j])
    OBVIOUS
  <2> QED BY <1>1, <1>5, <2>1, <2>2, Advance
<1>7. Moves(cs, fr, G, cs2, fr2, G2, L)
  <2>1. ASSUME NEW k \in Depths(cs)
        PROVE  /\ FrameAt(cs2, fr2, k).fn = FrameAt(cs, fr, k).fn
               /\ \A l \in Locals(FrameAt(cs, fr, k).fn) :
                    LocalRoot(k, l) \notin L =>
                        Marked(FrameAt(cs, fr, k).locals[l], FrameAt(cs2, fr2, k).locals[l])
    <3>1. CASE k = m
      BY <1>3, <3>1 DEF m
    <3>2. CASE k \in 1..Len(cs)
      BY <1>3, <3>2 DEF MarkedFrame
    <3> QED BY <1>3, <3>1, <3>2
  <2> QED BY <2>1 DEF Moves
<1>8. ASSUME NEW k \in Depths(cs), NEW l \in Locals(FrameAt(cs2, fr2, k).fn)
      PROVE  GoodRef(cs2, fr2, G2, k, FrameAt(cs2, fr2, k).locals[l])
  <2>1. FrameAt(cs2, fr2, k).fn = FrameAt(cs, fr, k).fn /\ k \in 1..(Len(cs) + 1)
    BY <1>7 DEF Moves, Depths
  <2>2. GoodRef(cs, fr, G, k, FrameAt(cs, fr, k).locals[l])
    BY <1>1, <2>1 DEF RefsOK
  <2>3. CASE k = m
    <3>1. CASE LocalRoot(m, l) \in L
      BY <1>3, <2>3, <3>1 DEF m
    <3>2. CASE LocalRoot(m, l) \notin L
      <4>1. Marked(fr.locals[l], fr2.locals[l]) /\ NotInto(L, fr2.locals[l])
        BY <1>3, <2>3, <3>2 DEF m
      <4> QED BY <1>2, <1>3, <1>7, <2>1, <2>2, <2>3, <4>1, GoodRefMoves
    <3> QED BY <3>1, <3>2
  <2>4. CASE k \in 1..Len(cs)
    <3>1. Marked(cs[k].locals[l], cs2[k].locals[l]) /\ NotInto(L, cs2[k].locals[l])
      BY <1>3, <2>1, <2>4 DEF MarkedFrame
    <3> QED BY <1>2, <1>3, <1>7, <2>1, <2>2, <2>4, <3>1, GoodRefMoves
  <2> QED BY <1>3, <2>3, <2>4
<1>9. ASSUME NEW j \in 1..Len(S2) PROVE GoodRef(cs2, fr2, G2, m, S2[j])
  <2>1. n \in Nat /\ n <= Len(S) /\ Len(w) \in Nat /\ Len(S2) = Len(S) - n + Len(w)
    <3>1. n \in Nat /\ n <= Len(S)
      BY <1>1, OperandsThere
    <3>2. IsSeq(w)
      <4>1. FrameOK(p, fr)
        BY <1>3, <1>4
      <4>2. IsUnit(fr.fn, p[fr.fn]) /\ fr.pc \in Offsets(p[fr.fn])
        BY <1>1, <4>1, FrameFacts
      <4> QED BY <4>2, PushedIs DEF InstrOf
    <3> QED BY <3>1, <3>2, SeqLen
  <2>2. CASE j \in 1..(Len(S) - n)
    <3>1. Marked(S[j], S2[j]) /\ NotInto(L, S2[j])
      BY <2>2
    <3>2. j \in 1..Len(S)
      BY <1>2, <2>1, <2>2
    <3>3. GoodRef(cs, fr, G, m, S[j])
      BY <1>1, <3>2 DEF RefsOK, m
    <3>4. m \in 1..(Len(cs) + 1)
      BY <1>2 DEF m
    <3> QED BY <1>2, <1>7, <3>1, <3>3, <3>4, GoodRefMoves
  <2>3. CASE \E d \in 1..Len(w) : j = Len(S) - n + d
    BY <2>3 DEF m
  <2>4. j \in 1..(Len(S) - n) \/ \E d \in 1..Len(w) : j = Len(S) - n + d
    <3> DEFINE a == Len(S)
               b == Len(w)
    <3>1. a \in Nat /\ b \in Nat /\ n \in Nat /\ n <= a /\ j \in 1..(a - n + b)
      BY <1>2, <2>1
    <3> HIDE DEF a, b
    <3>2. Split(a, n, b, j)
      BY <3>1, SplitIndex
    <3> QED BY <3>2 DEF a, b, Split
  <2> QED BY <2>2, <2>3, <2>4
<1>10. RefsOK(cs2, fr2, S2, G2)
  BY <1>3, <1>8, <1>9 DEF RefsOK, m
<1> QED BY <1>1, <1>6, <1>10 DEF RunOK

\* The same, with the facts one by one.
LEMMA MoveOn ==
    ASSUME NEW p, NEW cs, NEW fr, NEW S, NEW G, RunOK(p, cs, fr, S, G),
           NEW cs2, NEW fr2, NEW S2, NEW G2, NEW L,
           IsSeq(cs2), Len(cs2) = Len(cs),
           \A k \in 1..Len(cs) : MarkedFrame(L, cs[k], cs2[k]),
           IsFrame(fr2), fr2.fn = fr.fn,
           fr2.pc \in Range(Successors(p[fr.fn], fr.pc)), LocalsTyped(fr.fn, fr2.locals),
           Filled(fr2) = HeldAfter(InstrOf(p, fr), Filled(fr)),
           \A l \in Locals(fr.fn) :
               IF LocalRoot(Len(cs) + 1, l) \in L THEN GoodRef(cs2, fr2, G2, Len(cs) + 1, fr2.locals[l])
               ELSE Marked(fr.locals[l], fr2.locals[l]) /\ NotInto(L, fr2.locals[l]),
           GlobalOK(G2), \A t \in Keyed : GlobalRoot(t) \notin L => G2[t] = G[t],
           NEW n, n = NumPops(fr.fn, InstrOf(p, fr)),
           NEW w, w = Pushed(fr.fn, InstrOf(p, fr), Operands(fr.fn, InstrOf(p, fr), StackOf(p, fr))),
           IsSeq(S2), Len(S2) = Len(S) - n + Len(w),
           \A j \in 1..(Len(S) - n) : Marked(S[j], S2[j]) /\ NotInto(L, S2[j]),
           \A j \in 1..Len(w) : /\ HasType(S2[Len(S) - n + j], w[j])
                                /\ GoodRef(cs2, fr2, G2, Len(cs) + 1, S2[Len(S) - n + j])
    PROVE  RunOK(p, cs2, fr2, S2, G2)
<1>1. MoveFacts(p, cs, fr, S, G, cs2, fr2, S2, G2, L, n, w)
  BY DEF MoveFacts
<1> QED BY <1>1, MoveOnFrom

-----------------------------------------------------------------------------
(* Steps of the interpreter.                                               *)

\* What may stop verified code.
Stopped == {"done", "EXECUTION_STACK_OVERFLOW", "CALL_STACK_OVERFLOW", "OUT_OF_GAS", "ABORTED",
            "ARITHMETIC_ERROR", "MISSING_DATA", "RESOURCE_ALREADY_EXISTS",
            "MOVING_REFERRED_CONTAINER", "DANGLING_REFERENCE", "STALE_REFERENCE"}

RunningOK ==
    /\ status = "run" /\ Len(operandStack) <= StackLimit
    /\ RunOK(program, callStack, frame, operandStack, global)

Outcome ==
    \/ status' \in Stopped
    \/ /\ status' = "run" /\ Len(operandStack') <= StackLimit
       /\ RunOK(program, callStack', frame', operandStack', global')

Here == Len(callStack) + 1

StaticTypes == StackOf(program, frame)

StaticOperands == Operands(frame.fn, Current, StaticTypes)

StaticResults == Pushed(frame.fn, Current, StaticOperands)

\* The current instruction.
LEMMA CurrentIs == Current = InstrOf(program, frame)
BY DEF Current, InstrOf, Code

\* An error of the program's own ends the run.
LEMMA FailOK ==
    ASSUME NEW code \in Stopped, Fail(code)
    PROVE  Outcome
BY DEF Fail, Outcome

\* What is known of the current frame.
LEMMA FrameNow ==
    ASSUME RunningOK
    PROVE  /\ ProgramOK(program) /\ ShapeOK(program, callStack, frame, operandStack)
           /\ FrameOK(program, frame) /\ IsFrame(frame) /\ LocalsTyped(frame.fn, frame.locals)
           /\ Vetted(frame.fn, program[frame.fn]) /\ IsUnit(frame.fn, program[frame.fn])
           /\ frame.pc \in Offsets(program[frame.fn])
           /\ Len(callStack) \in Nat /\ Len(operandStack) \in Nat
           /\ IsSeq(callStack) /\ IsSeq(operandStack)
<1>1. ProgramOK(program) /\ ShapeOK(program, callStack, frame, operandStack)
  BY DEF RunningOK, RunOK
<1>2. IsSeq(callStack) /\ IsSeq(operandStack) /\ Len(callStack) \in Nat /\ Len(operandStack) \in Nat
  BY <1>1, SeqLen DEF ShapeOK
<1>3. Here \in Depths(callStack) /\ FrameAt(callStack, frame, Here) = frame
  BY <1>2 DEF Depths, FrameAt, Here
<1>4. FrameOK(program, frame)
  BY <1>1, <1>3 DEF ShapeOK
<1>5. IsFrame(frame) /\ LocalsTyped(frame.fn, frame.locals)
  BY <1>4 DEF FrameOK
<1> QED BY <1>1, <1>2, <1>4, <1>5, FrameFacts

\* The stack without the operands of the current instruction.
Rest == SubSeq(operandStack, 1, Len(operandStack) - NumPops(frame.fn, Current))

ResultsOK(results) ==
    /\ IsSeq(results) /\ Len(results) = Len(StaticResults)
    /\ \A j \in 1..Len(results) : /\ HasType(results[j], StaticResults[j])
                                  /\ GoodRef(callStack, frame, global, Here, results[j])

\* The locals after an instruction that writes at most the roots L.
LocalsOK(L, base) ==
    /\ base = [x \in Locals(frame.fn) |-> base[x]]
    /\ \A x \in Locals(frame.fn) :
          /\ GoodRef(callStack, frame, global, Here, base[x])
          /\ base[x] = Invalid \/ HasType(base[x], LocalAt(frame.fn, x))
          /\ LocalRoot(Here, x) \notin L => base[x] = frame.locals[x]
    /\ HeldAfter(Current, Filled(frame)) = {x \in Locals(frame.fn) : base[x] # Invalid}

\* No reference into the roots L stays usable when values move.
Cut(moves, L) ==
    \A d, x : GoodRef(callStack, frame, global, d, x) => /\ Marked(x, Displaced(moves, x))
                                                         /\ NotInto(L, Displaced(moves, x))

\* Values moved, the locals are base, and control goes to pc.
Moved(moves, base, results, pc) ==
    /\ callStack' = [k \in DOMAIN callStack |-> [callStack[k] EXCEPT !.locals =
                       [x \in DOMAIN callStack[k].locals |-> Displaced(moves, callStack[k].locals[x])]]]
    /\ frame' = FrameRec(frame.fn, pc, [x \in Locals(frame.fn) |-> Displaced(moves, base[x])])
    /\ operandStack' = [k \in DOMAIN Rest |-> Displaced(moves, Rest[k])] \o results
    /\ global' = global

\* When values move and control goes on to a successor, the run stays as computed.
LEMMA MovedOn ==
    ASSUME RunningOK, NEW moves, NEW L, Cut(moves, L), NEW base, LocalsOK(L, base),
           NEW results, ResultsOK(results), \A j \in 1..Len(results) : NotInto(L, results[j]),
           NEW pc, pc \in Range(Successors(program[frame.fn], frame.pc)),
           Moved(moves, base, results, pc)
    PROVE  /\ RunOK(program, callStack', frame', operandStack', global')
           /\ Len(operandStack') = Len(Rest) + Len(results)
<1> DEFINE p == program
           cs == callStack
           fr == frame
           S == operandStack
           G == global
           n == NumPops(fr.fn, Current)
           w == StaticResults
           gone(x) == Displaced(moves, x)
           locals2 == [x \in Locals(fr.fn) |-> gone(base[x])]
           fr2 == FrameRec(fr.fn, pc, locals2)
           cs2 == [k \in DOMAIN cs |-> [cs[k] EXCEPT !.locals = [x \in DOMAIN cs[k].locals |-> gone(cs[k].locals[x])]]]
           down == [k \in DOMAIN Rest |-> gone(Rest[k])]
           S2 == down \o results
<1>1. /\ ProgramOK(p) /\ ShapeOK(p, cs, fr, S) /\ FrameOK(p, fr) /\ IsFrame(fr) /\ LocalsTyped(fr.fn, fr.locals)
      /\ Len(cs) \in Nat /\ Len(S) \in Nat /\ IsSeq(cs) /\ IsSeq(S)
  BY FrameNow
<1>2. RunOK(p, cs, fr, S, G) /\ RefsOK(cs, fr, S, G) /\ GlobalOK(G)
  BY DEF RunningOK, RunOK
<1>3. n \in Nat /\ n <= Len(S)
  BY <1>1, OperandsThere, CurrentIs
<1>4. Len(S) - n \in Nat /\ Len(S) - n <= Len(S)
  BY <1>1, <1>3
<1>5. IsSeq(Rest) /\ Len(Rest) = Len(S) - n /\ \A k \in 1..(Len(S) - n) : Rest[k] = S[k]
  BY <1>1, <1>4, SeqPrefix, SeqElements DEF Rest
<1>6. callStack' = cs2 /\ frame' = fr2 /\ operandStack' = S2 /\ global' = G
  BY DEF Moved
<1>7. ASSUME NEW d, NEW x, GoodRef(cs, fr, G, d, x) PROVE Marked(x, gone(x)) /\ NotInto(L, gone(x))
  BY <1>7 DEF Cut
<1> HIDE DEF gone
<1>8. DOMAIN Rest = 1..(Len(S) - n)
  BY <1>5 DEF IsSeq
<1>9. IsSeq(down) /\ Len(down) = Len(S) - n /\ \A k \in 1..(Len(S) - n) : down[k] = gone(S[k])
  <2>1. down = [k \in 1..(Len(S) - n) |-> down[k]]
    BY <1>8
  <2>2. \A k \in 1..(Len(S) - n) : down[k] = gone(S[k])
    BY <1>5, <1>8
  <2> HIDE DEF down, n
  <2>3. IsSeq(down) /\ Len(down) = Len(S) - n
    BY <1>4, <2>1, FunIsSeq
  <2> QED BY <2>2, <2>3
<1>10. IsSeq(results) /\ Len(results) = Len(w)
  BY DEF ResultsOK
<1> HIDE DEF down, n, w
<1>11. /\ IsSeq(S2) /\ Len(S2) = Len(S) - n + Len(w)
       /\ \A k \in 1..(Len(S) - n) : S2[k] = gone(S[k])
       /\ \A k \in 1..Len(w) : S2[Len(S) - n + k] = results[k]
  <2>1. IsSeq(S2) /\ Len(S2) = Len(down) + Len(results)
    BY <1>9, <1>10, SeqConcat
  <2>2. /\ \A k \in 1..Len(down) : S2[k] = down[k]
        /\ \A k \in 1..Len(results) : S2[Len(down) + k] = results[k]
    BY <1>9, <1>10, SeqParts
  <2> QED BY <1>9, <1>10, <2>1, <2>2
<1>12. /\ IsFrame(fr2) /\ fr2.fn = fr.fn /\ fr2.pc = pc
       /\ fr2.locals = [x \in Locals(fr.fn) |-> fr2.locals[x]]
       /\ \A x \in Locals(fr.fn) : fr2.locals[x] = gone(base[x])
  <2>1. IsFrame(fr2) /\ fr2.fn = fr.fn /\ fr2.pc = pc /\ fr2.locals = locals2
    BY FrameRecIs
  <2> HIDE DEF fr2
  <2> QED BY <2>1
<1>13. DOMAIN cs = 1..Len(cs)
  BY <1>1 DEF IsSeq
<1>14. Here \in Depths(cs) /\ FrameAt(cs, fr, Here) = fr /\ Here \in 1..(Len(cs) + 1) /\ ~(Here <= Len(cs))
  BY <1>1 DEF Here, Depths, FrameAt
<1>15. \A x \in Locals(fr.fn) : GoodRef(cs, fr, G, Here, fr.locals[x])
  BY <1>2, <1>14 DEF RefsOK
<1>16. \A j \in 1..(Len(S) - n) : GoodRef(cs, fr, G, Here, S[j])
  <2>1. \A j \in 1..(Len(S) - n) : j \in 1..Len(S)
    BY <1>1, <1>3
  <2> QED BY <1>2, <2>1 DEF RefsOK, Here
<1> HIDE DEF S2, fr2
<1>17. IsSeq(cs2) /\ Len(cs2) = Len(cs)
  <2>1. cs2 = [k \in 1..Len(cs) |-> cs2[k]]
    BY <1>13
  <2> HIDE DEF cs2
  <2> QED BY <1>1, <2>1, FunIsSeq
<1>18. \A k \in 1..Len(cs) : MarkedFrame(L, cs[k], cs2[k])
  <2> SUFFICES ASSUME NEW k \in 1..Len(cs) PROVE MarkedFrame(L, cs[k], cs2[k])
    OBVIOUS
  <2>1. k \in Depths(cs) /\ FrameAt(cs, fr, k) = cs[k]
    BY <1>1 DEF Depths, FrameAt
  <2>2. FrameOK(p, cs[k])
    BY <1>1, <2>1 DEF ShapeOK
  <2>3. IsFrame(cs[k]) /\ cs[k].locals = [x \in Locals(cs[k].fn) |-> cs[k].locals[x]]
    BY <2>2 DEF FrameOK, LocalsTyped
  <2>4. DOMAIN cs[k].locals = Locals(cs[k].fn)
    BY <2>3
  <2> DEFINE g == cs[k]
             a == [x \in DOMAIN g.locals |-> gone(g.locals[x])]
             h == FrameRec(g.fn, g.pc, a)
  <2>5. cs2[k] = [g EXCEPT !.locals = a]
    BY <1>13
  <2> HIDE DEF a
  <2>6. cs2[k] = h
    BY <2>3, <2>5, SetLocals
  <2>7. IsFrame(h) /\ h.fn = g.fn /\ h.pc = g.pc /\ h.locals = a
    BY FrameRecIs
  <2>8. a = [x \in Locals(g.fn) |-> a[x]] /\ \A x \in Locals(g.fn) : a[x] = gone(g.locals[x])
    BY <2>4 DEF a
  <2>9. \A x \in Locals(g.fn) : GoodRef(cs, fr, G, k, g.locals[x])
    BY <1>2, <2>1 DEF RefsOK
  <2> HIDE DEF h, g, cs2
  <2>10. MarkedFrame(L, g, h)
    BY <1>7, <2>7, <2>8, <2>9 DEF MarkedFrame
  <2> QED BY <2>6, <2>10 DEF g
<1> HIDE DEF cs2
<1>19. Moves(cs, fr, G, cs2, fr2, G, L)
  <2>1. ASSUME NEW k \in Depths(cs)
        PROVE  /\ FrameAt(cs2, fr2, k).fn = FrameAt(cs, fr, k).fn
               /\ \A x \in Locals(FrameAt(cs, fr, k).fn) :
                    LocalRoot(k, x) \notin L =>
                        Marked(FrameAt(cs, fr, k).locals[x], FrameAt(cs2, fr2, k).locals[x])
    <3>1. CASE k <= Len(cs)
      <4>1. k \in 1..Len(cs) /\ FrameAt(cs, fr, k) = cs[k] /\ FrameAt(cs2, fr2, k) = cs2[k]
        BY <1>1, <1>17, <3>1 DEF Depths, FrameAt
      <4> QED BY <1>18, <4>1 DEF MarkedFrame
    <3>2. CASE ~(k <= Len(cs))
      <4>1. k = Here /\ FrameAt(cs, fr, k) = fr /\ FrameAt(cs2, fr2, k) = fr2
        BY <1>1, <1>17, <3>2 DEF Depths, FrameAt, Here
      <4>2. \A x \in Locals(fr.fn) : LocalRoot(Here, x) \notin L => base[x] = fr.locals[x]
        BY DEF LocalsOK
      <4> QED BY <1>7, <1>12, <1>15, <4>1, <4>2
    <3> QED BY <3>1, <3>2
  <2> QED BY <2>1 DEF Moves
<1>20. \A d \in 1..Len(w) : GoodRef(cs2, fr2, G, Here, S2[Len(S) - n + d]) /\ HasType(S2[Len(S) - n + d], w[d])
  <2> SUFFICES ASSUME NEW d \in 1..Len(w)
               PROVE  GoodRef(cs2, fr2, G, Here, S2[Len(S) - n + d]) /\ HasType(S2[Len(S) - n + d], w[d])
    OBVIOUS
  <2>1. GoodRef(cs, fr, G, Here, results[d]) /\ HasType(results[d], w[d]) /\ NotInto(L, results[d])
    BY <1>10 DEF ResultsOK, w
  <2>2. Marked(results[d], results[d])
    BY DEF Marked
  <2>3. GoodRef(cs2, fr2, G, Here, results[d])
    BY <1>1, <1>14, <1>19, <2>1, <2>2, GoodRefMoves
  <2> QED BY <1>11, <2>1, <2>3
<1>21. \A x \in Locals(fr.fn) : /\ Marked(base[x], gone(base[x])) /\ NotInto(L, gone(base[x]))
                                /\ GoodRef(cs, fr, G, Here, base[x])
  BY <1>7 DEF LocalsOK
<1>22. \A x \in Locals(fr.fn) :
           IF LocalRoot(Len(cs) + 1, x) \in L THEN GoodRef(cs2, fr2, G, Len(cs) + 1, fr2.locals[x])
           ELSE Marked(fr.locals[x], fr2.locals[x]) /\ NotInto(L, fr2.locals[x])
  <2> SUFFICES ASSUME NEW x \in Locals(fr.fn)
               PROVE  IF LocalRoot(Here, x) \in L THEN GoodRef(cs2, fr2, G, Here, fr2.locals[x])
                      ELSE Marked(fr.locals[x], fr2.locals[x]) /\ NotInto(L, fr2.locals[x])
    BY DEF Here
  <2>1. CASE LocalRoot(Here, x) \in L
    <3>1. GoodRef(cs2, fr2, G, Here, gone(base[x]))
      BY <1>1, <1>14, <1>19, <1>21, GoodRefMoves
    <3> QED BY <1>12, <2>1, <3>1
  <2>2. CASE LocalRoot(Here, x) \notin L
    <3>1. base[x] = fr.locals[x]
      BY <2>2 DEF LocalsOK
    <3> QED BY <1>12, <1>21, <2>2, <3>1
  <2> QED BY <2>1, <2>2
<1>23. \A j \in 1..(Len(S) - n) : Marked(S[j], S2[j]) /\ NotInto(L, S2[j])
  BY <1>7, <1>11, <1>16
<1>24. \A x \in Locals(fr.fn) : fr2.locals[x] = Invalid <=> base[x] = Invalid
  BY <1>12, <1>21, MarkedInvalid
<1>25. LocalsTyped(fr.fn, fr2.locals)
  <2>1. ASSUME NEW x \in Locals(fr.fn), fr2.locals[x] # Invalid
        PROVE  HasType(fr2.locals[x], LocalAt(fr.fn, x))
    <3>1. HasType(base[x], LocalAt(fr.fn, x))
      BY <1>24, <2>1 DEF LocalsOK
    <3> QED BY <1>12, <1>21, <3>1, MarkedType
  <2> QED BY <1>12, <2>1 DEF LocalsTyped
<1>26. Filled(fr2) = HeldAfter(InstrOf(p, fr), Filled(fr))
  <2>1. Filled(fr2) = {x \in Locals(fr.fn) : base[x] # Invalid}
    BY <1>12, <1>24 DEF Filled
  <2> QED BY <2>1, CurrentIs DEF LocalsOK
<1>27. w = Pushed(fr.fn, InstrOf(p, fr), Operands(fr.fn, InstrOf(p, fr), StackOf(p, fr)))
  BY CurrentIs DEF StaticResults, StaticOperands, StaticTypes, w
<1>28. n = NumPops(fr.fn, InstrOf(p, fr))
  BY CurrentIs DEF n
<1>29. /\ fr2.pc \in Range(Successors(p[fr.fn], fr.pc)) /\ Here = Len(cs) + 1
       /\ \A t \in Keyed : GlobalRoot(t) \notin L => G[t] = G[t]
  BY <1>12 DEF Here
<1>30. RunOK(p, cs2, fr2, S2, G)
  BY <1>2, <1>11, <1>12, <1>17, <1>18, <1>20, <1>22, <1>23, <1>25, <1>26, <1>27, <1>28, <1>29, MoveOn
<1>31. Len(S2) = Len(Rest) + Len(results)
  BY <1>5, <1>10, <1>11
<1> QED BY <1>6, <1>30, <1>31

-----------------------------------------------------------------------------
(* References to what moves are of no use.                                 *)

\* When one sequence begins with another.
LEMMA PrefixIs ==
    ASSUME NEW s, IsSeq(s), NEW t, IsSeq(t)
    PROVE  IsPrefix(s, t) <=> Len(s) <= Len(t) /\ \A i \in 1..Len(s) : s[i] = t[i]
<1>1. Len(s) \in Nat /\ Len(t) \in Nat
  BY SeqLen
<1> DEFINE n == Len(s)
           a == SubSeq(s, 1, n)
           b == SubSeq(t, 1, n)
<1>2. CASE ~(n <= Len(t))
  BY <1>2 DEF IsPrefix
<1>3. CASE n <= Len(t)
  <2>1. IsSeq(a) /\ Len(a) = n /\ \A i \in 1..n : a[i] = s[i]
    <3>1. n <= Len(s) /\ n \in Nat
      BY <1>1
    <3> QED BY <3>1, SeqPrefix, SeqElements
  <2>2. IsSeq(b) /\ Len(b) = n /\ \A i \in 1..n : b[i] = t[i]
    <3>1. n \in Nat
      BY <1>1
    <3> QED BY <1>3, <3>1, SeqPrefix, SeqElements
  <2>3. a = [i \in 1..n |-> a[i]] /\ b = [i \in 1..n |-> b[i]]
    <3> HIDE DEF a, b, n
    <3> QED BY <2>1, <2>2 DEF IsSeq
  <2>4. IsPrefix(s, t) <=> a = b
    BY <1>3 DEF IsPrefix
  <2> HIDE DEF a, b
  <2> QED BY <1>3, <2>1, <2>2, <2>3, <2>4
<1> QED BY <1>2, <1>3

\* A reference stays live only when nothing moved that it leads through.
LEMMA DisplacedIs ==
    ASSUME NEW moves, NEW v
    PROVE  /\ Marked(v, Displaced(moves, v))
           /\ /\ IsReference(v) => "mark" \in DOMAIN v
              /\ IsReference(Displaced(moves, v)) /\ Displaced(moves, v).mark = "live"
              => Displaced(moves, v) = v /\ \A m \in moves : ~IsPrefix(m[1], v.at)
<1> DEFINE w == Displaced(moves, v)
<1>1. CASE ~IsReference(v) \/ ~\E m \in moves : IsPrefix(m[1], v.at)
  <2>1. w = v
    BY <1>1 DEF Displaced
  <2> HIDE DEF w
  <2> QED BY <1>1, <2>1 DEF Marked, w
<1>2. CASE IsReference(v) /\ \E m \in moves : IsPrefix(m[1], v.at)
  <2>1. PICK a : w = [v EXCEPT !.mark = "dangling", !.at = a]
    BY <1>2 DEF Displaced
  <2> DEFINE r == [v EXCEPT !.mark = "dangling"]
  <2>2. w = [r EXCEPT !.at = a]
    BY <2>1
  <2>3. DOMAIN r = DOMAIN v /\ ("mark" \in DOMAIN v => r.mark = "dangling")
    OBVIOUS
  <2>4. r = [v EXCEPT !.mark = "dangling"]
    OBVIOUS
  <2> HIDE DEF w, r
  <2>5. "mark" \in DOMAIN v => w.mark = "dangling"
    BY <2>2, <2>3
  <2>6. Marked(v, w)
    BY <1>2, <2>2, <2>4 DEF Marked
  <2> QED BY <1>2, <2>5, <2>6 DEF w
<1> QED BY <1>1, <1>2

\* What moved away is marked so.
LEMMA DisplacedDangles ==
    ASSUME NEW moves, NEW v, IsReference(v) => "mark" \in DOMAIN v,
           IsReference(Displaced(moves, v)), Displaced(moves, v).mark # "dangling"
    PROVE  Displaced(moves, v) = v
<1> DEFINE w == Displaced(moves, v)
<1>1. CASE ~IsReference(v) \/ ~\E m \in moves : IsPrefix(m[1], v.at)
  BY <1>1 DEF Displaced
<1>2. CASE IsReference(v) /\ \E m \in moves : IsPrefix(m[1], v.at)
  <2>1. PICK a : w = [v EXCEPT !.mark = "dangling", !.at = a]
    BY <1>2 DEF Displaced
  <2> HIDE DEF w
  <2>2. w.mark = "dangling"
    BY <1>2, <2>1
  <2> QED BY <2>2 DEF w
<1> QED BY <1>1, <1>2

\* Whatever moves, no reference is given to use.
LEMMA CutNone ==
    ASSUME NEW moves
    PROVE  Cut(moves, {})
BY DisplacedIs DEF Cut, NotInto

\* When all of a root moves, no reference into it stays usable.
LEMMA CutRoots ==
    ASSUME NEW moves, NEW L, \A root \in L : \E m \in moves : m[1] = <<root>>
    PROVE  Cut(moves, L)
<1> SUFFICES ASSUME NEW d, NEW v, GoodRef(callStack, frame, global, d, v), IsReference(Displaced(moves, v)),
                    Displaced(moves, v).mark = "live", Displaced(moves, v).at[1] \in L
             PROVE  FALSE
  BY DisplacedIs DEF Cut, NotInto
<1>0. IsReference(v) => "mark" \in DOMAIN v
  BY DEF GoodRef
<1>1. Displaced(moves, v) = v /\ \A m \in moves : ~IsPrefix(m[1], v.at)
  BY <1>0, DisplacedIs
<1>2. IsReference(v) /\ v.mark = "live" /\ v.at[1] \in L
  BY <1>1
<1>3. IsSeq(v.at) /\ Len(v.at) >= 1 /\ Len(v.at) \in Nat
  BY <1>2, SeqLen DEF GoodRef
<1> DEFINE root == v.at[1]
<1>4. IsSeq(<<root>>) /\ Len(<<root>>) = 1 /\ <<root>>[1] = root
  BY SeqOne
<1>5. \A i \in 1..1 : i = 1
  OBVIOUS
<1>6. IsPrefix(<<root>>, v.at)
  BY <1>3, <1>4, <1>5, PrefixIs
<1> QED BY <1>1, <1>2, <1>6

\* An instruction that moves values, writes locals and goes to a successor.
LEMMA ResumeOK ==
    ASSUME RunningOK, NEW moves, NEW L, Cut(moves, L), NEW base, LocalsOK(L, base),
           NEW rest, rest = Rest, NEW results, ResultsOK(results),
           \A j \in 1..Len(results) : NotInto(L, results[j]),
           NEW pc, pc \in Range(Successors(program[frame.fn], frame.pc)),
           Resume(moves, rest, results, base, pc)
    PROVE  Outcome
<1>1. /\ ShapeOK(program, callStack, frame, operandStack)
      /\ IsFrame(frame) /\ IsUnit(frame.fn, program[frame.fn])
      /\ Vetted(frame.fn, program[frame.fn]) /\ frame.pc \in Offsets(program[frame.fn])
  BY FrameNow
<1>2. ~(pc >= Len(Code(frame.fn)))
  <2>1. pc \in Offsets(program[frame.fn])
    BY <1>1, StaticNext
  <2>2. Len(program[frame.fn]) \in Nat /\ Offsets(program[frame.fn]) = 0..(Len(program[frame.fn]) - 1)
    BY <1>1, UnitFacts
  <2> QED BY <2>1, <2>2 DEF Code
<1>3. CASE Fail("EXECUTION_STACK_OVERFLOW")
  BY <1>3, FailOK DEF Stopped
<1>4. CASE ~Fail("EXECUTION_STACK_OVERFLOW")
  <2> DEFINE h == [frame EXCEPT !.locals = base, !.pc = pc]
             b == [x \in DOMAIN base |-> Displaced(moves, base[x])]
  <2>1. /\ operandStack' = [k \in DOMAIN rest |-> Displaced(moves, rest[k])] \o results
        /\ frame' = [h EXCEPT !.locals = [x \in DOMAIN h.locals |-> Displaced(moves, h.locals[x])]]
        /\ callStack' = [k \in DOMAIN callStack |-> [callStack[k] EXCEPT !.locals =
                           [x \in DOMAIN callStack[k].locals |-> Displaced(moves, callStack[k].locals[x])]]]
        /\ global' = global /\ status' = status
        /\ ~(Len(rest) + Len(results) > StackLimit)
    BY <1>2, <1>4 DEF Resume, MarkAll, MarkFrame
  <2>2. h = FrameRec(frame.fn, pc, base)
    BY <1>1, SetBoth
  <2> HIDE DEF h
  <2>3. IsFrame(h) /\ h.fn = frame.fn /\ h.pc = pc /\ h.locals = base
    BY <2>2, FrameRecIs
  <2>4. frame' = FrameRec(frame.fn, pc, b)
    <3> HIDE DEF b
    <3>1. frame' = [h EXCEPT !.locals = b]
      BY <2>1, <2>3 DEF b
    <3>2. [h EXCEPT !.locals = b] = FrameRec(h.fn, h.pc, b)
      BY <2>3, SetLocals
    <3> QED BY <2>3, <3>1, <3>2
  <2>5. b = [x \in Locals(frame.fn) |-> Displaced(moves, base[x])]
    BY DEF LocalsOK
  <2> HIDE DEF b
  <2>6. /\ RunOK(program, callStack', frame', operandStack', global')
        /\ Len(operandStack') = Len(Rest) + Len(results)
    <3>1. operandStack' = [k \in DOMAIN Rest |-> Displaced(moves, Rest[k])] \o results
      BY <2>1
    <3>2. frame' = FrameRec(frame.fn, pc, [x \in Locals(frame.fn) |-> Displaced(moves, base[x])])
      BY <2>4, <2>5
    <3>3. Moved(moves, base, results, pc)
      BY <2>1, <3>1, <3>2 DEF Moved
    <3> QED BY <3>3, MovedOn
  <2>7. Len(operandStack') \in Nat /\ StackLimit \in Nat
    BY <2>6, SeqLen, InterpreterConstants DEF RunOK, ShapeOK
  <2> QED BY <2>1, <2>6, <2>7 DEF Outcome, RunningOK
<1> QED BY <1>3, <1>4

\* The locals are what they were.
LEMMA SameLocals ==
    ASSUME RunningOK, Current.op \notin {"StLoc", "MoveLoc"}
    PROVE  LocalsOK({}, frame.locals)
<1>1. LocalsTyped(frame.fn, frame.locals) /\ Len(callStack) \in Nat
  BY FrameNow
<1>2. HeldAfter(Current, Filled(frame)) = Filled(frame)
  BY DEF HeldAfter
<1>3. Here \in Depths(callStack) /\ FrameAt(callStack, frame, Here) = frame
  BY <1>1 DEF Depths, FrameAt, Here
<1>4. \A x \in Locals(frame.fn) : GoodRef(callStack, frame, global, Here, frame.locals[x])
  BY <1>3 DEF RunningOK, RunOK, RefsOK
<1> QED BY <1>1, <1>2, <1>4 DEF LocalsOK, LocalsTyped, Filled

\* Where a jump leads is a successor.
LEMMA JumpTo ==
    ASSUME RunningOK, NEW moves, NEW rest, rest = Rest, NEW results, ResultsOK(results),
           Current.op \notin {"StLoc", "MoveLoc"},
           NEW pc, pc \in Range(Successors(program[frame.fn], frame.pc)),
           Resume(moves, rest, results, frame.locals, pc)
    PROVE  Outcome
<1>1. Cut(moves, {}) /\ LocalsOK({}, frame.locals)
  BY CutNone, SameLocals
<1>2. \A j \in 1..Len(results) : NotInto({}, results[j])
  BY DEF NotInto
<1> QED BY <1>1, <1>2, ResumeOK

\* An instruction that goes on to the next one.
LEMMA ContinueOK ==
    ASSUME RunningOK, NEW moves, NEW rest, rest = Rest, NEW results, ResultsOK(results),
           Current.op \notin {"StLoc", "MoveLoc", "Ret", "Abort", "Branch"}, Continue(moves, rest, results)
    PROVE  Outcome
<1>1. Vetted(frame.fn, program[frame.fn]) /\ frame.pc \in Offsets(program[frame.fn])
  BY FrameNow
<1>2. ~IsUnconditional(At(program[frame.fn], frame.pc))
  BY DEF IsUnconditional, Current, Code
<1>3. frame.pc + 1 \in Range(Successors(program[frame.fn], frame.pc))
  BY <1>1, <1>2, GoesOn
<1> QED BY <1>3, JumpTo DEF Continue

\* A branch.
LEMMA JumpOK ==
    ASSUME RunningOK, NEW rest, rest = Rest, StaticResults = <<>>, HasOffset(Current),
           NEW pc, pc = Current.a \/ (pc = frame.pc + 1 /\ IsConditional(Current)), Jump(rest, pc)
    PROVE  Outcome
<1>1. /\ Vetted(frame.fn, program[frame.fn]) /\ frame.pc \in Offsets(program[frame.fn])
      /\ IsUnit(frame.fn, program[frame.fn])
  BY FrameNow
<1>2. Current = At(program[frame.fn], frame.pc)
  BY DEF Current, Code
<1>3. pc \in Range(Successors(program[frame.fn], frame.pc))
  <2>1. CASE pc = Current.a
    BY <1>1, <1>2, <2>1, SuccessorsHave
  <2>2. CASE pc = frame.pc + 1 /\ IsConditional(Current)
    <3>1. ~IsUnconditional(At(program[frame.fn], frame.pc))
      BY <1>2, <2>2 DEF IsUnconditional, IsConditional
    <3> QED BY <1>1, <2>2, <3>1, GoesOn
  <2> QED BY <2>1, <2>2
<1>4. ResultsOK(<<>>)
  <2>1. \A j \in 1..Len(<<>>) : FALSE
    OBVIOUS
  <2> QED BY <2>1, SeqNone DEF ResultsOK
<1>5. Current.op \notin {"StLoc", "MoveLoc"}
  BY DEF HasOffset
<1> QED BY <1>3, <1>4, <1>5, JumpTo DEF Jump

-----------------------------------------------------------------------------
(* The operands of the current instruction.                                *)

ValueOK(v, t) == HasType(v, t) /\ GoodRef(callStack, frame, global, Here, v)

\* The operands of the current instruction are on the stack and have the static types.
LEMMA OperandsNow ==
    ASSUME RunningOK, NEW n, n = NumPops(frame.fn, Current)
    PROVE  /\ n \in Nat /\ Depth \in Nat /\ Depth >= n /\ Below(n) = Rest
           /\ IsSeq(StaticOperands) /\ Len(StaticOperands) = n
           /\ TypeCheck(frame.fn, Current, StaticOperands)
           /\ IsSeq(TopN(n)) /\ Len(TopN(n)) = n
           /\ \A k \in 1..n : TopN(n)[k] = operandStack[Depth - n + k] /\ ValueOK(TopN(n)[k], StaticOperands[k])
<1> DEFINE S == operandStack
<1>1. ProgramOK(program) /\ ShapeOK(program, callStack, frame, S) /\ Len(S) \in Nat /\ IsSeq(S)
  BY FrameNow
<1>2. /\ n \in Nat /\ n <= Len(S)
      /\ IsSeq(StaticOperands) /\ Len(StaticOperands) = n
      /\ TypeCheck(frame.fn, Current, StaticOperands)
      /\ \A k \in 1..n : HasType(S[Len(S) - n + k], StaticOperands[k])
  BY <1>1, OperandsThere, CurrentIs DEF StaticOperands, StaticTypes
<1>3. IsSeq(TopN(n)) /\ Len(TopN(n)) = n /\ \A k \in 1..n : TopN(n)[k] = S[Len(S) - n + k]
  BY <1>1, <1>2, SeqSuffix DEF TopN, Depth
<1>4. \A k \in 1..n : Len(S) - n + k \in 1..Len(S)
  BY <1>1, <1>2
<1>5. \A k \in 1..n : GoodRef(callStack, frame, global, Here, S[Len(S) - n + k])
  BY <1>4 DEF RunningOK, RunOK, RefsOK, Here
<1> QED BY <1>1, <1>2, <1>3, <1>5 DEF ValueOK, Depth, Below, Rest

\* An instruction without operands.
LEMMA NoOperand ==
    ASSUME RunningOK, NumPops(frame.fn, Current) = 0
    PROVE  operandStack = Rest
<1>1. IsSeq(operandStack)
  BY FrameNow
<1>2. PICK S : operandStack \in Seq(S)
  BY <1>1 DEF IsSeq
<1>3. Len(operandStack) - 0 = Len(operandStack)
  BY <1>2
<1>4. SubSeq(operandStack, 1, Len(operandStack)) = operandStack
  BY <1>2
<1> QED BY <1>3, <1>4 DEF Rest

\* The operand of an instruction with one.
LEMMA OneOperand ==
    ASSUME RunningOK, NumPops(frame.fn, Current) = 1
    PROVE  /\ Depth \in Nat /\ Depth >= 1 /\ Below(1) = Rest /\ ValueOK(Top, StaticOperands[1])
           /\ TypeCheck(frame.fn, Current, StaticOperands) /\ IsSeq(StaticOperands) /\ Len(StaticOperands) = 1
<1>1. /\ Depth \in Nat /\ Depth >= 1 /\ Below(1) = Rest /\ TypeCheck(frame.fn, Current, StaticOperands)
      /\ IsSeq(StaticOperands) /\ Len(StaticOperands) = 1
      /\ \A k \in 1..1 : TopN(1)[k] = operandStack[Depth - 1 + k] /\ ValueOK(TopN(1)[k], StaticOperands[k])
  BY OperandsNow
<1>2. 1 \in 1..1 /\ Depth - 1 + 1 = Depth
  BY <1>1
<1> QED BY <1>1, <1>2 DEF Top

\* The operands of an instruction with two.
LEMMA TwoOperands ==
    ASSUME RunningOK, NumPops(frame.fn, Current) = 2
    PROVE  /\ Depth \in Nat /\ Depth >= 2 /\ Below(2) = Rest /\ TypeCheck(frame.fn, Current, StaticOperands)
           /\ ValueOK(TopN(2)[1], StaticOperands[1]) /\ ValueOK(TopN(2)[2], StaticOperands[2]) /\ Top = TopN(2)[2]
<1>1. /\ Depth \in Nat /\ Depth >= 2 /\ Below(2) = Rest /\ TypeCheck(frame.fn, Current, StaticOperands)
      /\ \A k \in 1..2 : TopN(2)[k] = operandStack[Depth - 2 + k] /\ ValueOK(TopN(2)[k], StaticOperands[k])
  BY OperandsNow
<1>2. 1 \in 1..2 /\ 2 \in 1..2 /\ Depth - 2 + 2 = Depth
  BY <1>1
<1> QED BY <1>1, <1>2 DEF Top

\* The operands of an instruction with three.
LEMMA ThreeOperands ==
    ASSUME RunningOK, NumPops(frame.fn, Current) = 3
    PROVE  /\ Depth \in Nat /\ Depth >= 3 /\ Below(3) = Rest /\ TypeCheck(frame.fn, Current, StaticOperands)
           /\ ValueOK(TopN(3)[1], StaticOperands[1])
           /\ TopN(2)[1] = TopN(3)[2] /\ TopN(2)[2] = TopN(3)[3]
           /\ ValueOK(TopN(3)[2], StaticOperands[2]) /\ ValueOK(TopN(3)[3], StaticOperands[3])
<1>1. /\ Depth \in Nat /\ Depth >= 3 /\ Below(3) = Rest /\ TypeCheck(frame.fn, Current, StaticOperands)
      /\ \A k \in 1..3 : TopN(3)[k] = operandStack[Depth - 3 + k] /\ ValueOK(TopN(3)[k], StaticOperands[k])
  BY OperandsNow
<1>2. 1 \in 1..3 /\ 2 \in 1..3 /\ 3 \in 1..3 /\ Depth - 3 + 2 = Depth - 2 + 1 /\ Depth - 3 + 3 = Depth - 2 + 2
  BY <1>1
<1>3. IsSeq(operandStack)
  BY FrameNow
<1>4. \A k \in 1..2 : TopN(2)[k] = operandStack[Depth - 2 + k]
  BY <1>1, <1>3, SeqSuffix DEF TopN, Depth
<1>5. 1 \in 1..2 /\ 2 \in 1..2
  OBVIOUS
<1> QED BY <1>1, <1>2, <1>4, <1>5

\* The results of an instruction.
LEMMA NoResult ==
    ASSUME StaticResults = <<>>
    PROVE  ResultsOK(<<>>)
<1>1. \A j \in 1..Len(<<>>) : FALSE
  OBVIOUS
<1> QED BY <1>1, SeqNone DEF ResultsOK

\* An instruction with one result.
LEMMA OneResult ==
    ASSUME NEW t, StaticResults = <<t>>, NEW v, ValueOK(v, t)
    PROVE  ResultsOK(<<v>>)
<1>1. IsSeq(<<v>>) /\ Len(<<v>>) = 1 /\ Len(<<t>>) = 1 /\ <<v>>[1] = v /\ <<t>>[1] = t
  BY SeqOne
<1>2. \A j \in 1..1 : j = 1
  OBVIOUS
<1> HIDE DEF ValueOK
<1>3. \A j \in 1..Len(<<v>>) : ValueOK(<<v>>[j], <<t>>[j])
  BY <1>1, <1>2
<1> QED BY <1>1, <1>3 DEF ResultsOK, ValueOK

\* A typed value is a good result.
LEMMA PlainValue ==
    ASSUME NEW t \in Types, Kind(t) \notin ReferenceKinds, NEW v, Typed(v), v.ty = t
    PROVE  ValueOK(v, t)
<1>1. HasType(v, t)
  BY DEF HasType
<1>2. ~IsReference(v)
  BY TypedIsNoReference
<1> QED BY <1>1, <1>2 DEF ValueOK, GoodRef

\* A value without components is typed.
LEMMA FlatTyped ==
    ASSUME NEW t \in Types, Kind(t) \in {"int", "bool", "address"}, NEW b \in BOOLEAN
    PROVE  Typed(Val(t, b, <<>>)) /\ Val(t, b, <<>>).ty = t
<1>1. Desc[t].args = <<>>
  BY TypeTable
<1>2. IsSeq(<<>>) /\ Len(<<>>) = 0
  BY SeqNone
<1>3. \A k \in 1..Len(<<>>) : FALSE
  BY <1>2
<1>4. Typed(Val(t, b, <<>>))
  BY <1>1, <1>2, <1>3, TypedBuild DEF ReferenceKinds
<1> QED BY <1>4 DEF Val

\* A value without components is a good result.
LEMMA FlatOK ==
    ASSUME NEW t \in Types, Kind(t) \in {"int", "bool", "address"}, NEW b \in BOOLEAN
    PROVE  ValueOK(Val(t, b, <<>>), t)
BY FlatTyped, PlainValue DEF ReferenceKinds

\* The local an instruction takes or borrows has a value.
LEMMA LocalHeld ==
    ASSUME RunningOK, Current.op \in {"MoveLoc", "CopyLoc", "MutBorrowLoc", "ImmBorrowLoc"}
    PROVE  /\ Current.a \in Locals(frame.fn) /\ frame.locals[Current.a] # Invalid
           /\ ValueOK(frame.locals[Current.a], LocalAt(frame.fn, Current.a))
<1> DEFINE f == frame.fn
           c == program[f]
<1>1. /\ FrameOK(program, frame) /\ LocalsTyped(frame.fn, frame.locals) /\ Vetted(f, c) /\ IsUnit(f, c)
      /\ frame.pc \in Offsets(c) /\ Len(callStack) \in Nat
  BY FrameNow
<1>2. Current = At(c, frame.pc)
  BY DEF Current, Code
<1>3. Current.a \in Locals(f)
  BY <1>1, <1>2, UnitFacts DEF LocalOps
<1>4. PathSafe(f, c, <<frame.pc, Filled(frame)>>)
  BY <1>1, ReachedUnsafe DEF FrameOK, Vetted
<1>5. Current.a \in Filled(frame)
  BY <1>2, <1>4 DEF PathSafe
<1>6. frame.locals[Current.a] # Invalid
  BY <1>5 DEF Filled
<1>7. HasType(frame.locals[Current.a], LocalAt(f, Current.a))
  BY <1>1, <1>3, <1>6 DEF LocalsTyped
<1>8. Here \in Depths(callStack) /\ FrameAt(callStack, frame, Here) = frame
  BY <1>1 DEF Depths, FrameAt, Here
<1>9. GoodRef(callStack, frame, global, Here, frame.locals[Current.a])
  BY <1>3, <1>8 DEF RunningOK, RunOK, RefsOK
<1> QED BY <1>3, <1>6, <1>7, <1>9 DEF ValueOK

-----------------------------------------------------------------------------
(* One lemma for each instruction.                                         *)

\* The instruction an action is for.
LEMMA RunningOp ==
    ASSUME NEW op, Running(op)
    PROVE  Current.op = op
BY DEF Running, Current

\* Each of the following lemmas says of one instruction that it ends the run with an error of the
\* program's own or leads to a state in which everything is typed again.
LEMMA PopOK ==
    ASSUME RunningOK, PopInstr
    PROVE  Outcome
<1>1. Current.op = "Pop"
  BY RunningOp DEF PopInstr
<1>2. NumPops(frame.fn, Current) = 1 /\ StaticResults = <<>>
  BY <1>1 DEF NumPops, StaticResults, Pushed
<1>3. Depth >= 1 /\ Below(1) = Rest
  BY <1>2, OneOperand
<1>4. Continue(Dropping(1), Below(1), <<>>)
  BY <1>3 DEF PopInstr, Unless
<1> QED BY <1>1, <1>2, <1>3, <1>4, NoResult, ContinueOK

LEMMA NopOK ==
    ASSUME RunningOK, Nop
    PROVE  Outcome
<1>1. Current.op = "Nop"
  BY RunningOp DEF Nop
<1>2. NumPops(frame.fn, Current) = 0 /\ StaticResults = <<>>
  BY <1>1 DEF NumPops, StaticResults, Pushed
<1>3. operandStack = Rest /\ Continue({}, operandStack, <<>>)
  BY <1>2, NoOperand DEF Nop
<1> QED BY <1>1, <1>2, <1>3, NoResult, ContinueOK

LEMMA ConditionalBranchOK ==
    ASSUME RunningOK, NEW op \in {"BrTrue", "BrFalse"}, NEW b \in BOOLEAN, ConditionalBranch(op, b)
    PROVE  Outcome
<1>1. Current.op = op
  BY RunningOp DEF ConditionalBranch
<1>2. NumPops(frame.fn, Current) = 1 /\ StaticResults = <<>> /\ HasOffset(Current) /\ IsConditional(Current)
  BY <1>1 DEF NumPops, StaticResults, Pushed, HasOffset, IsConditional
<1>3. /\ Depth >= 1 /\ Below(1) = Rest /\ ValueOK(Top, StaticOperands[1])
      /\ TypeCheck(frame.fn, Current, StaticOperands)
  BY <1>2, OneOperand
<1>4. Kind(StaticOperands[1]) = "bool"
  BY <1>1, <1>3 DEF TypeCheck, LocalsOk
<1>5. Rep(Top) = "bool"
  BY <1>3, <1>4, HasTypeFacts DEF ValueOK
<1>6. Jump(Below(1), IF Top.b = b THEN Current.a ELSE frame.pc + 1)
  BY <1>3, <1>5 DEF ConditionalBranch, Unless
<1> QED BY <1>2, <1>3, <1>6, JumpOK

LEMMA BranchOK ==
    ASSUME RunningOK, Branch
    PROVE  Outcome
<1>1. Current.op = "Branch"
  BY RunningOp DEF Branch
<1>2. NumPops(frame.fn, Current) = 0 /\ StaticResults = <<>> /\ HasOffset(Current)
  BY <1>1 DEF NumPops, StaticResults, Pushed, HasOffset
<1>3. operandStack = Rest /\ Jump(operandStack, Current.a)
  BY <1>2, NoOperand DEF Branch
<1> QED BY <1>2, <1>3, JumpOK

\* The type of booleans.
LEMMA BoolIs ==
    ASSUME \E t \in Types : Kind(t) = "bool"
    PROVE  BoolType \in Types /\ Kind(BoolType) = "bool"
BY DEF BoolType

\* What the bounds checker established of the current instruction.
LEMMA InstructionNow ==
    ASSUME RunningOK
    PROVE  /\ Current.op \in LocalOps => Current.a \in Locals(frame.fn)
           /\ Current.op \in PoolOps => Current.a \in DOMAIN Pool /\ Pool[Current.a] \in Types
           /\ Current.op \in {"MutBorrowField", "ImmBorrowField"} =>
                 Kind(Pool[Current.a]) = "struct" /\ Current.n \in DOMAIN Desc[Pool[Current.a]].args
           /\ Current.op = "Call" => Current.a \in Functions /\ Current.a \in DOMAIN program
           /\ ResultsInTable(frame.fn, Current) /\ Current.n \in Nat /\ frame.fn \in Functions
<1>1. /\ IsUnit(frame.fn, program[frame.fn]) /\ frame.pc \in Offsets(program[frame.fn])
      /\ ProgramOK(program) /\ FrameOK(program, frame)
  BY FrameNow
<1>2. WellFormedCode(frame.fn, program[frame.fn]) /\ frame.fn \in Functions
  BY <1>1 DEF IsUnit
<1>3. Current = At(program[frame.fn], frame.pc)
  BY DEF Current, Code
<1>4. Current.n \in Nat
  <2> DEFINE c == program[frame.fn]
             k == frame.pc + 1
             I == [op : STRING, a : Nat, n : Nat]
  <2>1. c \in Seq(I)
    BY <1>2 DEF WellFormedCode
  <2>2. k \in 1..Len(c)
    BY <1>1, UnitFacts
  <2>3. Current = c[k]
    BY <1>3 DEF At
  <2>4. \A i \in I : i.n \in Nat
    OBVIOUS
  <2> HIDE DEF c, k, I
  <2>5. c[k] \in I
    BY <2>1, <2>2
  <2> QED BY <2>3, <2>4, <2>5
<1>5. Current.op = "Call" => Current.a \in DOMAIN program
  BY <1>1, <1>3 DEF ProgramOK, FrameOK
<1> QED BY <1>1, <1>2, <1>3, <1>4, <1>5 DEF WellFormedCode

BoolOps == {"LdTrue", "LdFalse", "Not", "And", "Eq", "Lt", "Exists"}

\* The result of a comparison.
LEMMA BoolResult ==
    ASSUME RunningOK, Current.op \in BoolOps, NEW b \in BOOLEAN
    PROVE  ResultsOK(<<Bool(b)>>)
<1>1. BoolType \in Types /\ Kind(BoolType) = "bool"
  BY InstructionNow, BoolIs DEF ResultsInTable, BoolOps
<1>2. StaticResults = <<BoolType>>
  <2>1. Current.op # "LdU64"
    BY DEF BoolOps
  <2> QED BY <2>1 DEF StaticResults, Pushed, BoolOps, BoolType
<1>3. ValueOK(Bool(b), BoolType)
  BY <1>1, FlatOK DEF Bool
<1> QED BY <1>2, <1>3, OneResult

\* The result of an arithmetic instruction.
LEMMA U64Result ==
    ASSUME StaticResults = <<U64>>
    PROVE  ResultsOK(<<Flat(U64)>>)
<1>1. ValueOK(Flat(U64), U64)
  BY TypeTable, FlatOK DEF Flat
<1> QED BY <1>1, OneResult

LEMMA LoadOK ==
    ASSUME RunningOK, Load
    PROVE  Outcome
<1>1. CASE Running("LdU64") /\ Continue({}, operandStack, <<Flat(U64)>>)
  <2>1. Current.op = "LdU64"
    BY <1>1, RunningOp
  <2>2. NumPops(frame.fn, Current) = 0 /\ StaticResults = <<U64>>
    BY <2>1 DEF NumPops, StaticResults, Pushed
  <2> QED BY <1>1, <2>1, <2>2, NoOperand, U64Result, ContinueOK
<1>2. ASSUME NEW op \in {"LdTrue", "LdFalse"}, NEW b \in BOOLEAN, Running(op), Continue({}, operandStack, <<Bool(b)>>)
      PROVE  Outcome
  <2>1. Current.op = op
    BY <1>2, RunningOp
  <2>2. NumPops(frame.fn, Current) = 0
    BY <2>1 DEF NumPops
  <2>3. ResultsOK(<<Bool(b)>>)
    BY <2>1, BoolResult DEF BoolOps
  <2> QED BY <1>2, <2>1, <2>2, <2>3, NoOperand, ContinueOK
<1> QED BY <1>1, <1>2 DEF Load

LEMMA CopyLocOK ==
    ASSUME RunningOK, CopyLoc
    PROVE  Outcome
<1>1. Current.op = "CopyLoc"
  BY RunningOp DEF CopyLoc
<1>2. NumPops(frame.fn, Current) = 0 /\ StaticResults = <<LocalAt(frame.fn, Current.a)>>
  BY <1>1 DEF NumPops, StaticResults, Pushed
<1>3. frame.locals[Current.a] # Invalid /\ ValueOK(frame.locals[Current.a], LocalAt(frame.fn, Current.a))
  BY <1>1, LocalHeld
<1>4. Continue({}, operandStack, <<frame.locals[Current.a]>>)
  BY <1>3 DEF CopyLoc, Unless
<1> QED BY <1>1, <1>2, <1>3, <1>4, NoOperand, OneResult, ContinueOK

LEMMA AddOK ==
    ASSUME RunningOK, Add
    PROVE  Outcome
<1>1. Current.op = "Add"
  BY RunningOp DEF Add
<1>2. NumPops(frame.fn, Current) = 2 /\ StaticResults = <<StaticOperands[1]>>
  BY <1>1 DEF NumPops, StaticResults, Pushed
<1>3. /\ Depth >= 2 /\ Below(2) = Rest /\ TypeCheck(frame.fn, Current, StaticOperands)
      /\ ValueOK(TopN(2)[1], StaticOperands[1]) /\ ValueOK(TopN(2)[2], StaticOperands[2])
  BY <1>2, TwoOperands
<1>4. Kind(StaticOperands[1]) = "int" /\ StaticOperands[1] = StaticOperands[2]
  BY <1>1, <1>3 DEF TypeCheck, OperatorOk
<1>5. /\ Rep(TopN(2)[1]) = "int" /\ TopN(2)[1].ty = TopN(2)[2].ty /\ TopN(2)[1].ty = StaticOperands[1]
      /\ StaticOperands[1] \in Types
  BY <1>3, <1>4, HasTypeFacts DEF ValueOK
<1>6. ValueOK(Flat(StaticOperands[1]), StaticOperands[1])
  BY <1>4, <1>5, FlatOK DEF Flat
<1>7. Continue({}, Below(2), <<Flat(TopN(2)[1].ty)>>) \/ Fail("ARITHMETIC_ERROR")
  BY <1>3, <1>5 DEF Add, Unless
<1>8. ResultsOK(<<Flat(TopN(2)[1].ty)>>)
  BY <1>2, <1>5, <1>6, OneResult
<1>9. "ARITHMETIC_ERROR" \in Stopped
  BY DEF Stopped
<1> QED BY <1>1, <1>3, <1>7, <1>8, <1>9, ContinueOK, FailOK

LEMMA AndOK ==
    ASSUME RunningOK, And
    PROVE  Outcome
<1>1. Current.op = "And"
  BY RunningOp DEF And
<1>2. NumPops(frame.fn, Current) = 2
  BY <1>1 DEF NumPops
<1>3. /\ Depth >= 2 /\ Below(2) = Rest /\ TypeCheck(frame.fn, Current, StaticOperands)
      /\ ValueOK(TopN(2)[1], StaticOperands[1]) /\ ValueOK(TopN(2)[2], StaticOperands[2])
  BY <1>2, TwoOperands
<1>4. Kind(StaticOperands[1]) = "bool" /\ Kind(StaticOperands[2]) = "bool"
  BY <1>1, <1>3 DEF TypeCheck, OperatorOk
<1>5. Rep(TopN(2)[1]) = "bool" /\ Rep(TopN(2)[2]) = "bool"
  BY <1>3, <1>4, HasTypeFacts DEF ValueOK
<1> DEFINE b == TopN(2)[1].b /\ TopN(2)[2].b
<1>6. Continue({}, Below(2), <<Bool(b)>>)
  BY <1>3, <1>5 DEF And, Unless
<1>7. b \in BOOLEAN
  OBVIOUS
<1> HIDE DEF b
<1>8. ResultsOK(<<Bool(b)>>)
  BY <1>1, <1>7, BoolResult DEF BoolOps
<1> QED BY <1>1, <1>3, <1>6, <1>8, ContinueOK

LEMMA NotOK ==
    ASSUME RunningOK, Not
    PROVE  Outcome
<1>1. Current.op = "Not"
  BY RunningOp DEF Not
<1>2. NumPops(frame.fn, Current) = 1
  BY <1>1 DEF NumPops
<1>3. /\ Depth >= 1 /\ Below(1) = Rest /\ TypeCheck(frame.fn, Current, StaticOperands)
      /\ ValueOK(Top, StaticOperands[1])
  BY <1>2, OneOperand
<1>4. Kind(StaticOperands[1]) = "bool"
  BY <1>1, <1>3 DEF TypeCheck, OperatorOk
<1>5. Rep(Top) = "bool"
  BY <1>3, <1>4, HasTypeFacts DEF ValueOK
<1> DEFINE b == ~Top.b
<1>6. Continue({}, Below(1), <<Bool(b)>>)
  BY <1>3, <1>5 DEF Not, Unless
<1>7. b \in BOOLEAN
  OBVIOUS
<1> HIDE DEF b
<1>8. ResultsOK(<<Bool(b)>>)
  BY <1>1, <1>7, BoolResult DEF BoolOps
<1> QED BY <1>1, <1>3, <1>6, <1>8, ContinueOK

LEMMA AbortOK ==
    ASSUME RunningOK, Abort
    PROVE  Outcome
<1>1. Current.op = "Abort"
  BY RunningOp DEF Abort
<1>2. NumPops(frame.fn, Current) = 1
  BY <1>1 DEF NumPops
<1>3. Depth >= 1 /\ TypeCheck(frame.fn, Current, StaticOperands) /\ ValueOK(Top, StaticOperands[1])
  BY <1>2, OneOperand
<1>4. StaticOperands = <<U64>>
  BY <1>1, <1>3 DEF TypeCheck, LocalsOk
<1>5. Top.ty = U64
  BY <1>3, <1>4, HasTypeFacts DEF ValueOK
<1>6. Fail("ABORTED")
  BY <1>3, <1>5 DEF Abort, Unless
<1> QED BY <1>6, FailOK DEF Stopped

LEMMA CastU8OK ==
    ASSUME RunningOK, CastU8
    PROVE  Outcome
<1> DEFINE u == CHOOSE t \in Types : Kind(t) = "int" /\ t # U64
<1>1. Current.op = "CastU8"
  BY RunningOp DEF CastU8
<1>2. NumPops(frame.fn, Current) = 1 /\ StaticResults = <<u>>
  BY <1>1 DEF NumPops, StaticResults, Pushed
<1>3. /\ Depth >= 1 /\ Below(1) = Rest /\ TypeCheck(frame.fn, Current, StaticOperands)
      /\ ValueOK(Top, StaticOperands[1])
  BY <1>2, OneOperand
<1>4. Kind(StaticOperands[1]) = "int"
  BY <1>1, <1>3 DEF TypeCheck, OperatorOk
<1>5. Rep(Top) = "int"
  BY <1>3, <1>4, HasTypeFacts DEF ValueOK
<1>6. u \in Types /\ Kind(u) = "int"
  <2>1. \E t \in Types : Kind(t) = "int" /\ t # U64
    BY <1>1, InstructionNow DEF ResultsInTable
  <2> QED BY <2>1
<1>7. Continue({}, Below(1), <<Flat(u)>>) \/ Fail("ARITHMETIC_ERROR")
  BY <1>3, <1>5 DEF CastU8, Unless, Pops
<1> HIDE DEF u
<1>8. ValueOK(Flat(u), u)
  BY <1>6, FlatOK DEF Flat
<1>9. "ARITHMETIC_ERROR" \in Stopped
  BY DEF Stopped
<1>10. ResultsOK(<<Flat(u)>>)
  BY <1>2, <1>8, OneResult
<1> QED BY <1>1, <1>3, <1>7, <1>9, <1>10, ContinueOK, FailOK

LEMMA CastU64OK ==
    ASSUME RunningOK, CastU64
    PROVE  Outcome
<1>1. Current.op = "CastU64"
  BY RunningOp DEF CastU64
<1>2. NumPops(frame.fn, Current) = 1 /\ StaticResults = <<U64>>
  BY <1>1 DEF NumPops, StaticResults, Pushed
<1>3. /\ Depth >= 1 /\ Below(1) = Rest /\ TypeCheck(frame.fn, Current, StaticOperands)
      /\ ValueOK(Top, StaticOperands[1])
  BY <1>2, OneOperand
<1>4. Kind(StaticOperands[1]) = "int"
  BY <1>1, <1>3 DEF TypeCheck, OperatorOk
<1>5. Rep(Top) = "int"
  BY <1>3, <1>4, HasTypeFacts DEF ValueOK
<1>6. Continue({}, Below(1), <<Flat(U64)>>)
  BY <1>3, <1>5 DEF CastU64, Unless, Pops
<1> QED BY <1>1, <1>2, <1>3, <1>6, U64Result, ContinueOK

LEMMA LtOK ==
    ASSUME RunningOK, Lt
    PROVE  Outcome
<1>1. Current.op = "Lt"
  BY RunningOp DEF Lt
<1>2. NumPops(frame.fn, Current) = 2
  BY <1>1 DEF NumPops
<1>3. /\ Depth >= 2 /\ Below(2) = Rest /\ TypeCheck(frame.fn, Current, StaticOperands)
      /\ ValueOK(TopN(2)[1], StaticOperands[1]) /\ ValueOK(TopN(2)[2], StaticOperands[2])
  BY <1>2, TwoOperands
<1>4. Kind(StaticOperands[1]) = "int" /\ StaticOperands[1] = StaticOperands[2]
  BY <1>1, <1>3 DEF TypeCheck, OperatorOk
<1>5. Rep(TopN(2)[1]) = "int" /\ TopN(2)[1].ty = TopN(2)[2].ty
  BY <1>3, <1>4, HasTypeFacts DEF ValueOK
<1>6. PICK b \in BOOLEAN : Continue({}, Below(2), <<Bool(b)>>)
  BY <1>3, <1>5 DEF Lt, Unless, Pops
<1>7. ResultsOK(<<Bool(b)>>)
  BY <1>1, BoolResult DEF BoolOps
<1> QED BY <1>1, <1>3, <1>6, <1>7, ContinueOK

LEMMA OutOfGasOK ==
    ASSUME OutOfGas
    PROVE  Outcome
BY FailOK DEF OutOfGas, Stopped

-----------------------------------------------------------------------------
(* MoveLoc and StLoc: references to what the local held are dangling.      *)

\* The local l is given the value v, Invalid when it is moved out.
LEMMA LocalGiven ==
    ASSUME RunningOK, NEW l \in Locals(frame.fn), NEW v, GoodRef(callStack, frame, global, Here, v),
           v = Invalid \/ HasType(v, LocalAt(frame.fn, l)),
           HeldAfter(Current, Filled(frame)) = IF v = Invalid THEN Filled(frame) \ {l} ELSE Filled(frame) \union {l}
    PROVE  LocalsOK({LocalRoot(Here, l)}, [frame.locals EXCEPT ![l] = v])
<1> DEFINE base == [frame.locals EXCEPT ![l] = v]
<1>1. LocalsTyped(frame.fn, frame.locals) /\ Len(callStack) \in Nat
  BY FrameNow
<1>2. frame.locals = [x \in Locals(frame.fn) |-> frame.locals[x]]
  BY <1>1 DEF LocalsTyped
<1>3. /\ base = [x \in Locals(frame.fn) |-> base[x]] /\ base[l] = v
      /\ \A x \in Locals(frame.fn) : x # l => base[x] = frame.locals[x]
  BY <1>2
<1> HIDE DEF base
<1>4. Here \in Depths(callStack) /\ FrameAt(callStack, frame, Here) = frame
  BY <1>1 DEF Depths, FrameAt, Here
<1>5. \A x \in Locals(frame.fn) : GoodRef(callStack, frame, global, Here, frame.locals[x])
  BY <1>4 DEF RunningOK, RunOK, RefsOK
<1>6. \A x \in Locals(frame.fn) :
          /\ GoodRef(callStack, frame, global, Here, base[x])
          /\ base[x] = Invalid \/ HasType(base[x], LocalAt(frame.fn, x))
          /\ LocalRoot(Here, x) \notin {LocalRoot(Here, l)} => base[x] = frame.locals[x]
  <2> SUFFICES ASSUME NEW x \in Locals(frame.fn)
               PROVE  /\ GoodRef(callStack, frame, global, Here, base[x])
                      /\ base[x] = Invalid \/ HasType(base[x], LocalAt(frame.fn, x))
                      /\ LocalRoot(Here, x) \notin {LocalRoot(Here, l)} => base[x] = frame.locals[x]
    OBVIOUS
  <2>1. CASE x = l
    BY <1>3, <2>1
  <2>2. CASE x # l
    BY <1>1, <1>3, <1>5, <2>2 DEF LocalsTyped
  <2> QED BY <2>1, <2>2
<1>7. HeldAfter(Current, Filled(frame)) = {x \in Locals(frame.fn) : base[x] # Invalid}
  BY <1>3 DEF Filled
<1>8. LocalsOK({LocalRoot(Here, l)}, base)
  BY <1>3, <1>6, <1>7 DEF LocalsOK
<1> QED BY <1>8 DEF base

\* What a write to a local of the current frame leaves.
LEMMA LocalResume ==
    ASSUME RunningOK, NEW l \in Locals(frame.fn), NEW v, GoodRef(callStack, frame, global, Here, v),
           v = Invalid \/ HasType(v, LocalAt(frame.fn, l)),
           HeldAfter(Current, Filled(frame)) = IF v = Invalid THEN Filled(frame) \ {l} ELSE Filled(frame) \union {l},
           NEW results, ResultsOK(results), \A j \in 1..Len(results) : NotInto({LocalRoot(Here, l)}, results[j]),
           ~IsUnconditional(Current), NEW rest, rest = Rest, NEW moves, \E m \in moves : m[1] = ThisLocal(l),
           Resume(moves, rest, results, [frame.locals EXCEPT ![l] = v], frame.pc + 1)
    PROVE  Outcome
<1> DEFINE L == {LocalRoot(Here, l)}
           base == [frame.locals EXCEPT ![l] = v]
<1>1. Vetted(frame.fn, program[frame.fn]) /\ frame.pc \in Offsets(program[frame.fn])
  BY FrameNow
<1>2. frame.pc + 1 \in Range(Successors(program[frame.fn], frame.pc))
  BY <1>1, GoesOn DEF Current, Code
<1>3. LocalsOK(L, base)
  BY LocalGiven
<1>4. Cut(moves, L)
  <2>1. \A root \in L : \E m \in moves : m[1] = <<root>>
    BY DEF ThisLocal, Here
  <2> QED BY <2>1, CutRoots
<1>5. (\A j \in 1..Len(results) : NotInto(L, results[j])) /\ Resume(moves, rest, results, base, frame.pc + 1)
  OBVIOUS
<1> HIDE DEF L, base
<1> QED BY <1>2, <1>3, <1>4, <1>5, ResumeOK

\* A local that holds a reference is not the root of that reference.
LEMMA NotItself ==
    ASSUME RunningOK, NEW l \in Locals(frame.fn), GoodRef(callStack, frame, global, Here, frame.locals[l])
    PROVE  NotInto({LocalRoot(Here, l)}, frame.locals[l])
<1> DEFINE v == frame.locals[l]
           root == LocalRoot(Here, l)
<1> SUFFICES ASSUME IsReference(v), v.mark = "live", v.at[1] = root PROVE FALSE
  BY DEF NotInto
<1>1. PICK x, h : RootHas(callStack, frame, global, Here, root, x) /\ Typed(x)
  BY DEF GoodRef
<1>2. Len(callStack) \in Nat
  BY FrameNow
<1>3. FrameAt(callStack, frame, Here) = frame
  BY <1>2 DEF FrameAt, Here
<1>4. \A k, y, t : /\ root = LocalRoot(k, y) => k = Here /\ y = l
                   /\ root # GlobalRoot(t) /\ root # SignerRoot(t)
  BY DEF LocalRoot, GlobalRoot, SignerRoot
<1>5. x = v
  <2> HIDE DEF root, v
  <2>1. PICK k, y : root = LocalRoot(k, y) /\ x = FrameAt(callStack, frame, k).locals[y]
    BY <1>1, <1>4 DEF RootHas
  <2> QED BY <1>3, <1>4, <2>1 DEF v
<1> QED BY <1>1, <1>5, TypedIsNoReference

\* The limit of the operand stack.
LEMMA Fits ==
    ASSUME RunningOK, ~IsUnconditional(Current)
    PROVE  ~(frame.pc + 1 >= Len(Code(frame.fn)))
<1>1. /\ Vetted(frame.fn, program[frame.fn]) /\ frame.pc \in Offsets(program[frame.fn])
      /\ IsUnit(frame.fn, program[frame.fn])
  BY FrameNow
<1>2. frame.pc + 1 < Len(program[frame.fn])
  BY <1>1, GoesOn DEF Current, Code
<1>3. frame.pc \in Nat /\ Len(program[frame.fn]) \in Nat
  BY <1>1, UnitFacts
<1> QED BY <1>2, <1>3 DEF Code

LEMMA MoveLocOK ==
    ASSUME RunningOK, MoveLoc
    PROVE  Outcome
<1> DEFINE l == Current.a
           v == frame.locals[l]
<1>1. Current.op = "MoveLoc"
  BY RunningOp DEF MoveLoc
<1>2. NumPops(frame.fn, Current) = 0 /\ StaticResults = <<LocalAt(frame.fn, l)>> /\ ~IsUnconditional(Current)
  BY <1>1 DEF NumPops, StaticResults, Pushed, IsUnconditional
<1>3. l \in Locals(frame.fn) /\ v # Invalid /\ ValueOK(v, LocalAt(frame.fn, l))
  BY <1>1, LocalHeld
<1>5. operandStack = Rest
  BY <1>2, NoOperand
<1>6. CASE Fail("MOVING_REFERRED_CONTAINER")
  BY <1>6, FailOK DEF Stopped
<1>7. CASE ~Fail("MOVING_REFERRED_CONTAINER")
  <2> DEFINE moves == {<<ThisLocal(l), OnStack(Depth + 1)>>}
  <2>1. Resume(moves, operandStack, <<v>>, [frame.locals EXCEPT ![l] = Invalid], frame.pc + 1)
    BY <1>3, <1>7 DEF MoveLoc, Unless
  <2>7. \E m \in moves : m[1] = ThisLocal(l)
    OBVIOUS
  <2>2. HeldAfter(Current, Filled(frame)) = Filled(frame) \ {l}
    BY <1>1 DEF HeldAfter
  <2>3. ResultsOK(<<v>>)
    BY <1>2, <1>3, OneResult
  <2>4. GoodRef(callStack, frame, global, Here, v)
    BY <1>3 DEF ValueOK
  <2>5. \A j \in 1..Len(<<v>>) : NotInto({LocalRoot(Here, l)}, <<v>>[j])
    <3>1. NotInto({LocalRoot(Here, l)}, v)
      BY <1>3, <2>4, NotItself
    <3>2. \A j \in 1..Len(<<v>>) : <<v>>[j] = v
      BY SeqOne
    <3> HIDE DEF v
    <3> QED BY <3>1, <3>2
  <2>6. GoodRef(callStack, frame, global, Here, Invalid)
    BY InvalidIs DEF GoodRef
  <2> HIDE DEF v, l, moves
  <2> QED BY <1>2, <1>3, <1>5, <2>1, <2>2, <2>3, <2>5, <2>6, <2>7, LocalResume
<1> QED BY <1>6, <1>7

LEMMA StLocOK ==
    ASSUME RunningOK, StLoc
    PROVE  Outcome
<1> DEFINE l == Current.a
<1>1. Current.op = "StLoc"
  BY RunningOp DEF StLoc
<1>2. NumPops(frame.fn, Current) = 1 /\ StaticResults = <<>> /\ ~IsUnconditional(Current)
  BY <1>1 DEF NumPops, StaticResults, Pushed, IsUnconditional
<1>3. /\ Depth >= 1 /\ Below(1) = Rest /\ TypeCheck(frame.fn, Current, StaticOperands)
      /\ ValueOK(Top, StaticOperands[1])
  BY <1>2, OneOperand
<1>4. StaticOperands = <<LocalAt(frame.fn, l)>>
  BY <1>1, <1>3 DEF TypeCheck, LocalsOk
<1>5. HasType(Top, LocalAt(frame.fn, l)) /\ GoodRef(callStack, frame, global, Here, Top) /\ Top # Invalid
  BY <1>3, <1>4, HasTypeFacts DEF ValueOK
<1>6. l \in Locals(frame.fn)
  BY <1>1, InstructionNow DEF LocalOps
<1>8. CASE Fail("MOVING_REFERRED_CONTAINER")
  BY <1>8, FailOK DEF Stopped
<1>9. CASE ~Fail("MOVING_REFERRED_CONTAINER")
  <2> DEFINE moves == {<<ThisLocal(l), Nowhere>>, <<OnStack(Depth), ThisLocal(l)>>}
  <2>1. Resume(moves, Below(1), <<>>, [frame.locals EXCEPT ![l] = Top], frame.pc + 1)
    BY <1>3, <1>9 DEF StLoc, Unless
  <2>5. \E m \in moves : m[1] = ThisLocal(l)
    OBVIOUS
  <2>2. HeldAfter(Current, Filled(frame)) = Filled(frame) \union {l}
    BY <1>1 DEF HeldAfter
  <2>3. ResultsOK(<<>>)
    BY <1>2, NoResult
  <2>4. \A j \in 1..Len(<<>>) : NotInto({LocalRoot(Here, l)}, <<>>[j])
    OBVIOUS
  <2> HIDE DEF l, moves
  <2> QED BY <1>2, <1>3, <1>5, <1>6, <2>1, <2>2, <2>3, <2>4, <2>5, LocalResume
<1> QED BY <1>8, <1>9

NoTypeParameters == \A t \in Types : Kind(t) # "param"

\* A component is a value.
LEMMA TypedComponent ==
    ASSUME NEW t \in Types, Kind(t) \notin ReferenceKinds, NEW v, HasType(v, t)
    PROVE  Typed(v) /\ v.ty = t
BY DEF HasType

\* No field of a struct is a reference.
LEMMA ArgsNoReference ==
    ASSUME NEW t \in Types, NEW k \in 1..Len(Desc[t].args)
    PROVE  Desc[t].args[k] \in Types /\ Kind(Desc[t].args[k]) \notin ReferenceKinds
<1> DEFINE a == Desc[t].args
<1>1. a \in Seq(Types) /\ \A j \in DOMAIN a : Kind(a[j]) \notin ReferenceKinds
  BY TypeTable DEF ReferenceKinds
<1> HIDE DEF a
<1>2. k \in DOMAIN a /\ a[k] \in Types
  <2>1. k \in 1..Len(a)
    BY DEF a
  <2> QED BY <1>1, <2>1
<1>3. a[k] \in Types /\ Kind(a[k]) \notin ReferenceKinds
  BY <1>1, <1>2
<1> QED BY <1>3 DEF a

LEMMA PackOK ==
    ASSUME RunningOK, Pack
    PROVE  Outcome
<1> DEFINE t == Pool[Current.a]
           n == Len(Desc[t].args)
           q == TopN(n)
<1>1. Current.op = "Pack"
  BY RunningOp DEF Pack
<1>2. NumPops(frame.fn, Current) = n /\ StaticResults = <<t>>
  BY <1>1 DEF NumPops, StaticResults, Pushed
<1>3. t \in Types
  BY <1>1, InstructionNow DEF PoolOps
<1>4. /\ Depth >= n /\ Below(n) = Rest /\ IsSeq(q) /\ Len(q) = n
      /\ TypeCheck(frame.fn, Current, StaticOperands)
      /\ \A k \in 1..n : ValueOK(q[k], StaticOperands[k])
  <2> HIDE DEF n
  <2> QED BY <1>2, OperandsNow
<1>5. Kind(t) = "struct" /\ StaticOperands = Desc[t].args
  BY <1>1, <1>4 DEF TypeCheck, DeclaredOk
<1>6. \A k \in 1..n : Typed(q[k]) /\ q[k].ty = Component(t, k)
  <2> SUFFICES ASSUME NEW k \in 1..n PROVE Typed(q[k]) /\ q[k].ty = Component(t, k)
    OBVIOUS
  <2>1. HasType(q[k], Desc[t].args[k])
    BY <1>4, <1>5 DEF ValueOK
  <2>2. Desc[t].args[k] \in Types /\ Kind(Desc[t].args[k]) \notin ReferenceKinds
    BY <1>3, ArgsNoReference
  <2>3. Typed(q[k]) /\ q[k].ty = Desc[t].args[k]
    BY <2>1, <2>2, TypedComponent
  <2> QED BY <1>5, <2>3 DEF Component
<1> HIDE DEF q
<1>7. Typed(Val(t, FALSE, q))
  BY <1>3, <1>4, <1>5, <1>6, TypedBuild DEF ReferenceKinds
<1>8. Val(t, FALSE, q).ty = t
  BY DEF Val
<1>9. ValueOK(Val(t, FALSE, q), t)
  BY <1>3, <1>5, <1>7, <1>8, PlainValue DEF ReferenceKinds
<1>10. Continue(Packing(n), Below(n), <<Val(t, FALSE, q)>>)
  BY <1>4 DEF Pack, Unless, q
<1>11. ResultsOK(<<Val(t, FALSE, q)>>)
  BY <1>2, <1>9, OneResult
<1> HIDE DEF n, t
<1> QED BY <1>1, <1>4, <1>10, <1>11, ContinueOK

\* The components of a value as results.
LEMMA ComponentResults ==
    ASSUME NEW v, Typed(v), Len(StaticResults) = Len(v.f),
           \A k \in 1..Len(v.f) : StaticResults[k] = Component(v.ty, k)
    PROVE  ResultsOK(v.f)
<1>1. /\ v.ty \in Types /\ IsSeq(v.f)
      /\ \A k \in 1..Len(v.f) : Typed(v.f[k]) /\ v.f[k].ty = Component(v.ty, k)
  BY TypedParts
<1>2. \A k \in 1..Len(v.f) : ValueOK(v.f[k], StaticResults[k])
  <2> SUFFICES ASSUME NEW k \in 1..Len(v.f) PROVE ValueOK(v.f[k], StaticResults[k])
    OBVIOUS
  <2>1. v.f[k].ty \in Types /\ Kind(v.f[k].ty) \notin ReferenceKinds
    BY <1>1, TypedParts
  <2> QED BY <1>1, <2>1, PlainValue
<1> QED BY <1>1, <1>2 DEF ResultsOK, ValueOK

\* The fields have the types of the struct; a container that a reference counts ends the run.
LEMMA UnpackOK ==
    ASSUME RunningOK, Unpack
    PROVE  Outcome
<1> DEFINE t == Pool[Current.a]
<1>1. Current.op = "Unpack"
  BY RunningOp DEF Unpack
<1>2. NumPops(frame.fn, Current) = 1 /\ StaticResults = Desc[t].args
  BY <1>1 DEF NumPops, StaticResults, Pushed
<1>3. /\ Depth >= 1 /\ Below(1) = Rest /\ TypeCheck(frame.fn, Current, StaticOperands)
      /\ ValueOK(Top, StaticOperands[1])
  BY <1>2, OneOperand
<1>4. Kind(t) = "struct" /\ StaticOperands = <<t>>
  BY <1>1, <1>3 DEF TypeCheck, DeclaredOk
<1>5. HasType(Top, t)
  BY <1>3, <1>4 DEF ValueOK
<1>6. Rep(Top) = "struct" /\ Typed(Top) /\ Top.ty = t
  BY <1>4, <1>5, HasTypeFacts DEF HasType, ReferenceKinds
<1>7. Len(StaticResults) = Len(Top.f)
  BY <1>2, <1>4, <1>6, TypedParts
<1>8. \A k \in 1..Len(Top.f) : StaticResults[k] = Component(Top.ty, k)
  BY <1>2, <1>4, <1>6 DEF Component
<1>9. ResultsOK(Top.f)
  BY <1>6, <1>7, <1>8, ComponentResults
<1>10. Continue(Unpacking, Below(1), Top.f) \/ Fail("MOVING_REFERRED_CONTAINER")
  BY <1>3, <1>6 DEF Unpack, Unless, Owned, IsStruct
<1>11. "MOVING_REFERRED_CONTAINER" \in Stopped
  BY DEF Stopped
<1> QED BY <1>1, <1>3, <1>9, <1>10, <1>11, ContinueOK, FailOK

PackedAs(f, i, st) == Operands(f, i, st) = [k \in 1..i.n |-> Pool[i.a]]

\* The operands of VecPack have the element type.
LEMMA StaticPack ==
    ASSUME NEW f, NEW c, Vetted(f, c), NEW pc \in Offsets(c), At(c, pc).op = "VecPack"
    PROVE  PackedAs(f, At(c, pc), Static(f, c, pc))
BY StaticFacts DEF PackedAs

\* The number of elements is not cut off and every element has the element type.
LEMMA VecPackOK ==
    ASSUME RunningOK, NoTypeParameters, VecPack
    PROVE  Outcome
<1> DEFINE elem == Pool[Current.a]
           n == Current.n
           q == TopN(n)
           t == CHOOSE x \in Types : Kind(x) = "vector" /\ Desc[x].args = <<elem>>
<1>1. Current.op = "VecPack"
  BY RunningOp DEF VecPack
<1>2. NumPops(frame.fn, Current) = n /\ StaticResults = <<t>>
  BY <1>1 DEF NumPops, StaticResults, Pushed, VectorOf, IsVectorOf
<1>3. elem \in Types /\ t \in Types /\ Kind(t) = "vector" /\ Desc[t].args = <<elem>>
  <2>1. elem \in Types
    BY <1>1, InstructionNow DEF PoolOps
  <2>2. \E x \in Types : Kind(x) = "vector" /\ Desc[x].args = <<elem>>
    BY <1>1, InstructionNow DEF ResultsInTable
  <2> QED BY <2>1, <2>2
<1> HIDE DEF t
<1>4. Kind(elem) \notin {"param", "ref", "mut"}
  <2>1. 1 \in 1..Len(Desc[t].args) /\ Desc[t].args[1] = elem
    BY <1>3, SeqOne
  <2>2. Kind(Desc[t].args[1]) \notin ReferenceKinds
    BY <1>3, <2>1, ArgsNoReference
  <2> QED BY <1>3, <2>1, <2>2 DEF ReferenceKinds, NoTypeParameters
<1>5. /\ Depth >= n /\ Below(n) = Rest /\ IsSeq(q) /\ Len(q) = n /\ n \in Nat
      /\ \A k \in 1..n : ValueOK(q[k], StaticOperands[k])
  <2> HIDE DEF n
  <2> QED BY <1>2, OperandsNow
<1>6. StaticOperands = [k \in 1..n |-> elem]
  <2>1. Vetted(frame.fn, program[frame.fn]) /\ frame.pc \in Offsets(program[frame.fn])
    BY FrameNow
  <2>2. Current = At(program[frame.fn], frame.pc)
    BY DEF Current, Code
  <2>3. PackedAs(frame.fn, Current, Static(frame.fn, program[frame.fn], frame.pc))
    BY <1>1, <2>1, <2>2, StaticPack
  <2> QED BY <2>3 DEF StaticOperands, StaticTypes, StackOf, PackedAs
<1>7. \A k \in 1..n : Typed(q[k]) /\ q[k].ty = elem
  <2> SUFFICES ASSUME NEW k \in 1..n PROVE Typed(q[k]) /\ q[k].ty = elem
    OBVIOUS
  <2>1. HasType(q[k], elem)
    BY <1>5, <1>6 DEF ValueOK
  <2> QED BY <1>3, <1>4, <2>1, TypedComponent DEF ReferenceKinds
<1> HIDE DEF q
<1>8. \A k \in 1..Len(q) : Typed(q[k]) /\ q[k].ty = Component(t, k)
  BY <1>3, <1>5, <1>7 DEF Component
<1>9. Typed(Val(t, FALSE, q))
  BY <1>3, <1>5, <1>8, TypedBuild DEF ReferenceKinds
<1>10. Val(t, FALSE, q).ty = t
  BY DEF Val
<1>11. ValueOK(Val(t, FALSE, q), t)
  BY <1>3, <1>9, <1>10, PlainValue DEF ReferenceKinds
<1>12. Continue(Packing(n), Below(n), <<Val(t, FALSE, q)>>)
  <2>1. IsContainer(elem) \/ \A k \in 1..n : TopN(n)[k].ty = elem
    BY <1>7 DEF q
  <2>2. Current.n % U16 = n
    <3>1. Depth \in Nat /\ Depth <= StackLimit /\ StackLimit \in Nat /\ StackLimit < 65536
      BY FrameNow, InterpreterConstants DEF RunningOK, Depth, U16
    <3>2. n \in Nat /\ n < 65536
      BY <1>5, <3>1
    <3> HIDE DEF n
    <3>3. n % 65536 = n
      BY <3>2
    <3> QED BY <3>3 DEF n, U16
  <2> QED BY <1>4, <1>5, <2>1, <2>2 DEF VecPack, Unless, q, t
<1>13. ResultsOK(<<Val(t, FALSE, q)>>)
  BY <1>2, <1>11, OneResult
<1> HIDE DEF n, elem
<1> QED BY <1>1, <1>5, <1>12, <1>13, ContinueOK

\* The elements have the element type; a container that a reference counts ends the run.
LEMMA VecUnpackOK ==
    ASSUME RunningOK, NoTypeParameters, VecUnpack
    PROVE  Outcome
<1> DEFINE elem == Pool[Current.a]
           t == StaticOperands[1]
<1>1. Current.op = "VecUnpack"
  BY RunningOp DEF VecUnpack
<1>2. NumPops(frame.fn, Current) = 1 /\ StaticResults = [k \in 1..Current.n |-> elem]
  BY <1>1 DEF NumPops, StaticResults, Pushed
<1>3. /\ Depth >= 1 /\ Below(1) = Rest /\ TypeCheck(frame.fn, Current, StaticOperands)
      /\ ValueOK(Top, StaticOperands[1])
  BY <1>2, OneOperand
<1>4. Kind(t) = "vector" /\ Desc[t].args = <<elem>>
  BY <1>1, <1>3 DEF TypeCheck, VectorOk, IsVectorOf
<1>5. HasType(Top, t)
  BY <1>3 DEF ValueOK
<1>6. Rep(Top) = "vector" /\ Typed(Top) /\ Top.ty = t /\ t \in Types
  BY <1>4, <1>5, HasTypeFacts DEF HasType, ReferenceKinds
<1> HIDE DEF t
<1>7. Desc[t].args[1] = elem /\ Kind(elem) \notin {"param", "ref", "mut"} /\ elem \in Types
  <2>1. 1 \in 1..Len(Desc[t].args) /\ Desc[t].args[1] = elem
    BY <1>4, SeqOne
  <2>2. Desc[t].args[1] \in Types /\ Kind(Desc[t].args[1]) \notin ReferenceKinds
    BY <1>6, <2>1, ArgsNoReference
  <2> QED BY <2>1, <2>2 DEF ReferenceKinds, NoTypeParameters
<1>8. CASE Fail("ABORTED") \/ Fail("MOVING_REFERRED_CONTAINER")
  BY <1>8, FailOK DEF Stopped
<1>9. CASE ~Fail("ABORTED") /\ ~Fail("MOVING_REFERRED_CONTAINER")
  <2>1. Len(Top.f) = Current.n /\ Continue(Unpacking, Below(1), Top.f)
    <3>1. IsContainer(Top.ty) /\ HasLayout(Top.ty, elem)
      BY <1>4, <1>6, <1>7 DEF IsContainer, HasLayout
    <3> QED BY <1>3, <1>9, <3>1 DEF VecUnpack, Unless, Owned
  <2>2. Current.n \in Nat
    BY InstructionNow
  <2>3. Len(StaticResults) = Len(Top.f)
    BY <1>2, <2>1, <2>2, FunIsSeq
  <2>4. \A k \in 1..Len(Top.f) : StaticResults[k] = Component(Top.ty, k)
    BY <1>2, <1>4, <1>6, <1>7, <2>1 DEF Component
  <2>5. ResultsOK(Top.f)
    BY <1>6, <2>3, <2>4, ComponentResults
  <2> QED BY <1>1, <1>3, <2>1, <2>5, ContinueOK
<1> QED BY <1>8, <1>9

LEMMA EqOK ==
    ASSUME RunningOK, Eq
    PROVE  Outcome
<1>1. Current.op = "Eq"
  BY RunningOp DEF Eq
<1>2. NumPops(frame.fn, Current) = 2
  BY <1>1 DEF NumPops
<1>3. /\ Depth >= 2 /\ Below(2) = Rest /\ TypeCheck(frame.fn, Current, StaticOperands)
      /\ ValueOK(TopN(2)[1], StaticOperands[1]) /\ ValueOK(TopN(2)[2], StaticOperands[2])
  BY <1>2, TwoOperands
<1>4. StaticOperands[1] = StaticOperands[2]
  BY <1>1, <1>3 DEF TypeCheck, OperatorOk
<1>5. Comparable(TopN(2)[1], TopN(2)[2])
  BY <1>3, <1>4, HasTypeFacts DEF ValueOK, Comparable
<1>6. PICK b \in (IF Rep(TopN(2)[1]) = "bool" THEN {TopN(2)[1].b = TopN(2)[2].b} ELSE BOOLEAN) :
          Continue(Dropping(2), Below(2), <<Bool(b)>>)
  BY <1>3, <1>5 DEF Eq, Unless
<1>7. b \in BOOLEAN
  OBVIOUS
<1>8. ResultsOK(<<Bool(b)>>)
  BY <1>1, <1>7, BoolResult DEF BoolOps
<1> QED BY <1>1, <1>3, <1>6, <1>8, ContinueOK

-----------------------------------------------------------------------------
(* Call and Ret.                                                           *)

\* The parts of suspended frames lie under that of the current one.
LEMMA LayoutGrows ==
    ASSUME NEW p, ProgramOK(p), NEW cs, NEW fr, NEW S, ShapeOK(p, cs, fr, S),
           NEW base, IsLayout(p, cs, fr, S, base), NEW k \in 1..Len(cs)
    PROVE  Own(p, cs, fr, k) \in Nat /\ base[k] + Own(p, cs, fr, k) <= base[Len(cs) + 1]
<1> DEFINE O(i) == Own(p, cs, fr, i)
           m == Len(cs) + 1
<1>1. Len(cs) \in Nat
  BY SeqLen DEF ShapeOK
<1>2. \A i \in 1..Len(cs) : i \in Depths(cs) /\ i + 1 \in Depths(cs) /\ FrameAt(cs, fr, i) = cs[i] /\ i <= Len(cs)
  BY <1>1 DEF Depths, FrameAt
<1>3. m \in Depths(cs)
  BY <1>1 DEF Depths
<1>4. \A i \in 1..Len(cs) : O(i) \in Nat
  <2> SUFFICES ASSUME NEW i \in 1..Len(cs) PROVE O(i) \in Nat
    OBVIOUS
  <2>1. FrameOK(p, cs[i])
    BY <1>2 DEF ShapeOK
  <2> DEFINE a == Len(StackOf(p, cs[i]))
             b == NumPops(cs[i].fn, InstrOf(p, cs[i]))
  <2>2. a \in Nat /\ b \in Nat /\ b <= a
    BY <2>1, FrameFacts
  <2>3. O(i) = a - b
    BY <1>2 DEF Own
  <2> HIDE DEF a, b
  <2> QED BY <2>2, <2>3
<1>5. base \in [Depths(cs) -> Nat] /\ \A i \in 1..Len(cs) : base[i + 1] = base[i] + O(i)
  BY DEF IsLayout
<1> HIDE DEF O, m
<1>6. \A i \in 1..Len(cs) : base[i] + O(i) <= base[m]
  <2> DEFINE Bad == {i \in 1..Len(cs) : ~(base[i] + O(i) <= base[m])}
  <2> SUFFICES ASSUME Bad # {} PROVE FALSE
    OBVIOUS
  <2>1. PICK i \in Bad : \A x \in Bad : x <= i
    <3> Bad \in SUBSET (0..Len(cs)) BY <1>1
    <3> HIDE DEF Bad
    <3> QED BY <1>1, GreatestNatural
  <2>2. i \in 1..Len(cs) /\ ~(base[i] + O(i) <= base[m])
    OBVIOUS
  <2>3. base[i + 1] = base[i] + O(i)
    BY <1>5, <2>2
  <2>4. base[i + 1] \in Nat /\ base[m] \in Nat
    BY <1>2, <1>3, <1>5, <2>2
  <2>5. CASE i = Len(cs)
    BY <2>2, <2>3, <2>4, <2>5 DEF m
  <2>6. CASE i # Len(cs)
    <3>1. i + 1 \in 1..Len(cs) /\ ~(i + 1 <= i)
      <4> HIDE DEF Bad
      <4> QED BY <1>1, <2>2, <2>6
    <3>2. i + 1 \notin Bad
      <4> HIDE DEF Bad
      <4> QED BY <2>1, <3>1
    <3>3. base[i + 1] + O(i + 1) <= base[m] /\ O(i + 1) \in Nat
      BY <1>4, <3>1, <3>2
    <3> HIDE DEF Bad
    <3> QED BY <2>2, <2>3, <2>4, <3>3
  <2> QED BY <2>5, <2>6
<1> QED BY <1>4, <1>6 DEF O, m

\* The references of a whole state are marked.
LEMMA MarkedState ==
    ASSUME NEW p, NEW cs, NEW fr, NEW S, NEW G, RunOK(p, cs, fr, S, G), NEW cs2, NEW fr2, NEW S2,
           IsSeq(cs2), Len(cs2) = Len(cs), \A k \in 1..Len(cs) : MarkedFrame({}, cs[k], cs2[k]),
           MarkedFrame({}, fr, fr2),
           IsSeq(S2), Len(S2) = Len(S), \A j \in 1..Len(S) : Marked(S[j], S2[j])
    PROVE  RunOK(p, cs2, fr2, S2, G)
<1> DEFINE F(k) == FrameAt(cs, fr, k)
           F2(k) == FrameAt(cs2, fr2, k)
           m == Len(cs) + 1
<1>1. ProgramOK(p) /\ ShapeOK(p, cs, fr, S) /\ GlobalOK(G) /\ RefsOK(cs, fr, S, G) /\ IsSeq(cs) /\ IsSeq(S)
  BY DEF RunOK, ShapeOK
<1>2. Len(cs) \in Nat /\ Len(S) \in Nat
  BY <1>1, SeqLen
<1>3. /\ Depths(cs2) = Depths(cs) /\ Depths(cs) = 1..m /\ m \in 1..m
      /\ \A k \in 1..Len(cs) : k \in 1..m /\ k + 1 \in 1..m /\ F(k) = cs[k] /\ F2(k) = cs2[k]
      /\ \A k \in 1..m : k = m \/ k \in 1..Len(cs)
  BY <1>2 DEF Depths, FrameAt
<1>4. ASSUME NEW k \in 1..m PROVE MarkedFrame({}, F(k), F2(k)) /\ FrameOK(p, F(k))
  BY <1>1, <1>2, <1>3 DEF FrameAt, ShapeOK, Depths
<1> HIDE DEF F, F2
<1>5. ASSUME NEW k \in 1..m PROVE KeptFrame(F(k), F2(k)) /\ FrameOK(p, F2(k))
  <2>1. KeptFrame(F(k), F2(k))
    BY <1>4, MarkedFrameKept DEF FrameOK
  <2> QED BY <1>4, <2>1, KeptFrameOK
<1>6. \A k \in 1..m : /\ F2(k).fn = F(k).fn /\ InstrOf(p, F2(k)) = InstrOf(p, F(k))
                      /\ StackOf(p, F2(k)) = StackOf(p, F(k))
  BY <1>5 DEF KeptFrame, InstrOf, StackOf
<1>7. \A k \in 1..Len(cs2) : InstrOf(p, cs2[k]).op = "Call" /\ InstrOf(p, cs2[k]).a = F2(k + 1).fn
  <2>1. \A k \in 1..Len(cs) : InstrOf(p, cs[k]).op = "Call" /\ InstrOf(p, cs[k]).a = F(k + 1).fn
    BY <1>1 DEF ShapeOK, F
  <2> QED BY <1>3, <1>6, <2>1
<1>8. PICK base : IsLayout(p, cs, fr, S, base)
  BY <1>1 DEF ShapeOK
<1>9. \A k \in 1..m : Own(p, cs2, fr2, k) = Own(p, cs, fr, k)
  BY <1>6 DEF Own, F, F2
<1>10. ASSUME NEW k \in 1..m, NEW j \in 1..Own(p, cs, fr, k)
       PROVE  HasType(S2[base[k] + j], StackOf(p, F2(k))[j])
  <2>1. HasType(S[base[k] + j], StackOf(p, F(k))[j])
    BY <1>3, <1>8 DEF IsLayout, F
  <2>2. base[k] \in Nat /\ base[m] \in Nat /\ base[m] + Own(p, cs, fr, m) = Len(S)
    BY <1>3, <1>8 DEF IsLayout
  <2>3. Own(p, cs, fr, m) \in Nat
    <3>1. F(m) = fr /\ ~(m <= Len(cs))
      BY <1>2 DEF FrameAt, F
    <3>2. IsSeq(StackOf(p, fr)) /\ Len(StackOf(p, fr)) \in Nat
      BY <1>1, <1>3, <1>4, <3>1, FrameFacts
    <3>3. Own(p, cs, fr, m) = Len(StackOf(p, fr)) - 0
      BY <3>1 DEF Own, F
    <3> QED BY <3>2, <3>3
  <2>4. Own(p, cs, fr, k) \in Nat /\ base[k] + Own(p, cs, fr, k) <= Len(S)
    <3>1. CASE k = m
      BY <1>2, <2>2, <2>3, <3>1
    <3>2. CASE k \in 1..Len(cs)
      <4>1. Own(p, cs, fr, k) \in Nat /\ base[k] + Own(p, cs, fr, k) <= base[m]
        BY <1>1, <1>8, <3>2, LayoutGrows
      <4> HIDE DEF m
      <4> QED BY <1>2, <2>2, <2>3, <4>1
    <3> QED BY <1>3, <3>1, <3>2
  <2>5. base[k] + j \in 1..Len(S)
    <3> DEFINE o == Own(p, cs, fr, k)
               b == base[k]
    <3>1. o \in Nat /\ b \in Nat /\ b + o <= Len(S) /\ j \in 1..o
      BY <2>2, <2>4
    <3> HIDE DEF o, b
    <3>2. b + j \in 1..Len(S)
      BY <1>2, <3>1
    <3> QED BY <3>2 DEF b
  <2>6. Marked(S[base[k] + j], S2[base[k] + j])
    BY <2>5
  <2> QED BY <1>6, <2>1, <2>6, MarkedType
<1>11. IsLayout(p, cs2, fr2, S2, base)
  <2>1. base[Len(cs2) + 1] + Own(p, cs2, fr2, Len(cs2) + 1) = Len(S2)
    BY <1>3, <1>8, <1>9 DEF IsLayout
  <2>2. \A k \in 1..Len(cs2) : base[k + 1] = base[k] + Own(p, cs2, fr2, k)
    BY <1>3, <1>8, <1>9 DEF IsLayout
  <2>3. base \in [Depths(cs2) -> Nat] /\ base[1] = 0
    BY <1>3, <1>8 DEF IsLayout
  <2>4. \A k \in Depths(cs2) : \A j \in 1..Own(p, cs2, fr2, k) : HasType(S2[base[k] + j], StackOf(p, F2(k))[j])
    BY <1>3, <1>9, <1>10
  <2> QED BY <2>1, <2>2, <2>3, <2>4 DEF IsLayout, F2
<1>12. ShapeOK(p, cs2, fr2, S2)
  BY <1>3, <1>5, <1>7, <1>11 DEF ShapeOK, F2
<1>13. Moves(cs, fr, G, cs2, fr2, G, {})
  <2>1. \A k \in 1..m : /\ F2(k).fn = F(k).fn
                        /\ \A l \in Locals(F(k).fn) : Marked(F(k).locals[l], F2(k).locals[l])
    BY <1>4 DEF MarkedFrame
  <2> QED BY <1>3, <2>1 DEF Moves, F, F2
<1>14. \A w : NotInto({}, w)
  BY DEF NotInto
<1>15. \A j \in 1..Len(S2) : GoodRef(cs2, fr2, G, Len(cs2) + 1, S2[j])
  <2> SUFFICES ASSUME NEW j \in 1..Len(S) PROVE GoodRef(cs2, fr2, G, m, S2[j])
    OBVIOUS
  <2>1. GoodRef(cs, fr, G, m, S[j]) /\ Marked(S[j], S2[j])
    BY <1>1 DEF RefsOK
  <2> QED BY <1>2, <1>3, <1>13, <1>14, <2>1, GoodRefMoves
<1>16. ASSUME NEW k \in Depths(cs2), NEW l \in Locals(F2(k).fn)
       PROVE  GoodRef(cs2, fr2, G, k, F2(k).locals[l])
  <2>1. k \in 1..m /\ l \in Locals(F(k).fn)
    BY <1>3, <1>6
  <2>2. GoodRef(cs, fr, G, k, F(k).locals[l])
    BY <1>1, <1>3, <2>1 DEF RefsOK, F
  <2>3. Marked(F(k).locals[l], F2(k).locals[l])
    BY <1>4, <2>1 DEF MarkedFrame
  <2> QED BY <1>2, <1>13, <1>14, <2>1, <2>2, <2>3, GoodRefMoves
<1>17. RefsOK(cs2, fr2, S2, G)
  BY <1>15, <1>16 DEF RefsOK, F2
<1> QED BY <1>1, <1>12, <1>17 DEF RunOK

\* More frames on top of those that a reference may refer to.
LEMMA GoodRefFrames ==
    ASSUME NEW cs, NEW fr, NEW G, NEW d \in Nat, NEW v, GoodRef(cs, fr, G, d, v),
           NEW cs2, NEW fr2, NEW d2 \in Nat, d <= d2,
           \A k \in 1..d : /\ FrameAt(cs2, fr2, k).fn = FrameAt(cs, fr, k).fn
                           /\ FrameAt(cs2, fr2, k).locals = FrameAt(cs, fr, k).locals
    PROVE  GoodRef(cs2, fr2, G, d2, v)
<1>1. ASSUME NEW root, NEW x, RootHas(cs, fr, G, d, root, x)
      PROVE  RootHas(cs2, fr2, G, d2, root, x)
  <2>1. \A k \in 1..d : k \in 1..d2
    OBVIOUS
  <2> QED BY <1>1, <2>1 DEF RootHas
<1> QED BY <1>1 DEF GoodRef

\* A reference to a frame further down is good for every frame above.
LEMMA GoodRefBelow ==
    ASSUME NEW cs, NEW fr, NEW G, NEW d \in Nat, NEW v, GoodRef(cs, fr, G, d + 1, v),
           IsReference(v) /\ v.mark = "live" =>
               \A l \in Locals(FrameAt(cs, fr, d + 1).fn) : v.at[1] # LocalRoot(d + 1, l)
    PROVE  GoodRef(cs, fr, G, d, v)
<1> SUFFICES ASSUME IsReference(v), v.mark = "live" PROVE GoodRef(cs, fr, G, d, v)
  BY DEF GoodRef
<1>1. ASSUME NEW x, RootHas(cs, fr, G, d + 1, v.at[1], x)
      PROVE  RootHas(cs, fr, G, d, v.at[1], x)
  <2>1. \A k \in 1..(d + 1) : k \in 1..d \/ k = d + 1
    OBVIOUS
  <2> QED BY <1>1, <2>1 DEF RootHas
<1> QED BY <1>1 DEF GoodRef

\* The frame of a function that is called.
LEMMA NewFrameOK ==
    ASSUME NEW p, ProgramOK(p), NEW f \in DOMAIN p, NEW args, IsSeq(args), Len(args) = Len(Sig[f].params),
           \A k \in 1..Len(args) : HasType(args[k], Sig[f].params[k])
    PROVE  LET h == NewFrame(f, args)
           IN  /\ FrameOK(p, h) /\ h.fn = f /\ StackOf(p, h) = <<>>
               /\ \A l \in Locals(f) : h.locals[l] = Invalid \/ \E k \in 1..Len(args) : h.locals[l] = args[k]
<1> DEFINE h == NewFrame(f, args)
           n == Len(args)
           a == [l \in Locals(f) |-> IF l < n THEN args[l + 1] ELSE Invalid]
<1>1. IsFrame(h) /\ h.fn = f /\ h.pc = 0 /\ h.locals = a
  BY DEF NewFrame, IsFrame
<1>2. Vetted(f, p[f]) /\ IsUnit(f, p[f]) /\ f \in Functions
  BY DEF ProgramOK, Vetted, IsUnit
<1>3. n \in Nat /\ Sig[f].params \in Seq(Types) /\ Sig[f].locals \in Seq(Types)
  BY <1>2, SeqLen, SignatureTable
<1>4. 0 \in Offsets(p[f])
  BY <1>2, UnitFacts
<1>5. Locals(f) = 0..(n + Len(Sig[f].locals) - 1) /\ Len(Sig[f].locals) \in Nat
  BY <1>3 DEF Locals, LocalTypes
<1> HIDE DEF h, n
<1>6. ASSUME NEW l \in Locals(f), l < n
      PROVE  l + 1 \in 1..n /\ a[l] = args[l + 1] /\ HasType(a[l], LocalAt(f, l)) /\ a[l] # Invalid
  <2>1. l + 1 \in 1..n /\ a[l] = args[l + 1]
    BY <1>3, <1>5, <1>6
  <2>2. LocalAt(f, l) = Sig[f].params[l + 1]
    <3> DEFINE s == Sig[f].params
               u == Sig[f].locals
               k == l + 1
    <3>1. s \in Seq(Types) /\ u \in Seq(Types) /\ k \in 1..Len(s)
      BY <1>3, <2>1 DEF n
    <3>2. LocalAt(f, l) = (s \o u)[k]
      BY DEF LocalAt, LocalTypes
    <3> HIDE DEF s, u, k
    <3>3. (s \o u)[k] = s[k]
      BY <3>1
    <3> QED BY <3>2, <3>3 DEF s, k
  <2>3. HasType(args[l + 1], Sig[f].params[l + 1])
    BY <2>1 DEF n
  <2> QED BY <2>1, <2>2, <2>3, HasTypeFacts
<1>7. \A l \in Locals(f) : ~(l < n) => a[l] = Invalid
  OBVIOUS
<1> HIDE DEF a
<1>8. a = [l \in Locals(f) |-> a[l]]
  BY DEF a
<1>9. LocalsTyped(f, h.locals)
  BY <1>1, <1>6, <1>7, <1>8 DEF LocalsTyped
<1>10. Filled(h) = {l \in Locals(f) : l < n}
  BY <1>1, <1>6, <1>7 DEF Filled
<1>11. Reached(f, p[f], <<0, Filled(h)>>)
  <2>1. <<0, Filled(h)>> = AtEntry(f)
    BY <1>10 DEF AtEntry, n
  <2> QED BY <1>2, <2>1, ReachedEntry
<1>12. FrameOK(p, h)
  BY <1>1, <1>4, <1>9, <1>11 DEF FrameOK
<1>13. StackOf(p, h) = <<>>
  BY <1>1, <1>2, StaticStart DEF StackOf
<1>14. \A l \in Locals(f) : h.locals[l] = Invalid \/ \E k \in 1..n : h.locals[l] = args[k]
  BY <1>1, <1>6, <1>7
<1> QED BY <1>1, <1>12, <1>13, <1>14 DEF h, n

\* A call: the caller is suspended with its part of the stack, the callee starts with none.
LEMMA CallFrames ==
    ASSUME NEW p, NEW cs, NEW fr, NEW S, NEW G, RunOK(p, cs, fr, S, G), InstrOf(p, fr).op = "Call",
           NEW f, f = InstrOf(p, fr).a, NEW n, n = NumPops(fr.fn, InstrOf(p, fr)),
           NEW fr2, FrameOK(p, fr2), fr2.fn = f, StackOf(p, fr2) = <<>>,
           \A l \in Locals(f) : GoodRef(cs, fr, G, Len(cs) + 1, fr2.locals[l])
    PROVE  RunOK(p, Append(cs, fr), fr2, SubSeq(S, 1, Len(S) - n), G)
<1> DEFINE m == Len(cs) + 1
           cs2 == Append(cs, fr)
           S2 == SubSeq(S, 1, Len(S) - n)
           st == StackOf(p, fr)
<1>1. ProgramOK(p) /\ ShapeOK(p, cs, fr, S) /\ GlobalOK(G) /\ RefsOK(cs, fr, S, G) /\ IsSeq(cs) /\ IsSeq(S)
  BY DEF RunOK, ShapeOK
<1>2. Len(cs) \in Nat /\ Len(S) \in Nat
  BY <1>1, SeqLen
<1>3. n \in Nat /\ n <= Len(S)
  BY <1>1, OperandsThere
<1>4. Len(S) - n \in Nat /\ Len(S) - n <= Len(S)
  BY <1>2, <1>3
<1>5. IsSeq(S2) /\ Len(S2) = Len(S) - n /\ \A k \in 1..(Len(S) - n) : S2[k] = S[k]
  BY <1>1, <1>4, SeqPrefix, SeqElements
<1>6. IsSeq(cs2) /\ Len(cs2) = m /\ cs2[m] = fr /\ \A k \in 1..Len(cs) : cs2[k] = cs[k]
  <2>1. IsSeq(cs2)
    BY <1>1, SeqAppend
  <2>2. PICK A : cs \in Seq(A)
    BY <1>1 DEF IsSeq
  <2>3. cs \in Seq(A \union {fr}) /\ fr \in A \union {fr}
    BY <2>2
  <2> QED BY <2>1, <2>3
<1> HIDE DEF cs2, S2
<1>7. /\ Depths(cs) = 1..m /\ Depths(cs2) = 1..(m + 1) /\ m \in Nat
      /\ \A k \in 1..m : k \in 1..(m + 1) /\ FrameAt(cs2, fr2, k) = FrameAt(cs, fr, k)
      /\ FrameAt(cs2, fr2, m + 1) = fr2 /\ FrameAt(cs, fr, m) = fr
      /\ \A k \in 1..(m + 1) : k = m + 1 \/ k \in 1..m
      /\ \A k \in 1..m : cs2[k] = FrameAt(cs, fr, k)
  BY <1>2, <1>6 DEF Depths, FrameAt
<1>8. \A k \in 1..m : FrameOK(p, FrameAt(cs, fr, k))
  BY <1>1, <1>7 DEF ShapeOK
<1>9. \A k \in Depths(cs2) : FrameOK(p, FrameAt(cs2, fr2, k))
  BY <1>7, <1>8
<1>10. \A k \in 1..Len(cs2) : InstrOf(p, cs2[k]).op = "Call" /\ InstrOf(p, cs2[k]).a = FrameAt(cs2, fr2, k + 1).fn
  <2> SUFFICES ASSUME NEW k \in 1..m
               PROVE  InstrOf(p, cs2[k]).op = "Call" /\ InstrOf(p, cs2[k]).a = FrameAt(cs2, fr2, k + 1).fn
    BY <1>6
  <2>1. CASE k = m
    BY <1>6, <1>7, <2>1
  <2>2. CASE k # m
    <3>1. k \in 1..Len(cs) /\ k + 1 \in 1..m
      BY <1>2, <2>2
    <3>2. InstrOf(p, cs[k]).op = "Call" /\ InstrOf(p, cs[k]).a = FrameAt(cs, fr, k + 1).fn
      BY <1>1, <3>1 DEF ShapeOK
    <3> QED BY <1>6, <1>7, <3>1, <3>2
  <2> QED BY <2>1, <2>2
<1>11. PICK base : IsLayout(p, cs, fr, S, base)
  BY <1>1 DEF ShapeOK
<1>12. IsSeq(st) /\ Len(st) \in Nat /\ n <= Len(st)
  BY <1>1, <1>7, <1>8, FrameFacts
<1>13. Own(p, cs, fr, m) = Len(st)
  <2>1. ~(m <= Len(cs))
    BY <1>2
  <2>2. Own(p, cs, fr, m) = Len(st) - 0
    BY <1>7, <2>1 DEF Own
  <2> HIDE DEF st
  <2> QED BY <1>12, <2>2
<1>14. Own(p, cs2, fr2, m) = Len(st) - n
  <2>1. m <= Len(cs2)
    BY <1>6, <1>7
  <2>2. FrameAt(cs2, fr2, m) = fr
    BY <1>7
  <2> QED BY <2>1, <2>2 DEF Own
<1>15. Own(p, cs2, fr2, m + 1) = 0
  <2>1. ~(m + 1 <= Len(cs2))
    BY <1>6, <1>7
  <2>2. Own(p, cs2, fr2, m + 1) = Len(<<>>) - 0
    BY <1>7, <2>1 DEF Own
  <2> QED BY <2>2
<1>16. \A k \in 1..Len(cs) : Own(p, cs2, fr2, k) = Own(p, cs, fr, k)
  <2> SUFFICES ASSUME NEW k \in 1..Len(cs) PROVE Own(p, cs2, fr2, k) = Own(p, cs, fr, k)
    OBVIOUS
  <2>1. k <= Len(cs) /\ k <= Len(cs2) /\ k \in 1..m
    BY <1>2, <1>6
  <2> QED BY <1>7, <2>1 DEF Own
<1> DEFINE base2 == [k \in 1..(m + 1) |-> IF k <= m THEN base[k] ELSE base[m] + (Len(st) - n)]
<1>17. /\ base \in [1..m -> Nat] /\ base[m] + Len(st) = Len(S) /\ base[m] \in Nat
       /\ \A k \in 1..Len(cs) : base[k + 1] = base[k] + Own(p, cs, fr, k)
       /\ \A k \in 1..m : \A j \in 1..Own(p, cs, fr, k) : HasType(S[base[k] + j], StackOf(p, FrameAt(cs, fr, k))[j])
  <2>1. m \in 1..m
    BY <1>7
  <2> QED BY <1>7, <1>11, <1>13, <2>1 DEF IsLayout
<1> HIDE DEF st, m
<1>18. Len(st) - n \in Nat /\ base[m] + (Len(st) - n) = Len(S) - n
  BY <1>2, <1>3, <1>12, <1>17
<1>19. /\ base2 \in [1..(m + 1) -> Nat] /\ base2[m + 1] = base[m] + (Len(st) - n)
       /\ \A k \in 1..m : base2[k] = base[k]
  <2>1. \A k \in 1..m : k <= m
    OBVIOUS
  <2>2. ~(m + 1 <= m) /\ m + 1 \in 1..(m + 1)
    BY <1>7
  <2>3. base[m] + (Len(st) - n) \in Nat
    BY <1>17, <1>18
  <2>4. \A k \in 1..(m + 1) : k <= m => k \in 1..m
    BY <1>7
  <2> QED BY <1>7, <1>17, <2>1, <2>2, <2>3, <2>4
<1> HIDE DEF base2
<1>20. \A k \in 1..Len(cs2) : base2[k + 1] = base2[k] + Own(p, cs2, fr2, k)
  <2> SUFFICES ASSUME NEW k \in 1..m PROVE base2[k + 1] = base2[k] + Own(p, cs2, fr2, k)
    BY <1>6
  <2>1. CASE k = m
    BY <1>14, <1>19, <2>1
  <2>2. CASE k # m
    <3>1. k \in 1..Len(cs) /\ k + 1 \in 1..m
      BY <1>2, <2>2 DEF m
    <3> QED BY <1>16, <1>17, <1>19, <3>1
  <2> QED BY <2>1, <2>2
<1>21. base2[Len(cs2) + 1] + Own(p, cs2, fr2, Len(cs2) + 1) = Len(S2)
  <2>1. base2[m + 1] \in Nat
    BY <1>7, <1>19
  <2>2. base2[m + 1] + 0 = Len(S) - n
    BY <1>18, <1>19, <2>1
  <2> QED BY <1>5, <1>6, <1>15, <2>2
<1>22. ASSUME NEW k \in Depths(cs2), NEW j \in 1..Own(p, cs2, fr2, k)
       PROVE  HasType(S2[base2[k] + j], StackOf(p, FrameAt(cs2, fr2, k))[j])
  <2>1. CASE k = m + 1
    BY <1>15, <2>1
  <2>2. CASE k \in 1..m
    <3>1. Own(p, cs2, fr2, k) <= Own(p, cs, fr, k) /\ Own(p, cs, fr, k) \in Nat /\ Own(p, cs2, fr2, k) \in Nat
          /\ base[k] + Own(p, cs2, fr2, k) <= Len(S) - n /\ base[k] \in Nat
      <4>0. base[k] \in Nat
        BY <1>17, <2>2
      <4>1. CASE k = m
        BY <1>3, <1>12, <1>13, <1>14, <1>17, <1>18, <4>0, <4>1 DEF m
      <4>2. CASE k # m
        <5>1. k \in 1..Len(cs)
          BY <1>2, <2>2, <4>2 DEF m
        <5>2. Own(p, cs, fr, k) \in Nat /\ base[k] + Own(p, cs, fr, k) <= base[m]
          BY <1>1, <1>11, <5>1, LayoutGrows DEF m
        <5>3. Own(p, cs2, fr2, k) = Own(p, cs, fr, k)
          BY <1>16, <5>1
        <5>4. base[m] \in Nat /\ Len(st) - n \in Nat /\ base[m] + (Len(st) - n) = Len(S) - n
          BY <1>17, <1>18
        <5> HIDE DEF st
        <5> QED BY <4>0, <5>2, <5>3, <5>4
      <4> QED BY <4>1, <4>2
    <3>2. j \in 1..Own(p, cs, fr, k) /\ base[k] + j \in 1..(Len(S) - n)
      BY <1>4, <3>1
    <3>3. HasType(S[base[k] + j], StackOf(p, FrameAt(cs, fr, k))[j])
      BY <1>17, <2>2, <3>2
    <3> QED BY <1>5, <1>7, <1>19, <2>2, <3>2, <3>3
  <2> QED BY <1>7, <2>1, <2>2
<1>23. IsLayout(p, cs2, fr2, S2, base2)
  <2>1. base[1] = 0
    BY <1>11 DEF IsLayout
  <2>2. 1 \in 1..m
    BY <1>2 DEF m
  <2>3. base2[1] = 0
    BY <1>19, <2>1, <2>2
  <2> QED BY <1>7, <1>19, <1>20, <1>21, <1>22, <2>3 DEF IsLayout
<1>24. ShapeOK(p, cs2, fr2, S2)
  BY <1>5, <1>6, <1>9, <1>10, <1>23 DEF ShapeOK
<1>25. m \in Nat /\ m + 1 \in Nat /\ m <= m + 1 /\ \A k \in 1..m : k \in Nat /\ k <= k
  BY <1>2 DEF m
<1>26. \A j \in 1..Len(S2) : GoodRef(cs2, fr2, G, Len(cs2) + 1, S2[j])
  <2> SUFFICES ASSUME NEW j \in 1..(Len(S) - n) PROVE GoodRef(cs2, fr2, G, m + 1, S2[j])
    BY <1>5, <1>6
  <2>1. j \in 1..Len(S)
    BY <1>2, <1>3
  <2>2. GoodRef(cs, fr, G, m, S[j])
    BY <1>1, <2>1 DEF RefsOK, m
  <2>3. GoodRef(cs2, fr2, G, m + 1, S[j])
    BY <1>7, <1>25, <2>2, GoodRefFrames
  <2> QED BY <1>5, <2>3
<1>27. ASSUME NEW k \in Depths(cs2), NEW l \in Locals(FrameAt(cs2, fr2, k).fn)
       PROVE  GoodRef(cs2, fr2, G, k, FrameAt(cs2, fr2, k).locals[l])
  <2>1. CASE k = m + 1
    <3>1. GoodRef(cs, fr, G, m, fr2.locals[l])
      BY <1>7, <2>1 DEF m
    <3> QED BY <1>7, <1>25, <2>1, <3>1, GoodRefFrames
  <2>2. CASE k \in 1..m
    <3>1. GoodRef(cs, fr, G, k, FrameAt(cs, fr, k).locals[l])
      BY <1>1, <1>7, <2>2 DEF RefsOK
    <3>2. \A i \in 1..k : i \in 1..m
      BY <1>25, <2>2
    <3>3. GoodRef(cs2, fr2, G, k, FrameAt(cs, fr, k).locals[l])
      BY <1>7, <1>25, <2>2, <3>1, <3>2, GoodRefFrames
    <3> QED BY <1>7, <2>2, <3>3
  <2> QED BY <1>7, <2>1, <2>2
<1>28. RefsOK(cs2, fr2, S2, G)
  BY <1>26, <1>27 DEF RefsOK
<1> QED BY <1>1, <1>24, <1>28 DEF RunOK, cs2, S2

\* Sequences with the same elements are equal.
LEMMA SeqSame ==
    ASSUME NEW s, NEW t, IsSeq(s), IsSeq(t), Len(s) = Len(t), \A k \in 1..Len(s) : s[k] = t[k]
    PROVE  s = t
<1>1. PICK A : s \in Seq(A)
  BY DEF IsSeq
<1>2. PICK B : t \in Seq(B)
  BY DEF IsSeq
<1> QED BY <1>1, <1>2

\* The state with the references marked that values moved away from.
FadedFrame(moves, g) == FrameRec(g.fn, g.pc, [x \in DOMAIN g.locals |-> Displaced(moves, g.locals[x])])
FadedCalls(moves) == [k \in DOMAIN callStack |-> FadedFrame(moves, callStack[k])]
FadedStack(moves) == [k \in DOMAIN operandStack |-> Displaced(moves, operandStack[k])]

\* A frame whose references were marked keeps its types.
LEMMA FadedFrameIs ==
    ASSUME NEW moves, NEW g, IsFrame(g), LocalsTyped(g.fn, g.locals)
    PROVE  /\ MarkedFrame({}, g, FadedFrame(moves, g))
           /\ [g EXCEPT !.locals = [x \in DOMAIN g.locals |-> Displaced(moves, g.locals[x])]] = FadedFrame(moves, g)
<1> DEFINE a == [x \in DOMAIN g.locals |-> Displaced(moves, g.locals[x])]
           h == FrameRec(g.fn, g.pc, a)
<1>1. h = FadedFrame(moves, g)
  BY DEF FadedFrame
<1>2. [g EXCEPT !.locals = a] = h
  <2> HIDE DEF a
  <2> QED BY SetLocals
<1>3. IsFrame(h) /\ h.fn = g.fn /\ h.pc = g.pc /\ h.locals = a
  BY FrameRecIs
<1>4. g.locals = [x \in Locals(g.fn) |-> g.locals[x]]
  BY DEF LocalsTyped
<1>5. DOMAIN g.locals = Locals(g.fn)
  BY <1>4
<1>6. a = [x \in Locals(g.fn) |-> a[x]] /\ \A x \in Locals(g.fn) : a[x] = Displaced(moves, g.locals[x])
  BY <1>5
<1>7. \A x \in Locals(g.fn) : Marked(g.locals[x], Displaced(moves, g.locals[x]))
  BY DisplacedIs
<1> HIDE DEF h, a
<1>8. MarkedFrame({}, g, h)
  BY <1>3, <1>6, <1>7 DEF MarkedFrame, NotInto
<1> QED BY <1>1, <1>2, <1>8 DEF a

\* The state stays as computed when references are marked.
LEMMA Faded ==
    ASSUME RunningOK, NEW moves
    PROVE  /\ RunOK(program, FadedCalls(moves), FadedFrame(moves, frame), FadedStack(moves), global)
           /\ IsSeq(FadedCalls(moves)) /\ Len(FadedCalls(moves)) = Len(callStack)
           /\ \A k \in 1..Len(callStack) :
                 /\ IsFrame(callStack[k]) /\ LocalsTyped(callStack[k].fn, callStack[k].locals)
                 /\ FadedCalls(moves)[k] = FadedFrame(moves, callStack[k])
           /\ IsSeq(FadedStack(moves)) /\ Len(FadedStack(moves)) = Len(operandStack)
           /\ \A k \in 1..Len(operandStack) : FadedStack(moves)[k] = Displaced(moves, operandStack[k])
<1> DEFINE cs2 == FadedCalls(moves)
           S2 == FadedStack(moves)
<1>1. /\ IsFrame(frame) /\ LocalsTyped(frame.fn, frame.locals)
      /\ ShapeOK(program, callStack, frame, operandStack)
      /\ IsSeq(callStack) /\ IsSeq(operandStack) /\ Len(callStack) \in Nat /\ Len(operandStack) \in Nat
  BY FrameNow
<1>2. DOMAIN callStack = 1..Len(callStack) /\ DOMAIN operandStack = 1..Len(operandStack)
  BY <1>1 DEF IsSeq
<1>3. /\ S2 = [k \in 1..Len(operandStack) |-> S2[k]]
      /\ \A k \in 1..Len(operandStack) : S2[k] = Displaced(moves, operandStack[k])
  BY <1>2 DEF FadedStack
<1>4. /\ cs2 = [k \in 1..Len(callStack) |-> cs2[k]]
      /\ \A k \in 1..Len(callStack) : cs2[k] = FadedFrame(moves, callStack[k])
  BY <1>2 DEF FadedCalls
<1> HIDE DEF cs2, S2
<1>5. IsSeq(S2) /\ Len(S2) = Len(operandStack) /\ IsSeq(cs2) /\ Len(cs2) = Len(callStack)
  BY <1>1, <1>3, <1>4, FunIsSeq
<1>6. \A k \in 1..Len(callStack) : IsFrame(callStack[k]) /\ LocalsTyped(callStack[k].fn, callStack[k].locals)
  <2> SUFFICES ASSUME NEW k \in 1..Len(callStack)
               PROVE  IsFrame(callStack[k]) /\ LocalsTyped(callStack[k].fn, callStack[k].locals)
    OBVIOUS
  <2>1. k \in Depths(callStack) /\ FrameAt(callStack, frame, k) = callStack[k]
    BY <1>1 DEF Depths, FrameAt
  <2>2. FrameOK(program, callStack[k])
    BY <1>1, <2>1 DEF ShapeOK
  <2> QED BY <2>2 DEF FrameOK
<1>7. \A k \in 1..Len(callStack) : MarkedFrame({}, callStack[k], cs2[k])
  BY <1>4, <1>6, FadedFrameIs
<1>8. MarkedFrame({}, frame, FadedFrame(moves, frame))
  BY <1>1, FadedFrameIs
<1>9. \A j \in 1..Len(operandStack) : Marked(operandStack[j], S2[j])
  BY <1>3, DisplacedIs
<1>10. RunOK(program, callStack, frame, operandStack, global)
  BY DEF RunningOK
<1>11. RunOK(program, cs2, FadedFrame(moves, frame), S2, global)
  BY <1>5, <1>7, <1>8, <1>9, <1>10, MarkedState
<1> QED BY <1>3, <1>4, <1>5, <1>6, <1>11 DEF cs2, S2

\* What is below the operands of the current instruction, and these, once marked.
LEMMA FadedParts ==
    ASSUME RunningOK, NEW moves, NEW n \in Nat, n <= Len(operandStack)
    PROVE  /\ [k \in DOMAIN Below(n) |-> Displaced(moves, Below(n)[k])]
                 = SubSeq(FadedStack(moves), 1, Len(FadedStack(moves)) - n)
           /\ LET q == [k \in DOMAIN TopN(n) |-> Displaced(moves, TopN(n)[k])]
               IN  IsSeq(q) /\ Len(q) = n /\ \A k \in 1..n : q[k] = FadedStack(moves)[Len(operandStack) - n + k]
<1> DEFINE S == operandStack
           S2 == FadedStack(moves)
           m == Len(S) - n
           b == [k \in DOMAIN Below(n) |-> Displaced(moves, Below(n)[k])]
           c == SubSeq(S2, 1, m)
           q == [k \in DOMAIN TopN(n) |-> Displaced(moves, TopN(n)[k])]
<1>1. IsSeq(S) /\ Len(S) \in Nat
  BY FrameNow
<1>2. IsSeq(S2) /\ Len(S2) = Len(S) /\ \A k \in 1..Len(S) : S2[k] = Displaced(moves, S[k])
  BY Faded
<1>3. m \in Nat /\ m <= Len(S) /\ (\A k \in 1..m : k \in 1..Len(S)) /\ \A k \in 1..n : m + k \in 1..Len(S)
  BY <1>1
<1> HIDE DEF S2, m
<1>4. IsSeq(Below(n)) /\ Len(Below(n)) = m /\ \A k \in 1..m : Below(n)[k] = S[k]
  BY <1>1, <1>3, SeqPrefix, SeqElements DEF Below, Depth, m
<1>5. IsSeq(c) /\ Len(c) = m /\ \A k \in 1..m : c[k] = S2[k]
  BY <1>2, <1>3, SeqPrefix, SeqElements
<1>6. IsSeq(TopN(n)) /\ Len(TopN(n)) = n /\ \A k \in 1..n : TopN(n)[k] = S[m + k]
  BY <1>1, SeqSuffix DEF TopN, Depth, m
<1>7. DOMAIN Below(n) = 1..m /\ DOMAIN TopN(n) = 1..n
  BY <1>4, <1>6 DEF IsSeq
<1>8. /\ b = [k \in 1..m |-> b[k]] /\ \A k \in 1..m : b[k] = Displaced(moves, Below(n)[k])
      /\ q = [k \in 1..n |-> q[k]] /\ \A k \in 1..n : q[k] = Displaced(moves, TopN(n)[k])
  BY <1>7
<1> HIDE DEF b, c, q
<1>9. IsSeq(b) /\ Len(b) = m /\ IsSeq(q) /\ Len(q) = n
  BY <1>3, <1>8, FunIsSeq
<1>10. \A k \in 1..m : b[k] = c[k]
  BY <1>2, <1>3, <1>4, <1>5, <1>8
<1>11. b = c
  BY <1>5, <1>9, <1>10, SeqSame
<1>12. \A k \in 1..n : q[k] = S2[m + k]
  BY <1>2, <1>3, <1>6, <1>8
<1> QED BY <1>2, <1>9, <1>11, <1>12 DEF b, c, q, S2, m

\* The arguments are of the declared types, the callee is in the program.
LEMMA CallOK ==
    ASSUME RunningOK, Call
    PROVE  Outcome
<1> DEFINE f == Current.a
           n == Len(Sig[f].params)
           moves == {<<OnStack(Depth - n + k), <<LocalRoot(Len(callStack) + 2, k - 1)>> >> : k \in 1 .. n}
           cs2 == FadedCalls(moves)
           fr2 == FadedFrame(moves, frame)
           S2 == FadedStack(moves)
           q == [k \in DOMAIN TopN(n) |-> Displaced(moves, TopN(n)[k])]
           h == NewFrame(f, q)
<1>1. Current.op = "Call"
  BY RunningOp DEF Call
<1>2. NumPops(frame.fn, Current) = n
  BY <1>1 DEF NumPops
<1>3. /\ n \in Nat /\ Depth >= n /\ n <= Len(operandStack)
      /\ TypeCheck(frame.fn, Current, StaticOperands)
      /\ \A k \in 1..n : TopN(n)[k] = operandStack[Depth - n + k] /\ ValueOK(TopN(n)[k], StaticOperands[k])
  <2> HIDE DEF n
  <2> QED BY <1>2, OperandsNow DEF Depth
<1>4. StaticOperands = Sig[f].params
  BY <1>1, <1>3 DEF TypeCheck, DeclaredOk
<1>5. f \in DOMAIN program
  BY <1>1, InstructionNow
<1>6. /\ ProgramOK(program) /\ IsSeq(callStack) /\ Len(callStack) \in Nat /\ Len(operandStack) \in Nat
      /\ IsFrame(frame) /\ LocalsTyped(frame.fn, frame.locals)
  BY FrameNow
<1> HIDE DEF moves
<1>7. /\ RunOK(program, cs2, fr2, S2, global)
      /\ IsSeq(cs2) /\ Len(cs2) = Len(callStack)
      /\ \A k \in 1..Len(callStack) :
            /\ IsFrame(callStack[k]) /\ LocalsTyped(callStack[k].fn, callStack[k].locals)
            /\ cs2[k] = FadedFrame(moves, callStack[k])
      /\ IsSeq(S2) /\ Len(S2) = Len(operandStack)
      /\ \A k \in 1..Len(operandStack) : S2[k] = Displaced(moves, operandStack[k])
  BY Faded
<1>8. /\ [k \in DOMAIN Below(n) |-> Displaced(moves, Below(n)[k])] = SubSeq(S2, 1, Len(S2) - n)
      /\ IsSeq(q) /\ Len(q) = n /\ \A k \in 1..n : q[k] = S2[Len(operandStack) - n + k]
  <2> HIDE DEF n
  <2> QED BY <1>3, FadedParts
<1>9. \A k \in 1..n : Len(operandStack) - n + k \in 1..Len(operandStack)
  <2> HIDE DEF n
  <2> QED BY <1>3, <1>6
<1> HIDE DEF f, q, cs2, fr2, S2
<1>10. \A k \in 1..Len(q) : /\ HasType(q[k], Sig[f].params[k])
                             /\ GoodRef(cs2, fr2, global, Len(cs2) + 1, q[k])
  <2> SUFFICES ASSUME NEW k \in 1..n
               PROVE  HasType(q[k], Sig[f].params[k]) /\ GoodRef(cs2, fr2, global, Len(cs2) + 1, q[k])
    BY <1>8
  <2> HIDE DEF n
  <2>1. HasType(operandStack[Len(operandStack) - n + k], Sig[f].params[k])
    BY <1>3, <1>4 DEF ValueOK, Depth
  <2>2. Marked(operandStack[Len(operandStack) - n + k], S2[Len(operandStack) - n + k])
    BY <1>7, <1>9, DisplacedIs
  <2>3. GoodRef(cs2, fr2, global, Len(cs2) + 1, S2[Len(operandStack) - n + k])
    BY <1>7, <1>9 DEF RunOK, RefsOK
  <2> QED BY <1>8, <2>1, <2>2, <2>3, MarkedType
<1>11. /\ FrameOK(program, h) /\ h.fn = f /\ StackOf(program, h) = <<>>
       /\ \A l \in Locals(f) : h.locals[l] = Invalid \/ \E k \in 1..Len(q) : h.locals[l] = q[k]
  BY <1>5, <1>6, <1>8, <1>10, NewFrameOK
<1>12. \A l \in Locals(f) : GoodRef(cs2, fr2, global, Len(cs2) + 1, h.locals[l])
  <2> SUFFICES ASSUME NEW l \in Locals(f) PROVE GoodRef(cs2, fr2, global, Len(cs2) + 1, h.locals[l])
    OBVIOUS
  <2> HIDE DEF h, n
  <2>1. CASE h.locals[l] = Invalid
    BY <2>1, InvalidIs DEF GoodRef
  <2>2. CASE h.locals[l] # Invalid
    <3>1. PICK k \in 1..Len(q) : h.locals[l] = q[k]
      BY <1>11, <2>2
    <3> QED BY <1>10, <3>1
  <2> QED BY <2>1, <2>2
<1> HIDE DEF h, n
<1>13. CASE Fail("CALL_STACK_OVERFLOW")
  BY <1>13, FailOK DEF Stopped
<1>14. CASE ~Fail("CALL_STACK_OVERFLOW")
  <2> DEFINE marked(fr) == [fr EXCEPT !.locals = [l \in DOMAIN fr.locals |-> Displaced(moves, fr.locals[l])]]
             top == [k \in 1 .. Len(callStack) + 1 |-> marked(Frames[k])]
             down == [k \in DOMAIN Below(n) |-> Displaced(moves, Below(n)[k])]
  <2>1. /\ callStack' = top /\ frame' = h /\ operandStack' = down
        /\ global' = global /\ status' = status
    BY <1>3, <1>14 DEF Call, Unless, h, n, f, q, moves, MarkFrame, MarkAll
  <2>2. operandStack' = SubSeq(S2, 1, Len(S2) - n)
    BY <1>8, <2>1
  <2>3. /\ IsSeq(Frames) /\ Len(Frames) = Len(callStack) + 1 /\ Frames[Len(callStack) + 1] = frame
        /\ \A k \in 1..Len(callStack) : Frames[k] = callStack[k]
    <3>1. IsSeq(Frames)
      BY <1>6, SeqAppend DEF Frames
    <3>2. PICK A : callStack \in Seq(A)
      BY <1>6 DEF IsSeq
    <3>3. callStack \in Seq(A \union {frame}) /\ frame \in A \union {frame}
      BY <3>2
    <3> QED BY <3>1, <3>3 DEF Frames
  <2>4. /\ IsSeq(Append(cs2, fr2)) /\ Len(Append(cs2, fr2)) = Len(callStack) + 1
        /\ Append(cs2, fr2)[Len(callStack) + 1] = fr2
        /\ \A k \in 1..Len(callStack) : Append(cs2, fr2)[k] = cs2[k]
    <3>1. IsSeq(Append(cs2, fr2))
      BY <1>7, SeqAppend
    <3>2. PICK A : cs2 \in Seq(A)
      BY <1>7 DEF IsSeq
    <3>3. cs2 \in Seq(A \union {fr2}) /\ fr2 \in A \union {fr2}
      BY <3>2
    <3> QED BY <1>7, <3>1, <3>3
  <2>5. /\ top = [k \in 1..(Len(callStack) + 1) |-> top[k]]
        /\ \A k \in 1..(Len(callStack) + 1) : top[k] = marked(Frames[k])
    OBVIOUS
  <2>6. \A g : IsFrame(g) /\ LocalsTyped(g.fn, g.locals) => marked(g) = FadedFrame(moves, g)
    BY FadedFrameIs
  <2> HIDE DEF marked, top, down
  <2>7. IsSeq(top) /\ Len(top) = Len(callStack) + 1
    BY <1>6, <2>5, FunIsSeq
  <2>8. \A k \in 1..(Len(callStack) + 1) : top[k] = Append(cs2, fr2)[k]
    <3> SUFFICES ASSUME NEW k \in 1..(Len(callStack) + 1) PROVE top[k] = Append(cs2, fr2)[k]
      OBVIOUS
    <3>1. CASE k = Len(callStack) + 1
      BY <1>6, <2>3, <2>4, <2>5, <2>6, <3>1 DEF fr2
    <3>2. CASE k # Len(callStack) + 1
      <4>1. k \in 1..Len(callStack)
        BY <1>6, <3>2
      <4> QED BY <1>7, <2>3, <2>4, <2>5, <2>6, <4>1
    <3> QED BY <3>1, <3>2
  <2>9. callStack' = Append(cs2, fr2)
    BY <2>1, <2>4, <2>7, <2>8, SeqSame
  <2>10. fr2.fn = frame.fn /\ fr2.pc = frame.pc
    BY FrameRecIs DEF fr2, FadedFrame
  <2>11. InstrOf(program, fr2).op = "Call"
        /\ f = InstrOf(program, fr2).a /\ n = NumPops(fr2.fn, InstrOf(program, fr2))
    BY <1>1, <1>2, <2>10, CurrentIs DEF f, InstrOf
  <2>12. RunOK(program, Append(cs2, fr2), h, SubSeq(S2, 1, Len(S2) - n), global)
    BY <1>7, <1>11, <1>12, <2>11, CallFrames
  <2>13. Len(operandStack') <= StackLimit
    <3>1. Len(S2) - n \in Nat /\ Len(S2) - n <= Len(S2)
      BY <1>3, <1>6, <1>7
    <3>2. Len(operandStack') = Len(S2) - n
      BY <1>7, <2>2, <3>1, SeqPrefix
    <3>3. Len(operandStack) <= StackLimit /\ StackLimit \in Nat
      BY InterpreterConstants DEF RunningOK
    <3> QED BY <1>3, <1>6, <1>7, <3>2, <3>3
  <2> QED BY <2>1, <2>2, <2>9, <2>12, <2>13 DEF Outcome, RunningOK
<1> QED BY <1>13, <1>14

\* A reference that is marked leads nowhere else.
LEMMA GoodRefMarked ==
    ASSUME NEW cs, NEW fr, NEW G, NEW d, NEW v, GoodRef(cs, fr, G, d, v), NEW w, Marked(v, w)
    PROVE  GoodRef(cs, fr, G, d, w)
<1> SUFFICES ASSUME IsReference(w)
             PROVE  GoodRef(cs, fr, G, d, w)
  BY DEF GoodRef
<1>1. IsReference(v) /\ (w.mark = "live" => w = v) /\ w.mark \in Marks /\ "mark" \in DOMAIN w
  BY MarkedLive DEF GoodRef
<1>2. CASE w.mark # "live"
  BY <1>1, <1>2 DEF GoodRef
<1>3. CASE w.mark = "live"
  BY <1>1, <1>3
<1> QED BY <1>2, <1>3

\* The numbers in ReturnFrames: the part of the caller, which begins above b, has own values, the
\* callee's part on top of it, which begins above c, has r, the results.
Joined(b, own, c, r, a) ==
    /\ b + (own + r) = a
    /\ \A j \in 1..(own + r) : \/ j \in 1..own
                               \/ \E d \in 1..r : j = own + d /\ b + j = c + d

\* The arithmetic of a return: the results join the part of the stack that belongs to the caller.
LEMMA JoinedParts ==
    ASSUME NEW b \in Nat, NEW own \in Nat, NEW c, c = b + own, NEW r \in Nat, NEW a, a = c + r
    PROVE  Joined(b, own, c, r, a)
<1>1. b + (own + r) = a
  OBVIOUS
<1>2. ASSUME NEW j \in 1..(own + r), ~(j \in 1..own)
      PROVE  \E d \in 1..r : j = own + d /\ b + j = c + d
  <2>1. j - own \in 1..r /\ j = own + (j - own) /\ b + j = c + (j - own)
    BY <1>2
  <2> QED BY <2>1
<1> QED BY <1>1, <1>2 DEF Joined

\* On the stack S2 the references of S into the current frame are marked.
LeftBehind(cs, fr, S, S2) ==
    /\ IsSeq(S2) /\ Len(S2) = Len(S)
    /\ \A j \in 1..Len(S) : /\ Marked(S[j], S2[j])
                            /\ IsReference(S2[j]) /\ S2[j].mark = "live" =>
                                  \A l \in Locals(fr.fn) : S2[j].at[1] # LocalRoot(Len(cs) + 1, l)

\* A return: the caller goes on after its call with the declared results.
LEMMA ReturnFrames ==
    ASSUME NEW p, NEW cs, NEW fr, NEW S, NEW G, RunOK(p, cs, fr, S, G), InstrOf(p, fr).op = "Ret",
           cs # <<>>, NEW g, g = cs[Len(cs)],
           NEW cs2, cs2 = SubSeq(cs, 1, Len(cs) - 1), NEW fr2, fr2 = FrameRec(g.fn, g.pc + 1, g.locals),
           NEW S2, LeftBehind(cs, fr, S, S2)
    PROVE  RunOK(p, cs2, fr2, S2, G)
<1>0. IsSeq(S2) /\ Len(S2) = Len(S) /\ \A j \in 1..Len(S) : Marked(S[j], S2[j])
  BY DEF LeftBehind
<1> DEFINE n == Len(cs)
           i == InstrOf(p, g)
           st == StackOf(p, g)
           rets == Sig[fr.fn].rets
           under == SubSeq(st, 1, Len(st) - NumPops(g.fn, i))
           own == Len(st) - NumPops(g.fn, i)
<1>1. ProgramOK(p) /\ ShapeOK(p, cs, fr, S) /\ GlobalOK(G) /\ RefsOK(cs, fr, S, G) /\ IsSeq(cs) /\ IsSeq(S)
  BY DEF RunOK, ShapeOK
<1>2. n \in Nat /\ n >= 1 /\ Len(S) \in Nat /\ n - 1 \in Nat /\ n - 1 <= n
  <2>1. n \in Nat /\ n # 0 /\ Len(S) \in Nat
    BY <1>1, SeqLen
  <2> HIDE DEF n
  <2> QED BY <2>1
<1>3. IsSeq(cs2) /\ Len(cs2) = n - 1 /\ \A k \in 1..(n - 1) : cs2[k] = cs[k]
  BY <1>1, <1>2, SeqPrefix, SeqElements
<1>4. IsFrame(fr2) /\ fr2.fn = g.fn /\ fr2.pc = g.pc + 1 /\ fr2.locals = g.locals
  BY FrameRecIs
<1> HIDE DEF n
<1>5. /\ Depths(cs) = 1..(n + 1) /\ Depths(cs2) = 1..n
      /\ FrameAt(cs, fr, n) = g /\ FrameAt(cs, fr, n + 1) = fr /\ FrameAt(cs2, fr2, n) = fr2
      /\ \A k \in 1..(n - 1) : FrameAt(cs, fr, k) = cs[k] /\ FrameAt(cs2, fr2, k) = cs[k] /\ cs2[k] = cs[k]
      /\ \A k \in 1..n : k \in 1..(n + 1) /\ (k = n \/ k \in 1..(n - 1))
      /\ n \in 1..n /\ n \in 1..(n + 1) /\ n + 1 \in 1..(n + 1)
  <2>1. Len(cs) = n
    BY DEF n
  <2> QED BY <1>2, <1>3, <2>1 DEF Depths, FrameAt
<1>6. \A k \in 1..(n + 1) : FrameOK(p, FrameAt(cs, fr, k))
  BY <1>1, <1>5 DEF ShapeOK
<1>7. FrameOK(p, g) /\ FrameOK(p, fr)
  BY <1>5, <1>6
<1>8. \A k \in 1..n : InstrOf(p, cs[k]).op = "Call" /\ InstrOf(p, cs[k]).a = FrameAt(cs, fr, k + 1).fn
  BY <1>1 DEF ShapeOK, n
<1>9. i.op = "Call" /\ i.a = fr.fn
  BY <1>5, <1>8 DEF n
<1>10. /\ Vetted(g.fn, p[g.fn]) /\ g.pc \in Offsets(p[g.fn]) /\ IsSeq(st) /\ Len(st) \in Nat
       /\ NumPops(g.fn, i) \in Nat /\ NumPops(g.fn, i) <= Len(st)
  BY <1>1, <1>7, FrameFacts
<1>11. FrameOK(p, fr2) /\ StackOf(p, fr2) = After(g.fn, i, st)
  <2>1. ~IsUnconditional(At(p[g.fn], g.pc))
    BY <1>9 DEF IsUnconditional, InstrOf
  <2>2. g.pc + 1 \in Range(Successors(p[g.fn], g.pc))
    BY <1>10, <2>1, GoesOn
  <2>3. Filled(fr2) = HeldAfter(InstrOf(p, g), Filled(g))
    BY <1>4, <1>9 DEF Filled, HeldAfter
  <2>4. LocalsTyped(g.fn, fr2.locals)
    BY <1>4, <1>7 DEF FrameOK
  <2> QED BY <1>1, <1>4, <1>7, <2>2, <2>3, <2>4, AdvancedFrameOK
<1>12. StackOf(p, fr) = rets
  <2>1. Vetted(fr.fn, p[fr.fn]) /\ fr.pc \in Offsets(p[fr.fn])
    BY <1>1, <1>7, FrameFacts
  <2> QED BY <2>1, StaticFacts DEF StackOf, InstrOf
<1>13. IsSeq(rets) /\ Len(rets) \in Nat
  BY <1>1, <1>7, <1>12, FrameFacts
<1>14. Pushed(g.fn, i, Operands(g.fn, i, st)) = rets
  BY <1>9 DEF Pushed
<1>15. own \in Nat /\ own <= Len(st) /\ IsSeq(under) /\ Len(under) = own /\ \A j \in 1..own : under[j] = st[j]
  <2>1. own \in Nat /\ own <= Len(st)
    <3> HIDE DEF st, i
    <3> QED BY <1>10
  <2> HIDE DEF st, own
  <2> QED BY <1>10, <2>1, SeqPrefix, SeqElements DEF own
<1>16. StackOf(p, fr2) = under \o rets
  BY <1>11, <1>14 DEF After
<1> HIDE DEF under, rets, st, i
<1>17. /\ Len(StackOf(p, fr2)) = own + Len(rets)
       /\ \A j \in 1..own : StackOf(p, fr2)[j] = st[j]
       /\ \A j \in 1..Len(rets) : StackOf(p, fr2)[own + j] = rets[j]
  <2>1. Len(under \o rets) = Len(under) + Len(rets)
    BY <1>13, <1>15, SeqConcat
  <2>2. /\ \A j \in 1..Len(under) : (under \o rets)[j] = under[j]
        /\ \A j \in 1..Len(rets) : (under \o rets)[Len(under) + j] = rets[j]
    BY <1>13, <1>15, SeqParts
  <2> QED BY <1>15, <1>16, <2>1, <2>2
<1>18. PICK base : IsLayout(p, cs, fr, S, base)
  BY <1>1 DEF ShapeOK
<1>19. Own(p, cs, fr, n) = own
  <2>1. n <= Len(cs)
    BY <1>2 DEF n
  <2> QED BY <1>5, <2>1 DEF Own, st, i
<1> HIDE DEF own
<1>20. Own(p, cs, fr, n + 1) = Len(rets)
  <2>1. ~(n + 1 <= Len(cs))
    BY <1>2 DEF n
  <2>2. Own(p, cs, fr, n + 1) = Len(rets) - 0
    BY <1>5, <1>12, <2>1 DEF Own
  <2> QED BY <1>13, <2>2
<1>21. Own(p, cs2, fr2, n) = own + Len(rets)
  <2>1. ~(n <= Len(cs2))
    BY <1>2, <1>3
  <2>2. Own(p, cs2, fr2, n) = (own + Len(rets)) - 0
    BY <1>5, <1>17, <2>1 DEF Own
  <2> QED BY <1>13, <1>15, <2>2
<1>22. \A k \in 1..(n - 1) : Own(p, cs2, fr2, k) = Own(p, cs, fr, k)
  <2> SUFFICES ASSUME NEW k \in 1..(n - 1) PROVE Own(p, cs2, fr2, k) = Own(p, cs, fr, k)
    OBVIOUS
  <2>1. k <= Len(cs) /\ k <= Len(cs2)
    BY <1>2, <1>3 DEF n
  <2> QED BY <1>5, <2>1 DEF Own
<1>23. /\ base \in [1..(n + 1) -> Nat] /\ base[n + 1] = base[n] + own /\ base[n + 1] + Len(rets) = Len(S)
       /\ \A k \in 1..n : base[k + 1] = base[k] + Own(p, cs, fr, k)
       /\ \A k \in 1..(n + 1) : \A j \in 1..Own(p, cs, fr, k) : HasType(S[base[k] + j], StackOf(p, FrameAt(cs, fr, k))[j])
  <2>1. Len(cs) = n
    BY DEF n
  <2> QED BY <1>5, <1>18, <1>19, <1>20, <2>1 DEF IsLayout
<1>24. base[n] \in Nat /\ \A k \in 1..n : base[k] \in Nat
  BY <1>5, <1>23
<1>25. Joined(base[n], own, base[n + 1], Len(rets), Len(S))
  BY <1>13, <1>15, <1>23, <1>24, JoinedParts
<1> DEFINE base2 == [k \in 1..n |-> base[k]]
<1>26. base2 \in [1..n -> Nat] /\ \A k \in 1..n : base2[k] = base[k]
  BY <1>24
<1> HIDE DEF base2
<1>27. \A k \in 1..Len(cs2) : base2[k + 1] = base2[k] + Own(p, cs2, fr2, k)
  <2> SUFFICES ASSUME NEW k \in 1..(n - 1) PROVE base2[k + 1] = base2[k] + Own(p, cs2, fr2, k)
    BY <1>3
  <2>1. k \in 1..n /\ k + 1 \in 1..n
    BY <1>2
  <2> QED BY <1>22, <1>23, <1>26, <2>1
<1>28. base2[Len(cs2) + 1] + Own(p, cs2, fr2, Len(cs2) + 1) = Len(S2)
  <2>1. Len(cs2) + 1 = n
    BY <1>2, <1>3
  <2> QED BY <1>0, <1>5, <1>21, <1>25, <1>26, <2>1 DEF Joined
<1>29. \A j \in 1..Len(S) : \A t : HasType(S[j], t) => HasType(S2[j], t)
  BY <1>0, MarkedType
<1>30. ASSUME NEW k \in 1..n, NEW j \in 1..Own(p, cs, fr, k)
       PROVE  base[k] + j \in 1..Len(S) /\ HasType(S2[base[k] + j], StackOf(p, FrameAt(cs, fr, k))[j])
  <2>1. Own(p, cs, fr, k) \in Nat /\ base[k] + Own(p, cs, fr, k) <= base[n + 1]
    BY <1>1, <1>18, LayoutGrows DEF n
  <2>2. base[n + 1] <= Len(S) /\ base[n + 1] \in Nat
    BY <1>5, <1>2, <1>13, <1>23
  <2>3. base[k] + j \in 1..Len(S)
    <3> DEFINE b == base[k]
               o == Own(p, cs, fr, k)
               top == base[n + 1]
               len == Len(S)
    <3>1. b \in Nat /\ o \in Nat /\ top \in Nat /\ len \in Nat /\ j \in 1..o /\ b + o <= top /\ top <= len
      BY <1>2, <1>24, <2>1, <2>2
    <3> HIDE DEF b, o, top, len
    <3>2. b + j \in 1..len
      BY <3>1
    <3> QED BY <3>2 DEF b, len
  <2> QED BY <1>5, <1>23, <1>29, <2>3
<1>31. ASSUME NEW j \in 1..Len(rets)
       PROVE  HasType(S2[base[n + 1] + j], rets[j])
  <2>1. base[n + 1] + j \in 1..Len(S)
    <3>1. base[n + 1] \in Nat
      BY <1>5, <1>23
    <3> QED BY <1>2, <1>13, <1>23, <3>1
  <2>2. HasType(S[base[n + 1] + j], StackOf(p, FrameAt(cs, fr, n + 1))[j])
    BY <1>5, <1>20, <1>23
  <2> QED BY <1>5, <1>12, <1>29, <2>1, <2>2
<1>32. ASSUME NEW k \in Depths(cs2), NEW j \in 1..Own(p, cs2, fr2, k)
       PROVE  HasType(S2[base2[k] + j], StackOf(p, FrameAt(cs2, fr2, k))[j])
  <2>1. CASE k = n
    <3>1. j \in 1..(own + Len(rets)) /\ base2[k] = base[n] /\ StackOf(p, FrameAt(cs2, fr2, k)) = StackOf(p, fr2)
      BY <1>5, <1>21, <1>26, <2>1
    <3>2. CASE j \in 1..own
      <4>1. HasType(S2[base[n] + j], StackOf(p, FrameAt(cs, fr, n))[j])
        BY <1>5, <1>19, <1>30, <3>2
      <4>2. HasType(S2[base[n] + j], st[j])
        BY <1>5, <4>1 DEF st
      <4> QED BY <1>17, <3>1, <3>2, <4>2
    <3>3. CASE ~(j \in 1..own)
      <4>1. PICK d \in 1..Len(rets) : j = own + d /\ base[n] + j = base[n + 1] + d
        BY <1>25, <3>1, <3>3 DEF Joined
      <4> QED BY <1>17, <1>31, <3>1, <4>1
    <3> QED BY <3>2, <3>3
  <2>2. CASE k # n
    <3>1. k \in 1..n /\ k \in 1..(n - 1)
      BY <1>5, <2>2
    <3> QED BY <1>5, <1>22, <1>26, <1>30, <3>1
  <2> QED BY <2>1, <2>2
<1>33. IsLayout(p, cs2, fr2, S2, base2)
  <2>1. base[1] = 0
    BY <1>18 DEF IsLayout
  <2>2. 1 \in 1..n
    BY <1>2
  <2>3. base2[1] = 0
    BY <1>26, <2>1, <2>2
  <2> QED BY <1>5, <1>26, <1>27, <1>28, <1>32, <2>3 DEF IsLayout
<1>34. \A k \in Depths(cs2) : FrameOK(p, FrameAt(cs2, fr2, k))
  BY <1>5, <1>6, <1>11
<1>35. \A k \in 1..Len(cs2) : InstrOf(p, cs2[k]).op = "Call" /\ InstrOf(p, cs2[k]).a = FrameAt(cs2, fr2, k + 1).fn
  <2> SUFFICES ASSUME NEW k \in 1..(n - 1)
               PROVE  InstrOf(p, cs2[k]).op = "Call" /\ InstrOf(p, cs2[k]).a = FrameAt(cs2, fr2, k + 1).fn
    BY <1>3
  <2>1. k \in 1..n /\ k + 1 \in 1..n
    BY <1>2
  <2>2. FrameAt(cs2, fr2, k + 1).fn = FrameAt(cs, fr, k + 1).fn
    BY <1>4, <1>5, <2>1
  <2> QED BY <1>5, <1>8, <2>1, <2>2
<1>36. ShapeOK(p, cs2, fr2, S2)
  BY <1>0, <1>3, <1>33, <1>34, <1>35 DEF ShapeOK
<1>37. \A k \in 1..n : /\ FrameAt(cs2, fr2, k).fn = FrameAt(cs, fr, k).fn
                       /\ FrameAt(cs2, fr2, k).locals = FrameAt(cs, fr, k).locals
  BY <1>4, <1>5
<1>38. \A j \in 1..Len(S2) : GoodRef(cs2, fr2, G, Len(cs2) + 1, S2[j])
  <2> SUFFICES ASSUME NEW j \in 1..Len(S) PROVE GoodRef(cs2, fr2, G, n, S2[j])
    <3>1. Len(cs2) + 1 = n
      BY <1>2, <1>3
    <3> QED BY <1>0, <3>1
  <2>1. GoodRef(cs, fr, G, n + 1, S[j])
    BY <1>1 DEF RefsOK, n
  <2>2. GoodRef(cs, fr, G, n + 1, S2[j])
    BY <1>0, <2>1, GoodRefMarked
  <2>3. IsReference(S2[j]) /\ S2[j].mark = "live" =>
            \A l \in Locals(FrameAt(cs, fr, n + 1).fn) : S2[j].at[1] # LocalRoot(n + 1, l)
    <3>1. IsReference(S2[j]) /\ S2[j].mark = "live" => \A l \in Locals(fr.fn) : S2[j].at[1] # LocalRoot(Len(cs) + 1, l)
      BY DEF LeftBehind
    <3> QED BY <1>5, <3>1 DEF n
  <2>4. GoodRef(cs, fr, G, n, S2[j])
    BY <1>2, <2>2, <2>3, GoodRefBelow
  <2>5. n <= n
    BY <1>2
  <2> QED BY <1>2, <1>37, <2>4, <2>5, GoodRefFrames
<1>39. \A k \in Depths(cs2) : \A l \in Locals(FrameAt(cs2, fr2, k).fn) :
          GoodRef(cs2, fr2, G, k, FrameAt(cs2, fr2, k).locals[l])
  <2> SUFFICES ASSUME NEW k \in 1..n, NEW l \in Locals(FrameAt(cs, fr, k).fn)
               PROVE  GoodRef(cs2, fr2, G, k, FrameAt(cs, fr, k).locals[l])
    BY <1>5, <1>37
  <2>1. GoodRef(cs, fr, G, k, FrameAt(cs, fr, k).locals[l])
    BY <1>1, <1>5 DEF RefsOK
  <2>2. k \in Nat /\ k <= k /\ \A x \in 1..k : x \in 1..n
    BY <1>2
  <2> QED BY <1>37, <2>1, <2>2, GoodRefFrames
<1>40. RefsOK(cs2, fr2, S2, G)
  BY <1>38, <1>39 DEF RefsOK
<1> QED BY <1>1, <1>36, <1>40 DEF RunOK

\* Nothing is left of the callee's part of the stack but the results.
LEMMA RetOK ==
    ASSUME RunningOK, Ret
    PROVE  Outcome
<1> DEFINE g == callStack[Len(callStack)]
           moves == {<<ThisLocal(l), Nowhere>> : l \in DOMAIN frame.locals}
           cs2 == FadedCalls(moves)
           fr2 == FadedFrame(moves, frame)
           S2 == FadedStack(moves)
           g2 == cs2[Len(cs2)]
           back == FrameRec(g2.fn, g2.pc + 1, g2.locals)
           low == SubSeq(cs2, 1, Len(cs2) - 1)
<1>1. InstrOf(program, frame).op = "Ret"
  BY RunningOp, CurrentIs DEF Ret
<1>2. /\ ProgramOK(program) /\ ShapeOK(program, callStack, frame, operandStack)
      /\ Len(callStack) \in Nat /\ Len(operandStack) \in Nat /\ IsSeq(callStack) /\ IsSeq(operandStack)
      /\ LocalsTyped(frame.fn, frame.locals)
  BY FrameNow
<1>3. CASE callStack = <<>>
  BY <1>3 DEF Ret, Outcome, Stopped
<1>4. CASE callStack # <<>>
  <2>1. Len(callStack) \in 1..Len(callStack)
    BY <1>2, <1>4, SeqLen
  <2>2. FrameOK(program, g) /\ InstrOf(program, g).op = "Call"
    <3>1. Len(callStack) \in Depths(callStack) /\ FrameAt(callStack, frame, Len(callStack)) = g
      BY <1>2, <2>1 DEF Depths, FrameAt
    <3> QED BY <1>2, <2>1, <3>1 DEF ShapeOK
  <2>3. g.pc + 1 < Len(Code(g.fn))
    <3>1. Vetted(g.fn, program[g.fn]) /\ g.pc \in Offsets(program[g.fn])
      BY <1>2, <2>2, FrameFacts
    <3>2. ~IsUnconditional(At(program[g.fn], g.pc))
      BY <2>2 DEF InstrOf, IsUnconditional
    <3> QED BY <3>1, <3>2, GoesOn DEF Code
  <2>4. Cut(moves, {LocalRoot(Here, l) : l \in Locals(frame.fn)})
    <3>1. DOMAIN frame.locals = Locals(frame.fn)
      BY <1>2 DEF LocalsTyped
    <3>2. \A root \in {LocalRoot(Here, l) : l \in Locals(frame.fn)} : \E m \in moves : m[1] = <<root>>
      <4> SUFFICES ASSUME NEW l \in Locals(frame.fn)
                   PROVE  \E m \in moves : m[1] = <<LocalRoot(Here, l)>>
        OBVIOUS
      <4>1. <<ThisLocal(l), Nowhere>> \in moves /\ <<ThisLocal(l), Nowhere>>[1] = ThisLocal(l)
        BY <3>1
      <4>2. ThisLocal(l) = <<LocalRoot(Here, l)>>
        BY DEF ThisLocal, Here
      <4> HIDE DEF moves
      <4> QED BY <4>1, <4>2
    <3> QED BY <3>2, CutRoots
  <2> DEFINE h == [g EXCEPT !.pc = g.pc + 1]
             marked(fr) == [fr EXCEPT !.locals = [l \in DOMAIN fr.locals |-> Displaced(moves, fr.locals[l])]]
             under == [k \in DOMAIN Front(callStack) |-> marked(callStack[k])]
  <2>5. /\ frame' = marked(h) /\ callStack' = under /\ operandStack' = S2 /\ global' = global /\ status' = status
    BY <1>4, <2>3 DEF Ret, Unless, Last, MarkAll, MarkFrame, FadedStack
  <2>6. IsSeq(Front(callStack)) /\ Len(Front(callStack)) = Len(callStack) - 1 /\ Len(callStack) - 1 \in Nat
    <3>1. Len(callStack) - 1 \in Nat /\ Len(callStack) - 1 <= Len(callStack)
      BY <1>2, <2>1
    <3> QED BY <1>2, <3>1, SeqPrefix DEF Front
  <2>7. /\ under = [k \in 1..(Len(callStack) - 1) |-> under[k]]
        /\ \A k \in 1..(Len(callStack) - 1) : under[k] = marked(callStack[k])
    BY <2>6 DEF IsSeq
  <2>8. \A fr : IsFrame(fr) /\ LocalsTyped(fr.fn, fr.locals) => marked(fr) = FadedFrame(moves, fr)
    BY FadedFrameIs
  <2> HIDE DEF moves
  <2>9. /\ RunOK(program, cs2, fr2, S2, global)
        /\ IsSeq(cs2) /\ Len(cs2) = Len(callStack)
        /\ \A k \in 1..Len(callStack) :
              /\ IsFrame(callStack[k]) /\ LocalsTyped(callStack[k].fn, callStack[k].locals)
              /\ cs2[k] = FadedFrame(moves, callStack[k])
        /\ IsSeq(S2) /\ Len(S2) = Len(operandStack)
        /\ \A k \in 1..Len(operandStack) : S2[k] = Displaced(moves, operandStack[k])
    BY Faded
  <2>10. h = FrameRec(g.fn, g.pc + 1, g.locals) /\ IsFrame(g) /\ LocalsTyped(g.fn, g.locals)
    <3>1. IsFrame(g) /\ LocalsTyped(g.fn, g.locals)
      BY <2>2 DEF FrameOK
    <3> HIDE DEF g
    <3> QED BY <3>1, SetPc
  <2>11. g2 = FadedFrame(moves, g)
    BY <2>1, <2>9
  <2> HIDE DEF h, under, marked, g, cs2, S2
  <2>12. IsFrame(h) /\ h.fn = g.fn /\ h.pc = g.pc + 1 /\ h.locals = g.locals
    BY <2>10, FrameRecIs
  <2>13. marked(h) = back
    <3>1. marked(h) = FadedFrame(moves, h)
      BY <2>8, <2>10, <2>12
    <3>2. g2.fn = g.fn /\ g2.pc = g.pc /\ g2.locals = [x \in DOMAIN g.locals |-> Displaced(moves, g.locals[x])]
      BY <2>11, FrameRecIs DEF FadedFrame
    <3> QED BY <2>12, <3>1, <3>2 DEF FadedFrame
  <2>14. under = low
    <3>1. IsSeq(low) /\ Len(low) = Len(callStack) - 1 /\ \A k \in 1..(Len(callStack) - 1) : low[k] = cs2[k]
      <4>1. Len(callStack) - 1 <= Len(cs2)
        BY <1>2, <2>9
      <4> QED BY <2>6, <2>9, <4>1, SeqPrefix, SeqElements
    <3>2. IsSeq(under) /\ Len(under) = Len(callStack) - 1
      BY <2>6, <2>7, FunIsSeq
    <3>3. \A k \in 1..(Len(callStack) - 1) : k \in 1..Len(callStack)
      BY <1>2
    <3> HIDE DEF low
    <3>4. \A k \in 1..(Len(callStack) - 1) : under[k] = low[k]
      BY <2>7, <2>8, <2>9, <3>1, <3>3
    <3> QED BY <3>1, <3>2, <3>4, SeqSame
  <2>15. fr2.fn = frame.fn /\ fr2.pc = frame.pc
    BY FrameRecIs DEF FadedFrame
  <2> HIDE DEF fr2
  <2>16. LeftBehind(cs2, fr2, S2, S2)
    <3> SUFFICES ASSUME NEW j \in 1..Len(S2), IsReference(S2[j]), S2[j].mark = "live", NEW l \in Locals(frame.fn)
                 PROVE  S2[j].at[1] # LocalRoot(Here, l)
      BY <2>9, <2>15 DEF LeftBehind, Marked, Here
    <3>1. GoodRef(callStack, frame, global, Here, operandStack[j])
      BY <2>9 DEF RunningOK, RunOK, RefsOK, Here
    <3>2. NotInto({LocalRoot(Here, x) : x \in Locals(frame.fn)}, Displaced(moves, operandStack[j]))
      BY <2>4, <3>1 DEF Cut
    <3> QED BY <2>9, <3>2 DEF NotInto
  <2>17. InstrOf(program, fr2).op = "Ret"
    BY <1>1, <2>15 DEF InstrOf
  <2>18. cs2 # <<>>
    BY <2>1, <2>9, SeqLen
  <2>19. RunOK(program, low, back, S2, global)
    <3> HIDE DEF g2
    <3> QED BY <2>9, <2>16, <2>17, <2>18, ReturnFrames DEF g2
  <2>20. Len(S2) <= StackLimit
    BY <2>9 DEF RunningOK
  <2> QED BY <2>5, <2>13, <2>14, <2>19, <2>20 DEF Outcome, RunningOK
<1> QED BY <1>3, <1>4

-----------------------------------------------------------------------------
(* The value a reference leads to.                                         *)

\* Induction: no number up to n is bad when 0 is not and the next after one that is not is not.
LEMMA NoneBad ==
    ASSUME NEW n \in Nat, NEW B, B \subseteq 0..n, 0 \notin B,
           \A k \in 0..(n - 1) : k \notin B => k + 1 \notin B
    PROVE  B = {}
<1> SUFFICES ASSUME B # {} PROVE FALSE
  OBVIOUS
<1>1. B \subseteq Nat
  OBVIOUS
<1>2. PICK m \in B : \A x \in B : m <= x
  BY <1>1, LeastNatural
<1>3. m \in 0..n /\ m # 0
  OBVIOUS
<1>4. m - 1 \in 0..(n - 1) /\ (m - 1) + 1 = m /\ ~(m <= m - 1)
  BY <1>3
<1>5. m - 1 \notin B
  BY <1>2, <1>4
<1> QED BY <1>4, <1>5

\* The same downwards.
LEMMA NoneBadDown ==
    ASSUME NEW n \in Nat, NEW B, B \subseteq 0..n, n \notin B,
           \A k \in 0..(n - 1) : k + 1 \notin B => k \notin B
    PROVE  B = {}
<1> SUFFICES ASSUME B # {} PROVE FALSE
  OBVIOUS
<1>1. B \in SUBSET (0..n)
  OBVIOUS
<1>2. PICK m \in B : \A x \in B : x <= m
  BY <1>1, GreatestNatural
<1>3. m \in 0..n /\ m # n
  OBVIOUS
<1>4. m \in 0..(n - 1) /\ ~(m + 1 <= m)
  BY <1>3
<1>5. m + 1 \notin B
  BY <1>2, <1>4
<1> QED BY <1>4, <1>5

\* All values on the way to a place are typed.
LEMMA TrailTyped ==
    ASSUME NEW at, IsSeq(at), Len(at) >= 1, NEW x, Typed(x), NEW h, IsTrail(at, x, h)
    PROVE  \A j \in 0..(Len(at) - 1) : Typed(h[j])
<1> DEFINE n == Len(at) - 1
           B == {j \in 0..n : ~Typed(h[j])}
<1>1. n \in Nat
  BY SeqLen
<1>2. 0 \notin B
  BY DEF IsTrail
<1>3. ASSUME NEW k \in 0..(n - 1), k \notin B PROVE k + 1 \notin B
  <2> HIDE DEF n
  <2>1. k \in 0..n /\ k + 1 \in 1..n /\ (k + 1) - 1 = k
    BY <1>1
  <2>2. Typed(h[k])
    BY <1>3, <2>1
  <2>3. at[(k + 1) + 1] \in 1..Len(h[(k + 1) - 1].f) /\ h[k + 1] = h[(k + 1) - 1].f[at[(k + 1) + 1]]
    BY <2>1 DEF IsTrail, n
  <2>4. Typed(h[k + 1])
    BY <2>1, <2>2, <2>3, TypedParts
  <2> QED BY <2>4
<1>4. B \subseteq 0..n
  OBVIOUS
<1>5. B = {}
  <2> HIDE DEF B, n
  <2> QED BY <1>1, <1>2, <1>3, <1>4, NoneBad
<1> QED BY <1>5

\* Visited is the table of the values on the way.
VisitedNext(v, path, g, n) == IF n = 0 THEN v ELSE g[n - 1].f[path[n]]

IsVisited(v, path, g) == g = [n \in 0..Len(path) |-> VisitedNext(v, path, g, n)]

\* path is the way to a place from its root.
IsWay(at, path) == Len(path) = Len(at) - 1 /\ \A j \in 1..(Len(at) - 1) : path[j] = at[j + 1]

\* The recursive function of the model computes the trail.
LEMMA VisitedIs ==
    ASSUME NEW at, Len(at) - 1 \in Nat, NEW path, IsWay(at, path), NEW x, NEW h, IsTrail(at, x, h)
    PROVE  \A j \in 0..(Len(at) - 1) : Visited(x, path)[j] = h[j]
<1> DEFINE n == Len(at) - 1
           T == CHOOSE g : IsVisited(x, path, g)
           g0 == [j \in 0..n |-> h[j]]
<1>1. n \in Nat /\ Len(path) = n /\ h[0] = x
  BY DEF IsWay, IsTrail
<1>2. \A j \in 1..n : h[j] = h[j - 1].f[path[j]]
  BY DEF IsWay, IsTrail
<1> HIDE DEF n
<1>3. IsVisited(x, path, g0)
  <2>1. \A j \in 0..n : j # 0 => j \in 1..n /\ j - 1 \in 0..n
    BY <1>1
  <2>2. \A j \in 0..n : g0[j] = VisitedNext(x, path, g0, j)
    BY <1>1, <1>2, <2>1 DEF VisitedNext
  <2>3. g0 = [j \in 0..n |-> VisitedNext(x, path, g0, j)]
    BY <2>2
  <2> QED BY <1>1, <2>3 DEF IsVisited
<1> HIDE DEF g0
<1>4. IsVisited(x, path, T)
  <2>1. \E g : IsVisited(x, path, g)
    BY <1>3
  <2> QED BY <2>1, Zenon
<1>5. Visited(x, path) = T
  BY Zenon DEF Visited, VisitedNext, IsVisited
<1> HIDE DEF T
<1>6. \A j \in 0..n : T[j] = VisitedNext(x, path, T, j)
  <2>1. \A j \in 0..Len(path) : T[j] = VisitedNext(x, path, T, j)
    BY <1>4, Zenon DEF IsVisited
  <2> QED BY <1>1, <2>1
<1> DEFINE B == {j \in 0..n : T[j] # h[j]}
<1>7. 0 \notin B
  <2>1. 0 \in 0..n
    BY <1>1
  <2>2. T[0] = x
    BY <1>6, <2>1 DEF VisitedNext
  <2> QED BY <1>1, <2>2
<1>8. ASSUME NEW k \in 0..(n - 1), k \notin B PROVE k + 1 \notin B
  <2>1. k \in 0..n /\ k + 1 \in 1..n /\ k + 1 \in 0..n /\ (k + 1) - 1 = k /\ k + 1 # 0
    BY <1>1
  <2>2. T[k] = h[k]
    BY <1>8, <2>1
  <2>3. T[k + 1] = T[(k + 1) - 1].f[path[k + 1]]
    BY <1>6, <2>1 DEF VisitedNext
  <2>4. h[k + 1] = h[(k + 1) - 1].f[path[k + 1]]
    BY <1>2, <2>1
  <2>5. T[k + 1] = h[k + 1]
    BY <2>1, <2>2, <2>3, <2>4
  <2> QED BY <2>5
<1>9. B \subseteq 0..n
  OBVIOUS
<1>10. B = {}
  <2> HIDE DEF B
  <2> QED BY <1>1, <1>7, <1>8, <1>9, NoneBad
<1> QED BY <1>5, <1>10 DEF n

\* The elements of the tail.
LEMMA TailIs ==
    ASSUME NEW at, IsSeq(at), Len(at) >= 1
    PROVE  IsWay(at, Tail(at)) /\ IsSeq(Tail(at)) /\ Len(at) - 1 \in Nat
<1>1. PICK A : at \in Seq(A)
  BY DEF IsSeq
<1>2. at # <<>> /\ Len(at) \in Nat
  BY <1>1
<1>3. Tail(at) \in Seq(A) /\ Len(Tail(at)) = Len(at) - 1
  BY <1>1, <1>2
<1>4. \A j \in 1..(Len(at) - 1) : Tail(at)[j] = at[j + 1]
  BY <1>1, <1>2
<1> QED BY <1>2, <1>3, <1>4 DEF IsWay, IsSeq

\* The value of a root, as the interpreter finds it.
LEMMA RootIs ==
    ASSUME RunningOK, NEW root, NEW x, RootHas(callStack, frame, global, Here, root, x)
    PROVE  RootValue(root) = x
<1>1. Len(callStack) \in Nat /\ IsSeq(callStack)
  BY FrameNow
<1>2. \A k \in 1..Here : Frames[k] = FrameAt(callStack, frame, k)
  <2>1. PICK A : callStack \in Seq(A)
    BY <1>1 DEF IsSeq
  <2>2. callStack \in Seq(A \union {frame}) /\ frame \in A \union {frame}
    BY <2>1
  <2>3. \A k \in 1..(Len(callStack) + 1) :
           Append(callStack, frame)[k] = IF k <= Len(callStack) THEN callStack[k] ELSE frame
    BY <2>2
  <2> QED BY <2>3 DEF Frames, FrameAt, Here
<1>3. ASSUME NEW k \in 1..Here, NEW l, root = LocalRoot(k, l), x = FrameAt(callStack, frame, k).locals[l]
      PROVE  RootValue(root) = x
  <2>1. root[1] = "local" /\ root[2] = k /\ root[3] = l
    BY <1>3 DEF LocalRoot
  <2>2. RootValue(root) = Frames[root[2]].locals[root[3]]
    BY <2>1 DEF RootValue
  <2> QED BY <1>2, <1>3, <2>1, <2>2
<1>4. ASSUME NEW t, root = GlobalRoot(t), x = global[t]
      PROVE  RootValue(root) = x
  <2>1. root[1] = "global" /\ root[2] = t
    BY <1>4 DEF GlobalRoot
  <2>2. RootValue(root) = global[root[2]]
    BY <2>1 DEF RootValue
  <2> QED BY <1>4, <2>1, <2>2
<1>5. ASSUME NEW t, root = SignerRoot(t), x = SignerValue(t)
      PROVE  RootValue(root) = x
  <2>1. root[1] = "signer" /\ root[2] = t
    BY <1>5 DEF SignerRoot
  <2>2. RootValue(root) = SignerValue(root[2])
    BY <2>1 DEF RootValue
  <2> QED BY <1>5, <2>1, <2>2
<1> QED BY <1>3, <1>4, <1>5 DEF RootHas

\* h are the values on the way to the place at.
Leads(at, h) ==
    /\ IsSeq(at) /\ Len(at) >= 1 /\ Len(at) - 1 \in Nat
    /\ RootHas(callStack, frame, global, Here, at[1], h[0]) /\ Typed(h[0]) /\ IsTrail(at, h[0], h)

\* A live reference leads to the value that ValueAt reads.
LEMMA LeadsTo ==
    ASSUME RunningOK, NEW at, NEW h, Leads(at, h)
    PROVE  ValueAt(at) = h[Len(at) - 1] /\ \A j \in 0..(Len(at) - 1) : Typed(h[j])
<1>1. /\ IsSeq(at) /\ Len(at) >= 1 /\ Len(at) - 1 \in Nat
      /\ RootHas(callStack, frame, global, Here, at[1], h[0]) /\ Typed(h[0]) /\ IsTrail(at, h[0], h)
  BY DEF Leads
<1>2. RootValue(at[1]) = h[0]
  BY <1>1, RootIs
<1>3. IsWay(at, Tail(at))
  BY <1>1, TailIs
<1>4. \A j \in 0..(Len(at) - 1) : Visited(h[0], Tail(at))[j] = h[j]
  BY <1>1, <1>3, VisitedIs
<1>5. Len(at) - 1 \in 0..(Len(at) - 1) /\ Len(Tail(at)) = Len(at) - 1
  BY <1>1, <1>3 DEF IsWay
<1>6. ValueAt(at) = h[Len(at) - 1]
  BY <1>2, <1>4, <1>5 DEF ValueAt, At_
<1> QED BY <1>1, <1>6, TrailTyped

\* A reference of type t that may be used.
LiveRef(r, t) == ValueOK(r, t) /\ Kind(t) \in ReferenceKinds /\ r.mark = "live"

\* A reference that passes the check of its use leads to a value.
LEMMA LiveRefIs ==
    ASSUME NEW r, NEW t, LiveRef(r, t)
    PROVE  /\ r = RefVal(t, r.at, r.mark) /\ t \in Types /\ IsReference(r) /\ r.ty = t /\ RefersTo(r) = Referred(t)
           /\ r.at[1][1] = "signer" => Kind(t) = "ref"
           /\ \E h : Leads(r.at, h) /\ h[Len(r.at) - 1].ty = Referred(t)
<1>1. HasType(r, t) /\ GoodRef(callStack, frame, global, Here, r) /\ Kind(t) \in ReferenceKinds /\ r.mark = "live"
  BY DEF LiveRef, ValueOK
<1>2. r = RefVal(t, r.at, r.mark) /\ t \in Types /\ IsReference(r) /\ r.ty = t /\ RefersTo(r) = Referred(t)
  BY <1>1, HasTypeFacts DEF HasType, RefersTo, Referred
<1>3. /\ IsSeq(r.at) /\ Len(r.at) >= 1
      /\ r.at[1][1] = "signer" => Kind(r.ty) = "ref"
      /\ \E x, h : /\ RootHas(callStack, frame, global, Here, r.at[1], x) /\ Typed(x)
                   /\ IsTrail(r.at, x, h) /\ h[Len(r.at) - 1].ty = RefersTo(r)
  BY <1>1, <1>2 DEF GoodRef
<1>4. Len(r.at) - 1 \in Nat
  BY <1>3, SeqLen
<1>5. PICK x, h : /\ RootHas(callStack, frame, global, Here, r.at[1], x) /\ Typed(x)
                  /\ IsTrail(r.at, x, h) /\ h[Len(r.at) - 1].ty = RefersTo(r)
  BY <1>3
<1>6. h[0] = x
  BY <1>5 DEF IsTrail
<1>7. Leads(r.at, h) /\ h[Len(r.at) - 1].ty = Referred(t)
  BY <1>2, <1>3, <1>4, <1>5, <1>6 DEF Leads
<1> QED BY <1>2, <1>3, <1>7

\* That value has the type referred to.
LEMMA LiveValue ==
    ASSUME RunningOK, NEW r, NEW t, LiveRef(r, t)
    PROVE  /\ Typed(ValueAt(r.at)) /\ ValueAt(r.at).ty = Referred(t) /\ RefersTo(r) = Referred(t)
           /\ Referred(t) \in Types /\ Kind(Referred(t)) \notin ReferenceKinds
           /\ Rep(ValueAt(r.at)) = Kind(Referred(t))
<1>1. PICK h : Leads(r.at, h) /\ h[Len(r.at) - 1].ty = Referred(t)
  BY LiveRefIs
<1>2. ValueAt(r.at) = h[Len(r.at) - 1] /\ Len(r.at) - 1 \in 0..(Len(r.at) - 1)
  BY <1>1, LeadsTo DEF Leads
<1>3. Typed(ValueAt(r.at)) /\ ValueAt(r.at).ty = Referred(t)
  BY <1>1, <1>2, LeadsTo
<1>4. Referred(t) \in Types /\ Kind(Referred(t)) \notin ReferenceKinds
  BY <1>3, TypedParts
<1>5. ValueAt(r.at) # Invalid
  BY <1>3, TypedIsNoReference
<1> QED BY <1>3, <1>4, <1>5, LiveRefIs DEF Rep

\* A reference that cannot be used ends the run in a benign way.
LEMMA RefMarks ==
    ASSUME NEW r, NEW t, ValueOK(r, t), Kind(t) \in ReferenceKinds
    PROVE  IsReference(r) /\ (LiveRef(r, t) \/ r.mark = "dangling" \/ r.mark = "stale") /\ RefersTo(r) = Referred(t)
<1>1. IsReference(r) /\ r.ty = t
  BY HasTypeFacts DEF ValueOK
<1>2. r.mark \in Marks
  BY <1>1 DEF ValueOK, GoodRef
<1> QED BY <1>1, <1>2 DEF Marks, LiveRef, RefersTo, Referred

\* A reference made anew.
LEMMA RefIs ==
    ASSUME NEW t \in Types, Kind(t) \in ReferenceKinds, NEW at
    PROVE  LET r == Ref(t, at) IN
           HasType(r, t) /\ r.at = at /\ r.ty = t /\ r.mark = "live" /\ IsReference(r) /\ "mark" \in DOMAIN r /\ RefersTo(r) = Referred(t)
<1>1. Ref(t, at) = RefVal(t, at, "live")
  BY DEF Ref, RefVal
<1>2. RefVal(t, at, "live").at = at /\ RefVal(t, at, "live").mark = "live" /\ RefVal(t, at, "live").ty = t
      /\ IsReference(RefVal(t, at, "live")) /\ "mark" \in DOMAIN RefVal(t, at, "live")
  BY DEF RefVal, IsReference
<1> QED BY <1>1, <1>2 DEF HasType, RefersTo, Referred

\* A new reference: where it leads to.
LEMMA MadeRef ==
    ASSUME NEW t \in Types, Kind(t) \in ReferenceKinds, NEW at, NEW h, Leads(at, h),
           h[Len(at) - 1].ty = Referred(t), at[1][1] = "signer" => Kind(t) = "ref"
    PROVE  ValueOK(Ref(t, at), t)
<1> DEFINE r == Ref(t, at)
<1>1. /\ HasType(r, t) /\ r.at = at /\ r.ty = t /\ r.mark = "live" /\ IsReference(r) /\ "mark" \in DOMAIN r
      /\ RefersTo(r) = Referred(t)
  BY RefIs
<1>2. /\ IsSeq(at) /\ Len(at) >= 1 /\ Len(at) - 1 \in Nat
      /\ RootHas(callStack, frame, global, Here, at[1], h[0]) /\ Typed(h[0]) /\ IsTrail(at, h[0], h)
  BY DEF Leads
<1> HIDE DEF r
<1>3. \E x, g : /\ RootHas(callStack, frame, global, Here, r.at[1], x) /\ Typed(x)
                /\ IsTrail(r.at, x, g) /\ g[Len(r.at) - 1].ty = RefersTo(r)
  BY <1>1, <1>2
<1>4. GoodRef(callStack, frame, global, Here, r)
  BY <1>1, <1>2, <1>3 DEF GoodRef, Marks
<1> QED BY <1>1, <1>4 DEF ValueOK, r

\* A reference to a root.
LEMMA RootRef ==
    ASSUME NEW t \in Types, Kind(t) \in ReferenceKinds, NEW root, NEW x,
           RootHas(callStack, frame, global, Here, root, x), Typed(x), x.ty = Referred(t), root[1] # "signer"
    PROVE  ValueOK(Ref(t, <<root>>), t)
<1> DEFINE h == [j \in {0} |-> x]
           at == <<root>>
<1>1. h[0] = x /\ at[1] = root /\ Len(at) = 1 /\ IsSeq(at)
  BY SeqOne
<1> HIDE DEF h, at
<1>2. Len(at) - 1 = 0 /\ \A j \in 1..(Len(at) - 1) : FALSE
  BY <1>1
<1>3. Leads(at, h)
  BY <1>1, <1>2 DEF Leads, IsTrail
<1>4. ValueOK(Ref(t, at), t)
  BY <1>1, <1>2, <1>3, MadeRef
<1> QED BY <1>4 DEF at

\* A reference to a component of what a reference leads to.
LEMMA ComponentRef ==
    ASSUME RunningOK, NEW r, NEW t, LiveRef(r, t), NEW k \in 1..Len(ValueAt(r.at).f),
           NEW u \in Types, Kind(u) \in ReferenceKinds, Referred(u) = Component(Referred(t), k),
           Kind(u) = "mut" => Kind(t) = "mut"
    PROVE  ValueOK(Ref(u, Append(r.at, k)), u)
<1> DEFINE n == Len(r.at) - 1
           at == Append(r.at, k)
<1>1. PICK h : Leads(r.at, h) /\ h[n].ty = Referred(t)
  BY LiveRefIs
<1>2. /\ IsSeq(r.at) /\ Len(r.at) >= 1 /\ n \in Nat /\ IsTrail(r.at, h[0], h) /\ Typed(h[0])
      /\ RootHas(callStack, frame, global, Here, r.at[1], h[0])
  BY <1>1 DEF Leads
<1>3. ValueAt(r.at) = h[n] /\ Typed(h[n])
  <2>1. n \in 0..n
    BY <1>2
  <2> QED BY <1>1, <2>1, LeadsTo
<1>4. IsSeq(at) /\ Len(at) = n + 2 /\ at[n + 2] = k /\ \A j \in 1..(n + 1) : at[j] = r.at[j]
  <2>1. IsSeq(at)
    BY <1>2, SeqAppend
  <2>2. PICK A : r.at \in Seq(A)
    BY <1>2 DEF IsSeq
  <2>3. r.at \in Seq(A \union {k}) /\ k \in A \union {k} /\ Len(r.at) \in Nat
    BY <2>2
  <2>4. Len(at) = Len(r.at) + 1 /\ at[Len(r.at) + 1] = k /\ \A j \in 1..Len(r.at) : at[j] = r.at[j]
    BY <2>3
  <2>5. Len(r.at) + 1 = n + 2 /\ Len(r.at) = n + 1
    BY <1>2, <2>3
  <2> QED BY <2>1, <2>4, <2>5
<1> DEFINE h2 == [j \in 0..(n + 1) |-> IF j <= n THEN h[j] ELSE h[n].f[k]]
<1>5. \A j \in 1..n : r.at[j + 1] \in 1..Len(h[j - 1].f) /\ h[j] = h[j - 1].f[r.at[j + 1]]
  BY <1>2 DEF IsTrail
<1> HIDE DEF n, at
<1>6. h2[n + 1] = h[n].f[k] /\ \A j \in 0..n : h2[j] = h[j]
  BY <1>2
<1> HIDE DEF h2
<1>7. IsTrail(at, h2[0], h2)
  <2> SUFFICES ASSUME NEW j \in 1..(Len(at) - 1)
               PROVE  at[j + 1] \in 1..Len(h2[j - 1].f) /\ h2[j] = h2[j - 1].f[at[j + 1]]
    BY DEF IsTrail
  <2>1. CASE j = n + 1
    <3>1. at[j + 1] = k /\ j - 1 = n /\ n \in 0..n
      BY <1>2, <1>4, <2>1
    <3> QED BY <1>3, <1>6, <2>1, <3>1
  <2>2. CASE j # n + 1
    <3>1. j \in 1..n /\ j \in 0..n /\ j - 1 \in 0..n /\ j + 1 \in 1..(n + 1)
      BY <1>2, <1>4, <2>2
    <3> QED BY <1>4, <1>5, <1>6, <3>1
  <2> QED BY <2>1, <2>2
<1>8. 1 \in 1..(n + 1) /\ 0 \in 0..n /\ Len(at) - 1 = n + 1 /\ Len(at) >= 1 /\ Len(at) - 1 \in Nat
  BY <1>2, <1>4
<1>9. Leads(at, h2)
  BY <1>2, <1>4, <1>6, <1>7, <1>8 DEF Leads
<1>10. h2[Len(at) - 1].ty = Referred(u)
  <2>1. h[n].f[k].ty = Component(h[n].ty, k)
    BY <1>3, TypedParts
  <2> QED BY <1>1, <1>6, <1>8, <2>1 DEF n
<1>11. at[1][1] = "signer" => Kind(u) = "ref"
  <2>1. r.at[1][1] = "signer" => Kind(t) = "ref"
    BY LiveRefIs
  <2> QED BY <1>4, <1>8, <2>1 DEF ReferenceKinds
<1>12. ValueOK(Ref(u, at), u)
  BY <1>9, <1>10, <1>11, MadeRef
<1> QED BY <1>12 DEF at

-----------------------------------------------------------------------------
(* Instructions that make and read references.                             *)

\* The type of references to a type.
LEMMA ReferenceIs ==
    ASSUME NEW kind, NEW t, HasReference(kind, t)
    PROVE  ReferenceTo(kind, t) \in Types /\ Kind(ReferenceTo(kind, t)) = kind /\ Referred(ReferenceTo(kind, t)) = t
<1>1. \E r \in Types : Kind(r) = kind /\ Referred(r) = t
  BY DEF HasReference, Referred
<1> QED BY <1>1 DEF ReferenceTo

MutOps == {"MutBorrowLoc", "MutBorrowField", "MutBorrowGlobal", "VecMutBorrow"}

\* The type of a reference made by a borrow is the one the type checker computed.
LEMMA RefTypeIs ==
    ASSUME NEW op, NEW t
    PROVE  RefType(op, t) = ReferenceTo(IF op \in MutOps THEN "mut" ELSE "ref", t)
BY Zenon DEF RefType, ReferenceTo, Referred, MutOps

\* The place is the local, which holds a value on every path.
LEMMA BorrowLocOK ==
    ASSUME RunningOK, NEW op \in {"MutBorrowLoc", "ImmBorrowLoc"}, BorrowLoc(op)
    PROVE  Outcome
<1> DEFINE l == Current.a
           v == frame.locals[l]
           kind == IF op = "MutBorrowLoc" THEN "mut" ELSE "ref"
           t == LocalAt(frame.fn, l)
           u == ReferenceTo(kind, t)
<1>1. Current.op = op
  BY RunningOp DEF BorrowLoc
<1>2. NumPops(frame.fn, Current) = 0 /\ StaticResults = <<u>>
  <2>1. CASE op = "MutBorrowLoc"
    BY <1>1, <2>1 DEF NumPops, StaticResults, Pushed
  <2>2. CASE op = "ImmBorrowLoc"
    BY <1>1, <2>2 DEF NumPops, StaticResults, Pushed
  <2> QED BY <2>1, <2>2
<1>3. operandStack = Rest
  BY <1>2, NoOperand
<1>4. l \in Locals(frame.fn) /\ v # Invalid /\ ValueOK(v, t)
  BY <1>1, LocalHeld
<1>5. Kind(t) \notin ReferenceKinds
  <2>1. TypeCheck(frame.fn, Current, StaticOperands)
    BY OperandsNow
  <2> QED BY <1>1, <2>1 DEF TypeCheck, ReferenceOk, IsReferenceType, ReferenceKinds
<1>6. Typed(v) /\ v.ty = t /\ ~IsReference(v)
  BY <1>4, <1>5, HasTypeFacts DEF ValueOK, HasType
<1>7. HasReference(kind, t)
  BY <1>1, <1>5, InstructionNow DEF ResultsInTable, ReferenceKinds
<1>8. u \in Types /\ Kind(u) = kind /\ Referred(u) = t
  BY <1>7, ReferenceIs
<1>9. RefType(op, v.ty) = u
  <2>1. (IF op \in MutOps THEN "mut" ELSE "ref") = kind
    BY DEF MutOps
  <2>2. RefType(op, t) = ReferenceTo(IF op \in MutOps THEN "mut" ELSE "ref", t)
    BY RefTypeIs
  <2> QED BY <1>6, <2>1, <2>2
<1>10. RootHas(callStack, frame, global, Here, LocalRoot(Here, l), v)
  <2>1. Len(callStack) \in Nat
    BY FrameNow
  <2>2. Here \in 1..Here /\ FrameAt(callStack, frame, Here) = frame
    BY <2>1 DEF FrameAt, Here
  <2> QED BY <1>4, <2>2 DEF RootHas
<1>11. LocalRoot(Here, l)[1] # "signer" /\ ThisLocal(l) = <<LocalRoot(Here, l)>>
  BY DEF LocalRoot, ThisLocal, Here
<1>12. Kind(u) \in ReferenceKinds
  BY <1>8 DEF ReferenceKinds
<1>13. Continue({}, operandStack, <<Ref(u, ThisLocal(l))>>)
  BY <1>4, <1>6, <1>9 DEF BorrowLoc, Unless
<1> HIDE DEF u, kind, l, v, t
<1>14. ValueOK(Ref(u, ThisLocal(l)), u)
  BY <1>6, <1>8, <1>10, <1>11, <1>12, RootRef
<1>15. ResultsOK(<<Ref(u, ThisLocal(l))>>)
  BY <1>2, <1>14, OneResult
<1> QED BY <1>1, <1>3, <1>13, <1>15, ContinueOK

\* A reference under the current instruction.
LEMMA UseFails ==
    ASSUME NEW r, NEW t, ValueOK(r, t), Kind(t) \in ReferenceKinds, ~LiveRef(r, t)
    PROVE  /\ IsReference(r)
           /\ ~(r.mark # "dangling") \/ (r.mark # "dangling" /\ ~(r.mark # "stale"))
BY RefMarks

\* The place is a field that exists in every value of the struct.
LEMMA BorrowFieldOK ==
    ASSUME RunningOK, NEW op \in {"MutBorrowField", "ImmBorrowField"}, BorrowField(op)
    PROVE  Outcome
<1> DEFINE r == Top
           t == StaticOperands[1]
           s == Pool[Current.a]
           k == Current.n
           kind == IF op = "MutBorrowField" THEN "mut" ELSE "ref"
           u == ReferenceTo(kind, Desc[s].args[k])
           fields == ValueAt(r.at).f
<1>1. Current.op = op
  BY RunningOp DEF BorrowField
<1>2. NumPops(frame.fn, Current) = 1 /\ StaticResults = <<u>>
  <2>1. CASE op = "MutBorrowField"
    BY <1>1, <2>1 DEF NumPops, StaticResults, Pushed
  <2>2. CASE op = "ImmBorrowField"
    BY <1>1, <2>2 DEF NumPops, StaticResults, Pushed
  <2> QED BY <2>1, <2>2
<1>3. /\ Depth >= 1 /\ Below(1) = Rest /\ TypeCheck(frame.fn, Current, StaticOperands)
      /\ ValueOK(r, t)
  BY <1>2, OneOperand
<1>4. Kind(t) \in ReferenceKinds /\ Referred(t) = s /\ (kind = "mut" => Kind(t) = "mut")
  <2>1. ReferenceOk(frame.fn, Current, StaticOperands)
    BY <1>3 DEF TypeCheck
  <2>2. CASE op = "MutBorrowField"
    BY <1>1, <2>1, <2>2 DEF ReferenceOk, ReferenceKinds
  <2>3. CASE op = "ImmBorrowField"
    BY <1>1, <2>1, <2>3 DEF ReferenceOk, ReferenceKinds, IsReferenceType
  <2> QED BY <2>2, <2>3
<1>5. s \in Types /\ Kind(s) = "struct" /\ k \in DOMAIN Desc[s].args
  BY <1>1, InstructionNow DEF PoolOps
<1>6. HasReference(kind, Desc[s].args[k])
  BY <1>1, InstructionNow DEF ResultsInTable
<1>7. u \in Types /\ Kind(u) = kind /\ Referred(u) = Desc[s].args[k] /\ Kind(u) \in ReferenceKinds
  BY <1>6, ReferenceIs DEF ReferenceKinds
<1>8. CASE ~LiveRef(r, t)
  <2>1. Fail("DANGLING_REFERENCE") \/ Fail("STALE_REFERENCE")
    BY <1>3, <1>4, <1>8, UseFails DEF BorrowField, Pops, UsingContainer, Using, Unless
  <2> QED BY <2>1, FailOK DEF Stopped
<1>9. CASE LiveRef(r, t)
  <2>1. Typed(ValueAt(r.at)) /\ ValueAt(r.at).ty = s /\ RefersTo(r) = s
    BY <1>4, <1>9, LiveValue
  <2>2. IsSeq(fields) /\ Len(fields) = Len(Desc[s].args)
    BY <1>5, <2>1, TypedParts
  <2>3. k \in DOMAIN fields /\ k \in 1..Len(fields)
    <3>1. Desc[s].args \in Seq(Types)
      BY <1>5, TypeTable
    <3> QED BY <1>5, <2>2, <3>1 DEF IsSeq
  <2>4. fields[k].ty = Desc[s].args[k] /\ Component(s, k) = Desc[s].args[k]
    BY <1>5, <2>1, <2>3, TypedParts DEF Component
  <2>5. RefType(op, fields[k].ty) = u
    <3>1. (IF op \in MutOps THEN "mut" ELSE "ref") = kind
      BY DEF MutOps
    <3>2. RefType(op, Desc[s].args[k]) = ReferenceTo(IF op \in MutOps THEN "mut" ELSE "ref", Desc[s].args[k])
      BY RefTypeIs
    <3> QED BY <2>4, <3>1, <3>2
  <2>6. IsReference(r) /\ r.mark = "live"
    BY <1>9, LiveRefIs DEF LiveRef
  <2>7. IsContainer(RefersTo(r))
    BY <1>5, <2>1 DEF IsContainer
  <2>8. Continue({}, Below(1), <<Ref(u, Append(r.at, k))>>)
    BY <1>3, <2>3, <2>5, <2>6, <2>7 DEF BorrowField, Pops, UsingContainer, Using, Unless
  <2>9. ValueOK(Ref(u, Append(r.at, k)), u)
    <3>1. Referred(u) = Component(Referred(t), k)
      BY <1>4, <1>7, <2>4
    <3>2. k \in 1..Len(ValueAt(r.at).f) /\ (Kind(u) = "mut" => Kind(t) = "mut")
      BY <1>4, <1>7, <2>3
    <3> HIDE DEF u, k, t, r, s, kind
    <3> QED BY <1>7, <1>9, <3>1, <3>2, ComponentRef
  <2> HIDE DEF u, k, t, r, s, kind
  <2>10. ResultsOK(<<Ref(u, Append(r.at, k))>>)
    BY <1>2, <2>9, OneResult
  <2> QED BY <1>1, <1>3, <2>8, <2>10, ContinueOK
<1> QED BY <1>8, <1>9

\* A reference that gets another type.
LEMMA Retype ==
    ASSUME NEW t, NEW at, NEW m, NEW u
    PROVE  [RefVal(t, at, m) EXCEPT !.ty = u] = RefVal(u, at, m)
<1> DEFINE r == RefVal(t, at, m)
           s == RefVal(u, at, m)
<1>1. DOMAIN r = DOMAIN s /\ DOMAIN s = {"ty", "b", "f", "at", "mark"}
  BY DEF RefVal
<1>2. r.mark = s.mark /\ r.b = s.b /\ r.f = s.f /\ r.at = s.at /\ s.ty = u
  BY DEF RefVal
<1>3. s = [k \in DOMAIN s |-> s[k]]
  BY DEF RefVal
<1> HIDE DEF r, s
<1>4. [r EXCEPT !.ty = u] = [k \in DOMAIN r |-> IF k = "ty" THEN u ELSE r[k]]
  OBVIOUS
<1>5. [k \in DOMAIN r |-> IF k = "ty" THEN u ELSE r[k]] = [k \in DOMAIN s |-> s[k]]
  BY <1>1, <1>2
<1> QED BY <1>3, <1>4, <1>5 DEF r, s

\* A frozen reference leads to the same place.
LEMMA FreezeRefOK ==
    ASSUME RunningOK, FreezeRef
    PROVE  Outcome
<1> DEFINE t == StaticOperands[1]
           u == ReferenceTo("ref", Referred(t))
           v == [Top EXCEPT !.ty = u]
<1>1. Current.op = "FreezeRef"
  BY RunningOp DEF FreezeRef
<1>2. NumPops(frame.fn, Current) = 1 /\ StaticResults = <<u>>
  BY <1>1 DEF NumPops, StaticResults, Pushed
<1>3. /\ Depth >= 1 /\ Depth \in Nat /\ Below(1) = Rest /\ TypeCheck(frame.fn, Current, StaticOperands)
      /\ ValueOK(Top, t)
  BY <1>2, OneOperand
<1>4. Kind(t) = "mut"
  BY <1>1, <1>3 DEF TypeCheck, ReferenceOk
<1>5. t \in Types /\ IsReference(Top) /\ Top.ty = t /\ RefersTo(Top) = Referred(t)
  BY <1>3, <1>4, HasTypeFacts DEF ValueOK, ReferenceKinds, RefersTo, Referred
<1>6. HasReference("ref", Referred(t))
  BY <1>1, <1>4, <1>5, InstructionNow DEF ResultsInTable, Referred
<1>7. u \in Types /\ Kind(u) = "ref" /\ Referred(u) = Referred(t)
  BY <1>6, ReferenceIs
<1>8. RefType("FreezeRef", RefersTo(Top)) = u
  <2>1. RefType("FreezeRef", Referred(t)) = ReferenceTo(IF "FreezeRef" \in MutOps THEN "mut" ELSE "ref", Referred(t))
    BY RefTypeIs
  <2>2. "FreezeRef" \notin MutOps
    BY DEF MutOps
  <2> QED BY <1>5, <2>1, <2>2
<1>9. Continue({}, Below(1), <<v>>)
  <2>1. Depth > 0
    BY <1>3
  <2> QED BY <1>5, <1>8, <2>1 DEF FreezeRef
<1>10. v = RefVal(u, Top.at, Top.mark)
  <2>1. Top = RefVal(t, Top.at, Top.mark)
    BY <1>3, <1>4 DEF ValueOK, HasType, ReferenceKinds
  <2>2. [RefVal(t, Top.at, Top.mark) EXCEPT !.ty = u] = RefVal(u, Top.at, Top.mark)
    BY Retype
  <2> HIDE DEF u, t
  <2> QED BY <2>1, <2>2
<1> HIDE DEF v
<1>11. v.ty = u /\ v.at = Top.at /\ v.mark = Top.mark /\ IsReference(v) /\ "mark" \in DOMAIN v
  BY <1>10 DEF RefVal, IsReference
<1>12. ValueOK(v, u)
  <2>1. HasType(v, u)
    BY <1>7, <1>10, <1>11 DEF HasType, ReferenceKinds
  <2>2. RefersTo(v) = RefersTo(Top)
    BY <1>5, <1>7, <1>11 DEF RefersTo, Referred
  <2>3. GoodRef(callStack, frame, global, Here, Top)
    BY <1>3 DEF ValueOK
  <2>4. GoodRef(callStack, frame, global, Here, v)
    <3> HIDE DEF u
    <3> QED BY <1>5, <1>7, <1>11, <2>2, <2>3 DEF GoodRef
  <2> QED BY <2>1, <2>4 DEF ValueOK
<1>13. ResultsOK(<<v>>)
  BY <1>2, <1>12, OneResult
<1> QED BY <1>1, <1>3, <1>9, <1>13, ContinueOK

\* What is read has the type referred to.
LEMMA ReadRefOK ==
    ASSUME RunningOK, ReadRef
    PROVE  Outcome
<1> DEFINE t == StaticOperands[1]
<1>1. Current.op = "ReadRef"
  BY RunningOp DEF ReadRef
<1>2. NumPops(frame.fn, Current) = 1 /\ StaticResults = <<Referred(t)>>
  BY <1>1 DEF NumPops, StaticResults, Pushed
<1>3. /\ Depth >= 1 /\ Below(1) = Rest /\ TypeCheck(frame.fn, Current, StaticOperands)
      /\ ValueOK(Top, t)
  BY <1>2, OneOperand
<1>4. Kind(t) \in ReferenceKinds
  BY <1>1, <1>3 DEF TypeCheck, ReferenceOk, IsReferenceType, ReferenceKinds
<1>5. CASE ~LiveRef(Top, t)
  <2>1. Fail("DANGLING_REFERENCE") \/ Fail("STALE_REFERENCE")
    BY <1>3, <1>4, <1>5, UseFails DEF ReadRef, Pops, Using, Unless
  <2> QED BY <2>1, FailOK DEF Stopped
<1>6. CASE LiveRef(Top, t)
  <2>1. /\ Typed(ValueAt(Top.at)) /\ ValueAt(Top.at).ty = Referred(t)
        /\ Referred(t) \in Types /\ Kind(Referred(t)) \notin ReferenceKinds
    BY <1>6, LiveValue
  <2>2. IsReference(Top) /\ Top.mark = "live"
    BY <1>6, LiveRefIs DEF LiveRef
  <2>3. Continue({}, Below(1), <<ValueAt(Top.at)>>)
    BY <1>3, <2>2 DEF ReadRef, Pops, Using, Unless
  <2>4. ResultsOK(<<ValueAt(Top.at)>>)
    BY <1>2, <2>1, PlainValue, OneResult
  <2> QED BY <1>1, <1>3, <2>3, <2>4, ContinueOK
<1> QED BY <1>5, <1>6

\* Both sides have the same representation.
LEMMA EqRefsOK ==
    ASSUME RunningOK, EqRefs
    PROVE  Outcome
<1> DEFINE t == StaticOperands[1]
           o == TopN(2)
<1>1. Current.op = "Eq"
  BY RunningOp DEF EqRefs
<1>2. NumPops(frame.fn, Current) = 2
  BY <1>1 DEF NumPops
<1>3. /\ Depth >= 2 /\ Below(2) = Rest /\ TypeCheck(frame.fn, Current, StaticOperands)
      /\ ValueOK(o[1], t) /\ ValueOK(o[2], StaticOperands[2])
  BY <1>2, TwoOperands
<1>4. StaticOperands[2] = t
  BY <1>1, <1>3 DEF TypeCheck, OperatorOk
<1>5. Kind(t) \in ReferenceKinds
  <2>1. IsReference(o[1])
    BY DEF EqRefs
  <2> QED BY <1>3, <2>1, HasTypeFacts DEF ValueOK
<1>6. CASE ~LiveRef(o[1], t)
  <2>1. Fail("DANGLING_REFERENCE") \/ Fail("STALE_REFERENCE")
    BY <1>3, <1>5, <1>6, UseFails DEF EqRefs, Using, Unless
  <2> QED BY <2>1, FailOK DEF Stopped
<1>7. CASE LiveRef(o[1], t) /\ ~LiveRef(o[2], t)
  <2>1. IsReference(o[1]) /\ o[1].mark = "live"
    BY <1>7, LiveRefIs DEF LiveRef
  <2>2. Fail("DANGLING_REFERENCE") \/ Fail("STALE_REFERENCE")
    BY <1>3, <1>4, <1>5, <1>7, <2>1, UseFails DEF EqRefs, Using, Unless
  <2> QED BY <2>2, FailOK DEF Stopped
<1>8. CASE LiveRef(o[1], t) /\ LiveRef(o[2], t)
  <2>1. /\ IsReference(o[1]) /\ o[1].mark = "live" /\ IsReference(o[2]) /\ o[2].mark = "live"
    BY <1>8, LiveRefIs DEF LiveRef
  <2>2. /\ ValueAt(o[1].at).ty = Referred(t) /\ Rep(ValueAt(o[1].at)) = Kind(Referred(t))
        /\ ValueAt(o[2].at).ty = Referred(t) /\ Rep(ValueAt(o[2].at)) = Kind(Referred(t))
    BY <1>8, LiveValue
  <2>3. Comparable(ValueAt(o[1].at), ValueAt(o[2].at))
    BY <2>2 DEF Comparable
  <2>4. PICK b \in BOOLEAN : Continue({}, Below(2), <<Bool(b)>>)
    BY <2>1, <2>3 DEF EqRefs, Using, Unless
  <2>5. ResultsOK(<<Bool(b)>>)
    BY <1>1, BoolResult DEF BoolOps
  <2> QED BY <1>1, <1>3, <2>4, <2>5, ContinueOK
<1> QED BY <1>6, <1>7, <1>8

LEMMA ExistsOK ==
    ASSUME RunningOK, Exists
    PROVE  Outcome
<1>1. Current.op = "Exists"
  BY RunningOp DEF Exists
<1>2. NumPops(frame.fn, Current) = 1
  BY <1>1 DEF NumPops
<1>3. /\ Depth >= 1 /\ Below(1) = Rest /\ TypeCheck(frame.fn, Current, StaticOperands)
      /\ ValueOK(Top, StaticOperands[1])
  BY <1>2, OneOperand
<1>4. Rep(Top) = "address"
  BY <1>1, <1>3, HasTypeFacts DEF TypeCheck, GlobalOk, ValueOK
<1> DEFINE b == global[Pool[Current.a]] # Invalid
<1>5. Continue({}, Below(1), <<Bool(b)>>)
  BY <1>3, <1>4 DEF Exists, Pops, Unless, AnAddress
<1>6. b \in BOOLEAN
  OBVIOUS
<1> HIDE DEF b
<1>7. ResultsOK(<<Bool(b)>>)
  BY <1>1, <1>6, BoolResult DEF BoolOps
<1> QED BY <1>1, <1>3, <1>5, <1>7, ContinueOK

\* What is stored under a type.
LEMMA StoredIs ==
    ASSUME RunningOK, NEW t \in Keyed, global[t] # Invalid
    PROVE  /\ t \in Types /\ Kind(t) = "struct" /\ Typed(global[t]) /\ global[t].ty = t
           /\ RootHas(callStack, frame, global, Here, GlobalRoot(t), global[t]) /\ GlobalRoot(t)[1] = "global"
<1>1. t \in Types /\ Kind(t) = "struct"
  BY TypeTable
<1>2. HasType(global[t], t)
  BY DEF RunningOK, RunOK, GlobalOK
<1>3. Typed(global[t]) /\ global[t].ty = t
  BY <1>1, <1>2 DEF HasType, ReferenceKinds
<1> QED BY <1>1, <1>3 DEF RootHas, GlobalRoot

\* A stored resource has the type it is stored under.
LEMMA BorrowGlobalOK ==
    ASSUME RunningOK, NEW op \in {"MutBorrowGlobal", "ImmBorrowGlobal"}, BorrowGlobal(op)
    PROVE  Outcome
<1> DEFINE t == Pool[Current.a]
           kind == IF op = "MutBorrowGlobal" THEN "mut" ELSE "ref"
           u == ReferenceTo(kind, t)
<1>1. Current.op = op
  BY RunningOp DEF BorrowGlobal
<1>2. NumPops(frame.fn, Current) = 1 /\ StaticResults = <<u>>
  <2>1. CASE op = "MutBorrowGlobal"
    BY <1>1, <2>1 DEF NumPops, StaticResults, Pushed
  <2>2. CASE op = "ImmBorrowGlobal"
    BY <1>1, <2>2 DEF NumPops, StaticResults, Pushed
  <2> QED BY <2>1, <2>2
<1>3. /\ Depth >= 1 /\ Below(1) = Rest /\ TypeCheck(frame.fn, Current, StaticOperands)
      /\ ValueOK(Top, StaticOperands[1])
  BY <1>2, OneOperand
<1>4. Rep(Top) = "address" /\ t \in Keyed
  BY <1>1, <1>3, HasTypeFacts DEF TypeCheck, GlobalOk, ValueOK
<1>5. HasReference(kind, t)
  BY <1>1, InstructionNow DEF ResultsInTable
<1>6. u \in Types /\ Kind(u) = kind /\ Referred(u) = t /\ Kind(u) \in ReferenceKinds
  BY <1>5, ReferenceIs DEF ReferenceKinds
<1>7. RefType(op, t) = u
  <2>1. (IF op \in MutOps THEN "mut" ELSE "ref") = kind
    BY DEF MutOps
  <2>2. RefType(op, t) = ReferenceTo(IF op \in MutOps THEN "mut" ELSE "ref", t)
    BY RefTypeIs
  <2> QED BY <2>1, <2>2
<1>8. CASE global[t] = Invalid
  <2>1. Fail("MISSING_DATA")
    BY <1>3, <1>4, <1>8 DEF BorrowGlobal, Pops, Unless, AnAddress
  <2> QED BY <2>1, FailOK DEF Stopped
<1>9. CASE global[t] # Invalid
  <2>1. Continue({}, Below(1), <<Ref(u, <<GlobalRoot(t)>>)>>)
    BY <1>3, <1>4, <1>7, <1>9 DEF BorrowGlobal, Pops, Unless, AnAddress
  <2>2. /\ Typed(global[t]) /\ global[t].ty = t
        /\ RootHas(callStack, frame, global, Here, GlobalRoot(t), global[t]) /\ GlobalRoot(t)[1] # "signer"
    BY <1>4, <1>9, StoredIs
  <2> HIDE DEF u, t, kind
  <2>3. ValueOK(Ref(u, <<GlobalRoot(t)>>), u)
    BY <1>6, <2>2, RootRef
  <2>4. ResultsOK(<<Ref(u, <<GlobalRoot(t)>>)>>)
    BY <1>2, <2>3, OneResult
  <2> QED BY <1>1, <1>3, <2>1, <2>4, ContinueOK
<1> QED BY <1>8, <1>9

\* What WithVector checks.
LEMMA VectorNow ==
    ASSUME NoTypeParameters, NEW r, NEW t, ValueOK(r, t), NEW kinds, kinds \subseteq ReferenceKinds,
           RefersToVector(t, kinds, Pool[Current.a])
    PROVE  /\ Kind(t) \in ReferenceKinds /\ RefersTo(r) = Referred(t) /\ IsContainer(RefersTo(r))
           /\ Kind(RefersTo(r)) = "vector" /\ Desc[Referred(t)].args[1] = Pool[Current.a]
           /\ HasLayout(RefersTo(r), Pool[Current.a])
<1>1. Kind(t) \in ReferenceKinds /\ Kind(Referred(t)) = "vector" /\ Desc[Referred(t)].args[1] = Pool[Current.a]
  BY DEF RefersToVector, IsVectorOf
<1>2. RefersTo(r) = Referred(t)
  BY <1>1, RefMarks
<1>3. Kind(Pool[Current.a]) \notin {"param", "ref", "mut"}
  <2>1. t \in Types /\ Len(Desc[t].args) = 1
    BY <1>1, TypeTable DEF ValueOK, HasType, ReferenceKinds
  <2>2. Referred(t) \in Types
    BY <2>1, ArgsNoReference DEF Referred
  <2>3. 1 \in 1..Len(Desc[Referred(t)].args)
    BY <1>1, <2>2, TypeTable
  <2>4. Desc[Referred(t)].args[1] \in Types /\ Kind(Desc[Referred(t)].args[1]) \notin ReferenceKinds
    BY <2>2, <2>3, ArgsNoReference
  <2> QED BY <1>1, <2>4 DEF ReferenceKinds, NoTypeParameters
<1> QED BY <1>1, <1>2, <1>3 DEF IsContainer, HasLayout

LEMMA VecLenOK ==
    ASSUME RunningOK, NoTypeParameters, VecLen
    PROVE  Outcome
<1> DEFINE t == StaticOperands[1]
<1>1. Current.op = "VecLen"
  BY RunningOp DEF VecLen
<1>2. NumPops(frame.fn, Current) = 1 /\ StaticResults = <<U64>>
  BY <1>1 DEF NumPops, StaticResults, Pushed
<1>3. /\ Depth >= 1 /\ Below(1) = Rest /\ TypeCheck(frame.fn, Current, StaticOperands)
      /\ ValueOK(Top, t)
  BY <1>2, OneOperand
<1>4. RefersToVector(t, {"ref", "mut"}, Pool[Current.a]) /\ {"ref", "mut"} \subseteq ReferenceKinds
  BY <1>1, <1>3 DEF TypeCheck, VectorOk, ReferenceKinds
<1>5. /\ Kind(t) \in ReferenceKinds /\ IsContainer(RefersTo(Top)) /\ Kind(RefersTo(Top)) = "vector"
      /\ HasLayout(RefersTo(Top), Pool[Current.a])
  BY <1>3, <1>4, VectorNow
<1>6. CASE ~LiveRef(Top, t)
  <2>1. Fail("DANGLING_REFERENCE") \/ Fail("STALE_REFERENCE")
    BY <1>3, <1>5, <1>6, UseFails DEF VecLen, Pops, WithVector, UsingContainer, Using, Unless
  <2> QED BY <2>1, FailOK DEF Stopped
<1>7. CASE LiveRef(Top, t)
  <2>1. IsReference(Top) /\ Top.mark = "live"
    BY <1>7, LiveRefIs DEF LiveRef
  <2>2. Continue({}, Below(1), <<Flat(U64)>>)
    BY <1>3, <1>5, <2>1 DEF VecLen, Pops, WithVector, UsingContainer, Using, Unless
  <2> QED BY <1>1, <1>2, <1>3, <2>2, U64Result, ContinueOK
<1> QED BY <1>6, <1>7

\* The last operand is the top of the stack.
LEMMA TopOne ==
    ASSUME RunningOK, Depth >= 1
    PROVE  TopN(1)[1] = Top
<1>1. IsSeq(operandStack) /\ Len(operandStack) \in Nat
  BY FrameNow
<1>2. \A k \in 1..1 : TopN(1)[k] = operandStack[Len(operandStack) - 1 + k]
  BY <1>1, SeqSuffix DEF TopN, Depth
<1>3. 1 \in 1..1 /\ Len(operandStack) - 1 + 1 = Len(operandStack)
  BY <1>1
<1> QED BY <1>2, <1>3 DEF Top, Depth

\* The index is compared with the length before it is used.
LEMMA VecBorrowOK ==
    ASSUME RunningOK, NoTypeParameters, NEW op \in {"VecMutBorrow", "VecImmBorrow"}, VecBorrow(op)
    PROVE  Outcome
<1> DEFINE r == TopN(2)[1]
           t == StaticOperands[1]
           s == Pool[Current.a]
           kind == IF op = "VecMutBorrow" THEN "mut" ELSE "ref"
           u == ReferenceTo(kind, s)
<1>1. Current.op = op
  BY RunningOp DEF VecBorrow
<1>2. NumPops(frame.fn, Current) = 2 /\ StaticResults = <<u>>
  <2>1. CASE op = "VecMutBorrow"
    BY <1>1, <2>1 DEF NumPops, StaticResults, Pushed
  <2>2. CASE op = "VecImmBorrow"
    BY <1>1, <2>2 DEF NumPops, StaticResults, Pushed
  <2> QED BY <2>1, <2>2
<1>3. /\ Depth >= 2 /\ Below(2) = Rest /\ TypeCheck(frame.fn, Current, StaticOperands)
      /\ ValueOK(r, t) /\ ValueOK(Top, StaticOperands[2])
  BY <1>2, TwoOperands
<1>10. \A k \in 1 .. 1 : TopN(1)[k].ty = U64
  <2>1. StaticOperands[2] = U64
    BY <1>1, <1>3 DEF TypeCheck, VectorOk
  <2>2. TopN(1)[1] = Top
    <3>1. Depth >= 1
      BY <1>3, FrameNow DEF Depth
    <3> QED BY <3>1, TopOne
  <2>3. Top.ty = U64
    BY <1>3, <2>1, HasTypeFacts DEF ValueOK
  <2> QED BY <2>2, <2>3
<1>4. RefersToVector(t, {"ref", "mut"}, s) /\ (kind = "mut" => Kind(t) = "mut")
  <2>1. VectorOk(Current, StaticOperands)
    BY <1>3 DEF TypeCheck
  <2>2. CASE op = "VecMutBorrow"
    BY <1>1, <2>1, <2>2 DEF VectorOk, RefersToVector
  <2>3. CASE op = "VecImmBorrow"
    BY <1>1, <2>1, <2>3 DEF VectorOk, RefersToVector
  <2> QED BY <2>2, <2>3
<1>5. /\ Kind(t) \in ReferenceKinds /\ IsContainer(RefersTo(r)) /\ Kind(RefersTo(r)) = "vector"
      /\ HasLayout(RefersTo(r), s) /\ RefersTo(r) = Referred(t) /\ Desc[Referred(t)].args[1] = s
  <2>1. {"ref", "mut"} \subseteq ReferenceKinds
    BY DEF ReferenceKinds
  <2> QED BY <1>3, <1>4, <2>1, VectorNow
<1>6. HasReference(kind, s)
  BY <1>1, InstructionNow DEF ResultsInTable
<1>7. u \in Types /\ Kind(u) = kind /\ Referred(u) = s /\ Kind(u) \in ReferenceKinds
  BY <1>6, ReferenceIs DEF ReferenceKinds
<1>8. CASE ~LiveRef(r, t)
  <2>1. Fail("DANGLING_REFERENCE") \/ Fail("STALE_REFERENCE")
    BY <1>3, <1>5, <1>8, <1>10, UseFails DEF VecBorrow, Pops, WithIndices, WithVector, UsingContainer, Using, Unless
  <2> QED BY <2>1, FailOK DEF Stopped
<1>9. CASE LiveRef(r, t)
  <2>1. IsReference(r) /\ r.mark = "live"
    BY <1>9, LiveRefIs DEF LiveRef
  <2>2. \/ Fail("ABORTED")
        \/ \E k \in DOMAIN Elements(r) :
              Continue({}, Below(2), <<Ref(RefType(op, Elements(r)[k].ty), Append(r.at, k))>>)
    BY <1>3, <1>5, <1>10, <2>1 DEF VecBorrow, Pops, WithIndices, WithVector, UsingContainer, Using, Unless
  <2>3. CASE Fail("ABORTED")
    BY <2>3, FailOK DEF Stopped
  <2>4. ASSUME NEW k \in DOMAIN Elements(r),
               Continue({}, Below(2), <<Ref(RefType(op, Elements(r)[k].ty), Append(r.at, k))>>)
        PROVE  Outcome
    <3>1. Typed(ValueAt(r.at)) /\ ValueAt(r.at).ty = Referred(t)
      BY <1>9, LiveValue
    <3>2. IsSeq(ValueAt(r.at).f)
      BY <3>1, TypedParts
    <3>3. k \in 1..Len(ValueAt(r.at).f)
      BY <3>2 DEF Elements, IsSeq
    <3>4. Component(Referred(t), k) = s
      BY <1>5 DEF Component
    <3>5. Elements(r)[k].ty = s
      BY <3>1, <3>3, <3>4, TypedParts DEF Elements
    <3>6. RefType(op, Elements(r)[k].ty) = u
      <4>1. (IF op \in MutOps THEN "mut" ELSE "ref") = kind
        BY DEF MutOps
      <4>2. RefType(op, s) = ReferenceTo(IF op \in MutOps THEN "mut" ELSE "ref", s)
        BY RefTypeIs
      <4> QED BY <3>5, <4>1, <4>2
    <3>7. Kind(u) = "mut" => Kind(t) = "mut"
      BY <1>4, <1>7
    <3> HIDE DEF u, t, r, s, kind
    <3>8. ValueOK(Ref(u, Append(r.at, k)), u)
      BY <1>7, <1>9, <3>3, <3>4, <3>7, ComponentRef
    <3>9. ResultsOK(<<Ref(u, Append(r.at, k))>>)
      BY <1>2, <3>8, OneResult
    <3>10. Continue({}, Below(2), <<Ref(u, Append(r.at, k))>>)
      BY <2>4, <3>6
    <3> QED BY <1>1, <1>3, <3>9, <3>10, ContinueOK
  <2> QED BY <2>2, <2>3, <2>4
<1> QED BY <1>8, <1>9

-----------------------------------------------------------------------------
(* Writing to a place.                                                     *)

\* A value with one component replaced.
LEMMA SetComponent ==
    ASSUME NEW v, Typed(v), NEW k, NEW y
    PROVE  [v EXCEPT !.f[k] = y] = Val(v.ty, v.b, [v.f EXCEPT ![k] = y])
<1> DEFINE D == {"ty", "b", "f"}
           q == [v.f EXCEPT ![k] = y]
<1>1. v = Val(v.ty, v.b, v.f)
  BY TypedParts
<1>2. DOMAIN v = D
  BY <1>1 DEF Val
<1>3. [v EXCEPT !.f[k] = y] = [i \in D |-> IF i = "f" THEN q ELSE v[i]]
  BY <1>2
<1>4. ASSUME NEW a, NEW b, NEW c
      PROVE  Val(a, b, c) = [i \in D |-> IF i = "ty" THEN a ELSE IF i = "b" THEN b ELSE c]
  BY DEF Val
<1> HIDE DEF q
<1>5. Val(v.ty, v.b, q) = [i \in D |-> IF i = "ty" THEN v.ty ELSE IF i = "b" THEN v.b ELSE q]
  BY <1>4
<1>6. \A i \in D : (IF i = "f" THEN q ELSE v[i]) = (IF i = "ty" THEN v.ty ELSE IF i = "b" THEN v.b ELSE q)
  OBVIOUS
<1>7. [i \in D |-> IF i = "f" THEN q ELSE v[i]] = [i \in D |-> IF i = "ty" THEN v.ty ELSE IF i = "b" THEN v.b ELSE q]
  BY <1>6
<1> QED BY <1>3, <1>5, <1>7 DEF q

SetAt(v, k, y) == [v EXCEPT !.f[k] = y]

\* w is v but for the k-th component, which is y.
DiffersAt(v, k, y, w) ==
    /\ Typed(w) /\ w.ty = v.ty /\ Len(w.f) = Len(v.f) /\ w.f[k] = y
    /\ \A i \in 1..Len(v.f) : i # k => w.f[i] = v.f[i]

\* It is still a value of its type when the component is.
LEMMA TypedSet ==
    ASSUME NEW v, Typed(v), NEW k \in 1..Len(v.f), NEW y, Typed(y), y.ty = v.f[k].ty
    PROVE  DiffersAt(v, k, y, SetAt(v, k, y))
<1> DEFINE q == [v.f EXCEPT ![k] = y]
           w1 == Val(v.ty, v.b, q)
<1>1. /\ v.ty \in Types /\ v.b \in BOOLEAN /\ Kind(v.ty) \notin ReferenceKinds /\ IsSeq(v.f)
      /\ Kind(v.ty) # "vector" => Len(v.f) = Len(Desc[v.ty].args)
      /\ \A i \in 1..Len(v.f) : Typed(v.f[i]) /\ v.f[i].ty = Component(v.ty, i)
  BY TypedParts
<1>2. Len(v.f) \in Nat /\ DOMAIN v.f = 1..Len(v.f)
  BY <1>1, SeqLen DEF IsSeq
<1>3. q = [i \in 1..Len(v.f) |-> q[i]] /\ q[k] = y /\ \A i \in 1..Len(v.f) : i # k => q[i] = v.f[i]
  BY <1>2
<1> HIDE DEF q
<1>4. IsSeq(q) /\ Len(q) = Len(v.f)
  BY <1>2, <1>3, FunIsSeq
<1>5. \A i \in 1..Len(q) : Typed(q[i]) /\ q[i].ty = Component(v.ty, i)
  <2> SUFFICES ASSUME NEW i \in 1..Len(q) PROVE Typed(q[i]) /\ q[i].ty = Component(v.ty, i)
    OBVIOUS
  <2>1. CASE i = k
    BY <1>1, <1>3, <2>1
  <2>2. CASE i # k
    BY <1>1, <1>3, <1>4, <2>2
  <2> QED BY <2>1, <2>2
<1>6. Typed(w1)
  BY <1>1, <1>4, <1>5, TypedBuild
<1>7. w1.ty = v.ty /\ w1.f = q
  BY DEF Val
<1>8. SetAt(v, k, y) = w1
  BY SetComponent DEF SetAt, q
<1> HIDE DEF w1
<1> QED BY <1>3, <1>4, <1>6, <1>7, <1>8 DEF DiffersAt

\* w are the values h on the way to a place after the one at the place was replaced.
Rewrites(n, at, h, w) ==
    /\ \A j \in 0..n : Typed(w[j]) /\ w[j].ty = h[j].ty
    /\ \A j \in 0..(n - 1) : /\ Len(w[j].f) = Len(h[j].f) /\ w[j].f[at[j + 2]] = w[j + 1]
                             /\ \A i \in 1..Len(h[j].f) : i # at[j + 2] => w[j].f[i] = h[j].f[i]

RebuiltNext(visited, path, new, g, n) ==
    IF n = Len(path) THEN new ELSE [visited[n] EXCEPT !.f[path[n + 1]] = g[n + 1]]

IsRebuilt(visited, path, new, g) == g = [n \in 0..Len(path) |-> RebuiltNext(visited, path, new, g, n)]

\* The recursive function that rebuilds a value is defined.
LEMMA RebuiltExists ==
    ASSUME NEW visited, NEW path, Len(path) \in Nat, NEW new
    PROVE  \E g : IsRebuilt(visited, path, new, g)
<1> DEFINE n == Len(path)
           Upper(j, g) == g = [i \in j..n |-> RebuiltNext(visited, path, new, g, i)]
           B == {j \in 0..n : ~ \E g : Upper(j, g)}
<1>1. n \in Nat /\ B \subseteq 0..n
  OBVIOUS
<1>2. n \notin B
  <2> DEFINE g == [i \in n..n |-> new]
  <2>1. \A i \in n..n : g[i] = RebuiltNext(visited, path, new, g, i)
    BY DEF RebuiltNext
  <2>2. Upper(n, g)
    BY <2>1
  <2> QED BY <2>2
<1>3. ASSUME NEW k \in 0..(n - 1), k + 1 \notin B PROVE k \notin B
  <2> HIDE DEF n
  <2>1. k \in Nat /\ k \in 0..n /\ k + 1 \in 0..n /\ k # n
    BY <1>1
  <2>2. PICK g : Upper(k + 1, g)
    BY <1>3, <2>1
  <2> DEFINE new1 == [visited[k] EXCEPT !.f[path[k + 1]] = g[k + 1]]
             g2 == [i \in k..n |-> IF i = k THEN new1 ELSE g[i]]
  <2>3. \A i \in (k + 1)..n : g[i] = RebuiltNext(visited, path, new, g, i)
    BY <2>2, Zenon
  <2>4. ASSUME NEW i \in k..n PROVE g2[i] = RebuiltNext(visited, path, new, g2, i)
    <3>1. CASE i = k
      <4>1. g2[i] = new1 /\ k + 1 \in k..n /\ k + 1 # k /\ g2[k + 1] = g[k + 1]
        BY <1>1, <2>1, <3>1
      <4>2. i # Len(path)
        BY <2>1, <3>1 DEF n
      <4> QED BY <3>1, <4>1, <4>2 DEF RebuiltNext
    <3>2. CASE i # k
      <4>1. i \in (k + 1)..n /\ g2[i] = g[i]
        BY <1>1, <2>1, <3>2
      <4>2. g[i] = RebuiltNext(visited, path, new, g, i)
        BY <2>3, <4>1
      <4>3. CASE i = Len(path)
        BY <4>1, <4>2, <4>3 DEF RebuiltNext
      <4>4. CASE i # Len(path)
        <5>1. i + 1 \in k..n /\ i + 1 # k
          BY <1>1, <2>1, <4>1, <4>4 DEF n
        <5>2. g2[i + 1] = g[i + 1]
          BY <5>1
        <5> HIDE DEF g2
        <5> QED BY <4>1, <4>2, <4>4, <5>2 DEF RebuiltNext
      <4> QED BY <4>3, <4>4
    <3> QED BY <3>1, <3>2
  <2>5. Upper(k, g2)
    <3>1. g2 = [i \in k..n |-> g2[i]]
      OBVIOUS
    <3> HIDE DEF g2
    <3> QED BY <2>4, <3>1
  <2>6. \E x : Upper(k, x)
    BY <2>5
  <2> QED BY <2>6
<1>4. B = {}
  <2> HIDE DEF B, n
  <2> QED BY <1>1, <1>2, <1>3, NoneBadDown
<1>5. PICK g : Upper(0, g)
  <2>1. 0 \in 0..n
    BY <1>1
  <2> QED BY <1>4, <2>1
<1> QED BY <1>5 DEF IsRebuilt

\* Replacing a component replaces the values above it, and these alone.
LEMMA ReplacedIs ==
    ASSUME NEW at, IsSeq(at), Len(at) >= 1, NEW h, Typed(h[0]), IsTrail(at, h[0], h),
           NEW n, n = Len(at) - 1, NEW new, Typed(new), new.ty = h[n].ty
    PROVE  \E w : Rewrites(n, at, h, w) /\ w[n] = new /\ Replaced(h[0], Tail(at), new) = w[0]
<1> DEFINE path == Tail(at)
           V == Visited(h[0], path)
           w == CHOOSE g : IsRebuilt(V, path, new, g)
<1>1. n \in Nat /\ IsWay(at, path) /\ Len(path) = n /\ \A j \in 1..n : path[j] = at[j + 1]
  BY TailIs DEF IsWay
<1>2. \A j \in 0..n : V[j] = h[j] /\ Typed(h[j])
  BY <1>1, VisitedIs, TrailTyped
<1>3. \A j \in 1..n : at[j + 1] \in 1..Len(h[j - 1].f) /\ h[j] = h[j - 1].f[at[j + 1]]
  BY DEF IsTrail
<1>4. Replaced(h[0], path, new) = w[0]
  BY Zenon DEF Replaced, Rebuilt, RebuiltNext, IsRebuilt
<1> HIDE DEF path, V
<1>5. IsRebuilt(V, path, new, w)
  <2>1. \E g : IsRebuilt(V, path, new, g)
    BY <1>1, RebuiltExists
  <2> QED BY <2>1, Zenon
<1> HIDE DEF w
<1>6. \A j \in 0..n : w[j] = RebuiltNext(V, path, new, w, j)
  <2>1. \A j \in 0..Len(path) : w[j] = RebuiltNext(V, path, new, w, j)
    BY <1>5, Zenon DEF IsRebuilt
  <2> QED BY <1>1, <2>1
<1>7. w[n] = new
  <2>1. n \in 0..n
    BY <1>1
  <2> QED BY <1>1, <1>6, <2>1 DEF RebuiltNext
<1>8. ASSUME NEW j \in 0..(n - 1)
      PROVE  /\ j \in 0..n /\ j + 1 \in 0..n /\ w[j] = SetAt(h[j], at[j + 2], w[j + 1])
             /\ at[j + 2] \in 1..Len(h[j].f) /\ h[j + 1] = h[j].f[at[j + 2]]
  <2>1. j \in 0..n /\ j # n /\ j + 1 \in 1..n /\ j + 1 \in 0..n /\ (j + 1) - 1 = j /\ (j + 1) + 1 = j + 2
    BY <1>1
  <2>2. w[j] = [V[j] EXCEPT !.f[path[j + 1]] = w[j + 1]]
    BY <1>1, <1>6, <2>1 DEF RebuiltNext
  <2>3. V[j] = h[j] /\ path[j + 1] = at[j + 2]
    BY <1>1, <1>2, <2>1
  <2>4. at[(j + 1) + 1] \in 1..Len(h[(j + 1) - 1].f) /\ h[j + 1] = h[(j + 1) - 1].f[at[(j + 1) + 1]]
    BY <1>3, <2>1
  <2> QED BY <2>1, <2>2, <2>3, <2>4 DEF SetAt
<1> DEFINE B == {j \in 0..n : ~(Typed(w[j]) /\ w[j].ty = h[j].ty)}
<1>9. n \notin B
  BY <1>7
<1>10. ASSUME NEW k \in 0..(n - 1), k + 1 \notin B PROVE k \notin B
  <2>1. Typed(w[k + 1]) /\ w[k + 1].ty = h[k + 1].ty
    BY <1>8, <1>10
  <2>2. Typed(h[k]) /\ at[k + 2] \in 1..Len(h[k].f) /\ w[k + 1].ty = h[k].f[at[k + 2]].ty
    BY <1>2, <1>8, <2>1
  <2>3. DiffersAt(h[k], at[k + 2], w[k + 1], SetAt(h[k], at[k + 2], w[k + 1]))
    BY <2>1, <2>2, TypedSet
  <2>4. DiffersAt(h[k], at[k + 2], w[k + 1], w[k])
    BY <1>8, <2>3
  <2>5. Typed(w[k]) /\ w[k].ty = h[k].ty
    BY <2>4 DEF DiffersAt
  <2> QED BY <2>5
<1>11. B = {}
  <2>1. B \subseteq 0..n
    OBVIOUS
  <2> HIDE DEF B
  <2> QED BY <1>1, <1>9, <1>10, <2>1, NoneBadDown
<1>12. \A j \in 0..n : Typed(w[j]) /\ w[j].ty = h[j].ty
  BY <1>11
<1> HIDE DEF B
<1>13. ASSUME NEW j \in 0..(n - 1)
       PROVE  /\ Len(w[j].f) = Len(h[j].f) /\ w[j].f[at[j + 2]] = w[j + 1]
              /\ \A i \in 1..Len(h[j].f) : i # at[j + 2] => w[j].f[i] = h[j].f[i]
  <2>1. Typed(w[j + 1]) /\ w[j + 1].ty = h[j].f[at[j + 2]].ty
    BY <1>8, <1>12
  <2>2. Typed(h[j]) /\ at[j + 2] \in 1..Len(h[j].f)
    BY <1>2, <1>8
  <2>3. DiffersAt(h[j], at[j + 2], w[j + 1], SetAt(h[j], at[j + 2], w[j + 1]))
    BY <2>1, <2>2, TypedSet
  <2>4. DiffersAt(h[j], at[j + 2], w[j + 1], w[j])
    BY <1>8, <2>3
  <2> QED BY <2>4 DEF DiffersAt
<1>14. Rewrites(n, at, h, w)
  BY <1>12, <1>13 DEF Rewrites
<1> QED BY <1>4, <1>7, <1>14 DEF path

-----------------------------------------------------------------------------
(* Where a reference leads after the value at the place at was replaced.   *)

\* The ways to q and to at are the same for j components.
Agree(at, q, j) == j < Len(at) /\ j < Len(q) /\ \A i \in 1..(j + 1) : q[i] = at[i]

\* Places that agree agree on shorter prefixes.
LEMMA AgreeDown ==
    ASSUME NEW at, Len(at) \in Nat, NEW q, Len(q) \in Nat, NEW j \in Nat, j # 0, Agree(at, q, j)
    PROVE  Agree(at, q, j - 1) /\ q[j + 1] = at[j + 1] /\ j \in 1..(Len(at) - 1)
<1>1. j - 1 < Len(at) /\ j - 1 < Len(q) /\ j + 1 \in 1..(j + 1) /\ j \in 1..(Len(at) - 1)
  BY DEF Agree
<1>2. \A i \in 1..((j - 1) + 1) : i \in 1..(j + 1)
  OBVIOUS
<1> QED BY <1>1, <1>2 DEF Agree

\* Places that agree and go on alike agree further.
LEMMA AgreeUp ==
    ASSUME NEW at, Len(at) \in Nat, NEW q, Len(q) \in Nat, NEW j \in Nat, j # 0, Agree(at, q, j - 1),
           j < Len(at), j < Len(q), q[j + 1] = at[j + 1]
    PROVE  Agree(at, q, j)
<1>1. \A i \in 1..(j + 1) : i = j + 1 \/ i \in 1..((j - 1) + 1)
  OBVIOUS
<1> QED BY <1>1 DEF Agree

\* A place agrees with itself.
LEMMA AgreeSame ==
    ASSUME NEW at, Len(at) \in Nat, NEW q, Len(q) \in Nat, Len(q) >= 1, NEW x, NEW h, IsTrail(at, x, h),
           NEW g, IsTrail(q, x, g)
    PROVE  \A j \in 0..(Len(q) - 1) : Agree(at, q, j) => g[j] = h[j]
<1> DEFINE m == Len(q) - 1
           B == {j \in 0..m : Agree(at, q, j) /\ g[j] # h[j]}
<1>1. m \in Nat /\ B \subseteq 0..m
  OBVIOUS
<1>2. 0 \notin B
  BY DEF IsTrail
<1>3. ASSUME NEW k \in 0..(m - 1), k \notin B PROVE k + 1 \notin B
  <2> SUFFICES ASSUME Agree(at, q, k + 1) PROVE g[k + 1] = h[k + 1]
    OBVIOUS
  <2> DEFINE j == k + 1
  <2>1. j \in Nat /\ j # 0 /\ j - 1 = k /\ k \in 0..m /\ j \in 1..m
    BY <1>1
  <2>2. Agree(at, q, j)
    OBVIOUS
  <2> HIDE DEF j
  <2>3. Agree(at, q, j - 1) /\ q[j + 1] = at[j + 1] /\ j \in 1..(Len(at) - 1)
    BY <2>1, <2>2, AgreeDown
  <2>4. g[j - 1] = h[j - 1]
    BY <1>3, <2>1, <2>3
  <2>5. h[j] = h[j - 1].f[at[j + 1]]
    BY <2>3 DEF IsTrail
  <2>6. g[j] = g[j - 1].f[q[j + 1]]
    BY <2>1 DEF IsTrail
  <2>7. g[j] = h[j]
    BY <2>3, <2>4, <2>5, <2>6
  <2> QED BY <2>7 DEF j
<1>4. B = {}
  <2> HIDE DEF B, m
  <2> QED BY <1>1, <1>2, <1>3, NoneBad
<1> QED BY <1>4

\* The component of the place that q goes through is still what it was.
Spared(at, q, old, new) ==
    Agree(at, q, Len(at) - 1) /\ Len(q) > Len(at) =>
        \/ q[Len(at) + 1] \notin 1..Len(old.f)
        \/ q[Len(at) + 1] \in 1..Len(new.f) /\ new.f[q[Len(at) + 1]] = old.f[q[Len(at) + 1]]

\* There is a way from x to the place q, and the type of what is there is t.
LeadsFrom(x, q, t) == \E g : IsTrail(q, x, g) /\ g[Len(q) - 1].ty = t

\* A place that the write spares is still there, with a value of the same type.
LEMMA TrailKept ==
    ASSUME NEW at, Len(at) \in Nat, Len(at) >= 1, NEW q, Len(q) \in Nat, Len(q) >= 1, q[1] = at[1],
           NEW x, NEW h, IsTrail(at, x, h), NEW g, IsTrail(q, x, g),
           NEW w, Rewrites(Len(at) - 1, at, h, w), Spared(at, q, h[Len(at) - 1], w[Len(at) - 1])
    PROVE  LeadsFrom(w[0], q, g[Len(q) - 1].ty)
<1> DEFINE n == Len(at) - 1
           m == Len(q) - 1
           g2 == [j \in 0..m |-> IF Agree(at, q, j) THEN w[j] ELSE g[j]]
<1>1. n \in Nat /\ m \in Nat /\ 0 \in 0..m /\ m \in 0..m /\ Len(at) = n + 1 /\ Len(q) = m + 1
  OBVIOUS
<1>2. \A j \in 0..m : Agree(at, q, j) => g[j] = h[j]
  BY AgreeSame
<1>3. /\ \A j \in 0..n : w[j].ty = h[j].ty
      /\ \A j \in 0..(n - 1) : /\ Len(w[j].f) = Len(h[j].f) /\ w[j].f[at[j + 2]] = w[j + 1]
                               /\ \A i \in 1..Len(h[j].f) : i # at[j + 2] => w[j].f[i] = h[j].f[i]
  BY DEF Rewrites
<1>4. \A j \in 1..n : at[j + 1] \in 1..Len(h[j - 1].f) /\ h[j] = h[j - 1].f[at[j + 1]]
  BY DEF IsTrail
<1>5. \A j \in 1..m : q[j + 1] \in 1..Len(g[j - 1].f) /\ g[j] = g[j - 1].f[q[j + 1]]
  BY DEF IsTrail
<1>6. Agree(at, q, 0)
  BY <1>1 DEF Agree
<1> HIDE DEF n, m
<1>7. \A j \in 0..m : g2[j] = IF Agree(at, q, j) THEN w[j] ELSE g[j]
  OBVIOUS
<1> HIDE DEF g2
<1>8. ASSUME NEW j \in 1..m
      PROVE  q[j + 1] \in 1..Len(g2[j - 1].f) /\ g2[j] = g2[j - 1].f[q[j + 1]]
  <2>1. j \in Nat /\ j # 0 /\ j \in 0..m /\ j - 1 \in 0..m /\ j - 1 \in Nat /\ (j - 1) + 2 = j + 1 /\ (j - 1) + 1 = j
    BY <1>1
  <2>2. q[j + 1] \in 1..Len(g[j - 1].f) /\ g[j] = g[j - 1].f[q[j + 1]]
    BY <1>5
  <2>3. CASE Agree(at, q, j)
    <3>1. Agree(at, q, j - 1) /\ q[j + 1] = at[j + 1] /\ j \in 1..n
      BY <2>1, <2>3, AgreeDown DEF n
    <3>2. g2[j] = w[j] /\ g2[j - 1] = w[j - 1] /\ g[j - 1] = h[j - 1]
      BY <1>2, <1>7, <2>1, <2>3, <3>1
    <3>3. j - 1 \in 0..(n - 1)
      BY <1>1, <3>1
    <3>4. Len(w[j - 1].f) = Len(h[j - 1].f) /\ w[j - 1].f[at[(j - 1) + 2]] = w[(j - 1) + 1]
      BY <1>3, <3>3
    <3> QED BY <2>1, <2>2, <3>1, <3>2, <3>4
  <2>4. CASE ~Agree(at, q, j) /\ ~Agree(at, q, j - 1)
    <3>1. g2[j] = g[j] /\ g2[j - 1] = g[j - 1]
      BY <1>7, <2>1, <2>4
    <3> QED BY <2>2, <3>1
  <2>5. CASE ~Agree(at, q, j) /\ Agree(at, q, j - 1)
    <3>1. g2[j] = g[j] /\ g2[j - 1] = w[j - 1] /\ g[j - 1] = h[j - 1]
      BY <1>2, <1>7, <2>1, <2>5
    <3>2. j - 1 < n + 1
      BY <1>1, <2>5 DEF Agree
    <3>3. CASE j - 1 < n
      <4>1. j - 1 \in 0..(n - 1) /\ j < Len(at) /\ j < Len(q)
        BY <1>1, <2>1, <3>3
      <4>2. q[j + 1] # at[j + 1]
        BY <2>1, <2>5, <4>1, AgreeUp
      <4>3. /\ Len(w[j - 1].f) = Len(h[j - 1].f)
            /\ \A i \in 1..Len(h[j - 1].f) : i # at[(j - 1) + 2] => w[j - 1].f[i] = h[j - 1].f[i]
        BY <1>3, <4>1
      <4> QED BY <2>1, <2>2, <3>1, <4>2, <4>3
    <3>4. CASE ~(j - 1 < n)
      <4>1. j - 1 = n /\ j + 1 = Len(at) + 1 /\ Len(q) > Len(at) /\ Len(at) - 1 = n
        BY <1>1, <2>1, <3>2, <3>4
      <4>2. Agree(at, q, Len(at) - 1)
        BY <2>5, <4>1
      <4>3. \/ q[j + 1] \notin 1..Len(h[n].f)
            \/ q[j + 1] \in 1..Len(w[n].f) /\ w[n].f[q[j + 1]] = h[n].f[q[j + 1]]
        BY <4>1, <4>2 DEF Spared
      <4> QED BY <2>2, <3>1, <4>1, <4>3
    <3> QED BY <3>3, <3>4
  <2> QED BY <2>3, <2>4, <2>5
<1>9. g2[0] = w[0]
  BY <1>1, <1>6, <1>7
<1>10. IsTrail(q, w[0], g2)
  BY <1>8, <1>9 DEF IsTrail, m
<1>11. g2[m].ty = g[m].ty
  <2>1. CASE Agree(at, q, m)
    <3>1. m \in 0..n
      BY <1>1, <2>1 DEF Agree
    <3> QED BY <1>1, <1>2, <1>3, <1>7, <2>1, <3>1
  <2>2. CASE ~Agree(at, q, m)
    BY <1>1, <1>7, <2>2
  <2> QED BY <2>1, <2>2
<1> QED BY <1>10, <1>11 DEF LeadsFrom, m

OverFrame(at, moves, g) ==
    [g EXCEPT !.locals = [l \in DOMAIN g.locals |-> Overwritten(at, moves, g.locals[l])]]

\* The k-th frame after a store: its references are marked, the root of the place has a new value.
StoredFrame(at, moves, value, k, g, h) ==
    /\ IsFrame(h) /\ h.fn = g.fn
    /\ h.locals = [l \in Locals(g.fn) |-> h.locals[l]]
    /\ \A l \in Locals(g.fn) :
          h.locals[l] = IF at[1] = LocalRoot(k, l) THEN value ELSE Overwritten(at, moves, g.locals[l])

\* A root in memory.
IsRoot(root) ==
    \/ root[1] = "global" /\ root = GlobalRoot(root[2])
    \/ root[1] = "local" /\ root = LocalRoot(root[2], root[3])

InLocal(root, k) == root[1] = "local" /\ root[2] = k

PutIn(at, moves, value, k, g) ==
    IF InLocal(at[1], k) THEN OverFrame(at, moves, [g EXCEPT !.locals[at[1][3]] = value])
    ELSE OverFrame(at, moves, g)

\* The local that is written to.
LEMMA PutFrame ==
    ASSUME NEW g, IsFrame(g), g.locals = [l \in Locals(g.fn) |-> g.locals[l]],
           NEW at, IsRoot(at[1]), NEW moves, NEW value, ~IsReference(value), NEW k, NEW h,
           h = PutIn(at, moves, value, k, g)
    PROVE  StoredFrame(at, moves, value, k, g, h) /\ h.pc = g.pc
<1> DEFINE root == at[1]
           a == [g.locals EXCEPT ![root[3]] = value]
           b == IF InLocal(root, k) THEN a ELSE g.locals
           c == [l \in DOMAIN b |-> Overwritten(at, moves, b[l])]
           e == FrameRec(g.fn, g.pc, b)
<1>1. DOMAIN g.locals = Locals(g.fn)
  OBVIOUS
<1>2. \A l \in Locals(g.fn) : a[l] = IF l = root[3] THEN value ELSE g.locals[l]
  BY <1>1
<1>3. DOMAIN a = Locals(g.fn)
  BY <1>1
<1>4. [g EXCEPT !.locals[root[3]] = value] = FrameRec(g.fn, g.pc, a)
  BY SetLocal
<1>5. \A l : InLocal(root, k) /\ l = root[3] <=> root = LocalRoot(k, l)
  <2>1. CASE root[1] = "global"
    BY <2>1 DEF InLocal, LocalRoot
  <2>2. CASE root[1] = "local" /\ root = LocalRoot(root[2], root[3])
    <3> HIDE DEF root
    <3>1. \A l : root = LocalRoot(k, l) => root[2] = k /\ root[3] = l
      BY DEF LocalRoot
    <3> QED BY <2>2, <3>1 DEF InLocal
  <2> QED BY <2>1, <2>2 DEF IsRoot
<1> HIDE DEF a, root
<1>6. g = FrameRec(g.fn, g.pc, g.locals)
  BY DEF IsFrame, FrameRec
<1>7. h = OverFrame(at, moves, e)
  BY <1>4, <1>6 DEF root, PutIn
<1>8. IsFrame(e) /\ e.fn = g.fn /\ e.pc = g.pc /\ e.locals = b
  BY FrameRecIs
<1>9. DOMAIN b = Locals(g.fn) /\ \A l \in Locals(g.fn) : b[l] = IF root = LocalRoot(k, l) THEN value ELSE g.locals[l]
  BY <1>1, <1>2, <1>3, <1>5
<1> HIDE DEF b, e
<1>10. h = FrameRec(g.fn, g.pc, c)
  <2>1. h = [e EXCEPT !.locals = c]
    BY <1>7, <1>8 DEF OverFrame
  <2> HIDE DEF c
  <2> QED BY <1>8, <2>1, SetLocals
<1>11. Overwritten(at, moves, value) = value
  BY DEF Overwritten, Displaced
<1>12. c = [l \in Locals(g.fn) |-> c[l]] /\ \A l \in Locals(g.fn) : c[l] = Overwritten(at, moves, b[l])
  BY <1>9
<1> HIDE DEF c
<1>13. \A l \in Locals(g.fn) : c[l] = IF root = LocalRoot(k, l) THEN value ELSE Overwritten(at, moves, g.locals[l])
  BY <1>9, <1>11, <1>12
<1>14. IsFrame(h) /\ h.fn = g.fn /\ h.pc = g.pc /\ h.locals = c
  BY <1>10, FrameRecIs
<1> QED BY <1>12, <1>13, <1>14 DEF StoredFrame, root

\* The state after a store.
StoreDone(at, moves, value, results) ==
    LET m == Len(operandStack) - NumPops(frame.fn, Current) IN
    /\ status' = status
    /\ IsSeq(callStack') /\ Len(callStack') = Len(callStack)
    /\ \A k \in 1..Len(callStack) : /\ StoredFrame(at, moves, value, k, callStack[k], (callStack')[k])
                                    /\ (callStack')[k].pc = callStack[k].pc
    /\ StoredFrame(at, moves, value, Here, frame, frame') /\ (frame').pc = frame.pc + 1
    /\ IsSeq(operandStack') /\ Len(operandStack') = m + Len(results) /\ Len(operandStack') <= StackLimit
    /\ \A j \in 1..m : (operandStack')[j] = Overwritten(at, moves, operandStack[j])
    /\ \A j \in 1..Len(results) : (operandStack')[m + j] = results[j]
    /\ global' = IF at[1][1] = "global" THEN [global EXCEPT ![at[1][2]] = value] ELSE global

\* What a store does to the frames, the stack and the resources.
LEMMA StoreEffect ==
    ASSUME RunningOK, NEW at, IsRoot(at[1]), NEW moves, NEW new, NEW results, IsSeq(results),
           NEW value, value = Replaced(RootValue(at[1]), Tail(at), new), ~IsReference(value),
           frame.pc + 1 \in Range(Successors(program[frame.fn], frame.pc)),
           NEW rest, rest = Rest, Store(at, new, moves, rest, results)
    PROVE  Outcome \/ StoreDone(at, moves, value, results)
<1> DEFINE m == Len(operandStack) - NumPops(frame.fn, Current)
           root == at[1]
           next == [frame EXCEPT !.pc = frame.pc + 1]
           down == [k \in DOMAIN rest |-> Overwritten(at, moves, rest[k])]
<1>1. /\ ShapeOK(program, callStack, frame, operandStack)
      /\ IsFrame(frame) /\ LocalsTyped(frame.fn, frame.locals) /\ IsUnit(frame.fn, program[frame.fn])
      /\ Vetted(frame.fn, program[frame.fn]) /\ frame.pc \in Offsets(program[frame.fn])
      /\ Len(callStack) \in Nat /\ IsSeq(callStack) /\ ProgramOK(program) /\ IsSeq(operandStack)
      /\ Len(operandStack) \in Nat
  BY FrameNow
<1>2. ~(frame.pc + 1 >= Len(Code(frame.fn)))
  <2>1. frame.pc + 1 \in Offsets(program[frame.fn])
    BY <1>1, StaticNext
  <2>2. Len(program[frame.fn]) \in Nat /\ Offsets(program[frame.fn]) = 0..(Len(program[frame.fn]) - 1)
    BY <1>1, UnitFacts
  <2> QED BY <2>1, <2>2 DEF Code
<1>3. CASE Fail("EXECUTION_STACK_OVERFLOW")
  BY <1>3, FailOK DEF Stopped
<1>4. CASE ~Fail("EXECUTION_STACK_OVERFLOW")
  <2>1. Len(Frames) = Here
    <3>1. PICK A : callStack \in Seq(A)
      BY <1>1 DEF IsSeq
    <3>2. callStack \in Seq(A \union {frame}) /\ frame \in A \union {frame}
      BY <3>1
    <3> QED BY <3>2 DEF Frames, Here
  <2>2. /\ operandStack' = down \o results
        /\ frame' = PutIn(at, moves, value, Len(Frames), next)
        /\ callStack' = [k \in DOMAIN callStack |-> PutIn(at, moves, value, k, callStack[k])]
        /\ global' = IF root[1] = "global" THEN [global EXCEPT ![root[2]] = value] ELSE global
        /\ status' = status /\ ~(Len(rest) + Len(results) > StackLimit)
    <3> DEFINE mark(v) == Overwritten(at, moves, v)
    <3>1. /\ operandStack' = MarkAll(mark, rest) \o results
          /\ frame' = IF InLocal(root, Len(Frames)) THEN MarkFrame(mark, [next EXCEPT !.locals[root[3]] = value])
                      ELSE MarkFrame(mark, next)
          /\ callStack' = [k \in DOMAIN callStack |->
                             IF InLocal(root, k) THEN MarkFrame(mark, [callStack[k] EXCEPT !.locals[root[3]] = value])
                             ELSE MarkFrame(mark, callStack[k])]
          /\ global' = IF root[1] = "global" THEN [global EXCEPT ![root[2]] = value] ELSE global
          /\ status' = status /\ ~(Len(rest) + Len(results) > StackLimit)
      BY <1>2, <1>4 DEF Store, InLocal
    <3>2. frame' = PutIn(at, moves, value, Len(Frames), next)
      BY <3>1, Zenon DEF PutIn, MarkFrame, OverFrame
    <3>3. callStack' = [k \in DOMAIN callStack |-> PutIn(at, moves, value, k, callStack[k])]
      BY <3>1, Zenon DEF PutIn, MarkFrame, OverFrame
    <3>4. MarkAll(mark, rest) = down
      BY DEF MarkAll
    <3> QED BY <3>1, <3>2, <3>3, <3>4
  <2> HIDE DEF root
  <2>3. next = FrameRec(frame.fn, frame.pc + 1, frame.locals)
    BY <1>1, SetPc
  <2>4. /\ IsFrame(next) /\ next.fn = frame.fn /\ next.pc = frame.pc + 1 /\ next.locals = frame.locals
        /\ next.locals = [l \in Locals(next.fn) |-> next.locals[l]]
    BY <1>1, <2>3, FrameRecIs DEF LocalsTyped
  <2> HIDE DEF next
  <2>5. StoredFrame(at, moves, value, Here, next, frame') /\ (frame').pc = next.pc
    <3>1. frame' = PutIn(at, moves, value, Here, next)
      BY <2>1, <2>2
    <3> QED BY <2>4, <3>1, PutFrame DEF root
  <2>6. StoredFrame(at, moves, value, Here, frame, frame')
    BY <2>4, <2>5 DEF StoredFrame
  <2>7. DOMAIN callStack = 1..Len(callStack)
    BY <1>1 DEF IsSeq
  <2>8. IsSeq(callStack') /\ Len(callStack') = Len(callStack)
    <3>1. callStack' = [k \in 1..Len(callStack) |-> (callStack')[k]]
      BY <2>2, <2>7
    <3> QED BY <1>1, <3>1, FunIsSeq
  <2>9. ASSUME NEW k \in 1..Len(callStack)
        PROVE  /\ StoredFrame(at, moves, value, k, callStack[k], (callStack')[k])
               /\ (callStack')[k].pc = callStack[k].pc
    <3>1. k \in Depths(callStack) /\ FrameAt(callStack, frame, k) = callStack[k]
      BY <1>1 DEF Depths, FrameAt
    <3>2. FrameOK(program, callStack[k])
      BY <1>1, <3>1 DEF ShapeOK
    <3>3. IsFrame(callStack[k]) /\ callStack[k].locals = [l \in Locals(callStack[k].fn) |-> callStack[k].locals[l]]
      BY <3>2 DEF FrameOK, LocalsTyped
    <3>4. (callStack')[k] = PutIn(at, moves, value, k, callStack[k])
      BY <2>2, <2>7
    <3> QED BY <3>3, <3>4, PutFrame DEF root
  <2>10. /\ IsSeq(down) /\ Len(down) = m /\ Len(rest) = m
         /\ \A j \in 1..m : down[j] = Overwritten(at, moves, operandStack[j])
    <3>1. NumPops(frame.fn, Current) \in Nat /\ NumPops(frame.fn, Current) <= Len(operandStack)
      BY <1>1, OperandsThere, CurrentIs
    <3>2. m \in Nat /\ m <= Len(operandStack)
      BY <1>1, <3>1
    <3>3. IsSeq(rest) /\ Len(rest) = m /\ \A k \in 1..m : rest[k] = operandStack[k]
      BY <1>1, <3>2, SeqPrefix, SeqElements DEF Rest
    <3>4. DOMAIN rest = 1..m
      BY <3>3 DEF IsSeq
    <3>5. down = [k \in 1..m |-> down[k]]
      BY <3>4
    <3>6. \A k \in 1..m : down[k] = Overwritten(at, moves, operandStack[k])
      BY <3>3, <3>4
    <3> HIDE DEF down, m
    <3> QED BY <3>2, <3>3, <3>5, <3>6, FunIsSeq
  <2> HIDE DEF down
  <2>11. /\ IsSeq(operandStack') /\ Len(operandStack') = m + Len(results)
         /\ \A j \in 1..m : (operandStack')[j] = Overwritten(at, moves, operandStack[j])
         /\ \A j \in 1..Len(results) : (operandStack')[m + j] = results[j]
    <3> HIDE DEF m
    <3>1. IsSeq(down \o results) /\ Len(down \o results) = Len(down) + Len(results)
      BY <2>10, SeqConcat
    <3>2. /\ \A k \in 1..Len(down) : (down \o results)[k] = down[k]
          /\ \A k \in 1..Len(results) : (down \o results)[Len(down) + k] = results[k]
      BY <2>10, SeqParts
    <3>3. operandStack' = down \o results
      BY <2>2
    <3> QED BY <2>10, <3>1, <3>2, <3>3
  <2>12. Len(operandStack') <= StackLimit
    <3> HIDE DEF m
    <3>1. Len(operandStack') \in Nat /\ StackLimit \in Nat
      BY <2>11, SeqLen, InterpreterConstants
    <3> QED BY <2>2, <2>10, <2>11, <3>1
  <2> QED BY <2>2, <2>4, <2>5, <2>6, <2>8, <2>9, <2>11, <2>12 DEF StoreDone, root
<1> QED BY <1>3, <1>4

\* The value at a place moves away.
Leaves(moves, place) == \E m \in moves : m[1] = place

\* Every component of the value at a place is moves or the same as before.
Loses(at, old, new, moves) ==
    \A k \in 1..Len(old.f) : Leaves(moves, Append(at, k)) \/ (k \in 1..Len(new.f) /\ new.f[k] = old.f[k])

\* The elements of a sequence with one more.
LEMMA AppendIs ==
    ASSUME NEW at, IsSeq(at), NEW k
    PROVE  LET q == Append(at, k) IN
           IsSeq(q) /\ Len(q) = Len(at) + 1 /\ q[Len(at) + 1] = k /\ \A j \in 1..Len(at) : q[j] = at[j]
<1>1. IsSeq(Append(at, k))
  BY SeqAppend
<1>2. PICK A : at \in Seq(A)
  BY DEF IsSeq
<1>3. at \in Seq(A \union {k}) /\ k \in A \union {k} /\ Len(at) \in Nat
  BY <1>2
<1> QED BY <1>1, <1>3

\* A write marks references and changes no other value.
LEMMA OverwrittenMarks ==
    ASSUME NEW cs, NEW fr, NEW G, NEW d, NEW v, GoodRef(cs, fr, G, d, v), NEW at, NEW moves,
           NEW w, w = Overwritten(at, moves, v)
    PROVE  /\ Marked(v, w)
           /\ IsReference(w) /\ w.mark = "live" => \A m \in moves : ~IsPrefix(m[1], v.at)
<1> DEFINE x == Displaced(moves, v)
<1>1. IsReference(v) => "mark" \in DOMAIN v
  BY DEF GoodRef
<1>2. /\ Marked(v, x)
      /\ IsReference(x) /\ x.mark = "live" => x = v /\ \A m \in moves : ~IsPrefix(m[1], v.at)
  BY <1>1, DisplacedIs
<1>3. IsReference(x) /\ x.mark # "dangling" => x = v
  BY <1>1, DisplacedDangles
<1>4. w = x \/ (IsReference(x) /\ x.mark # "dangling" /\ w = [x EXCEPT !.mark = "stale"])
  BY DEF Overwritten
<1> HIDE DEF x
<1>5. CASE w = x
  BY <1>2, <1>5
<1>6. CASE IsReference(x) /\ x.mark # "dangling" /\ w = [x EXCEPT !.mark = "stale"]
  <2>1. x = v /\ w = [v EXCEPT !.mark = "stale"]
    BY <1>3, <1>6
  <2>2. w.mark = "stale"
    BY <1>1, <1>6, <2>1
  <2> QED BY <1>6, <2>1, <2>2 DEF Marked
<1> QED BY <1>4, <1>5, <1>6

\* A reference that stays live does not lead through what moved.
LEMMA OverwrittenSpares ==
    ASSUME NEW cs, NEW fr, NEW G, NEW d, NEW v, GoodRef(cs, fr, G, d, v),
           NEW at, IsSeq(at), Len(at) >= 1, NEW moves, NEW old, NEW new, Loses(at, old, new, moves),
           NEW w, w = Overwritten(at, moves, v)
    PROVE  /\ Marked(v, w)
           /\ IsReference(w) /\ w.mark = "live" => Spared(at, w.at, old, new)
<1>1. Marked(v, w) /\ (IsReference(w) /\ w.mark = "live" => \A m \in moves : ~IsPrefix(m[1], v.at))
  BY OverwrittenMarks
<1> SUFFICES ASSUME IsReference(w), w.mark = "live", Agree(at, w.at, Len(at) - 1), Len(w.at) > Len(at),
                    w.at[Len(at) + 1] \in 1..Len(old.f)
             PROVE  w.at[Len(at) + 1] \in 1..Len(new.f) /\ new.f[w.at[Len(at) + 1]] = old.f[w.at[Len(at) + 1]]
  BY <1>1 DEF Spared
<1>2. w = v /\ IsReference(v)
  BY <1>1, MarkedLive DEF GoodRef
<1>3. IsSeq(v.at) /\ Len(v.at) \in Nat /\ Len(at) \in Nat
  BY <1>2, SeqLen DEF GoodRef
<1> DEFINE k == v.at[Len(at) + 1]
           q == Append(at, k)
<1>4. IsSeq(q) /\ Len(q) = Len(at) + 1 /\ q[Len(at) + 1] = k /\ \A j \in 1..Len(at) : q[j] = at[j]
  BY AppendIs
<1> HIDE DEF q
<1>5. \A j \in 1..Len(at) : v.at[j] = at[j]
  <2>1. (Len(at) - 1) + 1 = Len(at)
    BY <1>3
  <2> QED BY <1>2, <2>1 DEF Agree
<1>6. \A i \in 1..(Len(at) + 1) : i = Len(at) + 1 \/ i \in 1..Len(at)
  BY <1>3
<1>7. IsPrefix(q, v.at)
  <2>1. Len(q) <= Len(v.at)
    BY <1>2, <1>3, <1>4
  <2>2. \A i \in 1..Len(q) : q[i] = v.at[i]
    BY <1>4, <1>5, <1>6
  <2> QED BY <1>3, <1>4, <2>1, <2>2, PrefixIs
<1>8. ~Leaves(moves, q)
  BY <1>1, <1>7 DEF Leaves
<1> QED BY <1>2, <1>8 DEF Loses, q

\* Wherever the root is in reach it had the value x, and now has y.
RootSet(cs, fr, G, cs2, fr2, G2, root, x, y) ==
    \A d \in 1..(Len(cs) + 1) : \A z :
        RootHas(cs, fr, G, d, root, z) => z = x /\ RootHas(cs2, fr2, G2, d, root, y)

\* A reference that stays live after a write is good.
LEMMA GoodRefStored ==
    ASSUME NEW cs, Len(cs) \in Nat, NEW fr, NEW G, NEW cs2, NEW fr2, NEW G2,
           NEW at, IsSeq(at), Len(at) >= 1, Moves(cs, fr, G, cs2, fr2, G2, {at[1]}),
           NEW h, IsTrail(at, h[0], h), NEW w, Typed(w[0]), Rewrites(Len(at) - 1, at, h, w),
           RootSet(cs, fr, G, cs2, fr2, G2, at[1], h[0], w[0]),
           NEW d \in 1..(Len(cs) + 1), NEW v, GoodRef(cs, fr, G, d, v), NEW v2, Marked(v, v2),
           IsReference(v2) /\ v2.mark = "live" => Spared(at, v2.at, h[Len(at) - 1], w[Len(at) - 1])
    PROVE  GoodRef(cs2, fr2, G2, d, v2)
<1> SUFFICES ASSUME IsReference(v2)
             PROVE  GoodRef(cs2, fr2, G2, d, v2)
  BY DEF GoodRef
<1>1. IsReference(v) /\ (v2.mark = "live" => v2 = v) /\ v2.mark \in Marks /\ "mark" \in DOMAIN v2
  BY MarkedLive DEF GoodRef
<1>2. CASE v2.mark # "live"
  BY <1>1, <1>2 DEF GoodRef
<1>3. CASE v2.mark = "live" /\ v2.at[1] # at[1]
  <2>1. NotInto({at[1]}, v2)
    BY <1>3 DEF NotInto
  <2> QED BY <2>1, GoodRefMoves
<1>4. CASE v2.mark = "live" /\ v2.at[1] = at[1]
  <2>1. v2 = v /\ v.mark = "live"
    BY <1>1, <1>4
  <2>2. /\ IsSeq(v.at) /\ Len(v.at) >= 1
        /\ v.at[1][1] = "signer" => Kind(v.ty) = "ref"
    BY <1>1, <2>1 DEF GoodRef
  <2>3. PICK x, g : /\ RootHas(cs, fr, G, d, v.at[1], x) /\ Typed(x)
                    /\ IsTrail(v.at, x, g) /\ g[Len(v.at) - 1].ty = RefersTo(v)
    BY <1>1, <2>1 DEF GoodRef
  <2>4. v.at[1] = at[1]
    BY <1>4, <2>1
  <2>5. x = h[0] /\ RootHas(cs2, fr2, G2, d, v.at[1], w[0])
    BY <2>3, <2>4 DEF RootSet
  <2>6. Len(at) \in Nat /\ Len(v.at) \in Nat
    BY <2>2, SeqLen
  <2>7. Spared(at, v.at, h[Len(at) - 1], w[Len(at) - 1])
    BY <1>4, <2>1
  <2>8. IsTrail(v.at, h[0], g)
    BY <2>3, <2>5
  <2>9. LeadsFrom(w[0], v.at, g[Len(v.at) - 1].ty)
    BY <2>2, <2>4, <2>6, <2>7, <2>8, TrailKept
  <2>10. PICK g2 : IsTrail(v.at, w[0], g2) /\ g2[Len(v.at) - 1].ty = g[Len(v.at) - 1].ty
    BY <2>9 DEF LeadsFrom
  <2>11. RootHas(cs2, fr2, G2, d, v.at[1], w[0]) /\ Typed(w[0])
         /\ IsTrail(v.at, w[0], g2) /\ g2[Len(v.at) - 1].ty = RefersTo(v)
    BY <2>3, <2>5, <2>10
  <2> QED BY <1>1, <2>1, <2>2, <2>11 DEF GoodRef
<1> QED BY <1>2, <1>3, <1>4

\* A typed value in the place of another of its type.
LEMMA SameTyped ==
    ASSUME NEW x, Typed(x), NEW t, HasType(x, t), NEW y, Typed(y), y.ty = x.ty
    PROVE  HasType(y, t)
<1>1. ~IsReference(x)
  BY TypedIsNoReference
<1>2. Kind(t) \notin ReferenceKinds /\ x.ty = t /\ t \in Types
  BY <1>1, HasTypeFacts
<1> QED BY <1>2 DEF HasType

\* A write keeps the types of a frame.
LEMMA StoredFrameKept ==
    ASSUME NEW g, LocalsTyped(g.fn, g.locals), NEW at, NEW moves, NEW value, NEW k, NEW h,
           StoredFrame(at, moves, value, k, g, h), Typed(value),
           \A l \in Locals(g.fn) :
               IF at[1] = LocalRoot(k, l) THEN Typed(g.locals[l]) /\ value.ty = g.locals[l].ty
               ELSE Marked(g.locals[l], Overwritten(at, moves, g.locals[l]))
    PROVE  LocalsTyped(g.fn, h.locals) /\ Filled(h) = Filled(g)
<1>1. ASSUME NEW l \in Locals(g.fn)
      PROVE  /\ g.locals[l] = Invalid <=> h.locals[l] = Invalid
             /\ h.locals[l] # Invalid => HasType(h.locals[l], LocalAt(g.fn, l))
  <2>1. CASE at[1] = LocalRoot(k, l)
    <3>1. h.locals[l] = value /\ Typed(g.locals[l]) /\ value.ty = g.locals[l].ty
      BY <2>1 DEF StoredFrame
    <3>2. value # Invalid /\ g.locals[l] # Invalid
      BY <3>1, TypedIsNoReference
    <3>3. HasType(g.locals[l], LocalAt(g.fn, l))
      BY <3>2 DEF LocalsTyped
    <3> QED BY <3>1, <3>2, <3>3, SameTyped
  <2>2. CASE at[1] # LocalRoot(k, l)
    <3>1. Marked(g.locals[l], h.locals[l])
      BY <2>2 DEF StoredFrame
    <3>2. g.locals[l] = Invalid <=> h.locals[l] = Invalid
      BY <3>1, MarkedInvalid
    <3>3. g.locals[l] # Invalid => HasType(g.locals[l], LocalAt(g.fn, l))
      BY DEF LocalsTyped
    <3> QED BY <3>1, <3>2, <3>3, MarkedType
  <2> QED BY <2>1, <2>2
<1>2. LocalsTyped(g.fn, h.locals)
  BY <1>1 DEF LocalsTyped, StoredFrame
<1>3. Filled(h) = Filled(g)
  BY <1>1 DEF Filled, StoredFrame
<1> QED BY <1>2, <1>3

\* The frames after a store.
LEMMA FramesStored ==
    ASSUME RunningOK, NEW at, NEW moves, NEW value, NEW results, StoreDone(at, moves, value, results)
    PROVE  \A k \in Depths(callStack) : StoredFrame(at, moves, value, k, FrameAt(callStack, frame, k),
                                                    FrameAt(callStack', frame', k))
<1> SUFFICES ASSUME NEW k \in Depths(callStack)
             PROVE  StoredFrame(at, moves, value, k, FrameAt(callStack, frame, k), FrameAt(callStack', frame', k))
  OBVIOUS
<1>1. Len(callStack) \in Nat
  BY FrameNow
<1>2. Len(callStack') = Len(callStack)
  BY DEF StoreDone
<1>3. CASE k <= Len(callStack)
  <2>1. k \in 1..Len(callStack) /\ FrameAt(callStack, frame, k) = callStack[k] /\ FrameAt(callStack', frame', k) = (callStack')[k]
    BY <1>1, <1>2, <1>3 DEF Depths, FrameAt
  <2>2. StoredFrame(at, moves, value, k, callStack[k], (callStack')[k])
    BY <2>1 DEF StoreDone
  <2> QED BY <2>1, <2>2
<1>4. CASE ~(k <= Len(callStack))
  <2>1. k = Here /\ FrameAt(callStack, frame, k) = frame /\ FrameAt(callStack', frame', k) = frame'
    BY <1>1, <1>2, <1>4 DEF Depths, FrameAt, Here
  <2>2. StoredFrame(at, moves, value, Here, frame, frame')
    BY DEF StoreDone
  <2> QED BY <2>1, <2>2
<1> QED BY <1>3, <1>4

\* The values of other roots are as they were.
LEMMA StoreMoves ==
    ASSUME RunningOK, NEW at, IsRoot(at[1]), NEW moves, NEW value, NEW results, StoreDone(at, moves, value, results)
    PROVE  Moves(callStack, frame, global, callStack', frame', global', {at[1]})
<1>1. ASSUME NEW k \in Depths(callStack)
      PROVE  /\ FrameAt(callStack', frame', k).fn = FrameAt(callStack, frame, k).fn
             /\ \A l \in Locals(FrameAt(callStack, frame, k).fn) :
                  LocalRoot(k, l) \notin {at[1]} =>
                      Marked(FrameAt(callStack, frame, k).locals[l], FrameAt(callStack', frame', k).locals[l])
  <2>1. StoredFrame(at, moves, value, k, FrameAt(callStack, frame, k), FrameAt(callStack', frame', k))
    BY FramesStored
  <2>2. \A l \in Locals(FrameAt(callStack, frame, k).fn) :
            GoodRef(callStack, frame, global, k, FrameAt(callStack, frame, k).locals[l])
    BY DEF RunningOK, RunOK, RefsOK
  <2>3. \A l \in Locals(FrameAt(callStack, frame, k).fn) :
            LET x == FrameAt(callStack, frame, k).locals[l] IN Marked(x, Overwritten(at, moves, x))
    BY <2>2, OverwrittenMarks
  <2> QED BY <2>1, <2>3 DEF StoredFrame
<1>2. ASSUME NEW t \in Keyed, GlobalRoot(t) \notin {at[1]} PROVE (global')[t] = global[t]
  <2>1. global' = IF at[1][1] = "global" THEN [global EXCEPT ![at[1][2]] = value] ELSE global
    BY DEF StoreDone
  <2>2. CASE at[1][1] = "global"
    <3>1. at[1] = GlobalRoot(at[1][2])
      BY <2>2 DEF IsRoot
    <3>2. t # at[1][2]
      BY <1>2, <3>1
    <3>3. global = [x \in Keyed |-> global[x]]
      BY DEF RunningOK, RunOK, GlobalOK
    <3> QED BY <2>1, <2>2, <3>2, <3>3
  <2>3. CASE at[1][1] # "global"
    BY <2>1, <2>3
  <2> QED BY <2>2, <2>3
<1> QED BY <1>1, <1>2 DEF Moves

\* Account storage after a store to a stored value.
LEMMA StoreGlobal ==
    ASSUME RunningOK, NEW at, IsRoot(at[1]), NEW moves, NEW value, NEW results, StoreDone(at, moves, value, results),
           at[1][1] = "global" => at[1][2] \in Keyed /\ (value = Invalid \/ HasType(value, at[1][2]))
    PROVE  GlobalOK(global') /\ (at[1][1] = "global" => (global')[at[1][2]] = value)
<1>1. GlobalOK(global)
  BY DEF RunningOK, RunOK
<1>2. global' = IF at[1][1] = "global" THEN [global EXCEPT ![at[1][2]] = value] ELSE global
  BY DEF StoreDone
<1>3. CASE at[1][1] # "global"
  BY <1>1, <1>2, <1>3
<1>4. CASE at[1][1] = "global"
  <2> DEFINE u == at[1][2]
             G2 == [global EXCEPT ![u] = value]
  <2>1. global' = G2 /\ u \in Keyed /\ (value = Invalid \/ HasType(value, u))
    BY <1>2, <1>4
  <2> HIDE DEF u
  <2>2. global = [x \in Keyed |-> global[x]] /\ \A x \in Keyed : global[x] = Invalid \/ HasType(global[x], x)
    BY <1>1 DEF GlobalOK
  <2>3. G2 = [x \in Keyed |-> G2[x]] /\ G2[u] = value /\ \A x \in Keyed : x # u => G2[x] = global[x]
    BY <2>1, <2>2
  <2> HIDE DEF G2
  <2>4. \A x \in Keyed : G2[x] = Invalid \/ HasType(G2[x], x)
    BY <2>1, <2>2, <2>3
  <2>5. GlobalOK(G2)
    BY <2>3, <2>4 DEF GlobalOK
  <2> QED BY <2>1, <2>3, <2>5 DEF u
<1> QED BY <1>3, <1>4

\* A mutable reference leads to a local or to a resource, never to a signer.
LEMMA RootKinds ==
    ASSUME RunningOK, NEW root, NEW x, RootHas(callStack, frame, global, Here, root, x), root[1] # "signer"
    PROVE  /\ IsRoot(root)
           /\ root[1] = "global" => root[2] \in Keyed /\ x = global[root[2]]
<1>1. CASE \E k \in 1..Here : \E l \in Locals(FrameAt(callStack, frame, k).fn) : root = LocalRoot(k, l)
  BY <1>1 DEF IsRoot, LocalRoot
<1>2. CASE \E t \in Keyed : root = GlobalRoot(t) /\ x = global[t]
  BY <1>2 DEF IsRoot, GlobalRoot
<1>3. CASE \E t \in Types : root = SignerRoot(t)
  BY <1>3 DEF SignerRoot
<1> QED BY <1>1, <1>2, <1>3 DEF RootHas

\* The root that was written to.
LEMMA StoreRoot ==
    ASSUME RunningOK, NEW at, IsRoot(at[1]), NEW moves, NEW value, NEW results, StoreDone(at, moves, value, results),
           NEW x, RootHas(callStack, frame, global, Here, at[1], x),
           at[1][1] = "global" => (global')[at[1][2]] = value
    PROVE  RootSet(callStack, frame, global, callStack', frame', global', at[1], x, value)
<1>1. Len(callStack) \in Nat /\ Here = Len(callStack) + 1
  BY FrameNow DEF Here
<1> SUFFICES ASSUME NEW d \in 1..(Len(callStack) + 1), NEW z, RootHas(callStack, frame, global, d, at[1], z)
             PROVE  z = x /\ RootHas(callStack', frame', global', d, at[1], value)
  BY DEF RootSet
<1>2. RootHas(callStack, frame, global, Here, at[1], z)
  <2>1. \A k \in 1..d : k \in 1..Here
    BY <1>1
  <2> QED BY <2>1 DEF RootHas
<1>3. z = x
  BY <1>2, RootIs
<1>4. ASSUME NEW k \in 1..d, NEW l \in Locals(FrameAt(callStack, frame, k).fn), at[1] = LocalRoot(k, l)
      PROVE  RootHas(callStack', frame', global', d, at[1], value)
  <2>1. k \in Depths(callStack)
    BY <1>1 DEF Depths
  <2>2. StoredFrame(at, moves, value, k, FrameAt(callStack, frame, k), FrameAt(callStack', frame', k))
    BY <2>1, FramesStored
  <2>3. FrameAt(callStack', frame', k).fn = FrameAt(callStack, frame, k).fn /\ FrameAt(callStack', frame', k).locals[l] = value
    BY <1>4, <2>2 DEF StoredFrame
  <2> QED BY <1>4, <2>3 DEF RootHas
<1>5. ASSUME NEW t \in Keyed, at[1] = GlobalRoot(t)
      PROVE  RootHas(callStack', frame', global', d, at[1], value)
  <2>1. at[1][1] = "global" /\ at[1][2] = t
    BY <1>5 DEF GlobalRoot
  <2> QED BY <1>5, <2>1 DEF RootHas
<1>6. ASSUME NEW t, at[1] = SignerRoot(t) PROVE FALSE
  BY <1>6 DEF SignerRoot, IsRoot
<1> QED BY <1>3, <1>4, <1>5, <1>6 DEF RootHas

\* After a store the stack is as the type checker computed.
LEMMA StoreShape ==
    ASSUME RunningOK, NEW at, NEW moves, NEW value, Typed(value), NEW results, ResultsOK(results),
           StoreDone(at, moves, value, results), Current.op \notin {"StLoc", "MoveLoc"},
           frame.pc + 1 \in Range(Successors(program[frame.fn], frame.pc)),
           \A k \in Depths(callStack) : \A l \in Locals(FrameAt(callStack, frame, k).fn) :
               at[1] = LocalRoot(k, l) =>
                   LET x == FrameAt(callStack, frame, k).locals[l] IN Typed(x) /\ value.ty = x.ty
    PROVE  ShapeOK(program, callStack', frame', operandStack')
<1> DEFINE p == program
           cs == callStack
           fr == frame
           S == operandStack
           cs2 == callStack'
           fr2 == frame'
           S2 == operandStack'
           n == NumPops(fr.fn, Current)
           w == StaticResults
<1>1. /\ ProgramOK(p) /\ ShapeOK(p, cs, fr, S) /\ Len(cs) \in Nat /\ Len(S) \in Nat /\ RefsOK(cs, fr, S, global)
  BY FrameNow DEF RunningOK, RunOK
<1>2. ASSUME NEW k \in Depths(cs)
      PROVE  LET g == FrameAt(cs, fr, k)
                 h == FrameAt(cs2, fr2, k)
             IN  IsFrame(h) /\ h.fn = g.fn /\ LocalsTyped(g.fn, h.locals) /\ Filled(h) = Filled(g)
  <2> DEFINE g == FrameAt(cs, fr, k)
             h == FrameAt(cs2, fr2, k)
  <2>1. StoredFrame(at, moves, value, k, g, h)
    BY FramesStored
  <2>2. LocalsTyped(g.fn, g.locals)
    BY <1>1 DEF ShapeOK, FrameOK
  <2>3. \A l \in Locals(g.fn) : GoodRef(cs, fr, global, k, g.locals[l])
    BY <1>1 DEF RefsOK
  <2>4. \A l \in Locals(g.fn) : at[1] = LocalRoot(k, l) => Typed(g.locals[l]) /\ value.ty = g.locals[l].ty
    OBVIOUS
  <2> HIDE DEF g, h
  <2>5. \A l \in Locals(g.fn) : Marked(g.locals[l], Overwritten(at, moves, g.locals[l]))
    BY <2>3, OverwrittenMarks
  <2>6. LocalsTyped(g.fn, h.locals) /\ Filled(h) = Filled(g)
    BY <2>1, <2>2, <2>4, <2>5, StoredFrameKept
  <2> QED BY <2>1, <2>6 DEF StoredFrame, g, h
<1>3. IsSeq(cs2) /\ Len(cs2) = Len(cs)
  BY DEF StoreDone
<1>4. \A k \in 1..Len(cs) : KeptFrame(cs[k], cs2[k])
  <2> SUFFICES ASSUME NEW k \in 1..Len(cs) PROVE KeptFrame(cs[k], cs2[k])
    OBVIOUS
  <2>1. k \in Depths(cs) /\ FrameAt(cs, fr, k) = cs[k] /\ FrameAt(cs2, fr2, k) = cs2[k]
    BY <1>1, <1>3 DEF Depths, FrameAt
  <2>2. cs2[k].pc = cs[k].pc
    BY DEF StoreDone
  <2> HIDE DEF cs2, fr2
  <2> QED BY <1>2, <2>1, <2>2 DEF KeptFrame
<1>5. IsFrame(fr2) /\ fr2.fn = fr.fn /\ LocalsTyped(fr.fn, fr2.locals) /\ Filled(fr2) = Filled(fr)
  <2>1. Here \in Depths(cs) /\ FrameAt(cs, fr, Here) = fr /\ FrameAt(cs2, fr2, Here) = fr2
    BY <1>1, <1>3 DEF Depths, FrameAt, Here
  <2> HIDE DEF cs2, fr2
  <2> QED BY <1>2, <2>1
<1>6. fr2.pc \in Range(Successors(p[fr.fn], fr.pc))
  BY DEF StoreDone
<1>7. Filled(fr2) = HeldAfter(InstrOf(p, fr), Filled(fr))
  BY <1>5, CurrentIs DEF HeldAfter
<1>8. w = Pushed(fr.fn, InstrOf(p, fr), Operands(fr.fn, InstrOf(p, fr), StackOf(p, fr)))
  BY CurrentIs DEF StaticResults, StaticOperands, StaticTypes
<1>9. n = NumPops(fr.fn, InstrOf(p, fr)) /\ n \in Nat /\ n <= Len(S)
  BY <1>1, CurrentIs, OperandsThere
<1>10. /\ IsSeq(S2) /\ Len(S2) = Len(S) - n + Len(results)
       /\ \A j \in 1..(Len(S) - n) : S2[j] = Overwritten(at, moves, S[j])
       /\ \A j \in 1..Len(results) : S2[Len(S) - n + j] = results[j]
  BY DEF StoreDone
<1>11. Len(results) = Len(w) /\ \A j \in 1..Len(w) : HasType(results[j], w[j])
  BY DEF ResultsOK
<1>12. \A j \in 1..(Len(S) - n) : Marked(S[j], S2[j])
  <2>1. \A j \in 1..(Len(S) - n) : j \in 1..Len(S)
    BY <1>1, <1>9
  <2>2. \A j \in 1..(Len(S) - n) : GoodRef(cs, fr, global, Len(cs) + 1, S[j])
    BY <1>1, <2>1 DEF RefsOK
  <2> QED BY <1>10, <2>2, OverwrittenMarks
<1>13. \A j \in 1..Len(w) : HasType(S2[Len(S) - n + j], w[j])
  BY <1>10, <1>11
<1>14. IsSeq(S2) /\ Len(S2) = Len(S) - n + Len(w)
  BY <1>10, <1>11
<1> HIDE DEF p, cs, fr, S, cs2, fr2, S2, n, w
<1>15. ShapeOK(p, cs2, fr2, S2)
  BY <1>1, <1>3, <1>4, <1>5, <1>6, <1>7, <1>8, <1>9, <1>12, <1>13, <1>14, Advance
<1> QED BY <1>15 DEF p, cs2, fr2, S2

\* After a store every reference that may be used leads to a value of the type referred to.
LEMMA StoreRefs ==
    ASSUME RunningOK, NEW at, NEW h, Leads(at, h), IsRoot(at[1]), NEW w, Typed(w[0]), Rewrites(Len(at) - 1, at, h, w),
           NEW moves, Loses(at, h[Len(at) - 1], w[Len(at) - 1], moves),
           NEW results, \A j \in 1..Len(results) : ~IsReference(results[j]), IsSeq(results),
           StoreDone(at, moves, w[0], results),
           at[1][1] = "global" => (global')[at[1][2]] = w[0]
    PROVE  RefsOK(callStack', frame', operandStack', global')
<1> DEFINE cs == callStack
           fr == frame
           S == operandStack
           G == global
           cs2 == callStack'
           fr2 == frame'
           S2 == operandStack'
           G2 == global'
           value == w[0]
           m == Len(S) - NumPops(fr.fn, Current)
<1>1. Len(cs) \in Nat /\ RefsOK(cs, fr, S, G) /\ Len(S) \in Nat /\ ShapeOK(program, cs, fr, S) /\ ProgramOK(program)
  BY FrameNow DEF RunningOK, RunOK
<1>2. Moves(cs, fr, G, cs2, fr2, G2, {at[1]})
  BY StoreMoves
<1>3. /\ IsSeq(at) /\ Len(at) >= 1 /\ IsTrail(at, h[0], h) /\ RootHas(cs, fr, G, Here, at[1], h[0])
  BY DEF Leads
<1>4. RootSet(cs, fr, G, cs2, fr2, G2, at[1], h[0], w[0])
  BY <1>3, StoreRoot
<1>5. Len(cs2) = Len(cs) /\ Depths(cs2) = Depths(cs)
  BY DEF StoreDone, Depths
<1> HIDE DEF cs, fr, S, G, cs2, fr2, S2, G2
<1>6. ASSUME NEW d \in 1..(Len(cs) + 1), NEW v, GoodRef(cs, fr, G, d, v)
      PROVE  GoodRef(cs2, fr2, G2, d, Overwritten(at, moves, v))
  <2> DEFINE v2 == Overwritten(at, moves, v)
  <2>1. Marked(v, v2) /\ (IsReference(v2) /\ v2.mark = "live" => Spared(at, v2.at, h[Len(at) - 1], w[Len(at) - 1]))
    BY <1>3, <1>6, OverwrittenSpares
  <2> HIDE DEF v2
  <2>2. GoodRef(cs2, fr2, G2, d, v2)
    BY <1>1, <1>2, <1>3, <1>4, <1>6, <2>1, GoodRefStored
  <2> QED BY <2>2 DEF v2
<1>7. ASSUME NEW v, ~IsReference(v), NEW d PROVE GoodRef(cs2, fr2, G2, d, v)
  BY <1>7 DEF GoodRef
<1>8. ASSUME NEW k \in Depths(cs), NEW l \in Locals(FrameAt(cs2, fr2, k).fn)
      PROVE  GoodRef(cs2, fr2, G2, k, FrameAt(cs2, fr2, k).locals[l])
  <2>1. StoredFrame(at, moves, value, k, FrameAt(cs, fr, k), FrameAt(cs2, fr2, k))
    BY FramesStored DEF cs, fr, cs2, fr2
  <2>2. FrameAt(cs2, fr2, k).fn = FrameAt(cs, fr, k).fn
    BY <2>1 DEF StoredFrame
  <2>3. GoodRef(cs, fr, G, k, FrameAt(cs, fr, k).locals[l]) /\ k \in 1..(Len(cs) + 1)
    BY <1>1, <2>2 DEF RefsOK, Depths
  <2>4. CASE at[1] = LocalRoot(k, l)
    <3>1. FrameAt(cs2, fr2, k).locals[l] = w[0] /\ ~IsReference(w[0])
      BY <2>1, <2>2, <2>4, TypedIsNoReference DEF StoredFrame
    <3> QED BY <1>7, <3>1
  <2>5. CASE at[1] # LocalRoot(k, l)
    <3>1. FrameAt(cs2, fr2, k).locals[l] = Overwritten(at, moves, FrameAt(cs, fr, k).locals[l])
      BY <2>1, <2>2, <2>5 DEF StoredFrame
    <3> QED BY <1>6, <2>3, <3>1
  <2> QED BY <2>4, <2>5
<1>9. /\ Len(S2) = m + Len(results)
      /\ \A j \in 1..m : S2[j] = Overwritten(at, moves, S[j])
      /\ \A j \in 1..Len(results) : S2[m + j] = results[j]
  BY DEF StoreDone, S2, S, fr
<1>10. ASSUME NEW j \in 1..Len(S2) PROVE GoodRef(cs2, fr2, G2, Len(cs) + 1, S2[j])
  <2> DEFINE n == NumPops(fr.fn, Current)
             a == Len(S)
             b == Len(results)
  <2>1. n \in Nat /\ n <= a /\ a \in Nat /\ b \in Nat
    BY <1>1, OperandsThere, CurrentIs, SeqLen DEF S, fr, cs
  <2>2. j \in 1..(a - n + b) /\ m = a - n
    BY <1>9
  <2> HIDE DEF n, a, b
  <2>3. Split(a, n, b, j)
    BY <2>1, <2>2, SplitIndex
  <2>4. CASE j \in 1..m
    <3>1. j \in 1..a
      BY <2>1, <2>2, <2>4
    <3>2. GoodRef(cs, fr, G, Len(cs) + 1, S[j]) /\ Len(cs) + 1 \in 1..(Len(cs) + 1)
      BY <1>1, <3>1 DEF RefsOK, a
    <3> QED BY <1>6, <1>9, <2>4, <3>2
  <2>5. CASE \E d \in 1..b : j = m + d
    BY <1>7, <1>9, <2>5 DEF b
  <2> QED BY <2>2, <2>3, <2>4, <2>5 DEF Split
<1>11. RefsOK(cs2, fr2, S2, G2)
  BY <1>5, <1>8, <1>10 DEF RefsOK
<1> QED BY <1>11 DEF cs2, fr2, S2, G2

\* A store through a mutable reference that may be used.
LEMMA StoreOK ==
    ASSUME RunningOK, NEW r, NEW t, LiveRef(r, t), Kind(t) = "mut",
           NEW new, Typed(new), new.ty = Referred(t), NEW moves, Loses(r.at, ValueAt(r.at), new, moves),
           NEW results, ResultsOK(results), \A j \in 1..Len(results) : ~IsReference(results[j]),
           Current.op \notin {"StLoc", "MoveLoc", "Ret", "Abort", "Branch"},
           NEW rest, rest = Rest, Store(r.at, new, moves, rest, results)
    PROVE  Outcome
<1> DEFINE at == r.at
           n == Len(at) - 1
<1>1. PICK h : Leads(at, h) /\ h[n].ty = Referred(t)
  BY LiveRefIs
<1>2. /\ IsSeq(at) /\ Len(at) >= 1 /\ n \in Nat /\ Typed(h[0]) /\ IsTrail(at, h[0], h)
      /\ RootHas(callStack, frame, global, Here, at[1], h[0])
  BY <1>1 DEF Leads
<1>3. at[1][1] # "signer"
  BY LiveRefIs
<1>4. IsRoot(at[1]) /\ (at[1][1] = "global" => at[1][2] \in Keyed /\ h[0] = global[at[1][2]])
  BY <1>2, <1>3, RootKinds
<1>5. ValueAt(at) = h[n] /\ RootValue(at[1]) = h[0]
  BY <1>1, <1>2, LeadsTo, RootIs
<1> HIDE DEF at
<1>6. PICK w : Rewrites(n, at, h, w) /\ w[n] = new /\ Replaced(h[0], Tail(at), new) = w[0]
  <2>1. new.ty = h[n].ty
    BY <1>1
  <2> HIDE DEF n
  <2> QED BY <1>2, <2>1, ReplacedIs DEF n
<1>7. Typed(w[0]) /\ w[0].ty = h[0].ty
  <2>1. 0 \in 0..n
    BY <1>2
  <2> QED BY <1>6, <2>1 DEF Rewrites
<1>8. ~IsReference(w[0])
  BY <1>7, TypedIsNoReference
<1>9. frame.pc + 1 \in Range(Successors(program[frame.fn], frame.pc))
  <2>1. Vetted(frame.fn, program[frame.fn]) /\ frame.pc \in Offsets(program[frame.fn])
    BY FrameNow
  <2>2. ~IsUnconditional(At(program[frame.fn], frame.pc))
    BY DEF IsUnconditional, Current, Code
  <2> QED BY <2>1, <2>2, GoesOn
<1>10. IsSeq(results)
  BY DEF ResultsOK
<1>11. Outcome \/ StoreDone(at, moves, w[0], results)
  <2>1. Store(at, new, moves, rest, results)
    BY DEF at
  <2> QED BY <1>4, <1>5, <1>6, <1>8, <1>9, <1>10, <2>1, StoreEffect
<1>12. CASE StoreDone(at, moves, w[0], results)
  <2>1. Loses(at, h[n], w[n], moves)
    BY <1>5, <1>6 DEF at
  <2>2. at[1][1] = "global" => at[1][2] \in Keyed /\ (w[0] = Invalid \/ HasType(w[0], at[1][2]))
    <3> SUFFICES ASSUME at[1][1] = "global"
                 PROVE  at[1][2] \in Keyed /\ HasType(w[0], at[1][2])
      OBVIOUS
    <3>1. at[1][2] \in Keyed /\ h[0] = global[at[1][2]] /\ h[0] # Invalid
      BY <1>2, <1>4, TypedIsNoReference
    <3>2. HasType(h[0], at[1][2])
      BY <3>1 DEF RunningOK, RunOK, GlobalOK
    <3> QED BY <1>2, <1>7, <3>1, <3>2, SameTyped
  <2>3. GlobalOK(global') /\ (at[1][1] = "global" => (global')[at[1][2]] = w[0])
    BY <1>4, <1>12, <2>2, StoreGlobal
  <2>4. ASSUME NEW k \in Depths(callStack), NEW l \in Locals(FrameAt(callStack, frame, k).fn), at[1] = LocalRoot(k, l)
        PROVE  FrameAt(callStack, frame, k).locals[l] = h[0]
    <3>1. k \in 1..Here
      BY DEF Depths, Here
    <3>2. RootHas(callStack, frame, global, Here, at[1], FrameAt(callStack, frame, k).locals[l])
      BY <2>4, <3>1 DEF RootHas
    <3> QED BY <1>5, <3>2, RootIs
  <2>5. \A k \in Depths(callStack) : \A l \in Locals(FrameAt(callStack, frame, k).fn) :
            at[1] = LocalRoot(k, l) =>
                LET x == FrameAt(callStack, frame, k).locals[l] IN Typed(x) /\ w[0].ty = x.ty
    BY <1>2, <1>7, <2>4
  <2>6. ShapeOK(program, callStack', frame', operandStack')
    BY <1>7, <1>9, <1>12, <2>5, StoreShape
  <2>7. RefsOK(callStack', frame', operandStack', global')
    BY <1>1, <1>4, <1>6, <1>7, <1>10, <1>12, <2>1, <2>3, StoreRefs DEF n
  <2>8. ProgramOK(program) /\ status' = "run" /\ Len(operandStack') <= StackLimit
    BY <1>12 DEF RunningOK, RunOK, StoreDone
  <2> QED BY <2>3, <2>6, <2>7, <2>8 DEF Outcome, RunOK
<1> QED BY <1>11, <1>12

\* The new value has the representation of the old one, whose components are no longer at their places.
LEMMA WriteRefOK ==
    ASSUME RunningOK, WriteRef
    PROVE  Outcome
<1> DEFINE t == StaticOperands[2]
           new == TopN(2)[1]
           old == ValueAt(Top.at)
           moves == Replacing(Top.at, old, new)
<1>1. Current.op = "WriteRef"
  BY RunningOp DEF WriteRef
<1>2. NumPops(frame.fn, Current) = 2 /\ StaticResults = <<>>
  BY <1>1 DEF NumPops, StaticResults, Pushed
<1>3. /\ Depth >= 2 /\ Below(2) = Rest /\ TypeCheck(frame.fn, Current, StaticOperands)
      /\ ValueOK(new, StaticOperands[1]) /\ ValueOK(Top, t)
  BY <1>2, TwoOperands
<1>4. Kind(t) = "mut" /\ Kind(t) \in ReferenceKinds /\ StaticOperands[1] = Referred(t)
  BY <1>1, <1>3 DEF TypeCheck, ReferenceOk, ReferenceKinds
<1>5. CASE ~LiveRef(Top, t)
  <2>1. Fail("DANGLING_REFERENCE") \/ Fail("STALE_REFERENCE")
    BY <1>3, <1>4, <1>5, UseFails DEF WriteRef, Pops, Using, Unless
  <2> QED BY <2>1, FailOK DEF Stopped
<1>6. CASE LiveRef(Top, t)
  <2>1. IsReference(Top) /\ Top.mark = "live"
    BY <1>6, LiveRefIs DEF LiveRef
  <2>2. /\ Typed(old) /\ Rep(old) = Kind(Referred(t)) /\ Kind(Referred(t)) \notin ReferenceKinds
    BY <1>6, LiveValue
  <2>3. HasType(new, Referred(t))
    BY <1>3, <1>4 DEF ValueOK
  <2>4. ~IsReference(new) /\ Rep(new) = Kind(Referred(t)) /\ Typed(new) /\ new.ty = Referred(t)
    BY <2>2, <2>3, HasTypeFacts DEF HasType
  <2>5. /\ RefersTo(Top) = Referred(t) /\ old.ty = Referred(t)
        /\ IsContainer(Referred(t)) => SameContainer(old, new)
    <3>1. RefersTo(Top) = Referred(t)
      BY <1>3, <1>4, RefMarks
    <3>2. old.ty = Referred(t)
      BY <1>6, LiveValue
    <3> HIDE DEF old, new, t
    <3>3. IsContainer(Referred(t)) => SameContainer(old, new)
      BY <2>2, <2>4, <3>2 DEF IsContainer, SameContainer, IsStruct
    <3> QED BY <3>1, <3>2, <3>3
  <2>6. Fail("MOVING_REFERRED_CONTAINER") \/ Store(Top.at, new, moves, Below(2), <<>>)
    <3>1. CASE IsContainer(Referred(t))
      <4>1. Owned(OnStack(Depth - 1), Store(Top.at, new, moves, Below(2), <<>>))
        BY <1>3, <2>1, <2>5, <3>1 DEF WriteRef, Pops, Using, Unless
      <4> QED BY <4>1 DEF Owned, Unless
    <3>2. CASE ~IsContainer(Referred(t))
      BY <1>3, <2>1, <2>4, <2>5, <3>2 DEF WriteRef, Pops, Using, Unless
    <3> QED BY <3>1, <3>2
  <2>8. Loses(Top.at, old, new, moves)
    <3> SUFFICES ASSUME NEW k \in 1..Len(old.f) PROVE Leaves(moves, Append(Top.at, k))
      BY DEF Loses
    <3>1. DOMAIN old.f = 1..Len(old.f)
      BY <2>2, TypedParts DEF IsSeq
    <3> DEFINE m == <<Append(Top.at, k), Nowhere>>
    <3> HIDE DEF old, new
    <3>2. m \in moves
      BY <3>1 DEF Replacing
    <3>3. m[1] = Append(Top.at, k)
      OBVIOUS
    <3> HIDE DEF m
    <3> QED BY <3>2, <3>3 DEF Leaves
  <2>7. ResultsOK(<<>>) /\ \A j \in 1..Len(<<>>) : ~IsReference(<<>>[j])
    BY <1>2, NoResult
  <2> HIDE DEF new, old, moves, t
  <2>9. CASE Fail("MOVING_REFERRED_CONTAINER")
    BY <2>9, FailOK DEF Stopped
  <2>10. CASE Store(Top.at, new, moves, Below(2), <<>>)
    BY <1>1, <1>3, <1>4, <1>6, <2>4, <2>7, <2>8, <2>10, StoreOK DEF old
  <2> QED BY <2>6, <2>9, <2>10
<1> QED BY <1>5, <1>6

\* A vector with other elements of its element type.
LEMMA OtherElements ==
    ASSUME NEW v, Typed(v), Kind(v.ty) = "vector", NEW q, IsSeq(q),
           \A k \in 1..Len(q) : Typed(q[k]) /\ q[k].ty = Desc[v.ty].args[1]
    PROVE  LET w == [v EXCEPT !.f = q] IN Typed(w) /\ w.ty = v.ty /\ w.f = q
<1> DEFINE D == {"ty", "b", "f"}
           w == Val(v.ty, v.b, q)
<1>1. v = Val(v.ty, v.b, v.f) /\ v.ty \in Types /\ v.b \in BOOLEAN /\ Kind(v.ty) \notin ReferenceKinds
  BY TypedParts
<1>2. DOMAIN v = D
  BY <1>1 DEF Val
<1>3. [v EXCEPT !.f = q] = [i \in D |-> IF i = "f" THEN q ELSE v[i]]
  BY <1>2
<1>4. w = [i \in D |-> IF i = "ty" THEN v.ty ELSE IF i = "b" THEN v.b ELSE q]
  BY DEF Val
<1>5. \A i \in D : (IF i = "f" THEN q ELSE v[i]) = (IF i = "ty" THEN v.ty ELSE IF i = "b" THEN v.b ELSE q)
  OBVIOUS
<1>6. [v EXCEPT !.f = q] = w
  <2> HIDE DEF w
  <2> QED BY <1>3, <1>4, <1>5
<1>7. w.ty = v.ty /\ w.f = q
  BY DEF Val
<1>8. Typed(w)
  BY <1>1, TypedBuild DEF Component
<1> HIDE DEF w
<1> QED BY <1>6, <1>7, <1>8

\* The vector that a mutable reference leads to.
LEMMA VectorAt ==
    ASSUME RunningOK, NEW r, NEW t, LiveRef(r, t), RefersToVector(t, {"mut"}, Pool[Current.a])
    PROVE  /\ Kind(t) = "mut" /\ Typed(ValueAt(r.at)) /\ ValueAt(r.at).ty = Referred(t)
           /\ Kind(Referred(t)) = "vector" /\ Desc[Referred(t)].args[1] = Pool[Current.a]
           /\ Kind(Pool[Current.a]) \notin ReferenceKinds
           /\ IsSeq(Elements(r)) /\ DOMAIN Elements(r) = 1..Len(Elements(r)) /\ Len(Elements(r)) \in Nat
           /\ \A k \in 1..Len(Elements(r)) : Typed(Elements(r)[k]) /\ Elements(r)[k].ty = Pool[Current.a]
<1>1. /\ Kind(t) = "mut" /\ Kind(Referred(t)) = "vector" /\ Desc[Referred(t)].args[1] = Pool[Current.a]
  BY DEF RefersToVector, IsVectorOf
<1>2. Typed(ValueAt(r.at)) /\ ValueAt(r.at).ty = Referred(t)
  BY LiveValue
<1>3. /\ IsSeq(Elements(r))
      /\ \A k \in 1..Len(Elements(r)) : Typed(Elements(r)[k]) /\ Elements(r)[k].ty = Component(Referred(t), k)
  BY <1>2, TypedParts DEF Elements
<1>4. \A k : Component(Referred(t), k) = Pool[Current.a]
  BY <1>1 DEF Component
<1>5. DOMAIN Elements(r) = 1..Len(Elements(r)) /\ Len(Elements(r)) \in Nat
  BY <1>3, SeqLen DEF IsSeq
<1>6. Kind(Pool[Current.a]) \notin ReferenceKinds
  <2> DEFINE u == Referred(t)
  <2>1. u \in Types /\ Kind(u) = "vector" /\ Desc[u].args[1] = Pool[Current.a]
    BY <1>1, LiveValue
  <2> HIDE DEF u
  <2>2. Desc[u].args \in Seq(Types) /\ Len(Desc[u].args) = 1
    BY <2>1, TypeTable
  <2>3. 1 \in DOMAIN Desc[u].args
    BY <2>2
  <2> QED BY <2>1, <2>3, TypeTable DEF ReferenceKinds
<1> QED BY <1>1, <1>2, <1>3, <1>4, <1>5, <1>6

\* Store of a vector with other elements.
LEMMA StoreElements ==
    ASSUME RunningOK, NEW r, NEW t, LiveRef(r, t), RefersToVector(t, {"mut"}, Pool[Current.a]),
           NEW q, IsSeq(q), \A k \in 1..Len(q) : Typed(q[k]) /\ q[k].ty = Pool[Current.a],
           NEW moves, \A k \in 1..Len(Elements(r)) : Leaves(moves, Append(r.at, k)) \/ (k \in 1..Len(q) /\ q[k] = Elements(r)[k]),
           NEW results, ResultsOK(results), \A j \in 1..Len(results) : ~IsReference(results[j]),
           Current.op \notin {"StLoc", "MoveLoc", "Ret", "Abort", "Branch"},
           NEW rest, rest = Rest, Store(r.at, WithElements(r, q), moves, rest, results)
    PROVE  Outcome
<1> DEFINE new == WithElements(r, q)
<1>1. /\ Kind(t) = "mut" /\ Typed(ValueAt(r.at)) /\ ValueAt(r.at).ty = Referred(t)
      /\ Kind(Referred(t)) = "vector" /\ Desc[Referred(t)].args[1] = Pool[Current.a]
  BY VectorAt
<1>2. Typed(new) /\ new.ty = Referred(t) /\ new.f = q
  <2> DEFINE v == ValueAt(r.at)
  <2>1. Typed(v) /\ Kind(v.ty) = "vector" /\ Desc[v.ty].args[1] = Pool[Current.a] /\ v.ty = Referred(t)
    BY <1>1
  <2> HIDE DEF v
  <2>2. Typed([v EXCEPT !.f = q]) /\ [v EXCEPT !.f = q].ty = v.ty /\ [v EXCEPT !.f = q].f = q
    BY <2>1, OtherElements
  <2> QED BY <2>1, <2>2 DEF WithElements, v
<1> HIDE DEF new
<1>3. Loses(r.at, ValueAt(r.at), new, moves)
  BY <1>2 DEF Loses, Elements
<1>4. Store(r.at, new, moves, rest, results)
  BY DEF new
<1> QED BY <1>1, <1>2, <1>3, <1>4, StoreOK

\* The element has the element type, and no element moves.
LEMMA VecPushBackOK ==
    ASSUME RunningOK, NoTypeParameters, VecPushBack
    PROVE  Outcome
<1> DEFINE r == TopN(2)[1]
           t == StaticOperands[1]
           s == Pool[Current.a]
           q == Append(Elements(r), Top)
           moves == {<<OnStack(Depth), Append(r.at, Len(Elements(r)) + 1)>>}
<1>1. Current.op = "VecPushBack"
  BY RunningOp DEF VecPushBack
<1>2. NumPops(frame.fn, Current) = 2 /\ StaticResults = <<>>
  BY <1>1 DEF NumPops, StaticResults, Pushed
<1>3. /\ Depth >= 2 /\ Below(2) = Rest /\ TypeCheck(frame.fn, Current, StaticOperands)
      /\ ValueOK(r, t) /\ ValueOK(Top, StaticOperands[2])
  BY <1>2, TwoOperands
<1>4. RefersToVector(t, {"mut"}, s) /\ StaticOperands[2] = s
  BY <1>1, <1>3 DEF TypeCheck, VectorOk
<1>5. /\ Kind(t) \in ReferenceKinds /\ IsContainer(RefersTo(r)) /\ Kind(RefersTo(r)) = "vector"
      /\ HasLayout(RefersTo(r), s)
  <2>1. {"mut"} \subseteq ReferenceKinds
    BY DEF ReferenceKinds
  <2> QED BY <1>3, <1>4, <2>1, VectorNow
<1>6. CASE ~LiveRef(r, t)
  <2>1. Fail("DANGLING_REFERENCE") \/ Fail("STALE_REFERENCE")
    BY <1>3, <1>5, <1>6, UseFails DEF VecPushBack, Pops, WithVector, UsingContainer, Using, Unless
  <2> QED BY <2>1, FailOK DEF Stopped
<1>7. CASE LiveRef(r, t)
  <2>1. IsReference(r) /\ r.mark = "live"
    BY <1>7, LiveRefIs DEF LiveRef
  <2>5. Top.ty = s
    <3>1. Kind(s) \notin ReferenceKinds
      BY <1>4, <1>7, VectorAt
    <3> QED BY <1>3, <1>4, <3>1 DEF ValueOK, HasType
  <2>2. Fail("OUT_OF_GAS") \/ Store(r.at, WithElements(r, q), moves, Below(2), <<>>)
    BY <1>3, <1>5, <2>1, <2>5 DEF VecPushBack, Pops, WithVector, UsingContainer, Using, Unless
  <2>3. CASE Fail("OUT_OF_GAS")
    BY <2>3, FailOK DEF Stopped
  <2>4. CASE Store(r.at, WithElements(r, q), moves, Below(2), <<>>)
    <3>1. /\ IsSeq(Elements(r)) /\ Len(Elements(r)) \in Nat
          /\ \A k \in 1..Len(Elements(r)) : Typed(Elements(r)[k]) /\ Elements(r)[k].ty = s
          /\ Kind(s) \notin ReferenceKinds
      BY <1>4, <1>7, VectorAt
    <3>2. Typed(Top) /\ Top.ty = s
      BY <1>3, <1>4, <3>1 DEF ValueOK, HasType
    <3> DEFINE e == Elements(r)
    <3>3. IsSeq(q) /\ Len(q) = Len(e) + 1 /\ q[Len(e) + 1] = Top /\ \A j \in 1..Len(e) : q[j] = e[j]
      BY <3>1, AppendIs
    <3> HIDE DEF q, e
    <3>4. \A k \in 1..Len(q) : k = Len(e) + 1 \/ k \in 1..Len(e)
      BY <3>1, <3>3 DEF e
    <3>5. \A k \in 1..Len(e) : k \in 1..Len(q)
      BY <3>1, <3>3 DEF e
    <3>6. \A k \in 1..Len(q) : Typed(q[k]) /\ q[k].ty = s
      BY <3>1, <3>2, <3>3, <3>4 DEF e
    <3>7. \A k \in 1..Len(Elements(r)) : Leaves(moves, Append(r.at, k)) \/ (k \in 1..Len(q) /\ q[k] = Elements(r)[k])
      BY <3>3, <3>5 DEF e
    <3>8. ResultsOK(<<>>) /\ \A j \in 1..Len(<<>>) : ~IsReference(<<>>[j])
      BY <1>2, NoResult
    <3> HIDE DEF r, t, moves
    <3> QED BY <1>1, <1>3, <1>4, <1>7, <2>4, <3>3, <3>6, <3>7, <3>8, StoreElements
  <2> QED BY <2>2, <2>3, <2>4
<1> QED BY <1>6, <1>7

\* The last element moves to the stack.
LEMMA VecPopBackOK ==
    ASSUME RunningOK, NoTypeParameters, VecPopBack
    PROVE  Outcome
<1> DEFINE t == StaticOperands[1]
           s == Pool[Current.a]
           e == Elements(Top)
           q == Front(e)
           moves == {<<Append(Top.at, Len(e)), OnStack(Depth)>>}
<1>1. Current.op = "VecPopBack"
  BY RunningOp DEF VecPopBack
<1>2. NumPops(frame.fn, Current) = 1 /\ StaticResults = <<s>>
  BY <1>1 DEF NumPops, StaticResults, Pushed
<1>3. /\ Depth >= 1 /\ Below(1) = Rest /\ TypeCheck(frame.fn, Current, StaticOperands)
      /\ ValueOK(Top, t)
  BY <1>2, OneOperand
<1>4. RefersToVector(t, {"mut"}, s)
  BY <1>1, <1>3 DEF TypeCheck, VectorOk
<1>5. /\ Kind(t) \in ReferenceKinds /\ IsContainer(RefersTo(Top)) /\ Kind(RefersTo(Top)) = "vector"
      /\ HasLayout(RefersTo(Top), s)
  <2>1. {"mut"} \subseteq ReferenceKinds
    BY DEF ReferenceKinds
  <2> QED BY <1>3, <1>4, <2>1, VectorNow
<1>6. CASE ~LiveRef(Top, t)
  <2>1. Fail("DANGLING_REFERENCE") \/ Fail("STALE_REFERENCE")
    BY <1>3, <1>5, <1>6, UseFails DEF VecPopBack, Pops, WithVector, UsingContainer, Using, Unless
  <2> QED BY <2>1, FailOK DEF Stopped
<1>7. CASE LiveRef(Top, t)
  <2>1. IsReference(Top) /\ Top.mark = "live"
    BY <1>7, LiveRefIs DEF LiveRef
  <2>2. IF e = <<>> THEN Fail("ABORTED")
        ELSE Store(Top.at, WithElements(Top, q), moves, Below(1), <<Last(e)>>)
    BY <1>3, <1>5, <2>1 DEF VecPopBack, Pops, WithVector, UsingContainer, Using, Unless
  <2>3. CASE e = <<>>
    BY <2>2, <2>3, FailOK DEF Stopped
  <2>4. CASE e # <<>>
    <3>1. /\ IsSeq(e) /\ Len(e) \in Nat
          /\ \A k \in 1..Len(e) : Typed(e[k]) /\ e[k].ty = s
      BY <1>4, <1>7, VectorAt
    <3>2. Store(Top.at, WithElements(Top, q), moves, Below(1), <<Last(e)>>)
      BY <2>2, <2>4
    <3>3. Len(e) >= 1
      <4> HIDE DEF e
      <4>1. PICK A : e \in Seq(A)
        BY <3>1 DEF IsSeq
      <4> QED BY <2>4, <4>1
    <3>4. Len(e) - 1 \in Nat /\ Len(e) - 1 <= Len(e) /\ Len(e) \in 1..Len(e)
      BY <3>1, <3>3
    <3>5. IsSeq(q) /\ Len(q) = Len(e) - 1 /\ \A k \in 1..(Len(e) - 1) : q[k] = e[k]
      BY <3>1, <3>4, SeqPrefix, SeqElements DEF Front
    <3>6. Last(e) = e[Len(e)]
      BY DEF Last
    <3> DEFINE z == Last(e)
    <3> HIDE DEF q, e
    <3>7. Typed(z) /\ z.ty = s
      BY <3>1, <3>4, <3>6
    <3> HIDE DEF z
    <3>8. ~IsReference(z) /\ s \in Types /\ Kind(s) \notin ReferenceKinds
      BY <3>7, TypedIsNoReference, TypedParts
    <3>9. ResultsOK(<<z>>)
      BY <1>2, <3>7, <3>8, PlainValue, OneResult
    <3>10. \A j \in 1..Len(<<z>>) : ~IsReference(<<z>>[j])
      <4>1. Len(<<z>>) = 1 /\ <<z>>[1] = z /\ \A j \in 1..1 : j = 1
        BY SeqOne
      <4> QED BY <3>8, <4>1
    <3>11. \A k \in 1..Len(q) : k \in 1..Len(e) /\ k \in 1..(Len(e) - 1)
      BY <3>4, <3>5
    <3>12. \A k \in 1..Len(q) : Typed(q[k]) /\ q[k].ty = s
      BY <3>1, <3>5, <3>11
    <3>13. \A k \in 1..Len(e) : k = Len(e) \/ k \in 1..(Len(e) - 1)
      BY <3>4
    <3>17. Leaves(moves, Append(Top.at, Len(e)))
      <4>1. <<Append(Top.at, Len(e)), OnStack(Depth)>> \in moves
        OBVIOUS
      <4> QED BY <4>1 DEF Leaves
    <3> HIDE DEF moves
    <3>14. \A k \in 1..Len(e) : Leaves(moves, Append(Top.at, k)) \/ (k \in 1..Len(q) /\ q[k] = e[k])
      BY <3>5, <3>13, <3>17
    <3>15. Store(Top.at, WithElements(Top, q), moves, Below(1), <<z>>)
      BY <3>2 DEF z
    <3>16. \A k \in 1..Len(Elements(Top)) : Leaves(moves, Append(Top.at, k)) \/ (k \in 1..Len(q) /\ q[k] = Elements(Top)[k])
      BY <3>14 DEF e
    <3> HIDE DEF moves, t
    <3> QED BY <1>1, <1>3, <1>4, <1>7, <3>5, <3>9, <3>10, <3>12, <3>15, <3>16, StoreElements
  <2> QED BY <2>3, <2>4
<1> QED BY <1>6, <1>7

\* Both indices are integers of the width that is cast to, and both elements move.
LEMMA VecSwapOK ==
    ASSUME RunningOK, NoTypeParameters, VecSwap
    PROVE  Outcome
<1> DEFINE r == TopN(3)[1]
           t == StaticOperands[1]
           s == Pool[Current.a]
           e == Elements(r)
           MovesOf(j, k) == {<<Append(r.at, j), Append(r.at, k)>>, <<Append(r.at, k), Append(r.at, j)>>}
<1>1. Current.op = "VecSwap"
  BY RunningOp DEF VecSwap
<1>2. NumPops(frame.fn, Current) = 3 /\ StaticResults = <<>>
  BY <1>1 DEF NumPops, StaticResults, Pushed
<1>3. /\ Depth >= 3 /\ Below(3) = Rest /\ TypeCheck(frame.fn, Current, StaticOperands)
      /\ ValueOK(r, t)
      /\ TopN(2)[1] = TopN(3)[2] /\ TopN(2)[2] = TopN(3)[3]
      /\ ValueOK(TopN(3)[2], StaticOperands[2]) /\ ValueOK(TopN(3)[3], StaticOperands[3])
  BY <1>2, ThreeOperands
<1>8. \A k \in 1 .. 2 : TopN(2)[k].ty = U64
  <2>1. StaticOperands[2] = U64 /\ StaticOperands[3] = U64
    BY <1>1, <1>3 DEF TypeCheck, VectorOk
  <2>2. TopN(2)[1].ty = U64 /\ TopN(2)[2].ty = U64
    BY <1>3, <2>1, HasTypeFacts DEF ValueOK
  <2>3. \A k \in 1 .. 2 : k = 1 \/ k = 2
    OBVIOUS
  <2> QED BY <2>2, <2>3
<1>4. RefersToVector(t, {"mut"}, s)
  BY <1>1, <1>3 DEF TypeCheck, VectorOk
<1>5. /\ Kind(t) \in ReferenceKinds /\ IsContainer(RefersTo(r)) /\ Kind(RefersTo(r)) = "vector"
      /\ HasLayout(RefersTo(r), s)
  <2>1. {"mut"} \subseteq ReferenceKinds
    BY DEF ReferenceKinds
  <2> QED BY <1>3, <1>4, <2>1, VectorNow
<1>6. CASE ~LiveRef(r, t)
  <2>1. Fail("DANGLING_REFERENCE") \/ Fail("STALE_REFERENCE")
    BY <1>3, <1>5, <1>6, <1>8, UseFails DEF VecSwap, Pops, WithIndices, WithVector, UsingContainer, Using, Unless
  <2> QED BY <2>1, FailOK DEF Stopped
<1>7. CASE LiveRef(r, t)
  <2>1. IsReference(r) /\ r.mark = "live"
    BY <1>7, LiveRefIs DEF LiveRef
  <2>2. \/ Fail("ABORTED")
        \/ \E j, k \in DOMAIN e :
              Store(r.at, WithElements(r, [e EXCEPT ![j] = e[k], ![k] = e[j]]), MovesOf(j, k),
                    Below(3), <<>>)
    BY <1>3, <1>5, <1>8, <2>1 DEF VecSwap, Pops, WithIndices, WithVector, UsingContainer, Using, Unless
  <2>3. CASE Fail("ABORTED")
    BY <2>3, FailOK DEF Stopped
  <2>4. /\ IsSeq(e) /\ Len(e) \in Nat /\ DOMAIN e = 1..Len(e)
        /\ \A k \in 1..Len(e) : Typed(e[k]) /\ e[k].ty = s
    BY <1>4, <1>7, VectorAt
  <2>5. ASSUME NEW j \in DOMAIN e, NEW k \in DOMAIN e,
               Store(r.at, WithElements(r, [e EXCEPT ![j] = e[k], ![k] = e[j]]), MovesOf(j, k),
                     Below(3), <<>>)
        PROVE  Outcome
    <3> DEFINE q == [e EXCEPT ![j] = e[k], ![k] = e[j]]
               moves == MovesOf(j, k)
    <3> HIDE DEF e
    <3>1. /\ q = [i \in 1..Len(e) |-> q[i]]
          /\ \A i \in 1..Len(e) : \/ q[i] = e[k] \/ q[i] = e[j] \/ (q[i] = e[i] /\ i # j /\ i # k)
          /\ \A i \in 1..Len(e) : i # j /\ i # k => q[i] = e[i]
      BY <2>4
    <3> HIDE DEF q
    <3>2. IsSeq(q) /\ Len(q) = Len(e)
      BY <2>4, <3>1, FunIsSeq
    <3>3. \A i \in 1..Len(q) : Typed(q[i]) /\ q[i].ty = s
      <4> SUFFICES ASSUME NEW i \in 1..Len(e) PROVE Typed(q[i]) /\ q[i].ty = s
        BY <3>2
      <4>1. CASE q[i] = e[k]
        BY <2>4, <4>1
      <4>2. CASE q[i] = e[j]
        BY <2>4, <4>2
      <4>3. CASE q[i] = e[i]
        BY <2>4, <4>3
      <4> QED BY <3>1, <4>1, <4>2, <4>3
    <3>8. Leaves(moves, Append(r.at, j)) /\ Leaves(moves, Append(r.at, k))
      <4>1. <<Append(r.at, j), Append(r.at, k)>> \in moves /\ <<Append(r.at, k), Append(r.at, j)>> \in moves
        OBVIOUS
      <4> HIDE DEF moves
      <4> QED BY <4>1 DEF Leaves
    <3> HIDE DEF moves, MovesOf
    <3>4. \A i \in 1..Len(e) : Leaves(moves, Append(r.at, i)) \/ (i \in 1..Len(q) /\ q[i] = e[i])
      BY <3>1, <3>2, <3>8
    <3>5. Store(r.at, WithElements(r, q), moves, Below(3), <<>>)
      BY <2>5 DEF q, moves
    <3>6. ResultsOK(<<>>) /\ \A i \in 1..Len(<<>>) : ~IsReference(<<>>[i])
      BY <1>2, NoResult
    <3>7. \A i \in 1..Len(Elements(r)) : Leaves(moves, Append(r.at, i)) \/ (i \in 1..Len(q) /\ q[i] = Elements(r)[i])
      BY <3>4 DEF e
    <3> HIDE DEF r, t, moves
    <3> QED BY <1>1, <1>3, <1>4, <1>7, <3>2, <3>3, <3>5, <3>6, <3>7, StoreElements
  <2> QED BY <2>2, <2>3, <2>5
<1> QED BY <1>6, <1>7

\* A write to a root replaces its value.
LEMMA ReplacedWhole ==
    ASSUME NEW x, NEW new
    PROVE  Replaced(x, <<>>, new) = new
<1> DEFINE V == Visited(x, <<>>)
           w == CHOOSE g : IsRebuilt(V, <<>>, new, g)
<1>1. Replaced(x, <<>>, new) = w[0]
  BY Zenon DEF Replaced, Rebuilt, RebuiltNext, IsRebuilt
<1>2. Len(<<>>) = 0
  BY SeqNone
<1> HIDE DEF V
<1>3. IsRebuilt(V, <<>>, new, w)
  <2>1. \E g : IsRebuilt(V, <<>>, new, g)
    BY <1>2, RebuiltExists
  <2> QED BY <2>1, Zenon
<1> HIDE DEF w
<1>4. \A j \in 0..Len(<<>>) : w[j] = RebuiltNext(V, <<>>, new, w, j)
  BY <1>3, Zenon DEF IsRebuilt
<1>5. 0 \in 0..Len(<<>>)
  BY <1>2
<1>6. w[0] = RebuiltNext(V, <<>>, new, w, 0)
  BY <1>4, <1>5
<1> QED BY <1>1, <1>2, <1>6 DEF RebuiltNext

\* After all of a resource is replaced, no usable reference leads into the old one.
LEMMA ResourceMarks ==
    ASSUME NEW cs, NEW fr, NEW G, NEW d, NEW v, GoodRef(cs, fr, G, d, v), NEW t \in Keyed, NEW moves,
           Leaves(moves, <<GlobalRoot(t)>>) \/ G[t] = Invalid,
           NEW w, w = Overwritten(<<GlobalRoot(t)>>, moves, v)
    PROVE  Marked(v, w) /\ NotInto({GlobalRoot(t)}, w)
<1> DEFINE root == GlobalRoot(t)
<1>1. Marked(v, w) /\ (IsReference(w) /\ w.mark = "live" => \A m \in moves : ~IsPrefix(m[1], v.at))
  BY OverwrittenMarks
<1> SUFFICES ASSUME IsReference(w), w.mark = "live", w.at[1] = root PROVE FALSE
  BY <1>1 DEF NotInto
<1>2. w = v /\ IsReference(v)
  BY <1>1, MarkedLive DEF GoodRef
<1>3. IsSeq(v.at) /\ Len(v.at) >= 1 /\ Len(v.at) \in Nat
  BY <1>2, SeqLen DEF GoodRef
<1>4. CASE Leaves(moves, <<root>>)
  <2>1. IsSeq(<<root>>) /\ Len(<<root>>) = 1 /\ <<root>>[1] = root
    BY SeqOne
  <2>2. \A i \in 1..1 : i = 1
    OBVIOUS
  <2> HIDE DEF root
  <2>3. IsPrefix(<<root>>, v.at)
    BY <1>2, <1>3, <2>1, <2>2, PrefixIs
  <2> QED BY <1>1, <1>4, <2>3 DEF Leaves
<1>5. CASE G[t] = Invalid
  <2>1. PICK x : RootHas(cs, fr, G, d, root, x) /\ Typed(x)
    BY <1>2 DEF GoodRef
  <2>2. x # Invalid
    BY <2>1, TypedIsNoReference
  <2>3. \A u : root = GlobalRoot(u) => u = t
    BY DEF GlobalRoot
  <2>4. \A k, l : root # LocalRoot(k, l)
    BY DEF GlobalRoot, LocalRoot
  <2>5. \A u : root # SignerRoot(u)
    BY DEF GlobalRoot, SignerRoot
  <2> QED BY <1>5, <2>1, <2>2, <2>3, <2>4, <2>5 DEF RootHas
<1> QED BY <1>4, <1>5

\* A resource that is moved out of storage or into it.
LEMMA StoreRootOK ==
    ASSUME RunningOK, NEW t \in Keyed, NEW new, new = Invalid \/ HasType(new, t),
           NEW moves, Leaves(moves, <<GlobalRoot(t)>>) \/ global[t] = Invalid,
           NEW results, ResultsOK(results), \A j \in 1..Len(results) : ~IsReference(results[j]),
           Current.op \notin {"StLoc", "MoveLoc", "Ret", "Abort", "Branch"},
           NEW rest, rest = Rest, Store(<<GlobalRoot(t)>>, new, moves, rest, results)
    PROVE  Outcome
<1> DEFINE root == GlobalRoot(t)
           at == <<root>>
<1>1. at[1] = root /\ Tail(at) = <<>> /\ root[1] = "global" /\ root[2] = t /\ IsRoot(root)
  BY DEF GlobalRoot, IsRoot
<1>2. ~IsReference(new)
  <2>1. Kind(t) = "struct" /\ "struct" \notin ReferenceKinds
    BY TypeTable DEF ReferenceKinds
  <2> QED BY <2>1, HasTypeFacts, InvalidIs
<1>3. Replaced(RootValue(at[1]), Tail(at), new) = new
  BY <1>1, ReplacedWhole
<1>4. frame.pc + 1 \in Range(Successors(program[frame.fn], frame.pc))
  <2>1. Vetted(frame.fn, program[frame.fn]) /\ frame.pc \in Offsets(program[frame.fn])
    BY FrameNow
  <2>2. ~IsUnconditional(At(program[frame.fn], frame.pc))
    BY DEF IsUnconditional, Current, Code
  <2> QED BY <2>1, <2>2, GoesOn
<1>5. IsSeq(results)
  BY DEF ResultsOK
<1> HIDE DEF at
<1>6. Outcome \/ StoreDone(at, moves, new, results)
  <2>1. Store(at, new, moves, rest, results)
    BY DEF at
  <2> QED BY <1>1, <1>2, <1>3, <1>4, <1>5, <2>1, StoreEffect
<1>7. CASE StoreDone(at, moves, new, results)
  <2> DEFINE p == program
             cs == callStack
             fr == frame
             S == operandStack
             G == global
             cs2 == callStack'
             fr2 == frame'
             S2 == operandStack'
             G2 == global'
             n == NumPops(fr.fn, Current)
             w == StaticResults
             L == {root}
  <2>1. /\ RunOK(p, cs, fr, S, G) /\ ProgramOK(p) /\ ShapeOK(p, cs, fr, S) /\ Len(cs) \in Nat /\ Len(S) \in Nat
        /\ RefsOK(cs, fr, S, G) /\ LocalsTyped(fr.fn, fr.locals)
    BY FrameNow DEF RunningOK, RunOK
  <2>2. GlobalOK(G2)
    BY <1>1, <1>7, StoreGlobal
  <2>3. \A u \in Keyed : GlobalRoot(u) \notin L => G2[u] = G[u]
    BY <1>1, <1>7, StoreMoves DEF Moves
  <2>4. \A k \in Depths(cs) : StoredFrame(at, moves, new, k, FrameAt(cs, fr, k), FrameAt(cs2, fr2, k))
    BY <1>7, FramesStored
  <2>5. \A k, l : at[1] # LocalRoot(k, l)
    BY <1>1 DEF LocalRoot
  <2>6. ASSUME NEW d, NEW v, GoodRef(cs, fr, G, d, v)
        PROVE  Marked(v, Overwritten(at, moves, v)) /\ NotInto(L, Overwritten(at, moves, v))
    BY <2>6, ResourceMarks DEF at
  <2>7. IsSeq(cs2) /\ Len(cs2) = Len(cs) /\ fr2.pc = fr.pc + 1
    BY <1>7 DEF StoreDone
  <2>8. ASSUME NEW k \in Depths(cs)
        PROVE  LET g == FrameAt(cs, fr, k)
                   h == FrameAt(cs2, fr2, k)
               IN  /\ IsFrame(h) /\ h.fn = g.fn /\ h.locals = [l \in Locals(g.fn) |-> h.locals[l]]
                   /\ \A l \in Locals(g.fn) : Marked(g.locals[l], h.locals[l]) /\ NotInto(L, h.locals[l])
    <3> DEFINE g == FrameAt(cs, fr, k)
               h == FrameAt(cs2, fr2, k)
    <3>1. StoredFrame(at, moves, new, k, g, h)
      BY <2>4
    <3>2. \A l \in Locals(g.fn) : GoodRef(cs, fr, G, k, g.locals[l])
      BY <2>1 DEF RefsOK
    <3> HIDE DEF g, h, L
    <3>3. \A l \in Locals(g.fn) : h.locals[l] = Overwritten(at, moves, g.locals[l])
      BY <2>5, <3>1 DEF StoredFrame
    <3> QED BY <2>6, <3>1, <3>2, <3>3 DEF StoredFrame, g, h
  <2>9. \A k \in 1..Len(cs) : MarkedFrame(L, cs[k], cs2[k])
    <3> SUFFICES ASSUME NEW k \in 1..Len(cs) PROVE MarkedFrame(L, cs[k], cs2[k])
      OBVIOUS
    <3>1. k \in Depths(cs) /\ FrameAt(cs, fr, k) = cs[k] /\ FrameAt(cs2, fr2, k) = cs2[k]
      BY <2>1, <2>7 DEF Depths, FrameAt
    <3>2. cs2[k].pc = cs[k].pc
      BY <1>7 DEF StoreDone
    <3> HIDE DEF cs2, fr2, L
    <3> QED BY <2>8, <3>1, <3>2 DEF MarkedFrame
  <2>10. /\ IsFrame(fr2) /\ fr2.fn = fr.fn /\ fr2.locals = [l \in Locals(fr.fn) |-> fr2.locals[l]]
         /\ \A l \in Locals(fr.fn) : Marked(fr.locals[l], fr2.locals[l]) /\ NotInto(L, fr2.locals[l])
    <3>1. Here \in Depths(cs) /\ FrameAt(cs, fr, Here) = fr /\ FrameAt(cs2, fr2, Here) = fr2
      BY <2>1, <2>7 DEF Depths, FrameAt, Here
    <3> HIDE DEF cs2, fr2, L
    <3> QED BY <2>8, <3>1
  <2>11. LocalsTyped(fr.fn, fr2.locals) /\ Filled(fr2) = Filled(fr)
    <3> DEFINE g == FrameRec(fr.fn, fr.pc, fr2.locals)
    <3>1. IsFrame(g) /\ g.fn = fr.fn /\ g.pc = fr.pc /\ g.locals = fr2.locals
      BY FrameRecIs
    <3> HIDE DEF g, L, fr2
    <3>2. MarkedFrame(L, fr, g)
      BY <2>10, <3>1 DEF MarkedFrame
    <3>3. KeptFrame(fr, g)
      BY <2>1, <3>2, MarkedFrameKept
    <3> QED BY <2>10, <3>1, <3>3 DEF KeptFrame, Filled
  <2>12. fr2.pc \in Range(Successors(p[fr.fn], fr.pc))
    BY <1>4, <2>7
  <2>13. Filled(fr2) = HeldAfter(InstrOf(p, fr), Filled(fr))
    BY <2>11, CurrentIs DEF HeldAfter
  <2>14. w = Pushed(fr.fn, InstrOf(p, fr), Operands(fr.fn, InstrOf(p, fr), StackOf(p, fr)))
    BY CurrentIs DEF StaticResults, StaticOperands, StaticTypes
  <2>15. n = NumPops(fr.fn, InstrOf(p, fr)) /\ n \in Nat /\ n <= Len(S)
    BY <2>1, CurrentIs, OperandsThere
  <2>16. /\ IsSeq(S2) /\ Len(S2) = Len(S) - n + Len(results)
         /\ \A j \in 1..(Len(S) - n) : S2[j] = Overwritten(at, moves, S[j])
         /\ \A j \in 1..Len(results) : S2[Len(S) - n + j] = results[j]
    BY <1>7 DEF StoreDone
  <2>17. Len(results) = Len(w) /\ \A j \in 1..Len(w) : HasType(results[j], w[j]) /\ ~IsReference(results[j])
    BY DEF ResultsOK
  <2>18. \A j \in 1..(Len(S) - n) : Marked(S[j], S2[j]) /\ NotInto(L, S2[j])
    <3>1. \A j \in 1..(Len(S) - n) : j \in 1..Len(S)
      BY <2>1, <2>15
    <3>2. \A j \in 1..(Len(S) - n) : GoodRef(cs, fr, G, Len(cs) + 1, S[j])
      BY <2>1, <3>1 DEF RefsOK
    <3> HIDE DEF L, S2, n
    <3> QED BY <2>6, <2>16, <3>2
  <2>19. \A j \in 1..Len(w) : /\ HasType(S2[Len(S) - n + j], w[j])
                              /\ GoodRef(cs2, fr2, G2, Len(cs) + 1, S2[Len(S) - n + j])
    BY <2>16, <2>17 DEF GoodRef
  <2>20. IsSeq(S2) /\ Len(S2) = Len(S) - n + Len(w)
    BY <2>16, <2>17
  <2>21. \A l \in Locals(fr.fn) :
             IF LocalRoot(Len(cs) + 1, l) \in L THEN GoodRef(cs2, fr2, G2, Len(cs) + 1, fr2.locals[l])
             ELSE Marked(fr.locals[l], fr2.locals[l]) /\ NotInto(L, fr2.locals[l])
    <3>1. \A l : LocalRoot(Len(cs) + 1, l) \notin L
      BY <1>1, <2>5
    <3> HIDE DEF L
    <3> QED BY <2>10, <3>1
  <2> HIDE DEF p, cs, fr, S, G, cs2, fr2, S2, G2, n, w, L
  <2>22. RunOK(p, cs2, fr2, S2, G2)
    <3>1. RunOK(p, cs, fr, S, G) /\ IsSeq(cs2) /\ Len(cs2) = Len(cs)
      BY <2>1, <2>7
    <3>2. IsFrame(fr2) /\ fr2.fn = fr.fn /\ LocalsTyped(fr.fn, fr2.locals) /\ n = NumPops(fr.fn, InstrOf(p, fr))
      BY <2>10, <2>11, <2>15
    <3>3. MoveFacts(p, cs, fr, S, G, cs2, fr2, S2, G2, L, n, w)
      BY <2>2, <2>3, <2>9, <2>12, <2>13, <2>14, <2>18, <2>19, <2>20, <2>21, <3>1, <3>2 DEF MoveFacts
    <3> QED BY <3>1, <3>3, MoveOnFrom
  <2>23. status' = "run" /\ Len(operandStack') <= StackLimit
    BY <1>7 DEF RunningOK, StoreDone
  <2> QED BY <2>22, <2>23 DEF Outcome, p, cs2, fr2, S2, G2
<1> QED BY <1>6, <1>7

\* The resource moves to the stack.
LEMMA MoveFromOK ==
    ASSUME RunningOK, MoveFrom
    PROVE  Outcome
<1> DEFINE t == Pool[Current.a]
           v == global[t]
           moves == {<< <<GlobalRoot(t)>>, OnStack(Depth)>>}
<1>1. Current.op = "MoveFrom"
  BY RunningOp DEF MoveFrom
<1>2. NumPops(frame.fn, Current) = 1 /\ StaticResults = <<t>>
  BY <1>1 DEF NumPops, StaticResults, Pushed
<1>3. /\ Depth >= 1 /\ Below(1) = Rest /\ TypeCheck(frame.fn, Current, StaticOperands)
      /\ ValueOK(Top, StaticOperands[1])
  BY <1>2, OneOperand
<1>4. Rep(Top) = "address" /\ t \in Keyed
  BY <1>1, <1>3, HasTypeFacts DEF TypeCheck, GlobalOk, ValueOK
<1>5. \/ Fail("MISSING_DATA") \/ Fail("MOVING_REFERRED_CONTAINER")
      \/ v # Invalid /\ Store(<<GlobalRoot(t)>>, Invalid, moves, Below(1), <<v>>)
  BY <1>3, <1>4 DEF MoveFrom, Pops, Unless, AnAddress
<1>6. CASE Fail("MISSING_DATA") \/ Fail("MOVING_REFERRED_CONTAINER")
  BY <1>6, FailOK DEF Stopped
<1>7. CASE v # Invalid /\ Store(<<GlobalRoot(t)>>, Invalid, moves, Below(1), <<v>>)
  <2>1. t \in Types /\ Kind(t) = "struct" /\ Typed(v) /\ v.ty = t
    BY <1>4, <1>7, StoredIs
  <2>2. ~IsReference(v) /\ Kind(t) \notin ReferenceKinds
    BY <2>1, TypedIsNoReference DEF ReferenceKinds
  <2>5. Leaves(moves, <<GlobalRoot(t)>>)
    <3>1. << <<GlobalRoot(t)>>, OnStack(Depth)>> \in moves
      OBVIOUS
    <3> QED BY <3>1 DEF Leaves
  <2> HIDE DEF v, t, moves
  <2>3. ResultsOK(<<v>>)
    BY <1>2, <2>1, <2>2, PlainValue, OneResult
  <2>4. \A j \in 1..Len(<<v>>) : ~IsReference(<<v>>[j])
    <3>1. Len(<<v>>) = 1 /\ <<v>>[1] = v /\ \A j \in 1..1 : j = 1
      BY SeqOne
    <3> QED BY <2>2, <3>1
  <2> QED BY <1>1, <1>3, <1>4, <1>7, <2>3, <2>4, <2>5, StoreRootOK
<1> QED BY <1>5, <1>6, <1>7

\* The signer holds an address, and the resource has the type it is stored under.
LEMMA MoveToOK ==
    ASSUME RunningOK, MoveTo
    PROVE  Outcome
<1> DEFINE t == Pool[Current.a]
           r == TopN(2)[1]
           u == StaticOperands[1]
<1>1. Current.op = "MoveTo"
  BY RunningOp DEF MoveTo
<1>2. NumPops(frame.fn, Current) = 2 /\ StaticResults = <<>>
  BY <1>1 DEF NumPops, StaticResults, Pushed
<1>3. /\ Depth >= 2 /\ Below(2) = Rest /\ TypeCheck(frame.fn, Current, StaticOperands)
      /\ ValueOK(r, u) /\ ValueOK(Top, StaticOperands[2])
  BY <1>2, TwoOperands
<1>4. t \in Keyed /\ StaticOperands[2] = t /\ Kind(u) = "ref" /\ Kind(Referred(u)) = "signer" /\ Kind(u) \in ReferenceKinds
  BY <1>1, <1>3 DEF TypeCheck, GlobalOk, ReferenceKinds
<1>5. IsContainer(RefersTo(r))
  BY <1>3, <1>4, RefMarks DEF IsContainer
<1>6. Rep(Top) = "struct" /\ HasType(Top, t)
  BY <1>3, <1>4, HasTypeFacts, TypeTable DEF ValueOK
<1>7. CASE ~LiveRef(r, u)
  <2>1. Fail("DANGLING_REFERENCE") \/ Fail("STALE_REFERENCE")
    BY <1>3, <1>4, <1>7, UseFails DEF MoveTo, Pops, UsingContainer, Using, Unless
  <2> QED BY <2>1, FailOK DEF Stopped
<1>8. CASE LiveRef(r, u)
  <2>1. IsReference(r) /\ r.mark = "live"
    BY <1>8, LiveRefIs DEF LiveRef
  <2> DEFINE moves == {<<OnStack(Depth), <<GlobalRoot(t)>> >>}
             x == ValueAt(r.at)
  <2>2. x.f # <<>> /\ AnAddress(x.f[1])
    <3>1. Typed(x) /\ x.ty = Referred(u) /\ Kind(x.ty) = "signer" /\ x.ty \in Types
      BY <1>4, <1>8, LiveValue
    <3> HIDE DEF x
    <3>2. /\ IsSeq(x.f) /\ Len(x.f) = Len(Desc[x.ty].args)
          /\ \A k \in 1..Len(x.f) : Typed(x.f[k]) /\ x.f[k].ty = Component(x.ty, k)
      BY <3>1, TypedParts
    <3>3. Len(Desc[x.ty].args) = 1 /\ Kind(Desc[x.ty].args[1]) = "address"
      BY <3>1, TypeTable
    <3>4. Typed(x.f[1]) /\ Kind(x.f[1].ty) = "address"
      <4>1. 1 \in 1..Len(x.f) /\ Component(x.ty, 1) = Desc[x.ty].args[1]
        BY <3>1, <3>2, <3>3 DEF Component
      <4> QED BY <3>2, <3>3, <4>1
    <3>5. x.f # <<>>
      <4>1. Len(<<>>) = 0
        BY SeqNone
      <4> QED BY <3>2, <3>3, <4>1
    <3>6. x.f[1] # Invalid
      BY <3>4, TypedIsNoReference
    <3> QED BY <3>4, <3>5, <3>6 DEF AnAddress, Rep
  <2>3. \/ Fail("RESOURCE_ALREADY_EXISTS")
        \/ global[t] = Invalid /\ Store(<<GlobalRoot(t)>>, Top, moves, Below(2), <<>>)
    <3>1. IsStruct(Top)
      BY <1>6 DEF IsStruct
    <3> QED BY <1>3, <1>5, <2>1, <2>2, <3>1 DEF MoveTo, Pops, UsingContainer, Using, Unless
  <2>4. CASE Fail("RESOURCE_ALREADY_EXISTS")
    BY <2>4, FailOK DEF Stopped
  <2>5. CASE global[t] = Invalid /\ Store(<<GlobalRoot(t)>>, Top, moves, Below(2), <<>>)
    <3>1. ResultsOK(<<>>) /\ \A j \in 1..Len(<<>>) : ~IsReference(<<>>[j])
      BY <1>2, NoResult
    <3> HIDE DEF t, moves
    <3> QED BY <1>1, <1>3, <1>4, <1>6, <2>5, <3>1, StoreRootOK
  <2> QED BY <2>3, <2>4, <2>5
<1> QED BY <1>7, <1>8

-----------------------------------------------------------------------------
(* Every instruction.                                                      *)

\* No instruction on values leaves the invariant.
LEMMA StepOK ==
    ASSUME RunningOK, NoTypeParameters, Step
    PROVE  Outcome
<1>1. CASE PopInstr
  BY <1>1, PopOK
<1>2. CASE Nop
  BY <1>2, NopOK
<1>3. CASE Branch
  BY <1>3, BranchOK
<1>4. CASE Load
  BY <1>4, LoadOK
<1>5. CASE CopyLoc
  BY <1>5, CopyLocOK
<1>6. CASE MoveLoc
  BY <1>6, MoveLocOK
<1>7. CASE StLoc
  BY <1>7, StLocOK
<1>8. CASE Pack
  BY <1>8, PackOK
<1>9. CASE Unpack
  BY <1>9, UnpackOK
<1>10. CASE VecPack
  BY <1>10, VecPackOK
<1>11. CASE VecUnpack
  BY <1>11, VecUnpackOK
<1>12. CASE Add
  BY <1>12, AddOK
<1>13. CASE Eq
  BY <1>13, EqOK
<1>14. CASE And
  BY <1>14, AndOK
<1>15. CASE Not
  BY <1>15, NotOK
<1>16. CASE Abort
  BY <1>16, AbortOK
<1>17. CASE Call
  BY <1>17, CallOK
<1>18. CASE Ret
  BY <1>18, RetOK
<1>19. CASE OutOfGas
  BY <1>19, OutOfGasOK
<1>20. CASE ConditionalBranch("BrTrue", TRUE) \/ ConditionalBranch("BrFalse", FALSE)
  BY <1>20, ConditionalBranchOK
<1> QED BY <1>1, <1>2, <1>3, <1>4, <1>5, <1>6, <1>7, <1>8, <1>9, <1>10, <1>11, <1>12, <1>13, <1>14, <1>15, <1>16, <1>17, <1>18, <1>19, <1>20 DEF Step

\* No instruction on references leaves the invariant.
LEMMA ReferenceStepOK ==
    ASSUME RunningOK, NoTypeParameters, ReferenceStep
    PROVE  Outcome
<1>1. CASE FreezeRef
  BY <1>1, FreezeRefOK
<1>2. CASE ReadRef
  BY <1>2, ReadRefOK
<1>3. CASE WriteRef
  BY <1>3, WriteRefOK
<1>4. CASE EqRefs
  BY <1>4, EqRefsOK
<1>5. CASE Exists
  BY <1>5, ExistsOK
<1>6. CASE MoveFrom
  BY <1>6, MoveFromOK
<1>7. CASE MoveTo
  BY <1>7, MoveToOK
<1>8. CASE VecLen
  BY <1>8, VecLenOK
<1>9. CASE VecPushBack
  BY <1>9, VecPushBackOK
<1>10. CASE VecPopBack
  BY <1>10, VecPopBackOK
<1>11. CASE VecSwap
  BY <1>11, VecSwapOK
<1>12. CASE CastU8
  BY <1>12, CastU8OK
<1>13. CASE CastU64
  BY <1>13, CastU64OK
<1>14. CASE Lt
  BY <1>14, LtOK
<1>15. CASE BorrowLoc("MutBorrowLoc") \/ BorrowLoc("ImmBorrowLoc")
  BY <1>15, BorrowLocOK
<1>16. CASE BorrowField("MutBorrowField") \/ BorrowField("ImmBorrowField")
  BY <1>16, BorrowFieldOK
<1>17. CASE BorrowGlobal("MutBorrowGlobal") \/ BorrowGlobal("ImmBorrowGlobal")
  BY <1>17, BorrowGlobalOK
<1>18. CASE VecBorrow("VecMutBorrow") \/ VecBorrow("VecImmBorrow")
  BY <1>18, VecBorrowOK
<1> QED BY <1>1, <1>2, <1>3, <1>4, <1>5, <1>6, <1>7, <1>8, <1>9, <1>10, <1>11, <1>12, <1>13, <1>14, <1>15, <1>16, <1>17, <1>18 DEF ReferenceStep

\* Only a running program takes a step.
LEMMA StepsRun ==
    ASSUME Step \/ ReferenceStep
    PROVE  status = "run"
<1>1. CASE Step
  BY <1>1 DEF Step, Running, PopInstr, Nop, ConditionalBranch, Branch, Load, CopyLoc, MoveLoc, StLoc, Pack,
              Unpack, VecPack, VecUnpack, Add, Eq, And, Not, Abort, Call, Ret, OutOfGas
<1>2. CASE ReferenceStep
  BY <1>2 DEF ReferenceStep, Running, BorrowLoc, BorrowField, FreezeRef, ReadRef, WriteRef, EqRefs,
              BorrowGlobal, Exists, MoveFrom, MoveTo, VecLen, VecBorrow, VecPushBack, VecPopBack,
              VecSwap, CastU8, CastU64, Lt
<1> QED BY <1>1, <1>2

-----------------------------------------------------------------------------
(* The start of a program.                                                 *)

\* A signer is a typed value.
LEMMA SignerTyped ==
    ASSUME NEW t \in Types, Kind(t) = "signer"
    PROVE  Typed(SignerValue(t)) /\ SignerValue(t).ty = t
<1> DEFINE a == Desc[t].args[1]
           x == Val(a, FALSE, <<>>)
           q == <<x>>
<1>1. Desc[t].args \in Seq(Types) /\ Len(Desc[t].args) = 1 /\ Kind(a) = "address"
  BY TypeTable
<1>2. a \in Types
  BY <1>1
<1>3. Typed(x) /\ x.ty = a
  <2>1. Typed(x)
    BY <1>1, <1>2, FlatTyped
  <2> QED BY <2>1 DEF Val
<1> HIDE DEF x, a
<1>4. IsSeq(q) /\ Len(q) = 1 /\ q[1] = x
  BY SeqOne
<1> HIDE DEF q
<1>5. \A k \in 1..Len(q) : Typed(q[k]) /\ q[k].ty = Component(t, k)
  <2> SUFFICES ASSUME NEW k \in 1..1 PROVE Typed(q[k]) /\ q[k].ty = Component(t, k)
    BY <1>4
  <2>1. k = 1
    OBVIOUS
  <2> QED BY <1>3, <1>4, <2>1 DEF Component, a
<1>6. Typed(Val(t, FALSE, q))
  BY <1>1, <1>4, <1>5, TypedBuild DEF ReferenceKinds
<1> QED BY <1>6 DEF SignerValue, Flat, Val, q, x, a

\* Arguments from outside have the declared types; a reference to a signer is good.
LEMMA ArgumentIs ==
    ASSUME NEW v, NEW t \in Types, ArgumentOf(v, t), NEW cs, NEW fr, NEW G, NEW d
    PROVE  HasType(v, t) /\ GoodRef(cs, fr, G, d, v)
<1>1. CASE v \in Inputs /\ v.ty = t
  <2>1. Typed(v)
    BY <1>1, InputsTyped
  <2>2. Kind(t) \notin ReferenceKinds /\ ~IsReference(v)
    BY <1>1, <2>1, TypedParts, TypedIsNoReference
  <2> QED BY <1>1, <2>1, <2>2 DEF HasType, GoodRef
<1>2. CASE Kind(t) = "ref" /\ Kind(Desc[t].args[1]) = "signer" /\ v = Ref(t, <<SignerRoot(Desc[t].args[1])>>)
  <2> DEFINE s == Desc[t].args[1]
             at == <<SignerRoot(s)>>
             x == SignerValue(s)
             h == [j \in {0} |-> x]
  <2>1. Desc[t].args \in Seq(Types) /\ Len(Desc[t].args) = 1
    BY <1>2, TypeTable
  <2>2. s \in Types /\ Kind(s) = "signer"
    BY <1>2, <2>1
  <2>3. v = RefVal(t, at, "live") /\ v.at = at /\ v.mark = "live" /\ v.ty = t /\ "mark" \in DOMAIN v
    BY <1>2 DEF Ref, RefVal
  <2>4. HasType(v, t)
    BY <1>2, <2>3 DEF HasType, ReferenceKinds
  <2>5. IsSeq(at) /\ Len(at) = 1 /\ at[1] = SignerRoot(s)
    BY SeqOne
  <2>6. Typed(x) /\ x.ty = s
    BY <2>2, SignerTyped
  <2>7. RootHas(cs, fr, G, d, SignerRoot(s), x)
    BY <2>2 DEF RootHas
  <2>8. RefersTo(v) = s
    BY <2>3 DEF RefersTo
  <2> HIDE DEF x, at, s
  <2>9. h[0] = x
    OBVIOUS
  <2> HIDE DEF h
  <2>10. IsTrail(at, x, h) /\ h[Len(at) - 1].ty = s
    BY <2>5, <2>6, <2>9 DEF IsTrail
  <2>11. RootHas(cs, fr, G, d, v.at[1], x) /\ Typed(x) /\ IsTrail(v.at, x, h) /\ h[Len(v.at) - 1].ty = RefersTo(v)
    BY <2>3, <2>5, <2>6, <2>7, <2>8, <2>10
  <2>12. IsSeq(v.at) /\ Len(v.at) >= 1 /\ v.mark \in Marks /\ Kind(v.ty) = "ref"
    BY <1>2, <2>3, <2>5 DEF Marks
  <2>13. \E y, g : /\ RootHas(cs, fr, G, d, v.at[1], y) /\ Typed(y)
                  /\ IsTrail(v.at, y, g) /\ g[Len(v.at) - 1].ty = RefersTo(v)
    BY <2>11
  <2> QED BY <2>3, <2>4, <2>12, <2>13 DEF GoodRef
<1> QED BY <1>1, <1>2 DEF ArgumentOf

\* The program is one of those considered.
Known == \E family \in Programs : program \in family

\* What the verifier has accepted is vetted.
LEMMA AcceptedProgram ==
    ASSUME Known, CheckedInv, verdict = "accepted", PacksTyped
    PROVE  ProgramOK(program)
<1> SUFFICES ASSUME NEW f \in DOMAIN program
             PROVE  /\ Vetted(f, program[f])
                    /\ \A pc \in Offsets(program[f]) :
                          At(program[f], pc).op = "Call" => At(program[f], pc).a \in DOMAIN program
  BY DEF ProgramOK
<1>1. Checked(f, program[f]) /\ LocalsSafe(f, program[f])
  BY AllChecked
<1>2. \A pc \in Offsets(program[f]) : At(program[f], pc).op = "Call" => At(program[f], pc).a \in DOMAIN program
  BY ProgramsAssumption DEF Known
<1>3. \A pc \in Offsets(program[f]) : LET i == At(program[f], pc) IN
          i.op = "VecPack" =>
              Operands(f, i, TypeStacks(f, program[f]).stacks[pc + 1]) = [k \in 1..i.n |-> Pool[i.a]]
  BY DEF PacksTyped
<1>4. Vetted(f, program[f])
  BY <1>1, <1>3 DEF Vetted, Checked
<1> QED BY <1>2, <1>4

\* Argument lists are sequences.
LEMMA ArgumentsSeq ==
    ASSUME NEW n \in Nat, NEW args, args = [k \in 1..n |-> args[k]]
    PROVE  IsSeq(args) /\ Len(args) = n
<1> DEFINE R == {args[k] : k \in 1..n}
<1>1. args \in [1..n -> R]
  OBVIOUS
<1>2. args \in Seq(R) /\ Len(args) = n
  BY <1>1
<1> QED BY <1>2 DEF IsSeq

\* The call of a function with arguments from outside.
LEMMA EntryOK ==
    ASSUME NEW p, ProgramOK(p), NEW f \in DOMAIN p, f \in Functions, NEW args,
           IsSeq(args), Len(args) = Len(Sig[f].params),
           \A k \in 1..Len(Sig[f].params) : ArgumentOf(args[k], Sig[f].params[k]),
           NEW G, GlobalOK(G)
    PROVE  RunOK(p, <<>>, NewFrame(f, args), <<>>, G)
<1> DEFINE h == NewFrame(f, args)
           n == Len(Sig[f].params)
<1>1. Sig[f].params \in Seq(Types)
  BY SignatureTable
<1>2. n \in Nat /\ \A k \in 1..n : Sig[f].params[k] \in Types
  BY <1>1
<1>3. IsSeq(args) /\ Len(args) = n
  OBVIOUS
<1>4. \A k \in 1..n : HasType(args[k], Sig[f].params[k]) /\ GoodRef(<<>>, h, G, 1, args[k])
  BY <1>2, ArgumentIs
<1>5. /\ FrameOK(p, h) /\ h.fn = f /\ StackOf(p, h) = <<>>
      /\ \A l \in Locals(f) : h.locals[l] = Invalid \/ \E k \in 1..Len(args) : h.locals[l] = args[k]
  <2>1. \A k \in 1..Len(args) : HasType(args[k], Sig[f].params[k])
    BY <1>3, <1>4
  <2>2. Len(args) = Len(Sig[f].params)
    BY <1>3
  <2> QED BY <1>3, <2>1, <2>2, NewFrameOK
<1> HIDE DEF h
<1>6. Depths(<<>>) = {1} /\ FrameAt(<<>>, h, 1) = h /\ Len(<<>>) = 0 /\ 1..0 = {}
  BY DEF Depths, FrameAt
<1>7. IsSeq(<<>>)
  <2>1. <<>> \in Seq({})
    OBVIOUS
  <2> QED BY <2>1 DEF IsSeq
<1>8. Own(p, <<>>, h, 1) = 0
  BY <1>5, <1>6 DEF Own
<1>9. IsLayout(p, <<>>, h, <<>>, [k \in {1} |-> 0])
  BY <1>6, <1>8 DEF IsLayout
<1>10. ShapeOK(p, <<>>, h, <<>>)
  BY <1>5, <1>6, <1>7, <1>9 DEF ShapeOK
<1>11. \A l \in Locals(f) : GoodRef(<<>>, h, G, 1, h.locals[l])
  <2> SUFFICES ASSUME NEW l \in Locals(f) PROVE GoodRef(<<>>, h, G, 1, h.locals[l])
    OBVIOUS
  <2>1. CASE h.locals[l] = Invalid
    BY <2>1, InvalidIs DEF GoodRef
  <2>2. CASE \E k \in 1..Len(args) : h.locals[l] = args[k]
    BY <1>3, <1>4, <2>2
  <2> QED BY <1>5, <2>1, <2>2
<1>12. RefsOK(<<>>, h, <<>>, G)
  BY <1>5, <1>6, <1>11 DEF RefsOK
<1> QED BY <1>10, <1>12 DEF RunOK, h

\* What is in storage has the types it is stored under.
LEMMA StoredOK ==
    ASSUME NEW g \in Stored
    PROVE  GlobalOK(g)
<1>1. g \in [Keyed -> Inputs \union {Invalid}] /\ \A t \in Keyed : g[t] = Invalid \/ g[t].ty = t
  BY InterpreterConstants
<1>2. ASSUME NEW t \in Keyed, g[t] # Invalid PROVE HasType(g[t], t)
  <2>1. g[t] \in Inputs /\ g[t].ty = t /\ t \in Types /\ Kind(t) = "struct"
    BY <1>1, <1>2, TypeTable
  <2>2. Typed(g[t])
    BY <2>1, InputsTyped
  <2> QED BY <2>1, <2>2 DEF HasType, ReferenceKinds
<1> QED BY <1>1, <1>2 DEF GlobalOK

\* The start of an accepted program.
LEMMA StartOK ==
    ASSUME Known, CheckedInv, PacksTyped, callStack = <<>>, operandStack = <<>>, Start
    PROVE  Outcome
<1>1. verdict = "accepted" /\ Execute
  BY DEF Start
<1> DEFINE f == LastFunction
<1>2. PICK args \in Arguments[f] : frame' = NewFrame(f, args)
  BY <1>1 DEF Execute
<1>3. global' \in Stored /\ status' = "run" /\ callStack' = <<>> /\ operandStack' = <<>>
  BY <1>1 DEF Execute
<1>4. ProgramOK(program)
  BY <1>1, AcceptedProgram
<1>5. InProgram /\ f \in DOMAIN program /\ \A g \in DOMAIN program : g <= f
  BY FunctionsAreNumbered DEF CheckedInv, LInv
<1>6. f \in DOMAIN Arguments
  <2>1. PICK e \in DOMAIN program \intersect DOMAIN Arguments : \A g \in DOMAIN program : g <= e
    BY InterpreterConstants DEF Known
  <2>2. e \in Int /\ f \in Int /\ e <= f /\ f <= e
    BY <1>5, <2>1, FunctionsAreNumbered
  <2> QED BY <2>1, <2>2
<1> HIDE DEF f
<1>7. /\ f \in Functions /\ args = [k \in 1..Len(Sig[f].params) |-> args[k]]
      /\ \A k \in DOMAIN args : ArgumentOf(args[k], Sig[f].params[k])
  BY <1>6, InterpreterConstants
<1>8. \A k \in 1..Len(Sig[f].params) : ArgumentOf(args[k], Sig[f].params[k])
  BY <1>7
<1>9. IsSeq(args) /\ Len(args) = Len(Sig[f].params)
  <2>1. Len(Sig[f].params) \in Nat
    BY <1>7, SignatureTable
  <2> QED BY <1>7, <2>1, ArgumentsSeq
<1>10. GlobalOK(global')
  BY <1>3, StoredOK
<1>11. RunOK(program, <<>>, NewFrame(f, args), <<>>, global')
  BY <1>4, <1>5, <1>7, <1>8, <1>9, <1>10, EntryOK
<1>12. Len(operandStack') <= StackLimit
  BY <1>3, SeqNone, InterpreterConstants
<1> QED BY <1>2, <1>3, <1>11, <1>12 DEF Outcome

-----------------------------------------------------------------------------
(* The invariant.                                                          *)

\* Nothing runs yet, something runs as typed, or it has stopped for a reason of its own.
Executing ==
    \/ status = "idle" /\ callStack = <<>> /\ operandStack = <<>>
    \/ status \in Stopped
    \/ RunningOK

ExecInv == Known /\ CheckedInv /\ (PacksTyped => Executing)

\* The invariant holds before anything is verified.
LEMMA ExecStart ==
    ASSUME VerifiedInit
    PROVE  ExecInv
<1>1. Known /\ VerifierInit /\ InterpreterInit
  BY DEF VerifiedInit, Known
<1>2. CheckedInv
  BY <1>1, StartsInside, NoneChecked DEF Known
<1> QED BY <1>1, <1>2 DEF ExecInv, Executing, InterpreterInit

\* No step of the verifier or of the interpreter leaves the invariant.
LEMMA ExecStep ==
    ASSUME NoTypeParameters, ExecInv, [VerifiedNext]_runVars
    PROVE  ExecInv'
<1>1. program' = program
  BY DEF VerifiedNext, Verify, Start, Run, runVars
<1>2. Known' /\ PacksTyped' = PacksTyped
  BY <1>1 DEF ExecInv, Known, PacksTyped
<1>3. CheckedInv'
  <2>1. [VerifierNext /\ UNCHANGED program]_<<program, verifierVars>>
    BY <1>1 DEF VerifiedNext, Verify, Start, Run, runVars
  <2> QED BY <2>1, CheckedStep DEF ExecInv
<1> SUFFICES ASSUME PacksTyped PROVE Executing'
  BY <1>2, <1>3 DEF ExecInv
<1>4. Known /\ CheckedInv /\ Executing
  BY DEF ExecInv
<1>5. ASSUME Outcome PROVE Executing'
  BY <1>1, <1>5 DEF Outcome, Executing, RunningOK
<1>6. CASE Verify \/ UNCHANGED runVars
  <2>1. UNCHANGED interpreterVars
    BY <1>6 DEF Verify, runVars
  <2>2. /\ status' = status /\ callStack' = callStack /\ operandStack' = operandStack
        /\ frame' = frame /\ global' = global
    BY <2>1 DEF interpreterVars
  <2> QED BY <1>1, <1>4, <2>2 DEF Executing, RunningOK
<1>7. CASE Start
  <2>1. status = "idle"
    BY <1>7 DEF Start, Execute
  <2>2. callStack = <<>> /\ operandStack = <<>>
    BY <1>4, <2>1 DEF Executing, Stopped, RunningOK
  <2> QED BY <1>4, <1>5, <1>7, <2>2, StartOK
<1>8. CASE Run
  <2>1. Step \/ ReferenceStep
    BY <1>8 DEF Run
  <2>2. RunningOK
    BY <1>4, <2>1, StepsRun DEF Executing, Stopped
  <2> QED BY <1>5, <2>1, <2>2, StepOK, ReferenceStepOK
<1> QED BY <1>6, <1>7, <1>8 DEF VerifiedNext

\* The inductive invariant of verification and execution.
LEMMA ExecInvariant ==
    ASSUME NoTypeParameters
    PROVE  VerifiedSpec => []ExecInv
<1>1. VerifiedInit => ExecInv
  BY ExecStart
<1>2. ExecInv /\ [VerifiedNext]_runVars => ExecInv'
  BY ExecStep
<1> QED BY <1>1, <1>2, PTL DEF VerifiedSpec

(* Type soundness of verified code.  Whatever the types, the signatures,   *)
(* the programs, the arguments, the stored resources and the limits of the *)
(* stacks: while a program runs that the verifier has accepted, no check   *)
(* of the interpreter fails that the verifier is there to make             *)
(* superfluous.  No instruction pops from an empty stack, casts an         *)
(* operand, an index, an element or the address of a signer that is of     *)
(* another type, writes a value of another representation through a        *)
(* reference, uses a local that was moved away, indexes outside a struct   *)
(* or runs off the end of its code, along every branch, loop, call and     *)
(* return.  Not claimed is that a container which is moved or taken apart  *)
(* has no reference that counts: the verifier does not see to that, and    *)
(* that failure has a status of its own (see NoFailedCheck).  Two          *)
(* hypotheses are really needed.  Type parameters must not occur, since    *)
(* the vector instructions do not instantiate their element type           *)
(* (interpreter.rs:1088).  The operands of VecPack must have the element   *)
(* type, since type_safety.rs:724 pops them without looking.               *)
THEOREM VerifiedCodePassesTheChecks ==
    ASSUME NoTypeParameters
    PROVE  VerifiedSpec => [](PacksTyped => NoFailedCheck)
<1>1. ExecInv => (PacksTyped => NoFailedCheck)
  BY DEF ExecInv, Executing, RunningOK, Stopped, NoFailedCheck
<1> QED BY <1>1, ExecInvariant, PTL

\* While a program runs, the operand stack is, frame after frame, what the type checker
\* computed; locals and resources have their declared types; and references that are still
\* live lead to values.
RunsAsTyped ==
    status = "run" => /\ ShapeOK(program, callStack, frame, operandStack)
                      /\ GlobalOK(global)
                      /\ RefsOK(callStack, frame, operandStack, global)

(* What the interpreter holds while verified code runs is what the type    *)
(* checker computed for the instruction each frame is at, although it      *)
(* walked every function alone and only once: the part of the operand      *)
(* stack that belongs to a frame has the static types, every local has its *)
(* declared type or no value, every resource in storage has the type it is *)
(* stored under, and a reference that is neither dangling nor stale leads  *)
(* through existing fields and elements to a value of the type it refers   *)
(* to.  The caller's part of the stack is intact when a callee returns.    *)
THEOREM VerifiedCodeRunsAsTyped ==
    ASSUME NoTypeParameters
    PROVE  VerifiedSpec => [](PacksTyped => RunsAsTyped)
<1>1. ExecInv => (PacksTyped => RunsAsTyped)
  BY DEF ExecInv, Executing, RunningOK, RunOK, Stopped, RunsAsTyped
<1> QED BY <1>1, ExecInvariant, PTL

-----------------------------------------------------------------------------
(* The layout of the stack as one sequence.                                *)

\* The types of the lowest n values.
TypesUnder(S, n) == [j \in 1..n |-> S[j].ty]

\* The types of the lowest values of a stack.
LEMMA UnderSeq ==
    ASSUME NEW S, NEW n \in Nat
    PROVE  IsSeq(TypesUnder(S, n)) /\ Len(TypesUnder(S, n)) = n
<1> DEFINE A == {S[j].ty : j \in 1..n}
<1>1. TypesUnder(S, n) \in [1..n -> A]
  BY DEF TypesUnder
<1>2. TypesUnder(S, n) \in Seq(A)
  <2> HIDE DEF A
  <2> QED BY <1>1, SeqDef
<1>3. DOMAIN TypesUnder(S, n) = 1..n
  BY DEF TypesUnder
<1>4. Len(TypesUnder(S, n)) = n
  BY <1>2, <1>3
<1> QED BY <1>2, <1>4 DEF IsSeq

\* A part of the stack with the types in st lies above the lowest b values.
LEMMA UnderGrows ==
    ASSUME NEW S, NEW b \in Nat, NEW st, IsSeq(st), \A j \in 1..Len(st) : S[b + j].ty = st[j]
    PROVE  TypesUnder(S, b + Len(st)) = TypesUnder(S, b) \o st
<1> DEFINE n == Len(st)
           u == TypesUnder(S, b)
           v == TypesUnder(S, b + n)
<1>1. n \in Nat /\ b + n \in Nat
  BY SeqLen
<1>2. IsSeq(u) /\ Len(u) = b /\ IsSeq(v) /\ Len(v) = b + n
  BY <1>1, UnderSeq
<1>3. IsSeq(u \o st) /\ Len(u \o st) = b + n
  BY <1>2, SeqConcat
<1>4. ASSUME NEW k \in 1..(b + n) PROVE v[k] = (u \o st)[k]
  <2>1. v[k] = S[k].ty
    BY DEF TypesUnder
  <2>2. CASE k <= b
    <3>1. k \in 1..b
      BY <1>1, <2>2
    <3>2. u[k] = S[k].ty
      BY <3>1 DEF TypesUnder
    <3> QED BY <1>2, <2>1, <3>1, <3>2, SeqParts
  <2>3. CASE ~(k <= b)
    <3> DEFINE j == k - b
    <3>1. j \in 1..n /\ k = b + j
      BY <1>1, <2>3
    <3> HIDE DEF j
    <3>2. (u \o st)[b + j] = st[j]
      BY <1>2, <3>1, SeqParts
    <3> QED BY <2>1, <3>1, <3>2
  <2> QED BY <2>2, <2>3
<1> QED BY <1>2, <1>3, <1>4, SeqSame

\* What StackAsTyped speaks of are the static stacks of the frames.
LEMMA FrameStack ==
    ASSUME ProgramOK(program), NEW fr, FrameOK(program, fr)
    PROVE  StaticStack(fr) = StackOf(program, fr)
<1> DEFINE f == fr.fn
           c == program[fr.fn]
           R == CHOOSE r : IsWalk(f, c, r)
<1>1. IsUnit(f, c) /\ StackUsageOk(f, c) /\ TypesOk(f, c) /\ fr.pc \in Offsets(c)
  BY FrameFacts DEF Vetted
<1>2. IsWalk(f, c, R)
  <2>1. \E r : IsWalk(f, c, r)
    BY <1>1, WalkExists
  <2> QED BY <2>1, Zenon
<1>3. Static(f, c, fr.pc) = StackAt(R, fr.pc)
  BY DEF Static
<1> HIDE DEF R
<1>4. TypeStacks(f, c).stacks[fr.pc + 1] = StackAt(R, fr.pc)
  BY <1>1, <1>2, WalkEntries
<1> QED BY <1>3, <1>4 DEF StaticStack, StackOf

\* A frame that waits has its own part of the stack.
LEMMA SuspendedPart ==
    ASSUME RunningOK, NEW base, IsLayout(program, callStack, frame, operandStack, base),
           NEW k \in 1..Len(callStack)
    PROVE  /\ base[k] \in Nat /\ base[k + 1] \in Nat
           /\ TypesUnder(operandStack, base[k + 1])
                = TypesUnder(operandStack, base[k]) \o Suspended(callStack[k])
<1> DEFINE fr == callStack[k]
           st == StackOf(program, fr)
           n == NumPops(fr.fn, InstrOf(program, fr))
           part == Suspended(fr)
<1>1. /\ ProgramOK(program) /\ ShapeOK(program, callStack, frame, operandStack)
      /\ Len(callStack) \in Nat
  BY SeqLen DEF RunningOK, RunOK, ShapeOK
<1>2. k \in Depths(callStack) /\ k + 1 \in Depths(callStack) /\ k <= Len(callStack)
  BY <1>1 DEF Depths
<1>3. FrameAt(callStack, frame, k) = fr
  BY <1>2 DEF FrameAt
<1>4. FrameOK(program, fr)
  BY <1>1, <1>2, <1>3 DEF ShapeOK
<1>5. IsSeq(st) /\ Len(st) \in Nat /\ n \in Nat /\ n <= Len(st)
  BY <1>1, <1>4, FrameFacts
<1>6. part = SubSeq(st, 1, Len(st) - n)
  BY <1>1, <1>4, FrameStack DEF Suspended, InstrOf
<1>7. Own(program, callStack, frame, k) = Len(st) - n
  BY <1>2, <1>3 DEF Own
<1>8. /\ base[k] \in Nat /\ base[k + 1] \in Nat /\ base[k + 1] = base[k] + (Len(st) - n)
      /\ \A j \in 1..(Len(st) - n) : HasType(operandStack[base[k] + j], st[j])
  BY <1>2, <1>3, <1>7 DEF IsLayout
<1> HIDE DEF st, n, part
<1> DEFINE m == Len(st) - n
<1>9. m \in Nat /\ m <= Len(st)
  BY <1>5
<1>10. IsSeq(part) /\ Len(part) = m /\ \A j \in 1..m : part[j] = st[j]
  <2>1. part = SubSeq(st, 1, m)
    BY <1>6
  <2> HIDE DEF m
  <2>2. IsSeq(part) /\ Len(part) = m
    BY <1>5, <1>9, <2>1, SeqPrefix
  <2>3. PICK A : st \in Seq(A)
    BY <1>5 DEF IsSeq
  <2>4. \A j \in 1..m : part[j] = st[j]
    BY <1>9, <2>1, <2>3
  <2> QED BY <2>2, <2>4
<1>11. \A j \in 1..m : operandStack[base[k] + j].ty = st[j]
  BY <1>8, HasTypeFacts
<1> HIDE DEF m
<1>12. TypesUnder(operandStack, base[k] + m) = TypesUnder(operandStack, base[k]) \o part
  <2>1. \A j \in 1..Len(part) : operandStack[base[k] + j].ty = part[j]
    BY <1>10, <1>11
  <2>2. base[k] \in Nat
    BY <1>8
  <2>3. TypesUnder(operandStack, base[k] + Len(part)) = TypesUnder(operandStack, base[k]) \o part
    BY <1>10, <2>1, <2>2, UnderGrows
  <2> QED BY <1>10, <2>3
<1> QED BY <1>8, <1>12 DEF m, part

\* The recursion in WaitingStack.
WaitingNext(g, k) == IF k = 0 THEN <<>> ELSE g[k - 1] \o Suspended(callStack[k])

IsWaiting(g) == g = [k \in 0..Len(callStack) |-> WaitingNext(g, k)]

\* The suspended frames have the lowest part of the stack, in their order.
LEMMA WaitingIs ==
    ASSUME RunningOK, NEW base, IsLayout(program, callStack, frame, operandStack, base)
    PROVE  WaitingStack = TypesUnder(operandStack, base[Len(callStack) + 1])
<1> DEFINE n == Len(callStack)
           U(k) == TypesUnder(operandStack, base[k + 1])
           g == [k \in 0..n |-> U(k)]
           T == CHOOSE h : IsWaiting(h)
<1>1. n \in Nat
  BY SeqLen DEF RunningOK, RunOK, ShapeOK
<1>2. U(0) = <<>>
  <2>1. base[0 + 1] = 0
    BY DEF IsLayout
  <2>2. IsSeq(U(0)) /\ Len(U(0)) = 0
    BY <2>1, UnderSeq
  <2> QED BY <2>2, SeqLen
<1>3. \A k \in 1..n : U(k) = U(k - 1) \o Suspended(callStack[k])
  <2> SUFFICES ASSUME NEW k \in 1..n PROVE U(k) = U(k - 1) \o Suspended(callStack[k])
    OBVIOUS
  <2>1. (k - 1) + 1 = k
    OBVIOUS
  <2> QED BY <2>1, SuspendedPart
<1> HIDE DEF U
<1>4. \A k \in 0..n : k # 0 => k \in 1..n /\ k - 1 \in 0..n
  BY <1>1
<1>5. IsWaiting(g)
  <2>1. ASSUME NEW k \in 0..n PROVE U(k) = WaitingNext(g, k)
    <3>1. CASE k = 0
      BY <1>2, <3>1 DEF WaitingNext
    <3>2. CASE k # 0
      <4>1. g[k - 1] = U(k - 1)
        BY <1>4, <3>2
      <4> HIDE DEF g
      <4> QED BY <1>3, <1>4, <3>2, <4>1 DEF WaitingNext
    <3> QED BY <3>1, <3>2
  <2>2. g = [k \in 0..n |-> WaitingNext(g, k)]
    BY <2>1
  <2> HIDE DEF g
  <2> QED BY <2>2 DEF IsWaiting
<1>6. IsWaiting(T)
  <2> HIDE DEF g
  <2> QED BY <1>5, Zenon
<1>7. WaitingStack = T[n]
  BY Zenon DEF WaitingStack, WaitingNext, IsWaiting
<1> HIDE DEF T, g
<1>8. \A k \in 0..n : T[k] = WaitingNext(T, k)
  BY <1>6 DEF IsWaiting
<1> DEFINE Bad == {k \in 0..n : T[k] # U(k)}
<1>9. Bad = {}
  <2> SUFFICES ASSUME Bad # {} PROVE FALSE
    OBVIOUS
  <2>1. PICK k \in Bad : \A m \in Bad : k <= m
    <3> HIDE DEF Bad
    <3> Bad \subseteq Nat BY <1>1 DEF Bad
    <3> QED BY LeastNatural
  <2>2. k \in 0..n /\ T[k] # U(k)
    OBVIOUS
  <2>3. k # 0
    BY <1>2, <1>8, <2>2 DEF WaitingNext
  <2>4. k - 1 \in 0..n /\ k \in 1..n /\ ~(k <= k - 1)
    BY <1>4, <2>2, <2>3
  <2>5. T[k - 1] = U(k - 1)
    BY <2>1, <2>4
  <2>6. T[k] = T[k - 1] \o Suspended(callStack[k])
    BY <1>8, <2>2, <2>3 DEF WaitingNext
  <2> QED BY <1>3, <2>2, <2>4, <2>5, <2>6
<1>10. n \in 0..n
  BY <1>1
<1>11. T[n] = U(n)
  BY <1>9, <1>10
<1> QED BY <1>7, <1>11 DEF U

\* A layout of the stack is what StackAsTyped says of it.
LEMMA LayoutIsStack ==
    ASSUME RunningOK
    PROVE  StackAsTyped
<1> DEFINE m == Len(callStack) + 1
           st == StackOf(program, frame)
<1>1. /\ ProgramOK(program) /\ ShapeOK(program, callStack, frame, operandStack)
      /\ Len(callStack) \in Nat /\ Len(operandStack) \in Nat /\ IsSeq(operandStack)
  BY SeqLen DEF RunningOK, RunOK, ShapeOK
<1>2. PICK base : IsLayout(program, callStack, frame, operandStack, base)
  BY <1>1 DEF ShapeOK
<1>3. m \in Depths(callStack) /\ FrameAt(callStack, frame, m) = frame /\ ~(m <= Len(callStack))
  BY <1>1 DEF Depths, FrameAt
<1>4. FrameOK(program, frame)
  BY <1>1, <1>3 DEF ShapeOK
<1>5. IsSeq(st) /\ Len(st) \in Nat /\ StaticStack(frame) = st
  BY <1>1, <1>4, FrameFacts, FrameStack
<1>6. Own(program, callStack, frame, m) = Len(st)
  <2>1. Own(program, callStack, frame, m) = Len(st) - 0
    BY <1>3 DEF Own
  <2> HIDE DEF st
  <2> QED BY <1>5, <2>1
<1>7. /\ base[m] \in Nat /\ base[m] + Len(st) = Len(operandStack)
      /\ \A j \in 1..Len(st) : HasType(operandStack[base[m] + j], st[j])
  BY <1>2, <1>3, <1>6 DEF IsLayout
<1>8. WaitingStack = TypesUnder(operandStack, base[m])
  BY <1>2, WaitingIs
<1>9. \A l \in Locals(frame.fn) : frame.locals[l] = Invalid \/ frame.locals[l].ty = LocalAt(frame.fn, l)
  BY <1>4, HasTypeFacts DEF FrameOK, LocalsTyped
<1> HIDE DEF m, st
<1>10. \A j \in 1..Len(st) : operandStack[base[m] + j].ty = st[j]
  BY <1>7, HasTypeFacts
<1>11. TypesUnder(operandStack, base[m] + Len(st)) = TypesUnder(operandStack, base[m]) \o st
  BY <1>5, <1>7, <1>10, UnderGrows
<1>12. DOMAIN operandStack = 1..Len(operandStack)
  BY <1>1 DEF IsSeq
<1>13. [k \in DOMAIN operandStack |-> operandStack[k].ty] = TypesUnder(operandStack, Len(operandStack))
  BY <1>12 DEF TypesUnder
<1>14. [k \in DOMAIN operandStack |-> operandStack[k].ty] = WaitingStack \o StaticStack(frame)
  BY <1>5, <1>7, <1>8, <1>11, <1>13
<1> QED BY <1>9, <1>14 DEF StackAsTyped

(* The whole operand stack of a running program, seen as one sequence, has *)
(* the types that the type checker computed for each function alone: what  *)
(* the frames that wait had under the arguments of their calls, from the   *)
(* bottom up, then the static stack of the current instruction, and        *)
(* nothing else.  No callee leaves anything behind or takes anything of    *)
(* its caller, through calls, returns and loops of any length.             *)
THEOREM VerifiedCodeKeepsTheStack ==
    ASSUME NoTypeParameters
    PROVE  VerifiedSpec => [](PacksTyped => StackAsTyped)
<1>1. ExecInv => (PacksTyped => StackAsTyped)
  BY LayoutIsStack DEF ExecInv, Executing, Stopped, StackAsTyped
<1> QED BY <1>1, ExecInvariant, PTL
=============================================================================
