------------------------- MODULE ControlFlowProofs -------------------------
(***************************************************************************)
(* Proofs about the control flow pass, for code units of any length over   *)
(* any instructions.  The stack of open loops that check_code keeps is the *)
(* list of the loops around the instruction, the innermost on top, as long *)
(* as every continue was to the loop on top; the depth that is counted is  *)
(* the number of those loops.                                              *)
(***************************************************************************)
EXTENDS ControlFlow, SumTheorems, SequenceTheorems

\* A code unit that passed the bounds checker.
Checked(c) == c \in Seq(Alphabet) /\ InBounds(c)

\* The loops around an instruction, and those of them that began before it.
Around(c, pc) == {h \in LoopHeads(c) : h <= pc /\ pc <= LastContinue(c, h)}
Inherited(c, pc) == {h \in LoopHeads(c) : h < pc /\ pc <= LastContinue(c, h)}

\* s lists the loops with their heads in X, outer loops first.
Lists(c, s, X) ==
    /\ s \in Seq(Nat \X Nat)
    /\ \A k \in 1..Len(s) : s[k][1] \in X /\ s[k][2] = LastContinue(c, s[k][1])
    /\ \A j, k \in 1..Len(s) : j < k => s[j][1] < s[k][1]
    /\ \A h \in X : \E k \in 1..Len(s) : s[k][1] = h

\* One step of the walk of check_code, and of the count of count_loop_depth.
OpenNext(c, open, pc) ==
    LET before == IF pc = 0 THEN <<>> ELSE open[pc - 1]
        prev == IF pc > 0 /\ Closes(c, pc - 1, before)
                THEN SubSeq(before, 1, Len(before) - 1) ELSE before
    IN  IF pc \in LoopHeads(c) THEN Append(prev, <<pc, LastContinue(c, pc)>>) ELSE prev

DepthNext(c, depth, pc) ==
    (IF pc = 0 THEN 0
     ELSE depth[pc - 1] - (IF pc - 1 \in {LastContinue(c, h) : h \in LoopHeads(c)} THEN 1 ELSE 0))
    + (IF pc \in LoopHeads(c) THEN 1 ELSE 0)

-----------------------------------------------------------------------------
(* The recursive definitions are the step, everywhere.                     *)

LEMMA CodeLength ==
    ASSUME NEW c \in Seq(Alphabet)
    PROVE  /\ Len(c) \in Nat /\ Offsets(c) \subseteq Nat /\ Offsets(c) = 0..(Len(c) - 1)
           /\ \A pc \in Offsets(c) : pc # 0 => pc - 1 \in Offsets(c)
           /\ \A pc \in Offsets(c) : At(c, pc) \in Alphabet
<1>1. Len(c) \in Nat
  OBVIOUS
<1>2. Offsets(c) \subseteq Nat /\ Offsets(c) = 0..(Len(c) - 1)
  BY <1>1 DEF Offsets
<1>3. \A pc \in Offsets(c) : pc # 0 => pc - 1 \in Offsets(c)
  BY <1>1 DEF Offsets
<1>4. ASSUME NEW pc \in Offsets(c) PROVE At(c, pc) \in Alphabet
  <2>1. pc + 1 \in 1..Len(c)
    BY <1>1 DEF Offsets
  <2> QED BY <2>1, ElementOfSeq DEF At
<1> QED BY <1>1, <1>2, <1>3, <1>4

LEMMA OpenTableExists ==
    ASSUME NEW c \in Seq(Alphabet)
    PROVE  \E g : g = [pc \in Offsets(c) |-> OpenNext(c, g, pc)]
<1> DEFINE Good(n) == \E g : \A pc \in Offsets(c) : pc < n => g[pc] = OpenNext(c, g, pc)
           Bad == {n \in Nat : ~Good(n)}
<1>1. Bad = {}
  <2> SUFFICES ASSUME Bad # {} PROVE FALSE
    OBVIOUS
  <2>1. PICK n \in Bad : \A m \in Bad : n <= m
    <3> HIDE DEF Bad
    <3> Bad \subseteq Nat BY DEF Bad
    <3> QED BY LeastNatural
  <2>2. n # 0
    <3>1. \A pc \in Offsets(c) : ~(pc < 0)
      BY CodeLength
    <3> QED BY <3>1
  <2>3. n - 1 \in Nat /\ n \in Nat
    BY <2>2
  <2>4. Good(n - 1)
    <3>1. n - 1 \notin Bad
      <4> HIDE DEF Bad
      <4> QED BY <2>1, <2>3
    <3> QED BY <2>3, <3>1
  <2>5. PICK g : \A pc \in Offsets(c) : pc < n - 1 => g[pc] = OpenNext(c, g, pc)
    BY <2>4
  <2> DEFINE h == [pc \in Offsets(c) |-> OpenNext(c, g, pc)]
  <2>6. ASSUME NEW pc \in Offsets(c), pc < n PROVE h[pc] = OpenNext(c, h, pc)
    <3>1. CASE pc = 0
      BY <3>1 DEF OpenNext
    <3>2. CASE pc # 0
      <4>1. pc - 1 \in Offsets(c) /\ pc - 1 < n - 1
        BY <2>3, <2>6, <3>2, CodeLength
      <4>2. h[pc - 1] = g[pc - 1]
        BY <2>5, <4>1
      <4> QED BY <3>2, <4>2 DEF OpenNext
    <3> QED BY <3>1, <3>2
  <2> HIDE DEF h
  <2>7. Good(n)
    BY <2>6
  <2> QED BY <2>7
<1>2. Len(c) \in Nat /\ \A pc \in Offsets(c) : pc < Len(c)
  BY CodeLength
<1>3. Good(Len(c))
  BY <1>1, <1>2
<1>4. PICK g : \A pc \in Offsets(c) : g[pc] = OpenNext(c, g, pc)
  BY <1>2, <1>3
<1> DEFINE h == [pc \in Offsets(c) |-> OpenNext(c, g, pc)]
<1>5. \A pc \in Offsets(c) : OpenNext(c, h, pc) = OpenNext(c, g, pc)
  <2> SUFFICES ASSUME NEW pc \in Offsets(c) PROVE OpenNext(c, h, pc) = OpenNext(c, g, pc)
    OBVIOUS
  <2>1. pc # 0 => h[pc - 1] = g[pc - 1]
    BY <1>4, CodeLength
  <2> HIDE DEF h
  <2> QED BY <2>1 DEF OpenNext
<1>6. h = [pc \in Offsets(c) |-> OpenNext(c, h, pc)]
  BY <1>5
<1> QED BY <1>6

LEMMA OpenUnfolds ==
    ASSUME NEW c \in Seq(Alphabet)
    PROVE  \A pc \in Offsets(c) : OpenLoops(c)[pc] = OpenNext(c, OpenLoops(c), pc)
<1> DEFINE T == CHOOSE g : g = [pc \in Offsets(c) |-> OpenNext(c, g, pc)]
<1>1. T = [pc \in Offsets(c) |-> OpenNext(c, T, pc)]
  BY OpenTableExists
<1>2. OpenLoops(c) = T
  BY DEF OpenLoops, OpenNext
<1> HIDE DEF T
<1>3. \A pc \in Offsets(c) : T[pc] = OpenNext(c, T, pc)
  BY <1>1
<1> QED BY <1>2, <1>3

LEMMA DepthTableExists ==
    ASSUME NEW c \in Seq(Alphabet)
    PROVE  \E g : g = [pc \in Offsets(c) |-> DepthNext(c, g, pc)]
<1> DEFINE Good(n) == \E g : \A pc \in Offsets(c) : pc < n => g[pc] = DepthNext(c, g, pc)
           Bad == {n \in Nat : ~Good(n)}
<1>1. Bad = {}
  <2> SUFFICES ASSUME Bad # {} PROVE FALSE
    OBVIOUS
  <2>1. PICK n \in Bad : \A m \in Bad : n <= m
    <3> HIDE DEF Bad
    <3> Bad \subseteq Nat BY DEF Bad
    <3> QED BY LeastNatural
  <2>2. n # 0
    <3>1. \A pc \in Offsets(c) : ~(pc < 0)
      BY CodeLength
    <3> QED BY <3>1
  <2>3. n - 1 \in Nat /\ n \in Nat
    BY <2>2
  <2>4. Good(n - 1)
    <3>1. n - 1 \notin Bad
      <4> HIDE DEF Bad
      <4> QED BY <2>1, <2>3
    <3> QED BY <2>3, <3>1
  <2>5. PICK g : \A pc \in Offsets(c) : pc < n - 1 => g[pc] = DepthNext(c, g, pc)
    BY <2>4
  <2> DEFINE h == [pc \in Offsets(c) |-> DepthNext(c, g, pc)]
  <2>6. ASSUME NEW pc \in Offsets(c), pc < n PROVE h[pc] = DepthNext(c, h, pc)
    <3>1. CASE pc = 0
      BY <3>1 DEF DepthNext
    <3>2. CASE pc # 0
      <4>1. pc - 1 \in Offsets(c) /\ pc - 1 < n - 1
        BY <2>3, <2>6, <3>2, CodeLength
      <4>2. h[pc - 1] = g[pc - 1]
        BY <2>5, <4>1
      <4> QED BY <3>2, <4>2 DEF DepthNext
    <3> QED BY <3>1, <3>2
  <2> HIDE DEF h
  <2>7. Good(n)
    BY <2>6
  <2> QED BY <2>7
<1>2. Len(c) \in Nat /\ \A pc \in Offsets(c) : pc < Len(c)
  BY CodeLength
<1>3. Good(Len(c))
  BY <1>1, <1>2
<1>4. PICK g : \A pc \in Offsets(c) : g[pc] = DepthNext(c, g, pc)
  BY <1>2, <1>3
<1> DEFINE h == [pc \in Offsets(c) |-> DepthNext(c, g, pc)]
<1>5. \A pc \in Offsets(c) : DepthNext(c, h, pc) = DepthNext(c, g, pc)
  <2> SUFFICES ASSUME NEW pc \in Offsets(c) PROVE DepthNext(c, h, pc) = DepthNext(c, g, pc)
    OBVIOUS
  <2>1. pc # 0 => h[pc - 1] = g[pc - 1]
    BY <1>4, CodeLength
  <2> HIDE DEF h
  <2> QED BY <2>1 DEF DepthNext
<1>6. h = [pc \in Offsets(c) |-> DepthNext(c, h, pc)]
  BY <1>5
<1> QED BY <1>6

LEMMA DepthUnfolds ==
    ASSUME NEW c \in Seq(Alphabet)
    PROVE  \A pc \in Offsets(c) : LoopDepth(c)[pc] = DepthNext(c, LoopDepth(c), pc)
<1> DEFINE T == CHOOSE g : g = [pc \in Offsets(c) |-> DepthNext(c, g, pc)]
<1>1. T = [pc \in Offsets(c) |-> DepthNext(c, T, pc)]
  BY DepthTableExists
<1>2. LoopDepth(c) = T
  BY DEF LoopDepth, DepthNext
<1> HIDE DEF T
<1>3. \A pc \in Offsets(c) : T[pc] = DepthNext(c, T, pc)
  BY <1>1
<1> QED BY <1>2, <1>3

-----------------------------------------------------------------------------
(* Heads and last continues.                                               *)

LEMMA JumpsInside ==
    ASSUME NEW c, Checked(c), NEW pc \in Offsets(c), HasOffset(At(c, pc))
    PROVE  At(c, pc).a \in Nat /\ At(c, pc).a \in Offsets(c)
<1>1. c \in Seq(Alphabet) /\ At(c, pc) \in Alphabet /\ Len(c) \in Nat
  BY CodeLength DEF Checked
<1>2. At(c, pc).a \in Nat
  BY <1>1, OffsetsAssumption
<1>3. At(c, pc).a < Len(c)
  BY DEF Checked, InBounds
<1> QED BY <1>1, <1>2, <1>3 DEF Offsets

LEMMA HeadFacts ==
    ASSUME NEW c, Checked(c), NEW h \in LoopHeads(c)
    PROVE  LET l == LastContinue(c, h) IN
           /\ h \in Nat /\ h \in Offsets(c) /\ l \in Nat /\ l \in Offsets(c) /\ h <= l
           /\ BackJump(c, l) /\ At(c, l).a = h
           /\ \A q \in Continues(c, h) : q <= l
<1> DEFINE l == LastContinue(c, h)
           S == Continues(c, h)
<1>1. c \in Seq(Alphabet) /\ Len(c) \in Nat /\ Offsets(c) \subseteq Nat /\ Offsets(c) = 0..(Len(c) - 1)
  BY CodeLength DEF Checked
<1>2. h \in Offsets(c) /\ S # {} /\ S \subseteq Offsets(c)
  BY DEF LoopHeads, Continues
<1>3. Len(c) - 1 \in Nat
  BY <1>1, <1>2
<1>4. \E x \in S : \A y \in S : y <= x
  <2> HIDE DEF S
  <2> QED BY <1>1, <1>2, <1>3, GreatestNatural
<1>5. l \in S /\ \A q \in S : q <= l
  BY <1>4 DEF LastContinue
<1>6. l \in Offsets(c) /\ BackJump(c, l) /\ At(c, l).a = h
  BY <1>5 DEF Continues
<1>7. h <= l
  BY <1>6 DEF BackJump
<1> HIDE DEF l
<1> QED BY <1>1, <1>2, <1>5, <1>6, <1>7 DEF l

\* A back jump makes its target a head, and is around it.
LEMMA BackJumpAround ==
    ASSUME NEW c, Checked(c), NEW pc \in Offsets(c), BackJump(c, pc)
    PROVE  LET h == At(c, pc).a IN
           /\ h \in LoopHeads(c) /\ pc \in Continues(c, h) /\ h \in Around(c, pc)
<1> DEFINE h == At(c, pc).a
<1>1. h \in Offsets(c) /\ h <= pc
  BY JumpsInside DEF BackJump
<1>2. pc \in Continues(c, h)
  BY DEF Continues
<1>3. h \in LoopHeads(c)
  BY <1>1, <1>2 DEF LoopHeads
<1>4. pc <= LastContinue(c, h)
  BY <1>2, <1>3, HeadFacts
<1> QED BY <1>1, <1>2, <1>3, <1>4 DEF Around

\* An instruction is the last continue of one loop only.
LEMMA EndsDiffer ==
    ASSUME NEW c, Checked(c), NEW h \in LoopHeads(c), NEW g \in LoopHeads(c),
           LastContinue(c, h) = LastContinue(c, g)
    PROVE  h = g
<1>1. At(c, LastContinue(c, h)).a = h /\ At(c, LastContinue(c, g)).a = g
  BY HeadFacts
<1> QED BY <1>1

-----------------------------------------------------------------------------
(* Lists of loops.                                                         *)

LEMMA ListsEmpty == ASSUME NEW c PROVE Lists(c, <<>>, {})
<1>1. Len(<<>>) = 0 /\ <<>> \in Seq(Nat \X Nat)
  OBVIOUS
<1> QED BY <1>1 DEF Lists

LEMMA ListsPush ==
    ASSUME NEW c, NEW s, NEW X \in SUBSET Nat, Lists(c, s, X), NEW p \in Nat, LastContinue(c, p) \in Nat,
           \A x \in X : x < p
    PROVE  Lists(c, Append(s, <<p, LastContinue(c, p)>>), X \cup {p})
<1> DEFINE e == <<p, LastContinue(c, p)>>
           t == Append(s, e)
           n == Len(s)
<1>1. e \in Nat \X Nat /\ e[1] = p /\ e[2] = LastContinue(c, p)
  OBVIOUS
<1>2. /\ s \in Seq(Nat \X Nat) /\ n \in Nat
      /\ \A k \in 1..n : s[k][1] \in X /\ s[k][2] = LastContinue(c, s[k][1])
      /\ \A j, k \in 1..n : j < k => s[j][1] < s[k][1]
      /\ \A h \in X : \E k \in 1..n : s[k][1] = h
  BY DEF Lists
<1> HIDE DEF e
<1>3. /\ t \in Seq(Nat \X Nat) /\ Len(t) = n + 1 /\ t[n + 1] = e
      /\ \A k \in 1..n : t[k] = s[k]
  BY <1>1, <1>2, AppendProperties
<1> HIDE DEF t, n
<1>4. \A k \in 1..(n + 1) : k \in 1..n \/ k = n + 1
  BY <1>2
<1>5. n + 1 \in 1..(n + 1) /\ \A k \in 1..n : k \in 1..(n + 1) /\ ~(n + 1 < k) /\ ~(n + 1 < n + 1)
  BY <1>2
<1>6. \A k \in 1..(n + 1) : t[k][1] \in X \cup {p} /\ t[k][2] = LastContinue(c, t[k][1])
  BY <1>1, <1>2, <1>3, <1>4
<1>7. ASSUME NEW j \in 1..(n + 1), NEW k \in 1..(n + 1), j < k PROVE t[j][1] < t[k][1]
  <2>1. CASE k \in 1..n
    BY <1>2, <1>3, <1>4, <1>5, <1>7, <2>1
  <2>2. CASE k = n + 1
    <3>1. j \in 1..n
      BY <1>2, <1>7, <2>2
    <3> QED BY <1>1, <1>2, <1>3, <2>2, <3>1
  <2> QED BY <1>4, <2>1, <2>2
<1>8. \A h \in X \cup {p} : \E k \in 1..(n + 1) : t[k][1] = h
  BY <1>1, <1>2, <1>3, <1>5
<1> QED BY <1>3, <1>6, <1>7, <1>8 DEF Lists, t, e

\* The loop on top is the innermost one; without it, the others are listed.
LEMMA ListsTop ==
    ASSUME NEW c, NEW s, NEW X \in SUBSET Nat, Lists(c, s, X), s # <<>>
    PROVE  /\ Top(s)[1] \in X /\ EndOf(Top(s)) = LastContinue(c, Top(s)[1])
           /\ \A x \in X : x <= Top(s)[1]
           /\ Lists(c, SubSeq(s, 1, Len(s) - 1), X \ {Top(s)[1]})
<1> DEFINE n == Len(s)
           t == SubSeq(s, 1, n - 1)
           p == s[n][1]
<1>1. /\ s \in Seq(Nat \X Nat) /\ n \in Nat
      /\ \A k \in 1..n : s[k][1] \in X /\ s[k][2] = LastContinue(c, s[k][1])
      /\ \A j, k \in 1..n : j < k => s[j][1] < s[k][1]
      /\ \A h \in X : \E k \in 1..n : s[k][1] = h
  BY DEF Lists
<1>2. n \in 1..n /\ n >= 1
  BY <1>1, EmptySeq
<1>3. p \in X /\ s[n][2] = LastContinue(c, p) /\ p \in Nat
  BY <1>1, <1>2
<1>4. ASSUME NEW x \in X PROVE x <= p
  <2>1. PICK k \in 1..n : s[k][1] = x
    BY <1>1
  <2>2. x \in Nat
    OBVIOUS
  <2>3. k = n \/ k < n
    BY <1>1
  <2>4. CASE k = n
    BY <1>3, <2>1, <2>4
  <2>5. CASE k < n
    <3>1. s[k][1] < s[n][1]
      BY <1>1, <1>2, <2>5
    <3> HIDE DEF n
    <3> QED BY <1>3, <2>1, <2>2, <3>1
  <2> QED BY <2>3, <2>4, <2>5
<1>5. /\ t \in Seq(Nat \X Nat) /\ Len(t) = n - 1 /\ \A k \in 1..(n - 1) : t[k] = s[k]
  <2> DEFINE m == n - 1
  <2>1. m \in Nat /\ m \in Int /\ \A i \in 1..m : s[i] \in Nat \X Nat
    BY <1>1, <1>2, ElementOfSeq
  <2> HIDE DEF m
  <2>2. /\ SubSeq(s, 1, m) \in Seq(Nat \X Nat)
        /\ Len(SubSeq(s, 1, m)) = IF 1 <= m THEN m - 1 + 1 ELSE 0
        /\ \A i \in 1..(m - 1 + 1) : SubSeq(s, 1, m)[i] = s[1 + i - 1]
    BY <1>1, <2>1, SubSeqProperties
  <2>3. Len(SubSeq(s, 1, m)) = m
    BY <2>1, <2>2
  <2>4. ASSUME NEW i \in 1..m PROVE SubSeq(s, 1, m)[i] = s[i]
    <3>1. i \in 1..(m - 1 + 1) /\ 1 + i - 1 = i
      BY <2>1
    <3> QED BY <2>2, <3>1
  <2> QED BY <2>2, <2>3, <2>4 DEF m
<1> HIDE DEF t, p, n
<1>6. \A k \in 1..(n - 1) : k \in 1..n /\ k < n
  BY <1>1
<1>7. \A k \in 1..(n - 1) : s[k][1] \in X /\ s[k][1] # p
  <2> SUFFICES ASSUME NEW k \in 1..(n - 1) PROVE s[k][1] \in X /\ s[k][1] # p
    OBVIOUS
  <2>1. s[k][1] \in X /\ s[k][1] < s[n][1]
    BY <1>1, <1>2, <1>6
  <2>2. s[k][1] \in Nat
    BY <2>1
  <2> QED BY <1>3, <2>1, <2>2 DEF p
<1>8. \A h \in X \ {p} : \E k \in 1..(n - 1) : s[k][1] = h
  <2> SUFFICES ASSUME NEW h \in X \ {p} PROVE \E k \in 1..(n - 1) : s[k][1] = h
    OBVIOUS
  <2>1. PICK k \in 1..n : s[k][1] = h
    BY <1>1
  <2>2. k # n
    BY <2>1 DEF p
  <2>3. k \in 1..(n - 1)
    BY <1>1, <2>2
  <2> QED BY <2>1, <2>3
<1>9. Lists(c, t, X \ {p})
  <2>1. \A k \in 1..(n - 1) : t[k][1] \in X \ {p} /\ t[k][2] = LastContinue(c, t[k][1])
    BY <1>1, <1>5, <1>6, <1>7
  <2>2. \A j, k \in 1..(n - 1) : j < k => t[j][1] < t[k][1]
    BY <1>1, <1>5, <1>6
  <2>3. \A h \in X \ {p} : \E k \in 1..(n - 1) : t[k][1] = h
    BY <1>5, <1>8
  <2> QED BY <1>5, <2>1, <2>2, <2>3 DEF Lists
<1> QED BY <1>3, <1>4, <1>9 DEF t, p, n, Top, EndOf

LEMMA ListsSome == ASSUME NEW c, NEW s, NEW X, Lists(c, s, X), X # {} PROVE s # <<>>
<1>1. \A h \in X : \E k \in 1..Len(s) : s[k][1] = h
  BY DEF Lists
<1>2. Len(<<>>) = 0 /\ 1..0 = {}
  OBVIOUS
<1> QED BY <1>1, <1>2

-----------------------------------------------------------------------------
(* The walk.                                                               *)

\* After the instruction before pc the loops that go on are still listed: the one that
\* ended there was on top, or its last continue was to another loop.
LEMMA StillOpen ==
    ASSUME NEW c, Checked(c), NEW pc \in Offsets(c), pc # 0, NEW s,
           Lists(c, s, Around(c, pc - 1)),
           BackJump(c, pc - 1) => s # <<>> /\ At(c, pc - 1).a = Top(s)[1]
    PROVE  Lists(c, IF Closes(c, pc - 1, s) THEN SubSeq(s, 1, Len(s) - 1) ELSE s, Inherited(c, pc))
<1> DEFINE q == pc - 1
           X == Around(c, q)
           t == SubSeq(s, 1, Len(s) - 1)
<1>1. pc \in Nat /\ q \in Nat /\ q \in Offsets(c) /\ \A x \in Nat : (x < pc <=> x <= q)
  BY CodeLength DEF Checked
<1>2. \A h \in LoopHeads(c) : h \in Nat /\ LastContinue(c, h) \in Nat
  BY HeadFacts
<1>3. X \in SUBSET Nat /\ X \subseteq LoopHeads(c)
  BY <1>2 DEF Around
<1>4. Inherited(c, pc) = {h \in X : LastContinue(c, h) # q}
  <2>1. \A h \in LoopHeads(c) : (pc <= LastContinue(c, h) <=> q <= LastContinue(c, h) /\ LastContinue(c, h) # q)
    BY <1>1, <1>2
  <2> HIDE DEF q
  <2> QED BY <1>1, <1>2, <2>1 DEF Inherited, Around
<1> HIDE DEF q, X
<1>5. Lists(c, s, X) /\ (BackJump(c, q) => s # <<>> /\ At(c, q).a = Top(s)[1])
  BY DEF q, X
<1>6. CASE Closes(c, q, s)
  <2>1. BackJump(c, q) /\ s # <<>> /\ q = EndOf(Top(s))
    BY <1>6 DEF Closes
  <2>2. /\ Top(s)[1] \in X /\ q = LastContinue(c, Top(s)[1])
        /\ Lists(c, t, X \ {Top(s)[1]})
    BY <1>3, <1>5, <2>1, ListsTop
  <2>3. \A h \in X : LastContinue(c, h) = q => h = Top(s)[1]
    BY <1>3, <2>2, EndsDiffer
  <2>4. X \ {Top(s)[1]} = Inherited(c, pc)
    BY <1>4, <2>2, <2>3
  <2> QED BY <1>6, <2>2, <2>4 DEF q
<1>7. CASE ~Closes(c, q, s)
  <2>1. ASSUME NEW h \in X, LastContinue(c, h) = q PROVE FALSE
    <3>1. BackJump(c, q) /\ At(c, q).a = h
      BY <1>3, <2>1, HeadFacts
    <3>2. s # <<>> /\ Top(s)[1] = h
      BY <1>5, <3>1
    <3>3. EndOf(Top(s)) = q
      BY <1>3, <1>5, <2>1, <3>2, ListsTop
    <3> QED BY <1>7, <3>1, <3>2, <3>3 DEF Closes
  <2>2. X = Inherited(c, pc)
    BY <1>4, <2>1
  <2> QED BY <1>5, <1>7, <2>2 DEF q
<1> QED BY <1>6, <1>7

\* As long as the continues were right, the stack lists the loops around the instruction.
LEMMA OpenIsAround ==
    ASSUME NEW c, Checked(c), NEW N \in Offsets(c),
           \A q \in Offsets(c) : q < N => ContinueOk(c, OpenLoops(c), q)
    PROVE  Lists(c, OpenLoops(c)[N], Around(c, N))
<1> DEFINE open == OpenLoops(c)
           Bad == {n \in Offsets(c) : n <= N /\ ~Lists(c, open[n], Around(c, n))}
<1>1. c \in Seq(Alphabet) /\ Offsets(c) \subseteq Nat /\ \A pc \in Offsets(c) : pc # 0 => pc - 1 \in Offsets(c)
  BY CodeLength DEF Checked
<1>2. \A pc \in Offsets(c) : open[pc] = OpenNext(c, open, pc)
  BY <1>1, OpenUnfolds
<1>3. \A q \in Offsets(c) : q < N => ContinueOk(c, open, q)
  OBVIOUS
<1> HIDE DEF open
<1> SUFFICES ASSUME Bad # {} PROVE FALSE
  <2>1. N <= N
    BY <1>1
  <2> QED BY <2>1 DEF open
<1>4. PICK n \in Bad : \A m \in Bad : n <= m
  <2>1. Bad \in SUBSET Nat
    BY <1>1
  <2> HIDE DEF Bad
  <2> QED BY <2>1, LeastNatural
<1>5. n \in Offsets(c) /\ n \in Nat /\ n <= N /\ N \in Nat /\ ~Lists(c, open[n], Around(c, n))
  BY <1>1
<1> DEFINE before == IF n = 0 THEN <<>> ELSE open[n - 1]
           prev == IF n > 0 /\ Closes(c, n - 1, before)
                   THEN SubSeq(before, 1, Len(before) - 1) ELSE before
<1>6. \A h \in LoopHeads(c) : h \in Nat /\ LastContinue(c, h) \in Nat /\ h <= LastContinue(c, h)
  BY HeadFacts
<1>7. Lists(c, prev, Inherited(c, n))
  <2>1. CASE n = 0
    <3>1. prev = <<>>
      BY <2>1
    <3>2. Inherited(c, n) = {}
      BY <1>6, <2>1 DEF Inherited
    <3> QED BY <3>1, <3>2, ListsEmpty
  <2>2. CASE n # 0
    <3> DEFINE q == n - 1
    <3>1. q \in Offsets(c) /\ q \in Nat /\ q < n /\ q <= N /\ q < N /\ n > 0
      BY <1>1, <1>5, <2>2
    <3>2. q \notin Bad
      <4>1. ~(n <= q)
        BY <1>5, <3>1
      <4> HIDE DEF Bad
      <4> QED BY <1>4, <4>1
    <3>3. Lists(c, open[q], Around(c, q))
      BY <3>1, <3>2
    <3>4. BackJump(c, q) => open[q] # <<>> /\ At(c, q).a = Top(open[q])[1]
      BY <1>3, <3>1 DEF ContinueOk
    <3>5. Lists(c, IF Closes(c, n - 1, open[n - 1]) THEN SubSeq(open[n - 1], 1, Len(open[n - 1]) - 1)
                   ELSE open[n - 1], Inherited(c, n))
      BY <1>5, <2>2, <3>3, <3>4, StillOpen
    <3>6. prev = IF Closes(c, n - 1, open[n - 1]) THEN SubSeq(open[n - 1], 1, Len(open[n - 1]) - 1)
                 ELSE open[n - 1]
      BY <2>2, <3>1
    <3> QED BY <3>5, <3>6
  <2> QED BY <2>1, <2>2
<1>8. open[n] = IF n \in LoopHeads(c) THEN Append(prev, <<n, LastContinue(c, n)>>) ELSE prev
  BY <1>2, <1>5 DEF OpenNext
<1> HIDE DEF prev, before, Bad
<1>9. CASE n \in LoopHeads(c)
  <2>1. Around(c, n) = Inherited(c, n) \cup {n}
    <3>1. \A h \in LoopHeads(c) : h <= n <=> h < n \/ h = n
      BY <1>5, <1>6
    <3> QED BY <1>6, <1>9, <3>1 DEF Around, Inherited
  <2>2. Inherited(c, n) \in SUBSET Nat /\ \A x \in Inherited(c, n) : x < n
    BY <1>6 DEF Inherited
  <2>3. Lists(c, Append(prev, <<n, LastContinue(c, n)>>), Inherited(c, n) \cup {n})
    BY <1>5, <1>6, <1>7, <1>9, <2>2, ListsPush
  <2> QED BY <1>5, <1>8, <1>9, <2>1, <2>3
<1>10. CASE n \notin LoopHeads(c)
  <2>1. Around(c, n) = Inherited(c, n)
    <3>1. \A h \in LoopHeads(c) : h <= n <=> h < n
      BY <1>5, <1>6, <1>10
    <3> QED BY <3>1 DEF Around, Inherited
  <2> QED BY <1>5, <1>7, <1>8, <1>10, <2>1
<1> QED BY <1>9, <1>10

\* The depth counts the loops around the instruction.
LEMMA DepthIsCount ==
    ASSUME NEW c, Checked(c), NEW N \in Offsets(c)
    PROVE  IsFiniteSet(Around(c, N)) /\ LoopDepth(c)[N] = Cardinality(Around(c, N))
<1> DEFINE depth == LoopDepth(c)
           Bad == {n \in Offsets(c) : ~(IsFiniteSet(Around(c, n)) /\ depth[n] = Cardinality(Around(c, n)))}
<1>1. c \in Seq(Alphabet) /\ Offsets(c) \subseteq Nat /\ \A pc \in Offsets(c) : pc # 0 => pc - 1 \in Offsets(c)
  BY CodeLength DEF Checked
<1>2. \A pc \in Offsets(c) : depth[pc] = DepthNext(c, depth, pc)
  BY <1>1, DepthUnfolds
<1> HIDE DEF depth
<1> SUFFICES ASSUME Bad # {} PROVE FALSE
  BY DEF depth
<1>3. PICK n \in Bad : \A m \in Bad : n <= m
  <2>1. Bad \in SUBSET Nat
    BY <1>1
  <2> HIDE DEF Bad
  <2> QED BY <2>1, LeastNatural
<1>4. /\ n \in Offsets(c) /\ n \in Nat
      /\ ~(IsFiniteSet(Around(c, n)) /\ depth[n] = Cardinality(Around(c, n)))
  BY <1>1
<1>5. \A h \in LoopHeads(c) : h \in Nat /\ LastContinue(c, h) \in Nat /\ h <= LastContinue(c, h)
  BY HeadFacts
<1> DEFINE lasts == {LastContinue(c, h) : h \in LoopHeads(c)}
           kept == IF n = 0 THEN 0 ELSE depth[n - 1] - (IF n - 1 \in lasts THEN 1 ELSE 0)
           I == Inherited(c, n)
<1>6. IsFiniteSet(I) /\ kept = Cardinality(I) /\ kept \in Nat
  <2>1. CASE n = 0
    <3>1. I = {}
      BY <1>5, <2>1 DEF Inherited
    <3> QED BY <2>1, <3>1, FS_EmptySet
  <2>2. CASE n # 0
    <3> DEFINE q == n - 1
               X == Around(c, q)
    <3>1. q \in Offsets(c) /\ q \in Nat /\ q < n /\ \A x \in Nat : x < n <=> x <= q
      BY <1>1, <1>4, <2>2
    <3>2. q \notin Bad
      <4>1. ~(n <= q)
        BY <1>4, <3>1
      <4> HIDE DEF Bad
      <4> QED BY <1>3, <4>1
    <3>3. IsFiniteSet(X) /\ depth[q] = Cardinality(X)
      BY <3>1, <3>2
    <3>4. I = {h \in X : LastContinue(c, h) # q}
      <4>1. \A h \in LoopHeads(c) : (n <= LastContinue(c, h) <=> q <= LastContinue(c, h) /\ LastContinue(c, h) # q)
        BY <1>4, <1>5, <3>1
      <4> HIDE DEF q
      <4> QED BY <1>5, <3>1, <4>1 DEF Inherited, Around
    <3>5. kept = depth[q] - (IF q \in lasts THEN 1 ELSE 0)
      BY <2>2
    <3>6. \A h \in LoopHeads(c) : LastContinue(c, h) = q => h \in X
      <4>1. \A h \in LoopHeads(c) : LastContinue(c, h) = q => h <= q /\ q <= LastContinue(c, h)
        BY <1>5, <3>1
      <4> QED BY <4>1 DEF Around
    <3>7. X \subseteq LoopHeads(c)
      BY DEF Around
    <3> HIDE DEF X, q, kept, I
    <3>8. CASE q \in lasts
      <4>1. PICK g \in LoopHeads(c) : LastContinue(c, g) = q
        BY <3>8
      <4>2. g \in X /\ \A h \in X : LastContinue(c, h) = q => h = g
        BY <3>6, <3>7, <4>1, EndsDiffer
      <4>3. I = X \ {g}
        BY <3>4, <4>1, <4>2
      <4>4. IsFiniteSet(X \ {g}) /\ Cardinality(X \ {g}) = Cardinality(X) - 1
        BY <3>3, <4>2, FS_RemoveElement
      <4>5. Cardinality(X \ {g}) \in Nat
        BY <4>4, FS_CardinalityType
      <4> QED BY <3>3, <3>5, <3>8, <4>3, <4>4, <4>5
    <3>9. CASE q \notin lasts
      <4>1. I = X
        BY <3>4, <3>7, <3>9
      <4>2. Cardinality(X) \in Nat
        BY <3>3, FS_CardinalityType
      <4> QED BY <3>3, <3>5, <3>9, <4>1, <4>2
    <3> QED BY <3>8, <3>9
  <2> QED BY <2>1, <2>2
<1>7. depth[n] = kept + (IF n \in LoopHeads(c) THEN 1 ELSE 0)
  BY <1>2, <1>4 DEF DepthNext
<1> HIDE DEF kept, lasts, Bad, I
<1>8. CASE n \in LoopHeads(c)
  <2>1. Around(c, n) = I \cup {n} /\ n \notin I
    <3>1. \A h \in LoopHeads(c) : (h <= n <=> h < n \/ h = n) /\ ~(n < n)
      BY <1>4, <1>5
    <3> QED BY <1>5, <1>8, <3>1 DEF Around, Inherited, I
  <2>2. IsFiniteSet(I \cup {n}) /\ Cardinality(I \cup {n}) = Cardinality(I) + 1
    BY <1>6, <2>1, FS_AddElement
  <2> QED BY <1>4, <1>6, <1>7, <1>8, <2>1, <2>2
<1>9. CASE n \notin LoopHeads(c)
  <2>1. Around(c, n) = I
    <3>1. \A h \in LoopHeads(c) : h <= n <=> h < n
      BY <1>4, <1>5, <1>9
    <3> QED BY <3>1 DEF Around, Inherited, I
  <2> QED BY <1>4, <1>6, <1>7, <1>9, <2>1
<1> QED BY <1>8, <1>9

-----------------------------------------------------------------------------
(* What acceptance means.                                                  *)

ContinuesOk(c) == \A pc \in Offsets(c) : ContinueOk(c, OpenLoops(c), pc)

\* The top of the stack is the innermost loop around the instruction.
LEMMA Innermost ==
    ASSUME NEW c, Checked(c), ContinuesOk(c), NEW pc \in Offsets(c)
    PROVE  LET s == OpenLoops(c)[pc] IN
           /\ Around(c, pc) # {} => s # <<>>
           /\ s # <<>> => /\ Top(s)[1] \in Around(c, pc)
                          /\ EndOf(Top(s)) = LastContinue(c, Top(s)[1])
                          /\ \A h \in Around(c, pc) : h <= Top(s)[1]
<1> DEFINE s == OpenLoops(c)[pc]
<1>1. Lists(c, s, Around(c, pc))
  BY OpenIsAround DEF ContinuesOk
<1>2. Around(c, pc) \in SUBSET Nat
  BY HeadFacts DEF Around
<1> HIDE DEF s
<1>3. Around(c, pc) # {} => s # <<>>
  BY <1>1, ListsSome
<1>4. s # <<>> => /\ Top(s)[1] \in Around(c, pc)
                  /\ EndOf(Top(s)) = LastContinue(c, Top(s)[1])
                  /\ \A h \in Around(c, pc) : h <= Top(s)[1]
  BY <1>1, <1>2, ListsTop
<1> QED BY <1>3, <1>4 DEF s

\* A loop that begins inside another ends inside it.
LEMMA Nest ==
    ASSUME NEW c, Checked(c), ContinuesOk(c), NEW h \in LoopHeads(c), NEW g \in LoopHeads(c),
           h < g, g <= LastContinue(c, h)
    PROVE  LastContinue(c, g) < LastContinue(c, h)
<1> DEFINE l == LastContinue(c, h)
           k == LastContinue(c, g)
           s == OpenLoops(c)[l]
<1>1. h \in Nat /\ g \in Nat /\ l \in Nat /\ k \in Nat /\ l \in Offsets(c) /\ h <= l /\ BackJump(c, l) /\ At(c, l).a = h
  BY HeadFacts
<1> SUFFICES ASSUME l <= k PROVE FALSE
  BY <1>1
<1>2. g \in Around(c, l) /\ g <= l
  BY DEF Around
<1>3. s # <<>> /\ h = Top(s)[1]
  BY <1>1 DEF ContinuesOk, ContinueOk
<1>4. g <= Top(s)[1]
  BY <1>1, <1>2, <1>3, Innermost
<1> HIDE DEF s
<1> QED BY <1>1, <1>3, <1>4

\* Around an instruction, the loop with the last head ends first.
LEMMA InnermostEndsFirst ==
    ASSUME NEW c, Checked(c), ContinuesOk(c), NEW pc \in Offsets(c),
           NEW h \in Around(c, pc), NEW g \in Around(c, pc), h <= g
    PROVE  LastContinue(c, g) <= LastContinue(c, h)
<1>1. /\ h \in LoopHeads(c) /\ g \in LoopHeads(c) /\ pc \in Nat
      /\ g <= pc /\ pc <= LastContinue(c, h)
  BY CodeLength DEF Around, Checked
<1>2. h \in Nat /\ g \in Nat /\ LastContinue(c, h) \in Nat /\ LastContinue(c, g) \in Nat
  BY <1>1, HeadFacts
<1>3. CASE h = g
  BY <1>2, <1>3
<1>4. CASE h # g
  <2>1. h < g /\ g <= LastContinue(c, h)
    BY <1>1, <1>2, <1>4
  <2>2. LastContinue(c, g) < LastContinue(c, h)
    BY <1>1, <2>1, Nest
  <2> QED BY <1>2, <2>2
<1> QED BY <1>3, <1>4

\* A successor is the next instruction or the target of the jump.
LEMMA EdgeIs ==
    ASSUME NEW c, Checked(c), NEW p \in Offsets(c), NEW q \in Range(Successors(c, p))
    PROVE  q \in Nat /\ (q = p + 1 \/ (HasOffset(At(c, p)) /\ q = At(c, p).a))
<1> DEFINE i == At(c, p)
           target == IF HasOffset(i) THEN {i.a} ELSE {}
           next == IF p + 1 < Len(c) /\ ~IsUnconditional(i) THEN {p + 1} ELSE {}
           both == target \union next
           least == CHOOSE x \in both : \A y \in both : x <= y
           other == CHOOSE x \in both : x # least
<1>1. p \in Nat
  BY CodeLength DEF Checked
<1>2. both \subseteq Nat /\ \A x \in both : x = p + 1 \/ (HasOffset(i) /\ x = i.a)
  BY <1>1, JumpsInside
<1>3. Successors(c, p) = IF both = {} THEN <<>>
                         ELSE IF Cardinality(both) = 1 THEN <<least>> ELSE <<least, other>>
  BY DEF Successors
<1> HIDE DEF both
<1>4. both # {} => least \in both
  <2>1. both # {} => \E x \in both : \A y \in both : x <= y
    BY <1>2, LeastNatural
  <2> QED BY <2>1
<1> HIDE DEF least
<1>5. both # {} /\ Cardinality(both) # 1 => other \in both
  <2>1. \A x : Cardinality({x}) = 1
    BY FS_Singleton
  <2>2. both # {} /\ Cardinality(both) # 1 => \E x \in both : x # least
    <3> SUFFICES ASSUME both # {}, \A x \in both : x = least PROVE Cardinality(both) = 1
      OBVIOUS
    <3>1. both = {least}
      BY <1>4
    <3> QED BY <2>1, <3>1
  <2> QED BY <2>2
<1> HIDE DEF other
<1>6. q \in both
  <2>1. CASE both = {}
    <3>1. Range(<<>>) = {}
      BY DEF Range
    <3> QED BY <1>3, <2>1, <3>1
  <2>2. CASE both # {} /\ Cardinality(both) = 1
    <3>1. Range(<<least>>) = {least}
      BY DEF Range
    <3> QED BY <1>3, <1>4, <2>2, <3>1
  <2>3. CASE both # {} /\ Cardinality(both) # 1
    <3>1. Range(<<least, other>>) = {least, other}
      BY DEF Range
    <3> QED BY <1>3, <1>4, <1>5, <2>3, <3>1
  <2> QED BY <2>1, <2>2, <2>3
<1> QED BY <1>2, <1>6

BreaksOk(c) == \A pc \in Offsets(c) : BreakOk(c, OpenLoops(c), pc)
SplitsOk(c) == \A pc \in Offsets(c) : SplitOk(c, OpenLoops(c), LoopDepth(c), pc)

\* A forward jump that is not a break changes only the loop it goes to the head of.
LEMMA SameLoops ==
    ASSUME NEW c, Checked(c), ContinuesOk(c), SplitsOk(c), NEW p \in Offsets(c), ForwardJump(c, p),
           ~IsBreak(OpenLoops(c)[p], At(c, p).a)
    PROVE  LET q == At(c, p).a IN Around(c, q) \ {q} = Around(c, p)
<1> DEFINE q == At(c, p).a
           s == OpenLoops(c)[p]
           A == Around(c, p)
           B == Around(c, q)
<1>1. q \in Nat /\ q \in Offsets(c) /\ p \in Nat /\ p < q
  <2>1. q \in Nat /\ q \in Offsets(c)
    BY JumpsInside DEF ForwardJump
  <2> QED BY <2>1, CodeLength DEF ForwardJump, Checked
<1>2. ~IsBreak(s, q)
  OBVIOUS
<1>3. LoopDepth(c)[p] = IF q \in LoopHeads(c) THEN LoopDepth(c)[q] - 1 ELSE LoopDepth(c)[q]
  BY DEF SplitsOk, SplitOk
<1>4. /\ IsFiniteSet(A) /\ LoopDepth(c)[p] = Cardinality(A)
      /\ IsFiniteSet(B) /\ LoopDepth(c)[q] = Cardinality(B)
  BY <1>1, DepthIsCount
<1>5. \A h \in LoopHeads(c) : h \in Nat /\ LastContinue(c, h) \in Nat /\ h <= LastContinue(c, h)
  BY HeadFacts
<1>6. s # <<>> => /\ Top(s)[1] \in A /\ EndOf(Top(s)) = LastContinue(c, Top(s)[1])
                  /\ \A h \in A : h <= Top(s)[1]
  BY Innermost
<1>7. A # {} => s # <<>>
  BY Innermost
<1> HIDE DEF q, s
<1>8. A \subseteq B \ {q}
  <2> SUFFICES ASSUME NEW h \in A PROVE h \in B /\ h # q
    OBVIOUS
  <2> DEFINE g == Top(s)[1]
  <2>1. s # <<>> /\ g \in A /\ h <= g /\ EndOf(Top(s)) = LastContinue(c, g)
    BY <1>6, <1>7
  <2> HIDE DEF g
  <2>2. LastContinue(c, g) <= LastContinue(c, h)
    BY <2>1, InnermostEndsFirst
  <2>3. h \in LoopHeads(c) /\ h <= p /\ g \in LoopHeads(c)
    BY <2>1 DEF Around
  <2>4. ~(q > LastContinue(c, g))
    BY <1>2, <2>1 DEF IsBreak
  <2>5. h \in Nat /\ LastContinue(c, h) \in Nat /\ LastContinue(c, g) \in Nat
    BY <1>5, <2>3
  <2>6. h < q /\ q <= LastContinue(c, h)
    BY <1>1, <2>2, <2>3, <2>4, <2>5
  <2>7. h <= q /\ h # q
    BY <1>1, <2>5, <2>6
  <2> QED BY <2>3, <2>6, <2>7 DEF Around
<1>9. q \in LoopHeads(c) <=> q \in B
  BY <1>1, <1>5 DEF Around
<1>10. IsFiniteSet(B \ {q}) /\ Cardinality(B \ {q}) = IF q \in B THEN Cardinality(B) - 1 ELSE Cardinality(B)
  BY <1>4, FS_RemoveElement
<1>11. Cardinality(B \ {q}) = Cardinality(A)
  BY <1>3, <1>4, <1>9, <1>10
<1>12. A \in SUBSET (B \ {q})
  BY <1>8
<1> HIDE DEF A, B
<1>13. B \ {q} = A
  BY <1>10, <1>11, <1>12, FS_Subset
<1> QED BY <1>13 DEF A, B, q

\* An edge that goes into a loop goes to its head.
LEMMA EntersAtHead ==
    ASSUME NEW c, Checked(c), ContinuesOk(c), BreaksOk(c), SplitsOk(c), NEW h \in LoopHeads(c),
           NEW p \in Offsets(c), NEW q \in Range(Successors(c, p)),
           ~(h <= p /\ p <= LastContinue(c, h)), h <= q, q <= LastContinue(c, h)
    PROVE  q = h
<1> DEFINE l == LastContinue(c, h)
<1>1. h \in Nat /\ l \in Nat /\ h <= l
  BY HeadFacts
<1>2. p \in Nat
  BY CodeLength DEF Checked
<1>3. q \in Nat /\ (q = p + 1 \/ (HasOffset(At(c, p)) /\ q = At(c, p).a))
  BY EdgeIs
<1> HIDE DEF l
<1>4. CASE q = p + 1
  BY <1>1, <1>2, <1>3, <1>4 DEF l
<1>5. CASE BackJump(c, p) /\ q = At(c, p).a
  <2>1. q \in LoopHeads(c) /\ p \in Continues(c, q) /\ q <= p
    BY <1>5, BackJumpAround DEF BackJump
  <2>2. p > l
    BY <1>1, <1>2, <1>3, <2>1 DEF l
  <2>3. LastContinue(c, q) \in Nat /\ p <= LastContinue(c, q)
    BY <2>1, HeadFacts
  <2>4. CASE h < q
    <3>1. LastContinue(c, q) < l
      BY <2>1, <2>4, Nest DEF l
    <3> QED BY <1>1, <1>2, <2>2, <2>3, <3>1
  <2> QED BY <1>1, <1>3, <2>4
<1>6. CASE ForwardJump(c, p) /\ q = At(c, p).a
  <2>1. p < q
    BY <1>2, <1>3, <1>6 DEF ForwardJump
  <2>2. p < h
    BY <1>1, <1>2, <1>3, <2>1 DEF l
  <2>3. h \notin Around(c, p)
    BY <1>1, <1>2, <2>2 DEF Around
  <2> DEFINE s == OpenLoops(c)[p]
             g == Top(s)[1]
  <2>4. CASE IsBreak(s, q)
    <3>1. s # <<>> /\ q > EndOf(Top(s))
      BY <2>4 DEF IsBreak
    <3>2. g \in Around(c, p) /\ EndOf(Top(s)) = LastContinue(c, g)
      BY <3>1, Innermost
    <3>3. q = EndOf(Top(s)) + 1
      BY <1>6, <3>1 DEF BreaksOk, BreakOk
    <3> HIDE DEF s, g
    <3>4. q = LastContinue(c, g) + 1 /\ g \in LoopHeads(c) /\ g <= p
      BY <3>2, <3>3 DEF Around
    <3>5. g \in Nat /\ LastContinue(c, g) \in Nat
      BY <3>4, HeadFacts
    <3>6. CASE h < q
      <4>1. g < h /\ h <= LastContinue(c, g)
        BY <1>1, <1>2, <1>3, <2>2, <3>4, <3>5, <3>6
      <4>2. l < LastContinue(c, g)
        BY <3>4, <4>1, Nest DEF l
      <4> QED BY <1>1, <1>3, <3>4, <3>5, <4>2 DEF l
    <3> QED BY <1>1, <1>3, <3>6
  <2>5. CASE ~IsBreak(s, q)
    <3>1. Around(c, q) \ {q} = Around(c, p)
      BY <1>6, <2>5, SameLoops
    <3>2. h \in Around(c, q)
      BY DEF Around
    <3> QED BY <2>3, <3>1, <3>2
  <2> QED BY <2>4, <2>5
<1>7. HasOffset(At(c, p)) /\ q = At(c, p).a => BackJump(c, p) \/ ForwardJump(c, p)
  BY <1>2, <1>3 DEF BackJump, ForwardJump
<1> QED BY <1>3, <1>4, <1>5, <1>6, <1>7

\* A back jump goes to the innermost loop around it.
LEMMA ContinuesInnermost ==
    ASSUME NEW c, Checked(c), ContinuesOk(c), NEW h \in LoopHeads(c), NEW g \in LoopHeads(c),
           NEW pc \in Continues(c, h), g <= pc, pc <= LastContinue(c, g)
    PROVE  g <= h /\ h <= LastContinue(c, g) /\ LastContinue(c, h) <= LastContinue(c, g)
<1> DEFINE s == OpenLoops(c)[pc]
<1>1. pc \in Offsets(c) /\ BackJump(c, pc) /\ At(c, pc).a = h
  BY DEF Continues
<1>2. s # <<>> /\ h = Top(s)[1]
  BY <1>1 DEF ContinuesOk, ContinueOk
<1>3. g \in Around(c, pc)
  BY DEF Around
<1>4. h \in Around(c, pc)
  BY <1>1, BackJumpAround
<1>5. g <= h
  BY <1>1, <1>2, <1>3, Innermost
<1>6. LastContinue(c, h) <= LastContinue(c, g)
  BY <1>1, <1>3, <1>4, <1>5, InnermostEndsFirst
<1>7. h \in Nat /\ h <= LastContinue(c, h) /\ LastContinue(c, h) \in Nat /\ LastContinue(c, g) \in Nat
  BY HeadFacts
<1> QED BY <1>5, <1>6, <1>7

\* An edge that leaves a loop goes to the instruction after its last continue.
LEMMA LeavesAtEnd ==
    ASSUME NEW c, Checked(c), ContinuesOk(c), BreaksOk(c), NEW h \in LoopHeads(c),
           NEW p \in Offsets(c), NEW q \in Range(Successors(c, p)),
           h <= p, p <= LastContinue(c, h), ~(h <= q /\ q <= LastContinue(c, h))
    PROVE  q = LastContinue(c, h) + 1
<1> DEFINE l == LastContinue(c, h)
<1>1. h \in Nat /\ l \in Nat /\ h <= l
  BY HeadFacts
<1>2. p \in Nat
  BY CodeLength DEF Checked
<1>3. q \in Nat /\ (q = p + 1 \/ (HasOffset(At(c, p)) /\ q = At(c, p).a))
  BY EdgeIs
<1>4. h \in Around(c, p)
  BY DEF Around
<1> HIDE DEF l
<1>5. CASE q = p + 1
  BY <1>1, <1>2, <1>3, <1>5 DEF l
<1>6. CASE BackJump(c, p) /\ q = At(c, p).a
  <2>1. q \in LoopHeads(c) /\ p \in Continues(c, q) /\ q <= p
    BY <1>6, BackJumpAround DEF BackJump
  <2>2. h <= q /\ q <= l
    BY <2>1, ContinuesInnermost DEF l
  <2> QED BY <2>2 DEF l
<1>7. CASE ForwardJump(c, p) /\ q = At(c, p).a
  <2>1. p < q
    BY <1>2, <1>3, <1>7 DEF ForwardJump
  <2>2. l < q
    BY <1>1, <1>2, <1>3, <2>1 DEF l
  <2> DEFINE s == OpenLoops(c)[p]
             g == Top(s)[1]
  <2>3. s # <<>> /\ g \in Around(c, p) /\ EndOf(Top(s)) = LastContinue(c, g) /\ h <= g
    BY <1>4, Innermost
  <2>4. BreakOk(c, OpenLoops(c), p)
    BY DEF BreaksOk
  <2>5. ForwardJump(c, p) /\ s # <<>> /\ q > EndOf(Top(s)) => q = EndOf(Top(s)) + 1
    BY <1>7, <2>4 DEF BreakOk
  <2> HIDE DEF s, g
  <2>6. LastContinue(c, g) <= l
    BY <1>4, <2>3, InnermostEndsFirst DEF l
  <2>7. LastContinue(c, g) \in Nat
    BY <2>3, HeadFacts DEF Around
  <2>8. q > LastContinue(c, g)
    BY <1>1, <1>3, <2>2, <2>6, <2>7
  <2>9. q = LastContinue(c, g) + 1
    BY <1>7, <2>3, <2>5, <2>8
  <2> QED BY <1>1, <1>3, <2>2, <2>6, <2>7, <2>9 DEF l
<1>8. HasOffset(At(c, p)) /\ q = At(c, p).a => BackJump(c, p) \/ ForwardJump(c, p)
  BY <1>2, <1>3 DEF BackJump, ForwardJump
<1> QED BY <1>3, <1>5, <1>6, <1>7, <1>8

-----------------------------------------------------------------------------
(* The theorems.                                                           *)

CodeType == code \in Seq(Alphabet)

LEMMA VerifiedMeans ==
    ASSUME CodeType, Verified
    PROVE  Checked(code) /\ ContinuesOk(code) /\ BreaksOk(code) /\ SplitsOk(code)
BY DEF CodeType, Verified, Accepted, Checked, ContinuesOk, BreaksOk, SplitsOk

LEMMA BodyIs ==
    ASSUME CodeType, Verified, NEW h \in LoopHeads(code), NEW x \in Nat
    PROVE  x \in Body(h) <=> h <= x /\ x <= LastContinue(code, h)
<1>1. h \in Nat /\ LastContinue(code, h) \in Nat
  BY VerifiedMeans, HeadFacts
<1> QED BY <1>1 DEF Body

LEMMA EdgeEnds ==
    ASSUME CodeType, Verified, NEW e \in Edges
    PROVE  /\ e[1] \in Offsets(code) /\ e[1] \in Nat
           /\ e[2] \in Range(Successors(code, e[1])) /\ e[2] \in Nat
<1>1. PICK p \in Offsets(code) : e \in {p} \X Range(Successors(code, p))
  BY DEF Edges
<1>2. e[1] = p /\ e[2] \in Range(Successors(code, p))
  BY <1>1
<1>3. p \in Nat
  BY CodeLength DEF CodeType
<1>4. e[2] \in Nat
  BY <1>2, VerifiedMeans, EdgeIs
<1> QED BY <1>2, <1>3, <1>4

LEMMA NestedLoops == ASSUME CodeType PROVE LoopsNested
<1> SUFFICES ASSUME Verified, NEW h \in LoopHeads(code), NEW g \in LoopHeads(code)
             PROVE  /\ \/ Body(h) \intersect Body(g) = {}
                       \/ Body(h) \subseteq Body(g)
                       \/ Body(g) \subseteq Body(h)
                    /\ \A pc \in Continues(code, h) : pc \in Body(g) => Body(h) \subseteq Body(g)
  BY DEF LoopsNested
<1> DEFINE l == LastContinue(code, h)
           k == LastContinue(code, g)
<1>1. h \in Nat /\ g \in Nat /\ l \in Nat /\ k \in Nat /\ h <= l /\ g <= k
  BY VerifiedMeans, HeadFacts
<1>2. Body(h) = h..l /\ Body(g) = g..k
  BY DEF Body
<1>3. h < g /\ g <= l => k < l
  BY VerifiedMeans, Nest
<1>4. g < h /\ h <= k => l < k
  BY VerifiedMeans, Nest
<1>5. ASSUME NEW pc \in Continues(code, h), pc \in Body(g)
      PROVE  g <= h /\ l <= k
  <2>1. pc \in Offsets(code)
    BY <1>5 DEF Continues
  <2>2. pc \in Nat
    BY <2>1, CodeLength DEF CodeType
  <2>3. g <= pc /\ pc <= k
    BY <1>5, <2>2, BodyIs
  <2> QED BY <2>3, VerifiedMeans, ContinuesInnermost
<1>6. h = g => l = k
  OBVIOUS
<1> HIDE DEF l, k
<1>7. Body(h) \intersect Body(g) = {} \/ Body(h) \subseteq Body(g) \/ Body(g) \subseteq Body(h)
  <2>1. CASE h < g
    BY <1>1, <1>2, <1>3, <2>1
  <2>2. CASE g < h
    BY <1>1, <1>2, <1>4, <2>2
  <2>3. CASE h = g
    BY <2>3
  <2> QED BY <1>1, <2>1, <2>2, <2>3
<1>8. g <= h /\ l <= k => Body(h) \subseteq Body(g)
  BY <1>1, <1>2
<1> QED BY <1>5, <1>7, <1>8

\* Code that the control flow pass accepts has structured loops only, whatever its length and
\* its instructions: loops are nested or disjoint and every continue is to the innermost one,
\* and every edge into a loop goes to its head and every edge out of it to its end.
THEOREM LoopsAreStructured == Spec => []LoopsStructured
<1>1. Init => CodeType
  BY DEF Init, CodeType
<1>2. CodeType /\ [Next]_vars => CodeType'
  BY DEF CodeType, Next, Extend, vars
<1>3. CodeType => LoopsStructured
  <2> SUFFICES ASSUME CodeType PROVE LoopsStructured
    OBVIOUS
  <2>1. LoopsEnteredAtHead
    <3> SUFFICES ASSUME Verified, NEW h \in LoopHeads(code), NEW e \in Edges,
                        e[1] \notin Body(h), e[2] \in Body(h)
                 PROVE  e[2] = h
      BY DEF LoopsEnteredAtHead
    <3>1. /\ e[1] \in Offsets(code) /\ e[1] \in Nat
          /\ e[2] \in Range(Successors(code, e[1])) /\ e[2] \in Nat
      BY EdgeEnds
    <3>2. /\ ~(h <= e[1] /\ e[1] <= LastContinue(code, h))
          /\ h <= e[2] /\ e[2] <= LastContinue(code, h)
      BY <3>1, BodyIs
    <3> QED BY <3>1, <3>2, VerifiedMeans, EntersAtHead
  <2>2. LoopsLeftAtEnd
    <3> SUFFICES ASSUME Verified, NEW h \in LoopHeads(code), NEW e \in Edges,
                        e[1] \in Body(h), e[2] \notin Body(h)
                 PROVE  e[2] = LastContinue(code, h) + 1
      BY DEF LoopsLeftAtEnd
    <3>1. /\ e[1] \in Offsets(code) /\ e[1] \in Nat
          /\ e[2] \in Range(Successors(code, e[1])) /\ e[2] \in Nat
      BY EdgeEnds
    <3>2. /\ h <= e[1] /\ e[1] <= LastContinue(code, h)
          /\ ~(h <= e[2] /\ e[2] <= LastContinue(code, h))
      BY <3>1, BodyIs
    <3> QED BY <3>1, <3>2, VerifiedMeans, LeavesAtEnd
  <2> QED BY <2>1, <2>2, NestedLoops DEF LoopsStructured
<1> QED BY <1>1, <1>2, <1>3, PTL DEF Spec

\* The walk of the pass never unwraps an empty stack of loops: at the first back jump that is
\* not to the open loop, and at every one before it, some loop is open; and the depth count
\* stays at or above zero.
THEOREM WalkIsSafe == Spec => []NeverUnwrapsEmpty
<1>1. Init => CodeType
  BY DEF Init, CodeType
<1>2. CodeType /\ [Next]_vars => CodeType'
  BY DEF CodeType, Next, Extend, vars
<1>3. CodeType => NeverUnwrapsEmpty
  <2> SUFFICES ASSUME CodeType, InBounds(code) PROVE NeverUnwrapsEmpty
    BY DEF NeverUnwrapsEmpty
  <2> DEFINE open == OpenLoops(code)
             bad == {pc \in Offsets(code) : ~ContinueOk(code, open, pc)}
  <2>1. Checked(code)
    BY DEF CodeType, Checked
  <2>2. ASSUME NEW pc \in Offsets(code), BackJump(code, pc), \A q \in bad : q >= pc
        PROVE  open[pc] # <<>>
    <3>1. \A q \in Offsets(code) : q < pc => ContinueOk(code, open, q)
      <4>1. Offsets(code) \subseteq Nat
        BY CodeLength DEF CodeType
      <4>2. \A q \in Offsets(code) : q < pc => ~(q >= pc)
        BY <4>1
      <4> QED BY <2>2, <4>2
    <3>2. Lists(code, open[pc], Around(code, pc))
      BY <2>1, <3>1, OpenIsAround
    <3>3. Around(code, pc) # {}
      BY <2>1, <2>2, BackJumpAround
    <3> QED BY <3>2, <3>3, ListsSome
  <2>3. ASSUME NEW pc \in Offsets(code) PROVE LoopDepth(code)[pc] >= 0
    <3>1. IsFiniteSet(Around(code, pc)) /\ LoopDepth(code)[pc] = Cardinality(Around(code, pc))
      BY <2>1, DepthIsCount
    <3>2. Cardinality(Around(code, pc)) \in Nat
      BY <3>1, FS_CardinalityType
    <3> QED BY <3>1, <3>2
  <2> QED BY <2>2, <2>3 DEF NeverUnwrapsEmpty
<1> QED BY <1>1, <1>2, <1>3, PTL DEF Spec
=============================================================================
