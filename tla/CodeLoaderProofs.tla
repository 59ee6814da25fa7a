------------------------- MODULE CodeLoaderProofs -------------------------
(***************************************************************************)
(* Proofs about CodeLoader, for any finite set of module ids and any       *)
(* bundles.  That the code cache is sound needs nothing else.  That        *)
(* storage is sound and that what is stored can be loaded needs two facts  *)
(* about what is submitted, which the code does not check.                 *)
(***************************************************************************)
EXTENDS CodeLoader, FiniteSetTheorems, FunctionTheorems, SequenceTheorems, TLAPS

\* No bundle has two modules with the same id.
DistinctIds ==
    \A b \in Bundles : \A n, k \in 1..Len(b) : b[n].id = b[k].id => n = k

\* A module and its friend are no strangers: one depends on the other.
FriendsRelated ==
    \A m, f \in Module : f.id \in m.friends => m.id \in f.deps \/ f.id \in m.deps

-----------------------------------------------------------------------------
(* The invariant behind CacheSound.                                        *)

\* Tables are indexed by the modules' own ids.
IdsMatch ==
    \A i \in Id : /\ store[i] # None => store[i].id = i
                  /\ verified[i] # None => verified[i].id = i

\* What each phase of a job has at hand.
JobOK ==
    /\ job = "idle" => bundle = <<>> /\ \A i \in Id : verified[i] = None
    /\ job # "explore" => stack = <<>>
    /\ job \in {"begin", "publish"} => pos \in 1..Len(bundle)
    /\ job = "explore" =>
          /\ target \in Module
          /\ bundle = <<>> => store[target.id] = target /\ \A i \in Id : verified[i] = None
          /\ bundle # <<>> => pos \in 1..Len(bundle) /\ target = bundle[pos]

\* Nothing of the bundle is stored.
Fresh ==
    /\ \A n \in 1..Len(bundle) : store[bundle[n].id] = None
    /\ \A i \in Id : verified[i] # None => store[i] = None

\* Dependencies are at hand: of stored modules in storage, of verified ones where the
\* loader looks for them.
StoreClosed == \A i \in Id : store[i] # None => \A d \in store[i].deps : store[d] # None
VerifiedClosed == \A i \in Id : verified[i] # None => \A d \in verified[i].deps : Resolve(d) # None

\* A frame is the module under publication, at the bottom, or a stored module; the
\* dependencies it is done with are resolved.
FrameOK(n) ==
    LET f == stack[n] IN
    /\ f.mod.id \in visited
    /\ f.new => n = 1 /\ bundle # <<>> /\ f.mod = target
    /\ ~f.new => store[f.mod.id] = f.mod
    /\ f.todo \subseteq f.mod.deps
    /\ \A d \in f.mod.deps \ f.todo : Resolve(d) # None

FramesOK == \A n \in 1..Len(stack) : FrameOK(n)

\* No module has two frames.
FramesDistinct ==
    \A n, k \in 1..Len(stack) : stack[n].mod.id = stack[k].mod.id => n = k

\* The module under publication is at the bottom of the stack until it links.
TargetLinks ==
    job = "explore" /\ bundle # <<>> =>
        \/ stack # <<>> /\ stack[1].new
        \/ \A d \in target.deps : Resolve(d) # None /\ Links(target, Resolve(d))

CacheInv ==
    /\ TypeOK /\ IdsMatch /\ JobOK /\ Fresh /\ StoreClosed /\ VerifiedClosed
    /\ FramesOK /\ FramesDistinct /\ TargetLinks /\ CacheCoherent /\ CacheLinkedDown

-----------------------------------------------------------------------------
(* The invariant behind StoreSound.                                        *)

\* A certificate that m has no cycle of dependencies: a set of known modules with all
\* dependencies of m and of its members, and without m.
Grounded(m, lookup) ==
    \E D \in SUBSET Id : /\ m.deps \subseteq D /\ m.id \notin D
                         /\ \A y \in D : lookup[y] # None /\ lookup[y].deps \subseteq D

\* The modules of the bundle that are still to be verified.
Checked == IF job = "publish" THEN pos ELSE pos - 1
Pending == {bundle[n].id : n \in (Checked + 1)..Len(bundle)}

BundleOK ==
    /\ \A n, k \in 1..Len(bundle) : bundle[n].id = bundle[k].id => n = k
    /\ \A i \in Id : verified[i] # None => \E n \in 1..Checked : bundle[n].id = i
    /\ job = "publish" => pos = Len(bundle)

VerifiedOK ==
    \A i \in Id : verified[i] # None =>
        /\ Grounded(verified[i], Known)
        /\ \A d \in verified[i].deps : Links(verified[i], Resolve(d))
        /\ \A f \in verified[i].friends :
              f \notin verified[i].deps /\ (Resolve(f) # None \/ f \in Pending)

StoreOK ==
    \A i \in Id : store[i] # None =>
        /\ Grounded(store[i], store)
        /\ \A f \in store[i].friends : store[f] # None /\ i \in store[f].deps

StoreInv ==
    /\ DistinctIds /\ FriendsRelated
    /\ CacheInv /\ BundleOK /\ VerifiedOK /\ StoreLinks /\ StoreOK

-----------------------------------------------------------------------------
(* The invariant behind StoredLoads.                                       *)

\* D has the dependencies of its members.
Closed(D) == \A y \in D : store[y] # None /\ store[y].deps \subseteq D

\* Each frame is reached from the frames below it.
Chained ==
    \A n, k \in 1..Len(stack) : n <= k =>
        \A D \in SUBSET Id :
            Closed(D) /\ stack[n].mod.deps \subseteq D => stack[k].mod.deps \subseteq D

\* Whatever was met is cached or still on the stack.
VisitedHeld ==
    \A v \in visited : cache[v] # None \/ \E n \in 1..Len(stack) : stack[n].mod.id = v

\* The friends of all that was met are to be loaded.
FriendsMet ==
    /\ target.friends \subseteq frontier
    /\ \A n \in 1..Len(stack) : stack[n].mod.friends \subseteq frontier
    /\ \A f \in frontier : store[f] # None

TargetHeld == cache[target.id] # None \/ (stack # <<>> /\ stack[1].mod = target)

\* A cached module whose friends were not met does not depend on the target.
OldIsAway ==
    \A x \in Id : cache[x] # None =>
        \/ cache[x].friends \subseteq frontier
        \/ \E D \in SUBSET Id : Closed(D) /\ cache[x].deps \subseteq D /\ target.id \notin D

Loading == job = "explore" /\ bundle = <<>>

LoadInv ==
    /\ StoreInv /\ StoredLoads
    /\ Loading => Chained /\ VisitedHeld /\ FriendsMet /\ TargetHeld /\ OldIsAway

-----------------------------------------------------------------------------
(* Modules and stacks.                                                     *)

LEMMA ModuleParts ==
    ASSUME NEW m \in Module
    PROVE  m.id \in Id /\ m.deps \subseteq Id /\ m.friends \subseteq Id /\ m # None
BY ModulesTyped

LEMMA FrameIs ==
    ASSUME NEW m \in Module, NEW b \in BOOLEAN
    PROVE  Frame(m, b) \in Frames /\ Frame(m, b).mod = m /\ Frame(m, b).todo = m.deps
           /\ Frame(m, b).new = b
BY ModuleParts DEF Frame, Frames

LEMMA PushIs ==
    ASSUME NEW s \in Seq(Frames), NEW f \in Frames
    PROVE  /\ Append(s, f) \in Seq(Frames) /\ Len(Append(s, f)) = Len(s) + 1
           /\ \A n \in 1..Len(s) : Append(s, f)[n] = s[n]
           /\ Append(s, f)[Len(s) + 1] = f /\ Append(s, f) # <<>>
BY AppendProperties

LEMMA PopIs ==
    ASSUME NEW s \in Seq(Frames), s # <<>>
    PROVE  /\ SubSeq(s, 1, Len(s) - 1) \in Seq(Frames)
           /\ Len(SubSeq(s, 1, Len(s) - 1)) = Len(s) - 1
           /\ \A n \in 1..(Len(s) - 1) : SubSeq(s, 1, Len(s) - 1)[n] = s[n]
           /\ Len(s) \in Nat /\ Len(s) >= 1 /\ s[Len(s)] \in Frames
           /\ (Len(s) = 1 => SubSeq(s, 1, Len(s) - 1) = <<>>)
           /\ (Len(s) > 1 => SubSeq(s, 1, Len(s) - 1) # <<>>)
<1>1. Len(s) \in Nat /\ Len(s) # 0
  BY LenProperties, EmptySeq
<1>2. Len(s) >= 1 /\ s[Len(s)] \in Frames
  BY <1>1, ElementOfSeq
<1> DEFINE t == SubSeq(s, 1, Len(s) - 1)
<1>3. /\ t \in Seq(Frames) /\ Len(t) = Len(s) - 1
      /\ \A n \in 1..(Len(s) - 1) : t[n] = s[n]
  <2>1. \A i \in 1..(Len(s) - 1) : s[i] \in Frames
    BY <1>1, ElementOfSeq
  <2> DEFINE k == Len(s) - 1
  <2>2. k \in Int /\ k \in Nat
    BY <1>1
  <2> HIDE DEF k
  <2>3. /\ SubSeq(s, 1, k) \in Seq(Frames)
        /\ Len(SubSeq(s, 1, k)) = IF 1 <= k THEN k - 1 + 1 ELSE 0
        /\ \A i \in 1..(k - 1 + 1) : SubSeq(s, 1, k)[i] = s[1 + i - 1]
    BY <2>1, <2>2, SubSeqProperties DEF k
  <2>4. /\ Len(SubSeq(s, 1, k)) = k
        /\ \A i \in 1..k : SubSeq(s, 1, k)[i] = s[i]
    <3>1. Len(SubSeq(s, 1, k)) = k
      BY <2>2, <2>3
    <3>2. ASSUME NEW i \in 1..k PROVE SubSeq(s, 1, k)[i] = s[i]
      <4>1. i \in 1..(k - 1 + 1) /\ 1 + i - 1 = i
        BY <2>2
      <4> QED BY <2>3, <4>1
    <3> QED BY <3>1, <3>2
  <2> QED BY <2>3, <2>4 DEF k
<1>4. Len(s) = 1 <=> t = <<>>
  <2> HIDE DEF t
  <2> QED BY <1>1, <1>3, EmptySeq
<1> QED BY <1>1, <1>2, <1>3, <1>4

\* Ticking off a dependency of the top frame changes nothing else of the stack.
LEMMA TickStack ==
    ASSUME stack \in Seq(Frames), stack # <<>>, NEW d,
           stack' = [stack EXCEPT ![Len(stack)].todo = @ \ {d}]
    PROVE  LET N == Len(stack) IN
           /\ N \in Nat /\ N >= 1
           /\ stack' \in Seq(Frames) /\ Len(stack') = N /\ stack' # <<>>
           /\ \A n \in 1..N : /\ stack'[n].mod = stack[n].mod /\ stack'[n].new = stack[n].new
                              /\ n # N => stack'[n] = stack[n]
           /\ stack'[N].todo = stack[N].todo \ {d}
<1> DEFINE N == Len(stack)
           g == [stack[N] EXCEPT !.todo = @ \ {d}]
<1>1. stack[N] \in Frames /\ N \in 1..Len(stack) /\ N \in Nat /\ N >= 1
  BY PopIs
<1>2. stack' = [stack EXCEPT ![N] = g]
  OBVIOUS
<1> HIDE DEF N
<1>3. /\ g \in Frames /\ g.mod = stack[N].mod /\ g.new = stack[N].new
      /\ g.todo = stack[N].todo \ {d}
  BY <1>1 DEF Frames
<1> HIDE DEF g
<1>4. /\ [stack EXCEPT ![N] = g] \in Seq(Frames) /\ Len([stack EXCEPT ![N] = g]) = Len(stack)
      /\ \A n \in 1..Len(stack) : [stack EXCEPT ![N] = g][n] = IF n = N THEN g ELSE stack[n]
  BY <1>1, <1>3, ExceptSeq
<1>5. /\ stack' \in Seq(Frames) /\ Len(stack') = N
      /\ \A n \in 1..N : stack'[n] = IF n = N THEN g ELSE stack[n]
  BY <1>2, <1>4 DEF N
<1>6. stack' # <<>>
  BY <1>1, <1>5, EmptySeq
<1>7. /\ \A n \in 1..N : /\ stack'[n].mod = stack[n].mod /\ stack'[n].new = stack[n].new
                          /\ n # N => stack'[n] = stack[n]
      /\ stack'[N].todo = stack[N].todo \ {d}
  BY <1>1, <1>3, <1>5
<1> QED BY <1>1, <1>5, <1>6, <1>7 DEF N

-----------------------------------------------------------------------------
(* CacheInv.                                                               *)

LEMMA InitCacheInv == Init => CacheInv
<1> SUFFICES ASSUME Init PROVE CacheInv
  OBVIOUS
<1>1. TypeOK
  <2>1. Len(<<>>) = 0 /\ Cardinality(Id) \in Nat
    BY FinitelyManyIds, FS_CardinalityType
  <2> QED BY <2>1 DEF Init, TypeOK
<1>2. IdsMatch /\ JobOK /\ Fresh /\ StoreClosed /\ VerifiedClosed /\ CacheCoherent /\ CacheLinkedDown
  BY DEF Init, IdsMatch, JobOK, Fresh, StoreClosed, VerifiedClosed, CacheCoherent, CacheLinkedDown
<1>3. FramesOK /\ FramesDistinct /\ TargetLinks
  BY DEF Init, FramesOK, FramesDistinct, TargetLinks
<1> QED BY <1>1, <1>2, <1>3 DEF CacheInv

\* The stack never has more frames than there are modules.
LEMMA StackBounded ==
    ASSUME CacheInv
    PROVE  Len(stack) \in Nat /\ Cardinality(Id) \in Nat /\ Len(stack) <= Cardinality(Id)
<1>1. stack \in Seq(Frames) /\ Len(stack) \in Nat
  BY DEF CacheInv, TypeOK
<1> DEFINE S == 1..Len(stack)
           f == [n \in S |-> stack[n].mod.id]
<1>2. \A n \in S : stack[n] \in Frames
  BY <1>1, ElementOfSeq
<1>3. \A n \in S : stack[n].mod \in Module
  BY <1>2 DEF Frames
<1>4. \A n \in S : stack[n].mod.id \in Id
  BY <1>3, ModuleParts
<1>5. f \in Injection(S, Id)
  <2>1. f \in [S -> Id]
    BY <1>4
  <2>2. \A n, k \in S : f[n] = f[k] => n = k
    BY DEF CacheInv, FramesDistinct
  <2> HIDE DEF f, S
  <2> QED BY <2>1, <2>2, Fun_IsInj
<1>6. IsFiniteSet(S) /\ Cardinality(S) = Len(stack)
  BY <1>1, FS_Interval
<1> HIDE DEF f, S
<1>7. Cardinality(S) <= Cardinality(Id)
  BY <1>5, FS_Injection, FinitelyManyIds
<1> QED BY <1>1, <1>6, <1>7, FinitelyManyIds, FS_CardinalityType

LEMMA IdleCache ==
    ASSUME CacheInv, Idle, UNCHANGED <<store, cache>>, failed' \subseteq Id
    PROVE  CacheInv'
<1>1. Len(<<>>) = 0 /\ Cardinality(Id) \in Nat /\ <<>> \in Seq(Module) /\ <<>> \in Seq(Frames)
  BY StackBounded, EmptySeq
<1>2. TypeOK'
  BY <1>1 DEF CacheInv, TypeOK, Idle
<1>3. IdsMatch' /\ JobOK' /\ Fresh' /\ StoreClosed' /\ VerifiedClosed' /\ CacheCoherent' /\ CacheLinkedDown'
  BY <1>1 DEF CacheInv, Idle, IdsMatch, JobOK, Fresh, StoreClosed, VerifiedClosed, CacheCoherent,
              CacheLinkedDown
<1>4. FramesOK' /\ FramesDistinct' /\ TargetLinks'
  BY <1>1 DEF Idle, FramesOK, FramesDistinct, TargetLinks
<1> QED BY <1>2, <1>3, <1>4 DEF CacheInv

LEMMA FailJobCache == ASSUME CacheInv, job \in {"begin", "explore"}, FailJob PROVE CacheInv'
<1>1. bundle = <<>> => target \in Module
  <2>1. Len(<<>>) = 0
    BY EmptySeq
  <2> QED BY <2>1 DEF CacheInv, JobOK
<1>2. failed' \subseteq Id
  BY <1>1, ModuleParts DEF FailJob, CacheInv, TypeOK
<1> QED BY <1>2, IdleCache DEF FailJob

LEMMA SubmitCache == ASSUME CacheInv, NEW b \in Bundles, SubmitBundle(b) PROVE CacheInv'
<1>1. b \in Seq(Module) /\ b # <<>> /\ Len(b) \in Nat /\ Len(b) >= 1
  BY ModulesTyped, EmptySeq DEF SubmitBundle
<1>2. stack = <<>> /\ stack' = <<>> /\ Len(<<>>) = 0
  BY EmptySeq DEF CacheInv, JobOK, SubmitBundle
<1>3. TypeOK'
  BY <1>1 DEF CacheInv, TypeOK, SubmitBundle
<1>4. IdsMatch' /\ Fresh' /\ StoreClosed' /\ VerifiedClosed' /\ CacheCoherent' /\ CacheLinkedDown'
  BY DEF CacheInv, SubmitBundle, Exists, IdsMatch, Fresh, StoreClosed, VerifiedClosed,
         CacheCoherent, CacheLinkedDown
<1>5. JobOK'
  BY <1>1, <1>2 DEF SubmitBundle, JobOK
<1>6. FramesOK' /\ FramesDistinct' /\ TargetLinks'
  BY <1>2 DEF SubmitBundle, FramesOK, FramesDistinct, TargetLinks
<1> QED BY <1>3, <1>4, <1>5, <1>6 DEF CacheInv

\* A single frame whose dependencies are all to be looked at.
LEMMA OneFrame ==
    ASSUME NEW m \in Module, NEW b \in BOOLEAN, stack' = <<Frame(m, b)>>, visited' = {m.id},
           b => bundle' # <<>> /\ m = target', ~b => store'[m.id] = m, Cardinality(Id) \in Nat
    PROVE  /\ stack' \in Seq(Frames) /\ Len(stack') = 1 /\ stack' # <<>>
           /\ Len(stack') <= Cardinality(Id) + 1
           /\ stack'[1].mod = m /\ stack'[1].new = b
           /\ FramesOK' /\ FramesDistinct'
<1> DEFINE f == Frame(m, b)
<1>1. f \in Frames /\ f.mod = m /\ f.todo = m.deps /\ f.new = b
  BY FrameIs
<1> HIDE DEF f
<1>2. stack' = <<f>>
  BY DEF f
<1>3. stack' \in Seq(Frames) /\ Len(stack') = 1 /\ stack' # <<>> /\ stack'[1] = f
  BY <1>1, <1>2
<1>4. FramesOK'
  BY <1>1, <1>3 DEF FramesOK, FrameOK
<1>5. FramesDistinct'
  BY <1>3 DEF FramesDistinct
<1> QED BY <1>1, <1>3, <1>4, <1>5

LEMMA BeginCache == ASSUME CacheInv, BeginModule PROVE CacheInv'
<1>1. pos \in 1..Len(bundle) /\ bundle \in Seq(Module) /\ bundle # <<>>
  <2>1. Len(<<>>) = 0
    BY EmptySeq
  <2> QED BY <2>1 DEF CacheInv, TypeOK, JobOK, BeginModule
<1>2. bundle[pos] \in Module
  BY <1>1, ElementOfSeq
<1>3. /\ target' = bundle[pos] /\ job' = "explore" /\ stack' = <<Frame(bundle[pos], TRUE)>>
      /\ visited' = {bundle[pos].id} /\ frontier' = bundle[pos].friends
      /\ UNCHANGED <<store, cache, bundle, pos, verified, failed>>
  BY DEF BeginModule
<1>4. /\ stack' \in Seq(Frames) /\ stack' # <<>> /\ Len(stack') <= Cardinality(Id) + 1
      /\ stack'[1].new /\ FramesOK' /\ FramesDistinct'
  BY <1>1, <1>2, <1>3, OneFrame, StackBounded
<1>5. TypeOK'
  BY <1>2, <1>3, <1>4, ModuleParts DEF CacheInv, TypeOK
<1>6. IdsMatch' /\ Fresh' /\ StoreClosed' /\ CacheCoherent' /\ CacheLinkedDown'
  BY <1>3 DEF CacheInv, IdsMatch, Fresh, StoreClosed, CacheCoherent, CacheLinkedDown
<1>7. VerifiedClosed'
  BY <1>3 DEF CacheInv, VerifiedClosed, Resolve
<1>8. JobOK'
  BY <1>1, <1>2, <1>3 DEF JobOK
<1>9. TargetLinks'
  BY <1>4 DEF TargetLinks
<1> QED BY <1>4, <1>5, <1>6, <1>7, <1>8, <1>9 DEF CacheInv

LEMMA LoadCache == ASSUME CacheInv, NEW i \in Id, Load(i) PROVE CacheInv'
<1>1. store[i] \in Module /\ store[i].id = i
  BY DEF CacheInv, TypeOK, IdsMatch, Load
<1>2. /\ bundle' = <<>> /\ pos' = 0 /\ verified' = [j \in Id |-> None]
      /\ target' = store[i] /\ job' = "explore" /\ stack' = <<Frame(store[i], FALSE)>>
      /\ visited' = {i} /\ frontier' = store[i].friends
      /\ UNCHANGED <<store, cache, failed>>
  BY DEF Load
<1>3. <<>> \in Seq(Module) /\ Len(<<>>) = 0
  BY EmptySeq
<1>4. /\ stack' \in Seq(Frames) /\ stack' # <<>> /\ Len(stack') <= Cardinality(Id) + 1
      /\ FramesOK' /\ FramesDistinct'
  BY <1>1, <1>2, OneFrame, StackBounded
<1>5. TypeOK'
  <2>1. bundle' \in Seq(Module) /\ pos' \in 0..Len(bundle')
    BY <1>2, <1>3
  <2>2. target' \in Module /\ visited' \subseteq Id /\ frontier' \subseteq Id
    BY <1>1, <1>2, ModuleParts
  <2>3. verified' \in [Id -> Module \cup {None}]
    BY <1>2
  <2> QED BY <1>2, <1>4, <2>1, <2>2, <2>3 DEF CacheInv, TypeOK
<1>6. /\ IdsMatch' /\ Fresh' /\ StoreClosed' /\ VerifiedClosed' /\ CacheCoherent'
      /\ CacheLinkedDown' /\ JobOK' /\ TargetLinks'
  BY <1>1, <1>2, <1>3 DEF CacheInv, IdsMatch, Fresh, StoreClosed, VerifiedClosed, CacheCoherent,
                          CacheLinkedDown, JobOK, TargetLinks
<1> QED BY <1>4, <1>5, <1>6 DEF CacheInv

\* The dependency of the top frame is known: nothing is left to do about it.
LEMMA TickCache ==
    ASSUME CacheInv, NEW d, Exploring, d \in Top.todo, Resolve(d) # None,
           stack' = [stack EXCEPT ![Len(stack)].todo = @ \ {d}],
           UNCHANGED <<store, cache, job, bundle, pos, verified, target, visited, frontier, failed>>
    PROVE  CacheInv'
<1> DEFINE N == Len(stack)
<1>1. stack \in Seq(Frames) /\ stack # <<>> /\ N \in Nat /\ N >= 1
  BY PopIs DEF CacheInv, TypeOK, Exploring
<1>2. /\ stack' \in Seq(Frames) /\ Len(stack') = N /\ stack' # <<>>
      /\ \A n \in 1..N : /\ stack'[n].mod = stack[n].mod /\ stack'[n].new = stack[n].new
                         /\ n # N => stack'[n] = stack[n]
      /\ stack'[N].todo = stack[N].todo \ {d}
  BY <1>1, TickStack
<1> HIDE DEF N
<1>3. \A e : Resolve(e)' = Resolve(e)
  BY DEF Resolve
<1>4. TypeOK'
  BY <1>2 DEF CacheInv, TypeOK, N
<1>5. /\ IdsMatch' /\ Fresh' /\ StoreClosed' /\ CacheCoherent' /\ CacheLinkedDown'
  BY DEF CacheInv, IdsMatch, Fresh, StoreClosed, CacheCoherent, CacheLinkedDown
<1>6. VerifiedClosed'
  BY <1>3 DEF CacheInv, VerifiedClosed
<1>7. JobOK'
  BY DEF CacheInv, JobOK, Exploring
<1>8. FramesDistinct'
  BY <1>2 DEF CacheInv, FramesDistinct, N
<1>9. FramesOK'
  <2> SUFFICES ASSUME NEW n \in 1..N PROVE FrameOK(n)'
    BY <1>2 DEF FramesOK
  <2>1. FrameOK(n)
    BY DEF CacheInv, FramesOK, N
  <2>2. CASE n # N
    <3>1. stack'[n] = stack[n]
      BY <1>2, <2>2
    <3> QED BY <1>3, <2>1, <3>1 DEF FrameOK
  <2>3. CASE n = N
    <3>1. /\ stack'[n].mod = stack[n].mod /\ stack'[n].new = stack[n].new
          /\ stack'[n].todo = stack[n].todo \ {d}
      BY <1>2, <2>3
    <3> QED BY <1>3, <2>1, <3>1 DEF FrameOK
  <2> QED BY <2>2, <2>3
<1>10. TargetLinks'
  <2>1. stack'[1].new = stack[1].new
    BY <1>1, <1>2 DEF N
  <2> QED BY <1>1, <1>2, <1>3, <2>1 DEF CacheInv, TargetLinks
<1> QED BY <1>4, <1>5, <1>6, <1>7, <1>8, <1>9, <1>10 DEF CacheInv

\* A stored dependency that was not met yet is explored first.
LEMMA PushCache ==
    ASSUME CacheInv, NEW d \in Id, Exploring, d \notin visited, store[d] # None,
           stack' = Append(stack, Frame(store[d], FALSE)),
           visited' = visited \cup {d}, frontier' = frontier \cup store[d].friends,
           UNCHANGED <<store, cache, job, bundle, pos, verified, target, failed>>
    PROVE  CacheInv'
<1> DEFINE N == Len(stack)
           f == Frame(store[d], FALSE)
<1>1. stack \in Seq(Frames) /\ stack # <<>> /\ N \in Nat /\ N >= 1
  BY PopIs DEF CacheInv, TypeOK, Exploring
<1>2. store[d] \in Module /\ store[d].id = d
  BY DEF CacheInv, TypeOK, IdsMatch
<1>3. f \in Frames /\ f.mod = store[d] /\ f.todo = store[d].deps /\ f.new = FALSE
  BY <1>2, FrameIs
<1>4. stack' = Append(stack, f)
  OBVIOUS
<1> HIDE DEF f
<1>5. /\ stack' \in Seq(Frames) /\ Len(stack') = N + 1 /\ stack' # <<>>
      /\ \A n \in 1..N : stack'[n] = stack[n]
      /\ stack'[N + 1] = f
  <2>1. /\ Append(stack, f) \in Seq(Frames) /\ Len(Append(stack, f)) = Len(stack) + 1
        /\ \A n \in 1..Len(stack) : Append(stack, f)[n] = stack[n]
        /\ Append(stack, f)[Len(stack) + 1] = f /\ Append(stack, f) # <<>>
    BY <1>1, <1>3, PushIs
  <2> QED BY <1>4, <2>1
<1>6. \A e : Resolve(e)' = Resolve(e)
  BY DEF Resolve
<1>7. TypeOK'
  <2>1. Len(stack') <= Cardinality(Id) + 1
    BY <1>5, StackBounded
  <2>2. visited' \subseteq Id /\ frontier' \subseteq Id
    BY <1>2, ModuleParts DEF CacheInv, TypeOK
  <2> QED BY <1>5, <2>1, <2>2 DEF CacheInv, TypeOK
<1> HIDE DEF N
<1>8. /\ IdsMatch' /\ Fresh' /\ StoreClosed' /\ CacheCoherent' /\ CacheLinkedDown'
  BY DEF CacheInv, IdsMatch, Fresh, StoreClosed, CacheCoherent, CacheLinkedDown
<1>9. VerifiedClosed'
  BY <1>6 DEF CacheInv, VerifiedClosed
<1>10. JobOK'
  BY DEF CacheInv, JobOK, Exploring
<1>11. \A n \in 1..N : FrameOK(n) /\ stack[n].mod.id \in visited /\ stack[n].mod.id # d
  BY DEF CacheInv, FramesOK, FrameOK, N
<1>12. \A n \in 1..(N + 1) : n \in 1..N \/ n = N + 1
  BY <1>1 DEF N
<1>13. FramesDistinct'
  <2>1. \A n, k \in 1..N : stack'[n].mod.id = stack'[k].mod.id => n = k
    BY <1>5 DEF CacheInv, FramesDistinct, N
  <2>2. stack'[N + 1].mod.id = d /\ \A n \in 1..N : stack'[n].mod.id # d
    BY <1>2, <1>3, <1>5, <1>11
  <2>3. ASSUME NEW n \in 1..(N + 1), NEW k \in 1..(N + 1), stack'[n].mod.id = stack'[k].mod.id
        PROVE  n = k
    BY <1>12, <2>1, <2>2, <2>3
  <2> QED BY <1>5, <2>3 DEF FramesDistinct
<1>14. FramesOK'
  <2> SUFFICES ASSUME NEW n \in 1..(N + 1) PROVE FrameOK(n)'
    BY <1>5 DEF FramesOK
  <2>1. CASE n \in 1..N
    <3>1. stack'[n] = stack[n] /\ FrameOK(n)
      BY <1>5, <1>11, <2>1
    <3> QED BY <1>6, <3>1 DEF FrameOK
  <2>2. CASE n = N + 1
    <3>1. stack'[n] = f /\ f.mod.id \in visited' /\ store'[f.mod.id] = f.mod
      BY <1>2, <1>3, <1>5, <2>2
    <3> QED BY <1>3, <3>1 DEF FrameOK
  <2> QED BY <1>12, <2>1, <2>2
<1>15. TargetLinks'
  <2>1. stack'[1].new = stack[1].new
    BY <1>1, <1>5 DEF N
  <2> QED BY <1>1, <1>5, <1>6, <2>1 DEF CacheInv, TargetLinks
<1> QED BY <1>7, <1>8, <1>9, <1>10, <1>13, <1>14, <1>15 DEF CacheInv

LEMMA DependencyCache == ASSUME CacheInv, NEW d \in Id, Dependency(d) PROVE CacheInv'
<1>1. CASE Resolve(d) # None
  BY <1>1, TickCache DEF Dependency
<1>2. CASE Resolve(d) = None /\ (d \in visited \/ store[d] = None)
  BY <1>2, FailJobCache DEF Dependency, Exploring
<1>3. CASE Resolve(d) = None /\ ~(d \in visited \/ store[d] = None)
  BY <1>3, PushCache DEF Dependency
<1> QED BY <1>1, <1>2, <1>3

\* The frame below the top one goes on where it was.
LEMMA PopCache ==
    ASSUME CacheInv, Exploring, stack' = Pop,
           UNCHANGED <<store, job, bundle, pos, verified, target, visited, frontier, failed>>,
           cache' \in [Id -> Module \cup {None}],
           \A e \in Id : cache[e] # None => cache'[e] = cache[e],
           CacheCoherent', CacheLinkedDown',
           ~Top.new \/ \A d \in Top.mod.deps : Resolve(d) # None /\ Links(Top.mod, Resolve(d))
    PROVE  CacheInv'
<1> DEFINE N == Len(stack)
<1>1. /\ stack \in Seq(Frames) /\ stack # <<>> /\ N \in Nat /\ N >= 1
      /\ stack' \in Seq(Frames) /\ Len(stack') = N - 1
      /\ \A n \in 1..(N - 1) : stack'[n] = stack[n]
      /\ (N = 1 => stack' = <<>>) /\ (N > 1 => stack' # <<>>)
  BY PopIs DEF CacheInv, TypeOK, Exploring, Pop
<1>2. \A n \in 1..N : FrameOK(n) /\ stack[n] \in Frames
  BY <1>1, ElementOfSeq DEF CacheInv, FramesOK
<1>3. \A e \in Id : Resolve(e) # None => Resolve(e)' = Resolve(e)
  BY DEF Resolve
<1>4. TypeOK'
  <2>1. Len(stack') <= Cardinality(Id) + 1
    BY <1>1, StackBounded
  <2> QED BY <1>1, <2>1 DEF CacheInv, TypeOK
<1>5. IdsMatch' /\ Fresh' /\ StoreClosed'
  BY DEF CacheInv, IdsMatch, Fresh, StoreClosed
<1>6. VerifiedClosed'
  <2> SUFFICES ASSUME NEW i \in Id, verified[i] # None, NEW d \in verified[i].deps
               PROVE  Resolve(d)' # None
    BY DEF VerifiedClosed
  <2>1. verified[i] \in Module
    BY DEF CacheInv, TypeOK
  <2>2. d \in Id /\ Resolve(d) # None
    BY <2>1, ModuleParts DEF CacheInv, VerifiedClosed
  <2> QED BY <1>3, <2>2
<1>7. JobOK'
  BY DEF CacheInv, JobOK, Exploring
<1> HIDE DEF N
<1>8. \A n \in 1..(N - 1) : n \in 1..N
  BY <1>1
<1>9. FramesDistinct'
  BY <1>1, <1>8 DEF CacheInv, FramesDistinct, N
<1>10. FramesOK'
  <2> SUFFICES ASSUME NEW n \in 1..(N - 1) PROVE FrameOK(n)'
    BY <1>1 DEF FramesOK
  <2>1. stack'[n] = stack[n] /\ FrameOK(n) /\ stack[n] \in Frames
    BY <1>1, <1>2, <1>8
  <2>2. stack[n].mod \in Module
    BY <2>1 DEF Frames
  <2>3. stack[n].mod.deps \subseteq Id
    BY <2>2, ModuleParts
  <2>4. \A d \in stack[n].mod.deps \ stack[n].todo : Resolve(d)' # None
    BY <1>3, <2>1, <2>3 DEF FrameOK
  <2> QED BY <2>1, <2>4 DEF FrameOK
<1>11. TargetLinks'
  <2> SUFFICES ASSUME job = "explore", bundle # <<>>, ~(stack' # <<>> /\ stack'[1].new)
               PROVE  \A d \in target.deps : Resolve(d)' # None /\ Links(target, Resolve(d)')
    BY DEF TargetLinks
  <2>1. \A d \in target.deps : Resolve(d) # None /\ Links(target, Resolve(d))
    <3>1. CASE stack[1].new
      <4>1. N = 1
        BY <1>1, <3>1
      <4>2. Top = stack[1] /\ FrameOK(1)
        BY <1>2, <4>1 DEF Top, N
      <4> QED BY <3>1, <4>2 DEF FrameOK
    <3>2. CASE ~stack[1].new
      BY <3>2 DEF CacheInv, TargetLinks
    <3> QED BY <3>1, <3>2
  <2>2. target \in Module
    BY DEF CacheInv, JobOK
  <2>3. target.deps \subseteq Id
    BY <2>2, ModuleParts
  <2> QED BY <1>3, <2>1, <2>3
<1> QED BY <1>4, <1>5, <1>6, <1>7, <1>9, <1>10, <1>11 DEF CacheInv

LEMMA LinkCache == ASSUME CacheInv, Link PROVE CacheInv'
<1>1. CASE ~LinkOk(Top.mod)
  BY <1>1, FailJobCache DEF Link, Exploring
<1>2. CASE LinkOk(Top.mod)
  <2> DEFINE m == Top.mod
  <2>1. /\ Exploring /\ Top.todo = {} /\ cache' = CacheLinked(m, Top.new) /\ stack' = Pop
        /\ UNCHANGED <<store, job, bundle, pos, verified, target, visited, frontier, failed>>
    BY <1>2 DEF Link
  <2>2. Len(stack) \in 1..Len(stack) /\ Top \in Frames
    BY <2>1, PopIs DEF CacheInv, TypeOK, Exploring, Top
  <2>3. m \in Module /\ Top.new \in BOOLEAN /\ FrameOK(Len(stack))
    BY <2>2 DEF CacheInv, FramesOK, Frames
  <2>4. /\ m.id \in Id /\ m.deps \subseteq Id /\ m # None
    BY <2>3, ModuleParts
  <2>5. \A d \in m.deps : Resolve(d) # None /\ Links(m, Resolve(d))
    BY <1>2, <2>1, <2>3 DEF LinkOk, FrameOK, Top
  <2>6. CASE Top.new
    <3>1. cache' = cache
      BY <2>1, <2>6 DEF CacheLinked
    <3>2. CacheCoherent' /\ CacheLinkedDown' /\ cache' \in [Id -> Module \cup {None}]
      BY <2>1, <3>1 DEF CacheInv, CacheCoherent, CacheLinkedDown, TypeOK
    <3> QED BY <2>1, <2>5, <3>1, <3>2, PopCache
  <2>7. CASE ~Top.new
    <3>1. cache' = [cache EXCEPT ![m.id] = m] /\ store[m.id] = m
      BY <2>1, <2>3, <2>7 DEF CacheLinked, FrameOK, Top
    <3> HIDE DEF m
    <3>2. cache \in [Id -> Module \cup {None}] /\ CacheCoherent /\ CacheLinkedDown
      BY DEF CacheInv, TypeOK
    <3>3. /\ cache' \in [Id -> Module \cup {None}] /\ cache'[m.id] = m
          /\ \A e \in Id : e # m.id => cache'[e] = cache[e]
      BY <2>3, <2>4, <3>1, <3>2
    <3>4. \A e \in Id : cache[e] # None => cache'[e] = cache[e]
      BY <3>1, <3>2, <3>3 DEF CacheCoherent
    <3>5. CacheCoherent'
      BY <2>1, <3>1, <3>2, <3>3 DEF CacheCoherent
    <3>6. CacheLinkedDown'
      <4> SUFFICES ASSUME NEW i \in Id, cache'[i] # None, NEW d \in cache'[i].deps
                   PROVE  cache'[d] # None /\ Links(cache'[i], cache'[d])
        BY DEF CacheLinkedDown
      <4>1. CASE i = m.id
        <5>1. d \in m.deps /\ d \in Id /\ store[d] # None
          BY <2>4, <3>1, <3>3, <4>1 DEF CacheInv, StoreClosed
        <5>2. verified[d] = None
          BY <5>1 DEF CacheInv, Fresh
        <5>3. Resolve(d) = cache[d] /\ cache[d] # None /\ Links(m, cache[d])
          BY <2>5, <5>1, <5>2 DEF Resolve
        <5> QED BY <3>3, <3>4, <4>1, <5>1, <5>3
      <4>2. CASE i # m.id
        <5>1. cache'[i] = cache[i] /\ cache[i] \in Module
          BY <3>2, <3>3, <4>2
        <5>2. d \in Id /\ cache[d] # None /\ Links(cache[i], cache[d])
          BY <3>2, <5>1, ModuleParts DEF CacheLinkedDown
        <5> QED BY <3>4, <5>1, <5>2
      <4> QED BY <4>1, <4>2
    <3> QED BY <2>1, <2>7, <3>3, <3>4, <3>5, <3>6, PopCache
  <2> QED BY <2>3, <2>6, <2>7
<1> QED BY <1>1, <1>2

LEMMA FriendCache == ASSUME CacheInv, NEW f \in Id, Friend(f) PROVE CacheInv'
<1>1. CASE store[f] = None
  BY <1>1, FailJobCache DEF Friend
<1>2. CASE store[f] # None
  <2>1. /\ job = "explore" /\ stack = <<>> /\ stack' = <<Frame(store[f], FALSE)>> /\ visited' = {f}
        /\ frontier' = frontier \cup store[f].friends
        /\ UNCHANGED <<store, cache, job, bundle, pos, verified, target, failed>>
    BY <1>2 DEF Friend
  <2>2. store[f] \in Module /\ store[f].id = f
    BY <1>2 DEF CacheInv, TypeOK, IdsMatch
  <2>3. /\ stack' \in Seq(Frames) /\ Len(stack') <= Cardinality(Id) + 1
        /\ FramesOK' /\ FramesDistinct'
    BY <2>1, <2>2, OneFrame, StackBounded
  <2>4. TypeOK'
    BY <2>1, <2>2, <2>3, ModuleParts DEF CacheInv, TypeOK
  <2>5. /\ IdsMatch' /\ Fresh' /\ StoreClosed' /\ CacheCoherent' /\ CacheLinkedDown' /\ JobOK'
    BY <2>1 DEF CacheInv, IdsMatch, Fresh, StoreClosed, CacheCoherent, CacheLinkedDown, JobOK
  <2>6. VerifiedClosed' /\ TargetLinks'
    BY <2>1 DEF CacheInv, VerifiedClosed, TargetLinks, Resolve
  <2> QED BY <2>3, <2>4, <2>5, <2>6 DEF CacheInv
<1> QED BY <1>1, <1>2

\* What the check of one module of a bundle leaves behind.
LEMMA PassedIs ==
    ASSUME CacheInv, job = "explore", stack = <<>>, bundle # <<>>,
           verified' = [verified EXCEPT ![target.id] = target],
           UNCHANGED cache
    PROVE  /\ pos \in 1..Len(bundle) /\ target = bundle[pos] /\ target \in Module
           /\ target.id \in Id /\ store[target.id] = None
           /\ verified' \in [Id -> Module \cup {None}] /\ verified'[target.id] = target
           /\ \A e \in Id : e # target.id => verified'[e] = verified[e] /\ Resolve(e)' = Resolve(e)
           /\ \A d \in target.deps : Resolve(d) # None /\ Links(target, Resolve(d))
<1>1. pos \in 1..Len(bundle) /\ target = bundle[pos] /\ target \in Module
  BY DEF CacheInv, JobOK
<1>2. target.id \in Id
  BY <1>1, ModuleParts
<1>3. store[target.id] = None
  BY <1>1 DEF CacheInv, Fresh
<1>4. verified \in [Id -> Module \cup {None}]
  BY DEF CacheInv, TypeOK
<1>5. /\ verified' \in [Id -> Module \cup {None}] /\ verified'[target.id] = target
      /\ \A e \in Id : e # target.id => verified'[e] = verified[e]
  BY <1>1, <1>2, <1>4
<1>6. \A e \in Id : e # target.id => Resolve(e)' = Resolve(e)
  BY <1>5 DEF Resolve
<1>7. \A d \in target.deps : Resolve(d) # None /\ Links(target, Resolve(d))
  BY DEF CacheInv, TargetLinks
<1> QED BY <1>1, <1>2, <1>3, <1>5, <1>6, <1>7

LEMMA CyclesCache == ASSUME CacheInv, Cycles PROVE CacheInv'
<1>1. CASE ~RelationsOk(target)
  BY <1>1, FailJobCache DEF Cycles
<1>2. CASE RelationsOk(target) /\ bundle = <<>>
  <2>1. Idle /\ UNCHANGED <<store, cache, failed>>
    BY <1>2 DEF Cycles
  <2>2. failed' \subseteq Id
    BY <2>1 DEF CacheInv, TypeOK
  <2> QED BY <2>1, <2>2, IdleCache
<1>3. CASE RelationsOk(target) /\ bundle # <<>>
  <2>1. /\ job = "explore" /\ stack = <<>>
        /\ verified' = [verified EXCEPT ![target.id] = target]
        /\ UNCHANGED <<store, cache, bundle, target, stack, visited, frontier, failed>>
        /\ IF More THEN pos' = pos + 1 /\ job' = "begin" ELSE job' = "publish" /\ UNCHANGED pos
    BY <1>3 DEF Cycles
  <2>2. /\ pos \in 1..Len(bundle) /\ target \in Module /\ target = bundle[pos]
        /\ target.id \in Id /\ store[target.id] = None
        /\ verified' \in [Id -> Module \cup {None}] /\ verified'[target.id] = target
        /\ \A e \in Id : e # target.id => verified'[e] = verified[e] /\ Resolve(e)' = Resolve(e)
        /\ \A d \in target.deps : Resolve(d) # None /\ Links(target, Resolve(d))
    BY <1>3, <2>1, PassedIs
  <2>3. target # None /\ \A e \in Id : e = target.id => Resolve(e)' = target
    BY <2>2, ModuleParts DEF Resolve
  <2>4. /\ pos' \in 1..Len(bundle) /\ job' \in {"begin", "publish"} /\ bundle' \in Seq(Module)
    <3>1. Len(bundle) \in Nat /\ bundle \in Seq(Module)
      BY DEF CacheInv, TypeOK
    <3> QED BY <2>1, <2>2, <3>1 DEF More
  <2>5. TypeOK'
    BY <2>1, <2>2, <2>4 DEF CacheInv, TypeOK
  <2>6. IdsMatch' /\ Fresh'
    BY <2>1, <2>2 DEF CacheInv, IdsMatch, Fresh
  <2>7. JobOK' /\ TargetLinks'
    BY <2>1, <2>4 DEF JobOK, TargetLinks
  <2>8. StoreClosed' /\ CacheCoherent' /\ CacheLinkedDown'
    BY <2>1 DEF CacheInv, StoreClosed, CacheCoherent, CacheLinkedDown
  <2>9. VerifiedClosed'
    <3> SUFFICES ASSUME NEW i \in Id, verified'[i] # None, NEW d \in verified'[i].deps
                 PROVE  Resolve(d)' # None
      BY DEF VerifiedClosed
    <3>1. verified'[i] \in Module
      BY <2>2
    <3>2. d \in Id
      BY <3>1, ModuleParts
    <3>3. Resolve(d) # None
      BY <2>2 DEF CacheInv, VerifiedClosed
    <3> QED BY <2>2, <2>3, <3>2, <3>3
  <2>10. FramesOK' /\ FramesDistinct'
    BY <2>1, EmptySeq DEF FramesOK, FramesDistinct
  <2> QED BY <2>5, <2>6, <2>7, <2>8, <2>9, <2>10 DEF CacheInv
<1> QED BY <1>1, <1>2, <1>3

LEMMA PublishCache == ASSUME CacheInv, Publish PROVE CacheInv'
<1>1. /\ job = "publish" /\ Idle /\ UNCHANGED <<cache, failed>>
      /\ store' = [i \in Id |-> IF verified[i] # None THEN verified[i] ELSE store[i]]
  BY DEF Publish
<1>2. Len(<<>>) = 0 /\ Cardinality(Id) \in Nat /\ <<>> \in Seq(Module) /\ <<>> \in Seq(Frames)
  BY StackBounded, EmptySeq
<1>3. TypeOK'
  <2>1. store' \in [Id -> Module \cup {None}]
    BY <1>1 DEF CacheInv, TypeOK
  <2> QED BY <1>1, <1>2, <2>1 DEF CacheInv, TypeOK, Idle
<1>4. IdsMatch' /\ JobOK' /\ Fresh' /\ VerifiedClosed'
  BY <1>1, <1>2 DEF CacheInv, Idle, IdsMatch, JobOK, Fresh, VerifiedClosed
<1>5. FramesOK' /\ FramesDistinct' /\ TargetLinks'
  BY <1>1, <1>2 DEF Idle, FramesOK, FramesDistinct, TargetLinks
<1>6. \A i \in Id : store[i] # None => store'[i] = store[i]
  BY <1>1 DEF CacheInv, Fresh
<1>7. CacheCoherent' /\ CacheLinkedDown'
  BY <1>1, <1>6 DEF CacheInv, CacheCoherent, CacheLinkedDown
<1>8. \A i \in Id : Resolve(i) # None => store'[i] # None
  BY <1>1 DEF CacheInv, CacheCoherent, Resolve
<1>9. StoreClosed'
  <2> SUFFICES ASSUME NEW i \in Id, store'[i] # None, NEW d \in store'[i].deps
               PROVE  store'[d] # None
    BY DEF StoreClosed
  <2>1. store'[i] \in Module
    BY <1>3 DEF TypeOK
  <2>2. d \in Id
    BY <2>1, ModuleParts
  <2>3. CASE verified[i] # None
    BY <1>1, <1>8, <2>2, <2>3 DEF CacheInv, VerifiedClosed
  <2>4. CASE verified[i] = None
    BY <1>1, <1>6, <2>2, <2>4 DEF CacheInv, StoreClosed
  <2> QED BY <2>3, <2>4
<1> QED BY <1>3, <1>4, <1>5, <1>7, <1>9 DEF CacheInv

LEMMA DiscardCache == ASSUME CacheInv, Discard PROVE CacheInv'
<1>1. failed' \subseteq Id
  BY DEF Discard, CacheInv, TypeOK
<1> QED BY <1>1, IdleCache DEF Discard

LEMMA ClearCache == ASSUME CacheInv, Clear PROVE CacheInv'
<1>1. /\ job = "idle" /\ cache' = [i \in Id |-> None]
      /\ UNCHANGED <<store, job, bundle, pos, verified, target, stack, visited, frontier, failed>>
  BY DEF Clear, work
<1>2. stack = <<>> /\ Len(<<>>) = 0 /\ \A i \in Id : verified[i] = None
  BY <1>1, EmptySeq DEF CacheInv, JobOK
<1>3. TypeOK'
  BY <1>1 DEF CacheInv, TypeOK
<1>4. IdsMatch' /\ JobOK' /\ Fresh' /\ VerifiedClosed' /\ StoreClosed' /\ CacheCoherent'
      /\ CacheLinkedDown'
  BY <1>1, <1>2 DEF CacheInv, IdsMatch, JobOK, Fresh, VerifiedClosed, StoreClosed, CacheCoherent,
                    CacheLinkedDown
<1>5. FramesOK' /\ FramesDistinct' /\ TargetLinks'
  BY <1>1, <1>2 DEF FramesOK, FramesDistinct, TargetLinks
<1> QED BY <1>3, <1>4, <1>5 DEF CacheInv

LEMMA StutterCache == ASSUME CacheInv, UNCHANGED vars PROVE CacheInv'
<1>1. UNCHANGED <<store, cache, job, bundle, pos, verified, target, stack, visited, frontier, failed>>
  BY DEF vars, work
<1> QED BY <1>1 DEF CacheInv, TypeOK, IdsMatch, JobOK, Fresh, VerifiedClosed, StoreClosed,
                   CacheCoherent, CacheLinkedDown, FramesOK, FrameOK, FramesDistinct, TargetLinks,
                   Resolve

LEMMA NextCacheInv == ASSUME CacheInv, [Next]_vars PROVE CacheInv'
<1>1. CASE \E b \in Bundles : SubmitBundle(b)
  BY <1>1, SubmitCache
<1>2. CASE \E i \in Id : Load(i) \/ Dependency(i) \/ Friend(i)
  BY <1>2, LoadCache, DependencyCache, FriendCache
<1>3. CASE BeginModule
  BY <1>3, BeginCache
<1>4. CASE RejectModule
  BY <1>4, FailJobCache DEF RejectModule
<1>5. CASE Link
  BY <1>5, LinkCache
<1>6. CASE Cycles
  BY <1>6, CyclesCache
<1>7. CASE Publish
  BY <1>7, PublishCache
<1>8. CASE Discard
  BY <1>8, DiscardCache
<1>9. CASE Clear
  BY <1>9, ClearCache
<1>10. CASE UNCHANGED vars
  BY <1>10, StutterCache
<1> QED BY <1>1, <1>2, <1>3, <1>4, <1>5, <1>6, <1>7, <1>8, <1>9, <1>10 DEF Next

\* Whatever bundles are submitted, in whatever order loads, publications, failures and
\* resets of the cache come: at every moment the code cache (loader.rs, ModuleCache) is
\* equal to storage where it holds a module, holds the dependencies of what it holds, and
\* every module in it links to them; the exploration never has more frames than modules.
THEOREM CacheCorrect == Spec => []CacheSound
<1>1. Init => CacheInv
  BY InitCacheInv
<1>2. CacheInv /\ [Next]_vars => CacheInv'
  BY NextCacheInv
<1>3. CacheInv => CacheSound
  BY DEF CacheInv, CacheSound
<1> QED BY <1>1, <1>2, <1>3, PTL DEF Spec

-----------------------------------------------------------------------------
(* Reachability and certificates.                                          *)

LEMMA ReachStart ==
    ASSUME NEW start \in SUBSET Id, NEW next PROVE start \subseteq Reach(start, next)
BY DEF Reach

LEMMA ReachClosed ==
    ASSUME NEW start, NEW next \in [Id -> SUBSET Id], NEW y \in Reach(start, next)
    PROVE  y \in Id /\ next[y] \subseteq Reach(start, next)
<1>1. y \in Id
  BY DEF Reach
<1>2. next[y] \subseteq Id
  BY <1>1
<1>3. ASSUME NEW x \in next[y], NEW S \in SUBSET Id, start \subseteq S, \A z \in S : next[z] \subseteq S
      PROVE  x \in S
  <2>1. y \in S
    BY <1>3 DEF Reach
  <2> QED BY <1>3, <2>1
<1> QED BY <1>1, <1>2, <1>3 DEF Reach

LEMMA ReachLeast ==
    ASSUME NEW start, NEW next, NEW S \in SUBSET Id, start \subseteq S,
           \A y \in S : next[y] \subseteq S
    PROVE  Reach(start, next) \subseteq S
BY DEF Reach

LEMMA TablesOfIds ==
    ASSUME NEW lookup \in [Id -> Module \cup {None}], NEW skip
    PROVE  DepsIn(lookup) \in [Id -> SUBSET Id] /\ FriendsIn(lookup, skip) \in [Id -> SUBSET Id]
<1>1. \A d \in Id : lookup[d] # None => lookup[d].deps \in SUBSET Id /\ lookup[d].friends \in SUBSET Id
  BY ModuleParts
<1>2. DepsIn(lookup) \in [Id -> SUBSET Id]
  BY <1>1 DEF DepsIn
<1>3. FriendsIn(lookup, skip) \in [Id -> SUBSET Id]
  BY <1>1 DEF FriendsIn
<1> QED BY <1>2, <1>3

\* A certificate stays good while modules are only added.
LEMMA GroundedStable ==
    ASSUME NEW m, NEW old, NEW new, \A y \in Id : old[y] # None => new[y] = old[y],
           Grounded(m, old)
    PROVE  Grounded(m, new)
BY DEF Grounded

\* What NoCycle finds out about a module.
LEMMA NoCycleGives ==
    ASSUME NEW m \in Module, NEW lookup \in [Id -> Module \cup {None}], NEW skip,
           NoCycle(m, lookup, skip)
    PROVE  /\ Grounded(m, lookup)
           /\ \A f \in m.friends : f \notin m.deps /\ (f \in skip \/ lookup[f] # None)
<1> DEFINE dn == DepsIn(lookup)
           fn == FriendsIn(lookup, skip)
           D  == Reach(m.deps, dn)
           F  == Reach(m.friends, fn)
<1>1. m.deps \in SUBSET Id /\ m.friends \in SUBSET Id
  BY ModuleParts
<1>2. dn \in [Id -> SUBSET Id]
  BY TablesOfIds
<1>3. /\ m.id \notin D \cup F /\ \A d \in D : lookup[d] # None
      /\ \A f \in F \ skip : lookup[f] # None
  BY DEF NoCycle
<1>4. D \cap F = {}
  BY DEF NoCycle
<1>5. \A d \in Id : lookup[d] # None => dn[d] = lookup[d].deps
  BY DEF DepsIn
<1> HIDE DEF dn, fn
<1>6. m.deps \subseteq D /\ m.friends \subseteq F
  BY <1>1, ReachStart
<1>7. \A y \in D : y \in Id /\ dn[y] \subseteq D
  BY <1>2, ReachClosed
<1> HIDE DEF D, F
<1>8. D \in SUBSET Id
  BY <1>7
<1>9. Grounded(m, lookup)
  BY <1>3, <1>5, <1>6, <1>7, <1>8 DEF Grounded
<1> QED BY <1>3, <1>4, <1>6, <1>9

-----------------------------------------------------------------------------
(* StoreInv.                                                               *)

\* Steps that only explore: the tables of modules stay, the cache grows.
LEMMA ExploreStore ==
    ASSUME StoreInv, CacheInv', UNCHANGED <<store, bundle, verified>>,
           Checked' = Checked, job' # "publish" \/ UNCHANGED <<job, pos>>,
           \A e \in Id : cache[e] # None => cache'[e] = cache[e]
    PROVE  StoreInv'
<1>1. \A e \in Id : Resolve(e) # None => Resolve(e)' = Resolve(e)
  BY DEF Resolve
<1>2. \A e \in Id : Known[e] = Resolve(e) /\ (Known')[e] = Resolve(e)'
  BY DEF Known
<1>3. BundleOK'
  BY DEF StoreInv, BundleOK
<1>4. Pending' = Pending
  BY DEF Pending
<1>5. VerifiedOK'
  <2> SUFFICES ASSUME NEW i \in Id, verified[i] # None
               PROVE  /\ Grounded(verified[i], Known')
                      /\ \A d \in verified[i].deps : Links(verified[i], Resolve(d)')
                      /\ \A f \in verified[i].friends :
                            f \notin verified[i].deps /\ (Resolve(f)' # None \/ f \in Pending)
    BY <1>4 DEF VerifiedOK
  <2>1. verified[i] \in Module
    BY DEF StoreInv, CacheInv, TypeOK
  <2>2. verified[i].deps \subseteq Id /\ verified[i].friends \subseteq Id
    BY <2>1, ModuleParts
  <2>3. Grounded(verified[i], Known) 
    BY DEF StoreInv, VerifiedOK
  <2>4. Grounded(verified[i], Known')
    BY <1>1, <1>2, <2>3, GroundedStable
  <2>5. \A d \in verified[i].deps : Resolve(d) # None /\ Links(verified[i], Resolve(d))
    BY DEF StoreInv, CacheInv, VerifiedOK, VerifiedClosed
  <2>6. \A f \in verified[i].friends :
            f \notin verified[i].deps /\ (Resolve(f) # None \/ f \in Pending)
    BY DEF StoreInv, VerifiedOK
  <2> QED BY <1>1, <2>2, <2>4, <2>5, <2>6
<1>6. StoreLinks' /\ StoreOK'
  BY DEF StoreInv, StoreLinks, StoreOK
<1> QED BY <1>3, <1>5, <1>6 DEF StoreInv, DistinctIds, FriendsRelated

\* Steps that begin or end a job without publishing.
LEMMA BetweenStore ==
    ASSUME StoreInv, CacheInv', UNCHANGED store, \A i \in Id : verified'[i] = None,
           job' # "publish", bundle' = <<>> \/ bundle' \in Bundles
    PROVE  StoreInv'
<1>1. BundleOK'
  <2>1. \A n, k \in 1..Len(bundle') : bundle'[n].id = bundle'[k].id => n = k
    BY EmptySeq DEF StoreInv, DistinctIds
  <2> QED BY <2>1 DEF BundleOK
<1>2. VerifiedOK'
  BY DEF VerifiedOK
<1>3. StoreLinks' /\ StoreOK'
  BY DEF StoreInv, StoreLinks, StoreOK
<1> QED BY <1>1, <1>2, <1>3 DEF StoreInv, DistinctIds, FriendsRelated

\* A module of the bundle passed: what it was checked against stays.
LEMMA PassedStore ==
    ASSUME StoreInv, CacheInv', Cycles, RelationsOk(target), bundle # <<>>
    PROVE  StoreInv'
<1> DEFINE i0 == target.id
<1>1. /\ job = "explore" /\ stack = <<>>
      /\ verified' = [verified EXCEPT ![target.id] = target]
      /\ UNCHANGED <<store, cache, bundle, target>>
      /\ IF More THEN pos' = pos + 1 /\ job' = "begin" ELSE job' = "publish" /\ UNCHANGED pos
  BY DEF Cycles
<1>2. CacheInv
  BY DEF StoreInv
<1>3. /\ pos \in 1..Len(bundle) /\ target \in Module /\ target = bundle[pos]
      /\ target.id \in Id /\ store[target.id] = None
      /\ verified' \in [Id -> Module \cup {None}] /\ verified'[target.id] = target
      /\ \A e \in Id : e # target.id => verified'[e] = verified[e] /\ Resolve(e)' = Resolve(e)
      /\ \A d \in target.deps : Resolve(d) # None /\ Links(target, Resolve(d))
  BY <1>1, <1>2, PassedIs
<1>4. target # None /\ \A e \in Id : e = i0 => Resolve(e)' = target
  BY <1>3, ModuleParts DEF Resolve
<1>5. Len(bundle) \in Nat /\ pos \in Nat /\ pos >= 1 /\ pos <= Len(bundle)
  BY <1>2, <1>3 DEF CacheInv, TypeOK
<1>6. Checked = pos - 1 /\ Checked' = pos /\ (job' = "publish" => pos' = Len(bundle))
  BY <1>1, <1>5 DEF Checked, More
<1>7. \A n, k \in 1..Len(bundle) : bundle[n].id = bundle[k].id => n = k
  BY DEF StoreInv, BundleOK
<1>8. Resolve(i0) = None
  <2>1. verified[i0] = None
    <3> SUFFICES ASSUME verified[i0] # None PROVE FALSE
      OBVIOUS
    <3>1. PICK n \in 1..(pos - 1) : bundle[n].id = i0
      BY <1>3, <1>6 DEF StoreInv, BundleOK
    <3>2. n \in 1..Len(bundle) /\ n # pos
      BY <1>5
    <3> QED BY <1>3, <1>7, <3>1, <3>2
  <2>2. cache[i0] = None
    BY <1>2, <1>3 DEF CacheInv, CacheCoherent
  <2> QED BY <2>1, <2>2 DEF Resolve
<1>9. \A e \in Id : Resolve(e) # None => Resolve(e)' = Resolve(e) /\ e # i0
  BY <1>3, <1>8
<1>10. \A e \in Id : Known[e] = Resolve(e) /\ (Known')[e] = Resolve(e)'
  BY DEF Known
<1>11. BundleOK'
  <2>1. ASSUME NEW i \in Id, verified'[i] # None PROVE \E n \in 1..pos : bundle[n].id = i
    <3>1. CASE i = i0
      <4>1. pos \in 1..pos
        BY <1>5
      <4> QED BY <1>3, <3>1, <4>1
    <3>2. CASE i # i0
      <4>1. PICK n \in 1..(pos - 1) : bundle[n].id = i
        BY <1>3, <1>6, <2>1, <3>2 DEF StoreInv, BundleOK
      <4>2. n \in 1..pos
        BY <1>5
      <4> QED BY <4>1, <4>2
    <3> QED BY <3>1, <3>2
  <2> QED BY <1>1, <1>6, <1>7, <2>1 DEF BundleOK
<1>12. \A f \in Pending : f = i0 \/ f \in Pending'
  <2>1. \A n \in (pos - 1 + 1)..Len(bundle) : n = pos \/ n \in (pos + 1)..Len(bundle)
    BY <1>5
  <2> QED BY <1>1, <1>3, <1>6, <2>1 DEF Pending
<1>13. \A f \in Unverified : f \in Pending'
  <2>1. ASSUME NEW f \in Unverified PROVE f \in Pending'
    <3>1. PICK n \in 1..Len(bundle) : f = bundle[n].id
      BY DEF Unverified
    <3>2. n \notin 1..pos
      BY <3>1 DEF Unverified
    <3>3. n \in (pos + 1)..Len(bundle)
      BY <1>5, <3>2
    <3> QED BY <1>1, <1>6, <3>1, <3>3 DEF Pending
  <2> QED BY <2>1
<1>14. VerifiedOK'
  <2> SUFFICES ASSUME NEW i \in Id, verified'[i] # None
               PROVE  /\ Grounded(verified'[i], Known')
                      /\ \A d \in verified'[i].deps : Links(verified'[i], Resolve(d)')
                      /\ \A f \in verified'[i].friends :
                            f \notin verified'[i].deps /\ (Resolve(f)' # None \/ f \in Pending')
    BY DEF VerifiedOK
  <2>1. verified'[i] \in Module
    BY <1>3
  <2>2. verified'[i].deps \subseteq Id /\ verified'[i].friends \subseteq Id
    BY <2>1, ModuleParts
  <2>3. CASE i = i0
    <3>1. verified'[i] = target
      BY <1>3, <2>3
    <3>2. Known \in [Id -> Module \cup {None}]
      BY <1>2 DEF Known, Resolve, CacheInv, TypeOK
    <3>3. /\ Grounded(target, Known)
          /\ \A f \in target.friends : f \notin target.deps /\ (f \in Unverified \/ Known[f] # None)
      BY <1>3, <3>2, NoCycleGives DEF RelationsOk
    <3>4. Grounded(target, Known')
      BY <1>9, <1>10, <3>3, GroundedStable
    <3> QED BY <1>3, <1>9, <1>10, <1>13, <2>2, <3>1, <3>3, <3>4
  <2>4. CASE i # i0
    <3>1. verified'[i] = verified[i]
      BY <1>3, <2>4
    <3>2. Grounded(verified[i], Known)
      BY <3>1 DEF StoreInv, VerifiedOK
    <3>3. Grounded(verified[i], Known')
      BY <1>9, <1>10, <3>2, GroundedStable
    <3>4. \A d \in verified[i].deps : Resolve(d) # None /\ Links(verified[i], Resolve(d))
      BY <3>1 DEF StoreInv, CacheInv, VerifiedOK, VerifiedClosed
    <3>5. \A f \in verified[i].friends :
              f \notin verified[i].deps /\ (Resolve(f) # None \/ f \in Pending)
      BY <3>1 DEF StoreInv, VerifiedOK
    <3> QED BY <1>4, <1>9, <1>12, <2>2, <3>1, <3>3, <3>4, <3>5
  <2> QED BY <2>3, <2>4
<1>15. StoreLinks' /\ StoreOK'
  BY <1>1 DEF StoreInv, StoreLinks, StoreOK
<1> QED BY <1>11, <1>14, <1>15 DEF StoreInv, DistinctIds, FriendsRelated

LEMMA PublishStore == ASSUME StoreInv, CacheInv', Publish PROVE StoreInv'
<1>1. /\ job = "publish" /\ Idle /\ UNCHANGED cache
      /\ store' = [i \in Id |-> IF verified[i] # None THEN verified[i] ELSE store[i]]
  BY DEF Publish
<1>2. CacheInv
  BY DEF StoreInv
<1>3. \A i \in Id : store[i] # None => store'[i] = store[i]
  BY <1>1, <1>2 DEF CacheInv, Fresh
<1>4. \A i \in Id : Resolve(i) # None => store'[i] = Resolve(i)
  BY <1>1, <1>2 DEF CacheInv, CacheCoherent, Resolve
<1>5. BundleOK' /\ VerifiedOK'
  BY <1>1, EmptySeq DEF Idle, BundleOK, VerifiedOK
<1>6. Pending = {}
  <2>1. Len(bundle) \in Nat /\ Checked = Len(bundle)
    BY <1>1, <1>2 DEF StoreInv, BundleOK, Checked, CacheInv, TypeOK
  <2>2. (Checked + 1)..Len(bundle) = {}
    BY <2>1
  <2> QED BY <2>2 DEF Pending
<1>7. StoreLinks'
  <2> SUFFICES ASSUME NEW i \in Id, store'[i] # None, NEW d \in store'[i].deps
               PROVE  store'[d] # None /\ Links(store'[i], store'[d])
    BY DEF StoreLinks
  <2>1. store'[i] \in Module
    BY DEF CacheInv, TypeOK
  <2>2. d \in Id
    BY <2>1, ModuleParts
  <2>3. CASE verified[i] # None
    <3>1. store'[i] = verified[i]
      BY <1>1, <2>3
    <3>2. Resolve(d) # None /\ Links(verified[i], Resolve(d))
      BY <1>2, <2>3, <3>1 DEF StoreInv, VerifiedOK, CacheInv, VerifiedClosed
    <3> QED BY <1>4, <2>2, <3>1, <3>2
  <2>4. CASE verified[i] = None
    <3>1. store'[i] = store[i]
      BY <1>1, <2>4
    <3> QED BY <1>3, <2>2, <3>1 DEF StoreInv, StoreLinks
  <2> QED BY <2>3, <2>4
<1>8. StoreOK'
  <2> SUFFICES ASSUME NEW i \in Id, store'[i] # None
               PROVE  /\ Grounded(store'[i], store')
                      /\ \A f \in store'[i].friends : store'[f] # None /\ i \in store'[f].deps
    BY DEF StoreOK
  <2>1. store'[i] \in Module /\ store'[i].id = i
    BY DEF CacheInv, TypeOK, IdsMatch
  <2>2. store'[i].friends \subseteq Id
    BY <2>1, ModuleParts
  <2>3. CASE verified[i] # None
    <3>1. store'[i] = verified[i]
      BY <1>1, <2>3
    <3>2. \A e \in Id : Known[e] = Resolve(e)
      BY DEF Known
    <3>3. Grounded(verified[i], Known)
      BY <2>3 DEF StoreInv, VerifiedOK
    <3>4. Grounded(verified[i], store')
      BY <1>4, <3>2, <3>3, GroundedStable
    <3>5. ASSUME NEW f \in store'[i].friends PROVE store'[f] # None /\ i \in store'[f].deps
      <4>1. f \in Id /\ f \notin store'[i].deps /\ Resolve(f) # None
        BY <1>6, <2>2, <2>3, <3>1 DEF StoreInv, VerifiedOK
      <4>2. store'[f] # None
        BY <1>4, <4>1
      <4>3. store'[f] \in Module /\ store'[f].id = f
        BY <4>1, <4>2 DEF CacheInv, TypeOK, IdsMatch
      <4>4. i \in store'[f].deps \/ f \in store'[i].deps
        BY <2>1, <4>3 DEF StoreInv, FriendsRelated
      <4> QED BY <4>1, <4>2, <4>4
    <3> QED BY <3>1, <3>4, <3>5
  <2>4. CASE verified[i] = None
    <3>1. store'[i] = store[i]
      BY <1>1, <2>4
    <3>2. /\ Grounded(store[i], store)
          /\ \A f \in store[i].friends : store[f] # None /\ i \in store[f].deps
      BY <3>1 DEF StoreInv, StoreOK
    <3>3. Grounded(store[i], store')
      BY <1>3, <3>2, GroundedStable
    <3> QED BY <1>3, <2>2, <3>1, <3>2, <3>3
  <2> QED BY <2>3, <2>4
<1> QED BY <1>5, <1>7, <1>8 DEF StoreInv, DistinctIds, FriendsRelated

\* A stored module has no cycle: its certificate leaves it out, and whoever is reached
\* through friends depends on it.
LEMMA StoreHasNoCycle == StoreInv => StoreRelations
<1> SUFFICES ASSUME StoreInv, NEW i \in Id, store[i] # None
             PROVE  NoCycle(store[i], store, {})
  BY DEF StoreRelations
<1> DEFINE m  == store[i]
           dn == DepsIn(store)
           fn == FriendsIn(store, {})
<1>1. m \in Module /\ m.id = i /\ store \in [Id -> Module \cup {None}]
  BY DEF StoreInv, CacheInv, TypeOK, IdsMatch
<1>2. PICK D \in SUBSET Id : /\ m.deps \subseteq D /\ m.id \notin D
                              /\ \A y \in D : store[y] # None /\ store[y].deps \subseteq D
  BY DEF StoreInv, StoreOK, Grounded
<1>3. \A x \in Id : store[x] # None =>
          /\ dn[x] = store[x].deps /\ fn[x] = store[x].friends
          /\ store[x].friends \subseteq Id
          /\ \A f \in store[x].friends : store[f] # None /\ x \in store[f].deps
  <2>1. \A x \in Id : store[x] # None => store[x].friends \subseteq Id
    BY <1>1, ModuleParts
  <2> QED BY <2>1 DEF DepsIn, FriendsIn, StoreInv, StoreOK
<1> DEFINE F == {x \in Id : store[x] # None /\
                    \A E \in SUBSET Id : Closed(E) /\ store[x].deps \subseteq E => i \in E}
<1>4. m.friends \subseteq F
  BY <1>3
<1>5. ASSUME NEW x \in F PROVE fn[x] \subseteq F
  <2>1. x \in Id /\ store[x] # None
    OBVIOUS
  <2>2. ASSUME NEW g \in fn[x] PROVE g \in F
    <3>1. g \in Id /\ store[g] # None /\ x \in store[g].deps
      BY <1>3, <2>1, <2>2
    <3>2. ASSUME NEW E \in SUBSET Id, Closed(E), store[g].deps \subseteq E PROVE i \in E
      <4>1. store[x].deps \subseteq E
        BY <3>1, <3>2 DEF Closed
      <4> QED BY <3>2, <4>1
    <3> QED BY <3>1, <3>2
  <2> QED BY <2>2
<1>6. Closed(D)
  BY <1>2 DEF Closed
<1>7. \A x \in F : x \in Id /\ store[x] # None /\ ~(store[x].deps \subseteq D)
  BY <1>1, <1>2, <1>6
<1>8. F \in SUBSET Id
  OBVIOUS
<1> HIDE DEF dn, fn, F, m
<1>9. Reach(m.deps, dn) \subseteq D
  <2>1. \A y \in D : dn[y] \subseteq D
    BY <1>2, <1>3
  <2> QED BY <1>2, <2>1, ReachLeast
<1>10. Reach(m.friends, fn) \subseteq F
  BY <1>4, <1>5, <1>8, ReachLeast
<1>11. i \notin D /\ i \notin F /\ D \cap F = {}
  BY <1>1, <1>2, <1>7 DEF m
<1>12. /\ m.id \notin Reach(m.deps, dn) \cup Reach(m.friends, fn)
       /\ \A d \in Reach(m.deps, dn) : store[d] # None
       /\ \A f \in Reach(m.friends, fn) \ {} : store[f] # None
       /\ Reach(m.deps, dn) \cap Reach(m.friends, fn) = {}
  BY <1>1, <1>2, <1>7, <1>9, <1>10, <1>11
<1> QED BY <1>12 DEF NoCycle, m, dn, fn

\* The cache only grows while modules are linked.
LEMMA LinkGrows ==
    ASSUME CacheInv, CacheInv', Link, LinkOk(Top.mod)
    PROVE  /\ UNCHANGED <<store, job, bundle, pos, verified, target, visited, frontier, failed>>
           /\ \A e \in Id : cache[e] # None => cache'[e] = cache[e]
<1>1. /\ cache' = CacheLinked(Top.mod, Top.new)
      /\ UNCHANGED <<store, job, bundle, pos, verified, target, visited, frontier, failed>>
  BY DEF Link
<1>2. Top \in Frames
  BY PopIs DEF CacheInv, TypeOK, Link, Exploring, Top
<1>3. Top.mod \in Module
  BY <1>2 DEF Frames
<1>4. Top.mod # None
  BY <1>3, ModuleParts
<1>5. \A e \in Id : cache[e] # None => cache'[e] # None
  BY <1>1, <1>4 DEF CacheLinked, CacheInv, TypeOK
<1> QED BY <1>1, <1>5 DEF CacheInv, CacheCoherent

LEMMA FailStore == ASSUME StoreInv, CacheInv', FailJob PROVE StoreInv'
BY BetweenStore DEF FailJob, Idle

LEMMA NextStoreInv == ASSUME StoreInv, [Next]_vars PROVE StoreInv'
<1>1. CacheInv /\ CacheInv'
  BY NextCacheInv DEF StoreInv
<1>2. ASSUME NEW b \in Bundles, SubmitBundle(b) PROVE StoreInv'
  BY <1>1, <1>2, BetweenStore DEF SubmitBundle
<1>3. ASSUME NEW i \in Id, Load(i) PROVE StoreInv'
  BY <1>1, <1>3, BetweenStore DEF Load
<1>4. ASSUME NEW i \in Id, Dependency(i) PROVE StoreInv'
  <2>1. CASE FailJob
    BY <1>1, <2>1, FailStore
  <2>2. CASE ~FailJob
    <3>1. UNCHANGED <<store, cache, job, bundle, pos, verified>>
      BY <1>4, <2>2 DEF Dependency
    <3> QED BY <1>1, <3>1, ExploreStore DEF Checked
  <2> QED BY <2>1, <2>2
<1>5. ASSUME NEW i \in Id, Friend(i) PROVE StoreInv'
  <2>1. CASE FailJob
    BY <1>1, <2>1, FailStore
  <2>2. CASE ~FailJob
    <3>1. UNCHANGED <<store, cache, job, bundle, pos, verified>>
      BY <1>5, <2>2 DEF Friend
    <3> QED BY <1>1, <3>1, ExploreStore DEF Checked
  <2> QED BY <2>1, <2>2
<1>6. CASE BeginModule
  BY <1>1, <1>6, ExploreStore DEF BeginModule, Checked
<1>7. CASE RejectModule
  BY <1>1, <1>7, FailStore DEF RejectModule
<1>8. CASE Link
  <2>1. CASE LinkOk(Top.mod)
    <3>1. /\ UNCHANGED <<store, job, bundle, pos, verified>>
          /\ \A e \in Id : cache[e] # None => cache'[e] = cache[e]
      BY <1>1, <1>8, <2>1, LinkGrows
    <3> QED BY <1>1, <3>1, ExploreStore DEF Checked
  <2>2. CASE ~LinkOk(Top.mod)
    BY <1>1, <1>8, <2>2, FailStore DEF Link
  <2> QED BY <2>1, <2>2
<1>9. CASE Cycles
  <2>1. CASE ~RelationsOk(target)
    BY <1>1, <1>9, <2>1, FailStore DEF Cycles
  <2>2. CASE RelationsOk(target) /\ bundle = <<>>
    BY <1>1, <1>9, <2>2, BetweenStore DEF Cycles, Idle
  <2>3. CASE RelationsOk(target) /\ bundle # <<>>
    BY <1>1, <1>9, <2>3, PassedStore
  <2> QED BY <2>1, <2>2, <2>3
<1>10. CASE Publish
  BY <1>1, <1>10, PublishStore
<1>11. CASE Discard
  BY <1>1, <1>11, BetweenStore DEF Discard, Idle
<1>12. CASE Clear
  <2>1. UNCHANGED <<store, job, bundle, verified>> /\ job = "idle"
    BY <1>12 DEF Clear, work
  <2>2. bundle = <<>> /\ \A i \in Id : verified[i] = None
    BY <1>1, <2>1 DEF CacheInv, JobOK
  <2> QED BY <1>1, <2>1, <2>2, BetweenStore
<1>13. CASE UNCHANGED vars
  <2>1. UNCHANGED <<store, cache, job, bundle, pos, verified>>
    BY <1>13 DEF vars, work
  <2> QED BY <1>1, <2>1, ExploreStore DEF Checked
<1> QED BY <1>2, <1>3, <1>4, <1>5, <1>6, <1>7, <1>8, <1>9, <1>10, <1>11, <1>12, <1>13 DEF Next

LEMMA InitStoreInv == ASSUME DistinctIds, FriendsRelated, Init PROVE StoreInv
<1>1. CacheInv
  BY InitCacheInv
<1>2. BundleOK /\ VerifiedOK /\ StoreLinks /\ StoreOK
  BY EmptySeq DEF Init, BundleOK, VerifiedOK, StoreLinks, StoreOK
<1> QED BY <1>1, <1>2 DEF StoreInv

\* Storage stays sound (runtime.rs, publish_module_bundle, Claims 1 and 2): whatever is
\* published, every stored module links against storage and passes the cyclic relation
\* check against it, when no bundle repeats a module id and every friend depends on the
\* module that names it or the other way round.
THEOREM StoreCorrect == DistinctIds /\ FriendsRelated /\ Spec => []StoreSound
<1>1. DistinctIds /\ FriendsRelated /\ Init => StoreInv
  BY InitStoreInv
<1>2. StoreInv /\ [Next]_vars => StoreInv'
  BY NextStoreInv
<1>3. StoreInv => StoreSound
  BY StoreHasNoCycle DEF StoreInv, StoreSound
<1> QED BY <1>1, <1>2, <1>3, PTL DEF Spec

-----------------------------------------------------------------------------
(* LoadInv.                                                                *)

\* While a stored module is loaded, the loader sees storage through the cache.
LEMMA LoadingIs ==
    ASSUME LoadInv, Loading
    PROVE  /\ CacheInv /\ StoreInv /\ failed = {}
           /\ target \in Module /\ store[target.id] = target /\ target.id \in Id
           /\ \A e \in Id : verified[e] = None /\ Resolve(e) = cache[e]
           /\ \A e \in Id : cache[e] # None => cache[e] = store[e]
           /\ \A e \in Id : store[e] # None =>
                  store[e] \in Module /\ store[e].id = e /\ store[e].deps \subseteq Id /\ store[e].friends \subseteq Id
           /\ Chained /\ VisitedHeld /\ FriendsMet /\ TargetHeld /\ OldIsAway
<1>1. CacheInv /\ StoreInv /\ failed = {}
  BY DEF LoadInv, StoreInv, StoredLoads
<1>2. target \in Module /\ store[target.id] = target /\ \A e \in Id : verified[e] = None
  BY <1>1 DEF CacheInv, JobOK, Loading
<1>3. target.id \in Id
  BY <1>2, ModuleParts
<1>4. \A e \in Id : Resolve(e) = cache[e]
  BY <1>2 DEF Resolve
<1>5. \A e \in Id : cache[e] # None => cache[e] = store[e]
  BY <1>1 DEF CacheInv, CacheCoherent
<1>6. \A e \in Id : store[e] # None => store[e] \in Module /\ store[e].id = e
  BY <1>1 DEF CacheInv, TypeOK, IdsMatch
<1>7. \A e \in Id : store[e] # None => store[e].deps \subseteq Id /\ store[e].friends \subseteq Id
  BY <1>6, ModuleParts
<1> QED BY <1>1, <1>2, <1>3, <1>4, <1>5, <1>6, <1>7 DEF LoadInv

\* The frames of a load are stored modules.
LEMMA LoadingFrames ==
    ASSUME LoadInv, Loading
    PROVE  \A n \in 1..Len(stack) :
               LET m == stack[n].mod IN
               /\ m \in Module /\ m.id \in Id /\ m.deps \subseteq Id /\ store[m.id] = m /\ m # None
               /\ ~stack[n].new /\ stack[n].todo \subseteq m.deps
               /\ \A d \in m.deps \ stack[n].todo : cache[d] # None
<1> SUFFICES ASSUME NEW n \in 1..Len(stack)
             PROVE  LET m == stack[n].mod IN
                    /\ m \in Module /\ m.id \in Id /\ m.deps \subseteq Id /\ store[m.id] = m /\ m # None
                    /\ ~stack[n].new /\ stack[n].todo \subseteq m.deps
                    /\ \A d \in m.deps \ stack[n].todo : cache[d] # None
  OBVIOUS
<1> DEFINE m == stack[n].mod
<1>1. FrameOK(n) /\ stack \in Seq(Frames)
  BY LoadingIs DEF CacheInv, FramesOK, TypeOK
<1>2. stack[n] \in Frames
  BY <1>1, ElementOfSeq
<1>3. m \in Module
  BY <1>2 DEF Frames
<1>4. m.id \in Id /\ m.deps \subseteq Id /\ m # None
  BY <1>3, ModuleParts
<1>5. ~stack[n].new
  BY <1>1 DEF FrameOK, Loading
<1>6. store[m.id] = m /\ stack[n].todo \subseteq m.deps /\ \A d \in m.deps \ stack[n].todo : Resolve(d) # None
  BY <1>1, <1>5 DEF FrameOK
<1>7. \A e \in Id : Resolve(e) = cache[e]
  BY LoadingIs
<1> QED BY <1>3, <1>4, <1>5, <1>6, <1>7

LEMMA BeginLoad ==
    ASSUME LoadInv, StoreInv', NEW i \in Id, Load(i) PROVE LoadInv'
<1>1. /\ cache[i] = None /\ store[i] # None /\ target' = store[i]
      /\ stack' = <<Frame(store[i], FALSE)>> /\ visited' = {i} /\ frontier' = store[i].friends
      /\ UNCHANGED <<store, cache, failed>>
  BY DEF Load
<1>2. CacheInv /\ StoreInv /\ failed' = {}
  BY <1>1 DEF LoadInv, StoreInv, StoredLoads
<1>3. store[i] \in Module /\ store[i].id = i
  BY <1>1, <1>2 DEF CacheInv, TypeOK, IdsMatch
<1> DEFINE f == Frame(store[i], FALSE)
<1>4. f.mod = store[i]
  BY <1>3, FrameIs
<1> HIDE DEF f
<1>5. Len(stack') = 1 /\ stack'[1] = f /\ stack' # <<>>
  BY <1>1 DEF f
<1>6. Chained'
  BY <1>5 DEF Chained
<1>7. VisitedHeld' /\ TargetHeld'
  <2>1. 1 \in 1..Len(stack') /\ stack'[1].mod.id = i
    BY <1>3, <1>4, <1>5
  <2> QED BY <1>1, <1>4, <1>5, <2>1 DEF VisitedHeld, TargetHeld
<1>8. FriendsMet'
  <2>1. \A g \in store[i].friends : store[g] # None
    BY <1>1, <1>2 DEF StoreInv, StoreOK
  <2>2. \A n \in 1..Len(stack') : n = 1
    BY <1>5
  <2> QED BY <1>1, <1>4, <1>5, <2>1, <2>2 DEF FriendsMet
<1>9. OldIsAway'
  <2>0. PICK C \in SUBSET Id : C = {y \in Id : cache[y] # None}
    OBVIOUS
  <2>1. \A y \in C : cache[y] = store[y] /\ cache[y].deps \subseteq C
    <3>1. \A y \in C : cache[y] = store[y] /\ \A d \in cache[y].deps : cache[d] # None
      BY <1>2, <2>0 DEF CacheInv, CacheCoherent, CacheLinkedDown
    <3>2. \A y \in C : cache[y] \in Module
      BY <1>2, <2>0 DEF CacheInv, TypeOK
    <3>3. \A y \in C : cache[y].deps \subseteq Id
      BY <3>2, ModuleParts
    <3> QED BY <2>0, <3>1, <3>3
  <2>2. Closed(C)'
    BY <1>1, <2>0, <2>1 DEF Closed
  <2>3. target'.id \notin C 
    BY <1>1, <1>3, <2>0
  <2>4. \A x \in Id : cache[x] # None => x \in C
    BY <2>0
  <2> QED BY <1>1, <2>1, <2>2, <2>3, <2>4 DEF OldIsAway
<1> QED BY <1>2, <1>6, <1>7, <1>8, <1>9 DEF LoadInv, StoredLoads

\* No dependency of a stored module is found on the stack.
LEMMA NoCycleMet ==
    ASSUME LoadInv, Loading, NEW d \in Id, Exploring, d \in Top.todo, cache[d] = None
    PROVE  d \notin visited /\ store[d] # None
<1> DEFINE N == Len(stack)
<1>1. N \in 1..N /\ N \in Nat
  BY LoadingIs, PopIs DEF CacheInv, TypeOK, Exploring
<1>2. d \in stack[N].mod.deps /\ store[stack[N].mod.id] = stack[N].mod /\ stack[N].mod.id \in Id /\ stack[N].mod # None
  BY <1>1, LoadingFrames DEF Top
<1>3. store[d] # None
  BY <1>2, LoadingIs DEF CacheInv, StoreClosed
<1>4. d \notin visited
  <2> SUFFICES ASSUME d \in visited PROVE FALSE
    OBVIOUS
  <2>1. PICK n \in 1..N : stack[n].mod.id = d
    BY LoadingIs DEF VisitedHeld
  <2>2. stack[n].mod = store[d] /\ n <= N
    BY <1>1, <2>1, LoadingFrames
  <2>3. PICK D \in SUBSET Id : /\ store[d].deps \subseteq D /\ store[d].id \notin D
                                /\ \A y \in D : store[y] # None /\ store[y].deps \subseteq D
    BY <1>3, LoadingIs DEF StoreInv, StoreOK, Grounded
  <2>4. store[d].id = d /\ Closed(D)
    BY <1>3, <2>3, LoadingIs DEF Closed
  <2>5. stack[N].mod.deps \subseteq D
    BY <1>1, <2>2, <2>3, <2>4, LoadingIs DEF Chained
  <2> QED BY <1>2, <2>3, <2>4, <2>5
<1> QED BY <1>3, <1>4

\* The stack of a load holds the same modules after a dependency is ticked off.
LEMMA TickLoad ==
    ASSUME LoadInv, StoreInv', Loading, Exploring, NEW d,
           stack' = [stack EXCEPT ![Len(stack)].todo = @ \ {d}],
           UNCHANGED <<store, cache, job, bundle, pos, verified, target, visited, frontier, failed>>
    PROVE  LoadInv'
<1> DEFINE N == Len(stack)
<1>1. stack \in Seq(Frames) /\ stack # <<>> /\ N \in Nat /\ N >= 1
  BY LoadingIs, PopIs DEF CacheInv, TypeOK, Exploring
<1>2. Len(stack') = N /\ stack' # <<>> /\ \A n \in 1..N : stack'[n].mod = stack[n].mod
  BY <1>1, TickStack
<1>3. Chained /\ VisitedHeld /\ FriendsMet /\ TargetHeld /\ OldIsAway /\ failed = {}
  BY LoadingIs
<1>4. 1 \in 1..N
  BY <1>1
<1> HIDE DEF N
<1>5. \A D : Closed(D)' = Closed(D)
  BY DEF Closed
<1>6. Chained' /\ VisitedHeld' /\ FriendsMet' /\ TargetHeld'
  BY <1>1, <1>2, <1>3, <1>4, <1>5 DEF Chained, VisitedHeld, FriendsMet, TargetHeld, N
<1>7. OldIsAway'
  BY <1>3, <1>5 DEF OldIsAway
<1> QED BY <1>3, <1>6, <1>7 DEF LoadInv, StoredLoads

\* A module is explored because the one below it depends on it.
LEMMA PushLoad ==
    ASSUME LoadInv, StoreInv', Loading, Exploring, NEW d \in Id, d \in Top.todo, store[d] # None,
           stack' = Append(stack, Frame(store[d], FALSE)),
           visited' = visited \cup {d}, frontier' = frontier \cup store[d].friends,
           UNCHANGED <<store, cache, job, bundle, pos, verified, target, failed>>
    PROVE  LoadInv'
<1> DEFINE N == Len(stack)
           f == Frame(store[d], FALSE)
<1>1. stack \in Seq(Frames) /\ stack # <<>> /\ N \in Nat /\ N >= 1
  BY LoadingIs, PopIs DEF CacheInv, TypeOK, Exploring
<1>2. store[d] \in Module /\ store[d].id = d
  BY LoadingIs
<1>3. f \in Frames /\ f.mod = store[d]
  BY <1>2, FrameIs
<1>4. stack' = Append(stack, f)
  OBVIOUS
<1> HIDE DEF f
<1>5. /\ Len(stack') = N + 1 /\ stack' # <<>> /\ stack'[N + 1] = f
      /\ \A n \in 1..N : stack'[n] = stack[n]
  <2>1. /\ Append(stack, f) \in Seq(Frames) /\ Len(Append(stack, f)) = Len(stack) + 1
        /\ \A n \in 1..Len(stack) : Append(stack, f)[n] = stack[n]
        /\ Append(stack, f)[Len(stack) + 1] = f /\ Append(stack, f) # <<>>
    BY <1>1, <1>3, PushIs
  <2> QED BY <1>4, <2>1
<1>6. Chained /\ VisitedHeld /\ FriendsMet /\ TargetHeld /\ OldIsAway /\ failed = {}
  BY LoadingIs
<1>7. 1 \in 1..N /\ N \in 1..N /\ N + 1 \in 1..(N + 1) /\ \A n \in 1..N : n \in 1..(N + 1) /\ n <= N
  BY <1>1
<1>8. \A n \in 1..(N + 1) : n \in 1..N \/ n = N + 1
  BY <1>1
<1>9. \A n \in 1..N : ~(N + 1 <= n)
  BY <1>1
<1>10. d \in stack[N].mod.deps
  BY <1>7, LoadingFrames DEF Top
<1>11. Chained'
  <2> SUFFICES ASSUME NEW n \in 1..(N + 1), NEW k \in 1..(N + 1), n <= k, NEW D \in SUBSET Id,
                      Closed(D), stack'[n].mod.deps \subseteq D
               PROVE  stack'[k].mod.deps \subseteq D
    <3>1. \A D : Closed(D)' = Closed(D)
      BY DEF Closed
    <3> HIDE DEF N
    <3> QED BY <1>5, <3>1 DEF Chained
  <2> HIDE DEF N
  <2>1. CASE k \in 1..N
    <3>1. n \in 1..N
      BY <1>8, <1>9, <2>1
    <3> QED BY <1>5, <1>6, <2>1, <3>1 DEF Chained, N
  <2>2. CASE k = N + 1 /\ n \in 1..N
    <3>1. stack[N].mod.deps \subseteq D
      BY <1>5, <1>6, <1>7, <2>2 DEF Chained, N
    <3>2. store[d].deps \subseteq D
      BY <1>10, <3>1 DEF Closed
    <3> QED BY <1>3, <1>5, <2>2, <3>2
  <2>3. CASE k = N + 1 /\ n = N + 1
    BY <2>3
  <2> QED BY <1>8, <2>1, <2>2, <2>3
<1> HIDE DEF N
<1>12. VisitedHeld'
  <2>1. stack'[N + 1].mod.id = d
    BY <1>2, <1>3, <1>5
  <2> QED BY <1>5, <1>6, <1>7, <2>1 DEF VisitedHeld, N
<1>13. FriendsMet'
  <2>1. \A g \in store[d].friends : store[g] # None
    BY LoadingIs DEF StoreInv, StoreOK
  <2>2. \A n \in 1..(N + 1) : stack'[n].mod.friends \subseteq frontier'
    BY <1>3, <1>5, <1>6, <1>8 DEF FriendsMet, N
  <2> QED BY <1>5, <1>6, <2>1, <2>2 DEF FriendsMet
<1>14. TargetHeld'
  BY <1>1, <1>5, <1>6, <1>7 DEF TargetHeld
<1>15. OldIsAway'
  BY <1>6 DEF OldIsAway, Closed
<1> QED BY <1>6, <1>11, <1>12, <1>13, <1>14, <1>15 DEF LoadInv, StoredLoads

LEMMA FriendLoad ==
    ASSUME LoadInv, StoreInv', Loading, NEW f \in Id, Friend(f) PROVE LoadInv'
<1>1. Chained /\ VisitedHeld /\ FriendsMet /\ TargetHeld /\ OldIsAway /\ failed = {}
  BY LoadingIs
<1>2. store[f] # None
  BY <1>1 DEF FriendsMet, Friend, NewFriends
<1>3. /\ stack = <<>> /\ stack' = <<Frame(store[f], FALSE)>> /\ visited' = {f}
      /\ frontier' = frontier \cup store[f].friends
      /\ UNCHANGED <<store, cache, job, bundle, pos, verified, target, failed>>
  BY <1>2 DEF Friend
<1>4. store[f] \in Module /\ store[f].id = f
  BY <1>2, LoadingIs
<1> DEFINE g == Frame(store[f], FALSE)
<1>5. g.mod = store[f]
  BY <1>4, FrameIs
<1> HIDE DEF g
<1>6. Len(stack') = 1 /\ stack'[1] = g /\ stack' # <<>>
  BY <1>3 DEF g
<1>7. 1 \in 1..Len(stack') /\ \A n \in 1..Len(stack') : n = 1
  BY <1>6
<1>8. Chained' /\ VisitedHeld'
  BY <1>3, <1>4, <1>5, <1>6, <1>7 DEF Chained, VisitedHeld
<1>9. FriendsMet'
  <2>1. \A e \in store[f].friends : store[e] # None
    BY <1>2, LoadingIs DEF StoreInv, StoreOK
  <2> QED BY <1>1, <1>3, <1>5, <1>6, <1>7, <2>1 DEF FriendsMet
<1>10. TargetHeld' /\ OldIsAway'
  BY <1>1, <1>3 DEF TargetHeld, OldIsAway, Closed
<1> QED BY <1>1, <1>3, <1>8, <1>9, <1>10 DEF LoadInv, StoredLoads

\* A stored module links, and then its friends have been met.
LEMMA LinkLoad ==
    ASSUME LoadInv, StoreInv', Loading, Link PROVE LoadInv'
<1> DEFINE N == Len(stack)
           m == stack[N].mod
<1>1. /\ Chained /\ VisitedHeld /\ FriendsMet /\ TargetHeld /\ OldIsAway /\ failed = {}
      /\ StoreInv /\ CacheInv
  BY LoadingIs
<1>2. stack \in Seq(Frames) /\ stack # <<>> /\ N \in Nat /\ N >= 1 /\ N \in 1..N
  BY <1>1, PopIs DEF CacheInv, TypeOK, Link, Exploring
<1>3. /\ m \in Module /\ m.id \in Id /\ m.deps \subseteq Id /\ store[m.id] = m /\ m # None
      /\ ~stack[N].new
      /\ \A d \in m.deps \ stack[N].todo : cache[d] # None
  BY <1>2, LoadingFrames
<1>4. Top = stack[N] /\ Top.mod = m /\ stack[N].todo = {}
  BY DEF Top, Link
<1> HIDE DEF m
<1>5. \A d \in m.deps : cache[d] # None /\ Resolve(d) = store[d] /\ Links(m, store[d])
  <2>1. \A d \in m.deps : cache[d] # None /\ d \in Id
    BY <1>3, <1>4
  <2>2. \A d \in m.deps : Resolve(d) = store[d]
    BY <2>1, LoadingIs
  <2> QED BY <1>1, <1>3, <2>1, <2>2 DEF StoreInv, StoreLinks
<1>6. LinkOk(Top.mod)
  BY <1>4, <1>5 DEF LinkOk
<1>7. /\ cache' = [cache EXCEPT ![m.id] = m] /\ stack' = Pop
      /\ UNCHANGED <<store, job, bundle, pos, verified, target, visited, frontier, failed>>
  BY <1>3, <1>4, <1>6 DEF Link, CacheLinked
<1>8. /\ Len(stack') = N - 1 /\ \A n \in 1..(N - 1) : stack'[n] = stack[n]
      /\ (N > 1 => stack' # <<>>)
  BY <1>2, <1>7, PopIs DEF Pop
<1>9. /\ cache'[m.id] = m
      /\ \A e \in Id : e # m.id => cache'[e] = cache[e]
  BY <1>1, <1>3, <1>7 DEF CacheInv, TypeOK
<1>10. \A n \in 1..N : n \in 1..(N - 1) \/ n = N
  BY <1>2
<1>11. \A n \in 1..(N - 1) : n \in 1..N
  BY <1>2
<1>12. N > 1 => 1 \in 1..(N - 1)
  BY <1>2
<1>13. N = 1 \/ N > 1
  <2>1. N \in Nat /\ N >= 1
    BY <1>2
  <2> HIDE DEF N
  <2> QED BY <2>1
<1> HIDE DEF N
<1>14. \A D : Closed(D)' = Closed(D)
  BY <1>7 DEF Closed
<1>15. Chained'
  BY <1>1, <1>8, <1>11, <1>14 DEF Chained, N
<1>16. VisitedHeld'
  <2> SUFFICES ASSUME NEW v \in visited
               PROVE  cache'[v] # None \/ \E n \in 1..(N - 1) : stack'[n].mod.id = v
    BY <1>7, <1>8 DEF VisitedHeld
  <2>1. v \in Id
    BY <1>1 DEF CacheInv, TypeOK
  <2>2. CASE v = m.id
    BY <1>3, <1>9, <2>2
  <2>3. CASE v # m.id /\ cache[v] # None
    BY <1>9, <2>1, <2>3
  <2>4. CASE v # m.id /\ cache[v] = None
    <3>1. PICK n \in 1..N : stack[n].mod.id = v
      BY <1>1, <2>4 DEF VisitedHeld, N
    <3>2. n # N
      BY <2>4, <3>1 DEF m
    <3> QED BY <1>8, <1>10, <3>1, <3>2
  <2> QED BY <2>2, <2>3, <2>4
<1>17. FriendsMet'
  BY <1>1, <1>7, <1>8, <1>11 DEF FriendsMet, N
<1>18. TargetHeld'
  <2>1. CASE cache[target.id] # None
    BY <1>3, <1>7, <1>9, <2>1, LoadingIs DEF TargetHeld
  <2>2. CASE stack[1].mod = target /\ N = 1
    BY <1>3, <1>7, <1>9, <2>2 DEF TargetHeld, m
  <2>3. CASE stack[1].mod = target /\ N > 1
    BY <1>7, <1>8, <1>12, <2>3 DEF TargetHeld
  <2> QED BY <1>1, <1>13, <2>1, <2>2, <2>3 DEF TargetHeld
<1>19. OldIsAway'
  <2> SUFFICES ASSUME NEW x \in Id, cache'[x] # None
               PROVE  \/ cache'[x].friends \subseteq frontier
                      \/ \E D \in SUBSET Id : Closed(D) /\ cache'[x].deps \subseteq D /\ target.id \notin D
    BY <1>7, <1>14 DEF OldIsAway
  <2>1. CASE x = m.id
    BY <1>1, <1>2, <1>9, <2>1 DEF FriendsMet, m, N
  <2>2. CASE x # m.id
    BY <1>1, <1>9, <2>2 DEF OldIsAway
  <2> QED BY <2>1, <2>2
<1> QED BY <1>1, <1>7, <1>15, <1>16, <1>17, <1>18, <1>19 DEF LoadInv, StoredLoads

\* When a load has met everything, the module passes the cyclic relation check.
LEMMA LoadPasses ==
    ASSUME LoadInv, Loading, stack = <<>>, NewFriends = {} PROVE RelationsOk(target)
<1> DEFINE m  == target
           dn == DepsIn(Known)
           fn == FriendsIn(Known, Unverified)
<1>1. /\ CacheInv /\ StoreInv /\ m \in Module /\ m.id \in Id /\ store[m.id] = m
      /\ FriendsMet /\ TargetHeld /\ OldIsAway
  BY LoadingIs
<1>2. \A e \in Id : Known[e] = cache[e] /\ (cache[e] # None => cache[e] = store[e])
  BY LoadingIs DEF Known
<1>3. Unverified = {}
  BY EmptySeq DEF Loading, Unverified
<1>4. \A f \in frontier : cache[f] # None
  <2>1. frontier \subseteq Id /\ \A f \in frontier : verified[f] = None
    BY <1>1, LoadingIs DEF CacheInv, TypeOK
  <2> QED BY <1>3, <2>1 DEF NewFriends
<1>5. cache[m.id] # None /\ cache[m.id] = m /\ m # None
  BY <1>1, <1>2 DEF TargetHeld
<1>6. PICK G \in SUBSET Id : /\ m.deps \subseteq G /\ m.id \notin G
                              /\ \A y \in G : store[y] # None /\ store[y].deps \subseteq G
  BY <1>1, <1>5 DEF StoreInv, StoreOK, Grounded
<1>7. Closed(G)
  BY <1>6 DEF Closed
<1>8. \A x \in Id : cache[x] # None =>
          /\ dn[x] = store[x].deps /\ fn[x] = store[x].friends /\ cache[x] = store[x]
          /\ store[x].deps \subseteq Id /\ store[x].friends \subseteq Id
          /\ \A d \in store[x].deps : cache[d] # None
          /\ \A f \in store[x].friends : store[f] # None /\ x \in store[f].deps
  <2>1. \A x \in Id : cache[x] # None => store[x].deps \subseteq Id /\ store[x].friends \subseteq Id
    BY <1>2, LoadingIs
  <2>2. \A x \in Id : cache[x] # None => dn[x] = store[x].deps /\ fn[x] = store[x].friends
    BY <1>2, <1>3 DEF DepsIn, FriendsIn
  <2>3. \A x \in Id : cache[x] # None => \A d \in store[x].deps : cache[d] # None
    BY <1>1, <1>2 DEF CacheInv, CacheLinkedDown
  <2>4. \A x \in Id : cache[x] # None =>
            \A f \in store[x].friends : store[f] # None /\ x \in store[f].deps
    BY <1>1, <1>2 DEF StoreInv, StoreOK
  <2> QED BY <1>2, <2>1, <2>2, <2>3, <2>4
<1> DEFINE D == {x \in G : cache[x] # None}
           F == {x \in Id : cache[x] # None /\
                    \A E \in SUBSET Id : Closed(E) /\ store[x].deps \subseteq E => m.id \in E}
<1>9. D \in SUBSET Id /\ m.deps \subseteq D
  BY <1>1, <1>5, <1>6, <1>8
<1>10. \A y \in D : dn[y] \subseteq D
  BY <1>6, <1>8
<1>11. m.friends \subseteq F
  <2>1. ASSUME NEW f \in m.friends PROVE f \in F
    <3>1. f \in Id /\ cache[f] # None /\ m.id \in store[f].deps
      BY <1>1, <1>4, <1>5, <1>8 DEF FriendsMet
    <3> QED BY <3>1
  <2> QED BY <2>1
<1>12. ASSUME NEW x \in F PROVE fn[x] \subseteq F
  <2>1. x \in Id /\ cache[x] # None /\ cache[x] = store[x]
    BY <1>8
  <2>2. store[x].friends \subseteq frontier
    BY <1>1, <2>1 DEF OldIsAway
  <2>3. ASSUME NEW g \in fn[x] PROVE g \in F
    <3>1. g \in Id /\ cache[g] # None /\ x \in store[g].deps
      BY <1>4, <1>8, <2>1, <2>2, <2>3
    <3>2. ASSUME NEW E \in SUBSET Id, Closed(E), store[g].deps \subseteq E PROVE m.id \in E
      <4>1. store[x].deps \subseteq E
        BY <3>1, <3>2 DEF Closed
      <4> QED BY <3>2, <4>1
    <3> QED BY <3>1, <3>2
  <2> QED BY <2>3
<1>13. \A x \in F : x \in Id /\ cache[x] # None /\ ~(store[x].deps \subseteq G)
  BY <1>6, <1>7
<1>14. \A x \in D : x \in G /\ cache[x] # None /\ store[x].deps \subseteq G
  BY <1>6
<1>15. F \in SUBSET Id
  OBVIOUS
<1> HIDE DEF dn, fn, F, D, m
<1>16. Reach(m.deps, dn) \subseteq D
  BY <1>9, <1>10, ReachLeast
<1>17. Reach(m.friends, fn) \subseteq F
  BY <1>11, <1>12, <1>15, ReachLeast
<1>18. m.id \notin D /\ m.id \notin F /\ D \cap F = {}
  BY <1>1, <1>6, <1>13, <1>14
<1>19. /\ m.id \notin Reach(m.deps, dn) \cup Reach(m.friends, fn)
       /\ \A d \in Reach(m.deps, dn) : Known[d] # None
       /\ \A f \in Reach(m.friends, fn) \ Unverified : Known[f] # None
       /\ Reach(m.deps, dn) \cap Reach(m.friends, fn) = {}
  BY <1>2, <1>9, <1>13, <1>14, <1>16, <1>17, <1>18
<1> QED BY <1>19 DEF RelationsOk, NoCycle, m, dn, fn

\* A step after which nothing is being loaded.
LEMMA NotLoading ==
    ASSUME LoadInv, StoreInv', UNCHANGED failed, job' # "explore" \/ bundle' # <<>>
    PROVE  LoadInv'
BY DEF LoadInv, StoredLoads, Loading

\* A failed publication is not a failed load.
LEMMA FailLoad ==
    ASSUME LoadInv, StoreInv', FailJob, bundle # <<>> PROVE LoadInv'
BY NotLoading DEF FailJob, Idle

LEMMA NextLoadInv == ASSUME LoadInv, [Next]_vars PROVE LoadInv'
<1>1. StoreInv /\ StoreInv'
  BY NextStoreInv DEF LoadInv
<1>2. CacheInv
  BY <1>1 DEF StoreInv
<1>3. ASSUME NEW b \in Bundles, SubmitBundle(b) PROVE LoadInv'
  BY <1>1, <1>3, NotLoading DEF SubmitBundle
<1>4. ASSUME NEW i \in Id, Load(i) PROVE LoadInv'
  BY <1>1, <1>4, BeginLoad
<1>5. ASSUME NEW i \in Id, Dependency(i) PROVE LoadInv'
  <2>1. CASE bundle # <<>>
    <3>1. FailJob \/ UNCHANGED <<bundle, failed>>
      BY <1>5 DEF Dependency
    <3> QED BY <1>1, <2>1, <3>1, NotLoading, FailLoad
  <2>2. CASE bundle = <<>>
    <3>1. Loading /\ Exploring /\ i \in Top.todo
      BY <1>5, <2>2 DEF Dependency, Exploring, Loading
    <3>2. Resolve(i) = cache[i]
      BY <3>1, LoadingIs
    <3>3. CASE Resolve(i) # None
      BY <1>1, <1>5, <3>1, <3>3, TickLoad DEF Dependency
    <3>4. CASE Resolve(i) = None
      <4>1. i \notin visited /\ store[i] # None
        BY <3>1, <3>2, <3>4, NoCycleMet
      <4> QED BY <1>1, <1>5, <3>1, <3>4, <4>1, PushLoad DEF Dependency
    <3> QED BY <3>3, <3>4
  <2> QED BY <2>1, <2>2
<1>6. ASSUME NEW i \in Id, Friend(i) PROVE LoadInv'
  <2>1. CASE bundle # <<>>
    <3>1. FailJob \/ UNCHANGED <<bundle, failed>>
      BY <1>6 DEF Friend
    <3> QED BY <1>1, <2>1, <3>1, NotLoading, FailLoad
  <2>2. CASE bundle = <<>>
    <3>1. Loading
      BY <1>6, <2>2 DEF Friend, Loading
    <3> QED BY <1>1, <1>6, <3>1, FriendLoad
  <2> QED BY <2>1, <2>2
<1>7. CASE BeginModule
  <2>1. bundle # <<>>
    BY <1>2, <1>7, EmptySeq DEF CacheInv, JobOK, BeginModule
  <2> QED BY <1>1, <1>7, <2>1, NotLoading DEF BeginModule
<1>8. CASE RejectModule
  <2>1. bundle # <<>>
    BY <1>2, <1>8, EmptySeq DEF CacheInv, JobOK, RejectModule
  <2> QED BY <1>1, <1>8, <2>1, FailLoad DEF RejectModule
<1>9. CASE Link
  <2>1. CASE bundle # <<>>
    <3>1. FailJob \/ UNCHANGED <<bundle, failed>>
      BY <1>9 DEF Link
    <3> QED BY <1>1, <2>1, <3>1, NotLoading, FailLoad
  <2>2. CASE bundle = <<>>
    <3>1. Loading
      BY <1>9, <2>2 DEF Link, Exploring, Loading
    <3> QED BY <1>1, <1>9, <3>1, LinkLoad
  <2> QED BY <2>1, <2>2
<1>10. CASE Cycles
  <2>1. CASE bundle # <<>>
    <3>1. FailJob \/ UNCHANGED <<bundle, failed>>
      BY <1>10, <2>1 DEF Cycles
    <3> QED BY <1>1, <2>1, <3>1, NotLoading, FailLoad
  <2>2. CASE bundle = <<>>
    <3>1. Loading /\ stack = <<>> /\ NewFriends = {}
      BY <1>10, <2>2 DEF Cycles, Loading
    <3>2. RelationsOk(target)
      BY <3>1, LoadPasses
    <3> QED BY <1>1, <1>10, <2>2, <3>2, NotLoading DEF Cycles, Idle
  <2> QED BY <2>1, <2>2
<1>11. CASE Publish
  BY <1>1, <1>11, NotLoading DEF Publish, Idle
<1>12. CASE Discard
  BY <1>1, <1>12, NotLoading DEF Discard, Idle
<1>13. CASE Clear
  BY <1>1, <1>13, NotLoading DEF Clear, work
<1>14. CASE UNCHANGED vars
  <2>1. UNCHANGED <<store, cache, job, bundle, pos, verified, target, stack, visited, frontier, failed>>
    BY <1>14 DEF vars, work
  <2> QED BY <1>1, <2>1 DEF LoadInv, StoredLoads, Loading, Chained, VisitedHeld, FriendsMet, TargetHeld,
                          OldIsAway, Closed
<1> QED BY <1>3, <1>4, <1>5, <1>6, <1>7, <1>8, <1>9, <1>10, <1>11, <1>12, <1>13, <1>14 DEF Next

\* What is stored can be loaded (loader.rs, load_module and expect_no_verification_errors):
\* under the same two conditions on what is submitted, no load of a stored module ever
\* fails, whatever was cached, published, refused, discarded or cleared before it.
THEOREM LoadsSucceed == DistinctIds /\ FriendsRelated /\ Spec => []StoredLoads
<1>1. DistinctIds /\ FriendsRelated /\ Init => LoadInv
  BY InitStoreInv DEF LoadInv, StoredLoads, Loading, Init
<1>2. LoadInv /\ [Next]_vars => LoadInv'
  BY NextLoadInv
<1>3. LoadInv => StoredLoads
  BY DEF LoadInv
<1> QED BY <1>1, <1>2, <1>3, PTL DEF Spec
=============================================================================
