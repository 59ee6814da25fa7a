------------------------------ MODULE VerifiedExec ------------------------------
(***************************************************************************)
(* Verified code with a count of the resources it made, and the properties *)
(* that compare a run with what the analyses said of the code.             *)
(***************************************************************************)
EXTENDS VerifiedRun

VARIABLE made   \* how many values of resource types exist: an auxiliary count

vars == <<program, fn, invMap, workList, verdict, frame, callStack, operandStack, global,
          status, made>>

(* A resource is a struct that can be neither copied nor dropped.          *)
Resources == {t \in Types : Kind(t) = "struct"} \ (Copyable \union Droppable)

RECURSIVE CountIn(_)
CountIn(v) == (IF v.ty \in Resources THEN 1 ELSE 0)
              + FoldLeft(LAMBDA n, w : n + CountIn(w), 0, v.f)

CountAll(vs) == FoldLeft(LAMBDA n, w : n + CountIn(w), 0, vs)

LocalsOf(fr) == [k \in 1 .. Cardinality(DOMAIN fr.locals) |-> fr.locals[k - 1]]

Published == [k \in 1 .. Cardinality(Keyed) |-> global[SetToSeq(Keyed)[k]]]

Alive ==
    CountAll(operandStack) + CountAll(LocalsOf(frame))
    + FoldLeft(LAMBDA n, fr : n + CountAll(LocalsOf(fr)), 0, callStack)
    + CountAll(Published)

Made(i) ==
    IF Pool[i.a] \notin Resources THEN 0
    ELSE IF i.op = "Pack" THEN 1 ELSE IF i.op = "Unpack" THEN -1 ELSE 0

Init == VerifiedInit /\ made = 0

CountedVerify == Verify /\ UNCHANGED made

CountedStart == Start /\ made' = Alive'

CountedRun ==
    /\ Run
    /\ made' = IF status' = "run" /\ Current.op \in {"Pack", "Unpack"}
               THEN made + Made(Current) ELSE made

(* A refused program, a result and an error are the end.                   *)
Done == Finished /\ UNCHANGED vars

Next == CountedVerify \/ CountedStart \/ CountedRun \/ Done

Spec == Init /\ [][Next]_vars

-------------------------------------------------------------------------------
TypeOK ==
    /\ fn \in DOMAIN program
    /\ DOMAIN invMap \subseteq BlockIds(Body)
    /\ verdict = "locals" =>
         \A b \in DOMAIN invMap : invMap[b].pre \in [Locals(fn) -> LocalStates]
    /\ verdict = "references" =>
         \A b \in DOMAIN invMap : DOMAIN invMap[b].pre.locals \subseteq Locals(fn)
    /\ \A k \in DOMAIN workList : workList[k] \in DOMAIN invMap
    /\ verdict \in {"begin", "locals", "references", "accepted", "rejected"}
    /\ frame.fn \in DOMAIN program /\ frame.pc \in Nat
    /\ Len(operandStack) <= StackLimit /\ Len(callStack) <= CallLimit

(* Resources are neither copied nor lost while verified code runs, across  *)
(* calls, overwritten locals, dropped frames and both branches; at the end *)
(* they are all among the results.                                         *)
ResourcesConserved ==
    /\ status = "run" => Alive = made
    /\ status = "done" => CountAll(operandStack) + CountAll(Published) = made

EntryFrame == frame.fn = fn /\ frame.pc \in BlockIds(Body)

(* At the start of a block every local that the fixed point of the last    *)
(* analysis knows of holds a value, and a reference where it says so (for  *)
(* the function verified last, which is the one executed).                 *)
AbstractionCovers ==
    status = "run" /\ EntryFrame =>
        /\ frame.pc \in DOMAIN invMap
        /\ LET pre == invMap[frame.pc].pre.locals
           IN  \A l \in DOMAIN pre : /\ frame.locals[l] # Invalid
                                     /\ IsRef(pre[l]) = IsReference(frame.locals[l])

RECURSIVE BorrowersOf(_, _)
BorrowersOf(g, ids) ==
    LET more == ids \union {e.to : e \in {d \in g.edges : d.from \in ids}}
    IN  IF more = ids THEN ids ELSE BorrowersOf(g, more)

(* At the start of a block the borrow graph knows every alias there really *)
(* is: of two references to overlapping places, one of them mutable, one   *)
(* borrows from the other, and a reference to a local of this frame        *)
(* borrows from that local.                                                *)
AliasesCovered ==
    status = "run" /\ EntryFrame =>
        LET pre == invMap[frame.pc].pre
            g == pre.graph
            refs == {l \in DOMAIN pre.locals : IsRef(pre.locals[l])}
            place(l) == frame.locals[l].at
            overlap(k, l) == IsPrefix(place(k), place(l)) \/ IsPrefix(place(l), place(k))
        IN  /\ \A k, l \in refs :
                 k # l /\ IsMutable(g, k) /\ overlap(k, l) =>
                     l \in BorrowersOf(g, {k}) \/ k \in BorrowersOf(g, {l})
            /\ \A k \in refs, l \in Locals(fn) :
                 place(k)[1] = ThisLocal(l)[1] =>
                     \E e \in OutEdges(g, FrameRoot(fn)) :
                         /\ e.path = <<>> \/ e.path[1] = LocalLabel(l)
                         /\ k \in BorrowersOf(g, {e.to})

(* What the reference analysis knows before an instruction: its block's    *)
(* precondition, and what the instructions of the block before it do.      *)
KnownAt(pc) ==
    LET b == CHOOSE x \in BlockIds(Body) : x <= pc /\ pc <= BlockEnd(Body, x)
    IN  FoldLeft(LAMBDA q, at : RefExecute(fn, At(Body, at), q.s, q.st),
                 RefOk(invMap[b].pre, <<>>), SubSeq(BlockOffsets(Body, b), 1, pc - b)).s

(* Verified code takes a container out of its place, or apart, that a      *)
(* reference still counts only when the analysis has lost sight of that    *)
(* reference at a join: it is in a local that the analysis says is empty.  *)
OwnershipAsAnalysed ==
    status = "MOVING_REFERRED_CONTAINER" =>
        LET i == Current
            place == CASE i.op \in {"MoveLoc", "StLoc"} -> ThisLocal(i.a)
                       [] i.op = "MoveFrom" -> <<GlobalRoot(Pool[i.a])>>
                       [] i.op = "WriteRef" -> OnStack(Depth - 1)
                       [] OTHER -> OnStack(Depth)
            holds(v) == IsReference(v) /\ Counts(v) = place
        IN  /\ \A k \in DOMAIN operandStack : ~holds(operandStack[k])
            /\ \A fr \in {x \in Range(Frames) : x.fn = fn} : \A l \in DOMAIN fr.locals :
                  holds(fr.locals[l]) => l \notin DOMAIN KnownAt(fr.pc).locals

(* check_invariant of the borrow graph, which the verifier asserts only in *)
(* debug builds, and a node for every reference: in every precondition.    *)
GraphsWellFormed ==
    verdict = "references" =>
        \A b \in DOMAIN invMap :
            LET pre == invMap[b].pre
            IN  /\ CheckInvariant(pre.graph)
                /\ DOMAIN pre.graph.mut
                     = {l \in DOMAIN pre.locals : IsRef(pre.locals[l])} \union {FrameRoot(fn)}

(* The sets of (offset, locals that hold a value) that paths of the        *)
(* control flow graph reach, ignoring the values of conditions: the        *)
(* reference for the analysis.                                             *)
RECURSIVE PathsFrom(_, _, _)
PathsFrom(f, c, seen) ==
    LET more == seen \union UNION {PathStep(c, x) : x \in {y \in seen : PathSafe(f, c, y)}}
    IN  IF more = seen THEN seen ELSE PathsFrom(f, c, more)

(* When the worklist is empty the analysis has found an error exactly when *)
(* some path leads to an unsafe instruction: nothing is missed, and no     *)
(* safe function is refused.                                               *)
LocalsExact ==
    verdict = "locals" /\ workList = <<>> =>
        LET paths == PathsFrom(fn, Body, {<<0, {l \in Locals(fn) : l < Len(Sig[fn].params)}>>})
        IN  NoErrors <=> \A x \in paths : PathSafe(fn, Body, x)

(* What runs is what was analysed: the stack has the types the type        *)
(* checker computed, the locals what the fixed point promises, and the     *)
(* locals analysis gave the verdict that the paths of the code deserve.    *)
RunAsAnalysed == TypeOK /\ StackAsTyped /\ AbstractionCovers /\ LocalsExact

(* The same for references: borrow graphs are well formed in every round   *)
(* of the analysis and have settled when it ends, and then they know all   *)
(* the aliases there are, and all the references that keep a container in  *)
(* its place but those a join made the analysis forget.                    *)
RefsAsAnalysed == GraphsWellFormed /\ FixedPointReached /\ AliasesCovered /\ OwnershipAsAnalysed

===============================================================================
