------------------------------ MODULE CodeVerifier ------------------------------
(***************************************************************************)
(* The verification of function bodies (code_unit_verifier.rs): control    *)
(* flow, stack usage, type safety, locals safety, reference safety and the *)
(* acquires list, in that order, for one function after the other.  Locals *)
(* and reference safety run the worklist of the abstract interpreter       *)
(* (absint.rs), one basic block per step; the others are pure.             *)
(***************************************************************************)
EXTENDS ReferenceSafety

VARIABLES
    fn,       \* the function being verified
    invMap,   \* inv_map: block -> [pre, post]
    workList, \* work_list, a stack of blocks
    verdict   \* "begin", "locals", "references", "accepted" or "rejected"

verifierVars == <<fn, invMap, workList, verdict>>

CF == INSTANCE ControlFlow WITH Alphabet <- {}, MaxCode <- 0, code <- <<>>

Body == program[fn]

-------------------------------------------------------------------------------
(* Stack usage: the height over the start of the block before every        *)
(* instruction of a code unit.                                             *)
Height(f, c) ==
    LET starts == BlockIds(c)
        height[pc \in Offsets(c)] ==
            IF pc \in starts THEN 0
            ELSE height[pc - 1] - NumPops(f, At(c, pc - 1)) + NumPushes(f, At(c, pc - 1))
    IN  height

(* verify_block: a block ends at the height it began with.                 *)
EndsLevel(f, c, height, pc) ==
    IsEndOfBlock(c, pc) =>
        height[pc] - NumPops(f, At(c, pc)) + NumPushes(f, At(c, pc)) = 0

StackUsageOk(f, c) ==
    LET height == Height(f, c)
    IN  \A pc \in Offsets(c) : /\ height[pc] >= NumPops(f, At(c, pc))
                               /\ EndsLevel(f, c, height, pc)

-------------------------------------------------------------------------------
(* Type safety.  o is the sequence of the types of the operands, the top   *)
(* of the stack last.                                                      *)

(* Mutant: operands of the declared number are enough.                     *)
DeclaredOkCount(f, i, o) == TRUE

(* pack, unpack and call compare the operands with the declared types.     *)
DeclaredOk(f, i, o) ==
    CASE i.op = "Call" -> o = Sig[i.a].params
      [] i.op = "Pack" -> Kind(Pool[i.a]) = "struct" /\ o = Desc[Pool[i.a]].args
      [] i.op = "Unpack" -> Kind(Pool[i.a]) = "struct" /\ o = <<Pool[i.a]>>
      [] i.op = "Ret" -> o = Sig[f].rets
      [] OTHER -> TRUE

(* Pop, the branches, the locals and Abort.                                *)
LocalsOk(f, i, o) ==
    CASE i.op = "Pop" -> o[1] \in Droppable
      [] i.op \in {"BrTrue", "BrFalse"} -> Kind(o[1]) = "bool"
      [] i.op = "StLoc" -> o = <<LocalAt(f, i.a)>>
      [] i.op = "Abort" -> o = <<U64>>
      [] i.op = "CopyLoc" -> LocalAt(f, i.a) \in Copyable
      [] OTHER -> TRUE

(* Integer, boolean and equality operators.                                *)
OperatorOk(i, o) ==
    CASE i.op = "Add" -> Kind(o[1]) = "int" /\ o[1] = o[2]
      [] i.op = "And" -> Kind(o[1]) = "bool" /\ Kind(o[2]) = "bool"
      [] i.op = "Not" -> Kind(o[1]) = "bool"
      [] i.op = "Lt" -> Kind(o[1]) = "int" /\ o[1] = o[2]
      [] i.op \in {"CastU8", "CastU64"} -> Kind(o[1]) = "int"
      [] i.op = "Eq" -> o[1] \in Droppable /\ o[1] = o[2]
      [] OTHER -> TRUE

Referred(t) == Desc[t].args[1]

(* Borrows of locals and fields, freezing, reading and writing.            *)
ReferenceOk(f, i, o) ==
    CASE i.op \in {"MutBorrowLoc", "ImmBorrowLoc"} -> ~IsReferenceType(LocalAt(f, i.a))
      [] i.op = "MutBorrowField" -> Kind(o[1]) = "mut" /\ Referred(o[1]) = Pool[i.a]
      [] i.op = "ImmBorrowField" -> IsReferenceType(o[1]) /\ Referred(o[1]) = Pool[i.a]
      [] i.op = "FreezeRef" -> Kind(o[1]) = "mut"
      [] i.op = "ReadRef" -> IsReferenceType(o[1]) /\ Referred(o[1]) \in Copyable
      [] i.op = "WriteRef" -> /\ Kind(o[2]) = "mut"
                              /\ Referred(o[2]) \in Droppable
                              /\ o[1] = Referred(o[2])
      [] OTHER -> TRUE

(* Global storage: the type has the key ability, the address is one, and   *)
(* MoveTo has a reference to a signer under the resource.                  *)
GlobalOk(i, o) ==
    CASE i.op \in {"MutBorrowGlobal", "ImmBorrowGlobal", "Exists", "MoveFrom"} ->
            Pool[i.a] \in Keyed /\ Kind(o[1]) = "address"
      [] i.op = "MoveTo" -> /\ Pool[i.a] \in Keyed
                            /\ o[2] = Pool[i.a]
                            /\ Kind(o[1]) = "ref" /\ Kind(Referred(o[1])) = "signer"
      [] OTHER -> TRUE

IsVectorOf(t, elem) == Kind(t) = "vector" /\ Desc[t].args = <<elem>>

(* get_vector_element_type                                                 *)
RefersToVector(t, kinds, elem) == Kind(t) \in kinds /\ IsVectorOf(Referred(t), elem)

(* VecUnpack compares its operand with the declared vector type, VecPack   *)
(* pops its operands without looking at their types; the others check the  *)
(* reference, the index and the new element.                               *)
VectorOk(i, o) ==
    CASE i.op = "VecUnpack" -> IsVectorOf(o[1], Pool[i.a])
      [] i.op = "VecLen" -> RefersToVector(o[1], {"ref", "mut"}, Pool[i.a])
      [] i.op = "VecImmBorrow" -> o[2] = U64 /\ RefersToVector(o[1], {"ref", "mut"}, Pool[i.a])
      [] i.op = "VecMutBorrow" -> o[2] = U64 /\ RefersToVector(o[1], {"mut"}, Pool[i.a])
      [] i.op = "VecPushBack" -> o[2] = Pool[i.a] /\ RefersToVector(o[1], {"mut"}, Pool[i.a])
      [] i.op = "VecPopBack" -> RefersToVector(o[1], {"mut"}, Pool[i.a])
      [] i.op = "VecSwap" -> /\ o[2] = U64 /\ o[3] = U64
                             /\ RefersToVector(o[1], {"mut"}, Pool[i.a])
      [] OTHER -> TRUE

VectorOf(elem) == CHOOSE t \in Types : IsVectorOf(t, elem)

(* The type of references to t.                                            *)
ReferenceTo(kind, t) == CHOOSE r \in Types : Kind(r) = kind /\ Referred(r) = t

(* The types an instruction pushes.                                        *)
Pushed(f, i, o) ==
    CASE i.op = "LdU64" -> <<U64>>
      [] i.op \in {"LdTrue", "LdFalse", "Not", "And", "Eq", "Lt", "Exists"} ->
            <<CHOOSE t \in Types : Kind(t) = "bool">>
      [] i.op \in {"CopyLoc", "MoveLoc"} -> <<LocalAt(f, i.a)>>
      [] i.op = "Add" -> <<o[1]>>
      [] i.op = "Call" -> Sig[i.a].rets
      [] i.op = "Pack" -> <<Pool[i.a]>>
      [] i.op = "Unpack" -> Desc[Pool[i.a]].args
      [] i.op = "VecPack" -> <<VectorOf(Pool[i.a])>>
      [] i.op = "VecUnpack" -> [k \in 1 .. i.n |-> Pool[i.a]]
      [] i.op = "CastU8" -> <<CHOOSE t \in Types : Kind(t) = "int" /\ t # U64>>
      [] i.op \in {"CastU64", "VecLen"} -> <<U64>>
      [] i.op = "FreezeRef" -> <<ReferenceTo("ref", Referred(o[1]))>>
      [] i.op = "ReadRef" -> <<Referred(o[1])>>
      [] i.op = "MutBorrowLoc" -> <<ReferenceTo("mut", LocalAt(f, i.a))>>
      [] i.op = "ImmBorrowLoc" -> <<ReferenceTo("ref", LocalAt(f, i.a))>>
      [] i.op = "MutBorrowField" -> <<ReferenceTo("mut", Desc[Pool[i.a]].args[i.n])>>
      [] i.op = "ImmBorrowField" -> <<ReferenceTo("ref", Desc[Pool[i.a]].args[i.n])>>
      [] i.op \in {"MutBorrowGlobal", "VecMutBorrow"} -> <<ReferenceTo("mut", Pool[i.a])>>
      [] i.op \in {"ImmBorrowGlobal", "VecImmBorrow"} -> <<ReferenceTo("ref", Pool[i.a])>>
      [] i.op \in {"MoveFrom", "VecPopBack"} -> <<Pool[i.a]>>
      [] OTHER -> <<>>

Operands(f, i, st) == SubSeq(st, Len(st) - NumPops(f, i) + 1, Len(st))

TypeCheck(f, i, o) ==
    /\ DeclaredOk(f, i, o) /\ LocalsOk(f, i, o) /\ OperatorOk(i, o)
    /\ ReferenceOk(f, i, o) /\ GlobalOk(i, o) /\ VectorOk(i, o)

(* verify walks all blocks with one stack and stops at the first error;    *)
(* the stack usage pass has made sure that a pop never meets an empty      *)
(* stack.  The result is the type stack before every instruction, shorter  *)
(* than the code when an instruction was refused.                          *)
TypeStep(f, r, i) ==
    LET st == Last(r.stacks)
        o == Operands(f, i, st)
    IN  IF r.ok /\ TypeCheck(f, i, o)
        THEN [ok |-> TRUE,
              stacks |-> Append(r.stacks, SubSeq(st, 1, Len(st) - NumPops(f, i)) \o Pushed(f, i, o))]
        ELSE [ok |-> FALSE, stacks |-> r.stacks]

TypeStacks(f, c) ==
    FoldLeft(LAMBDA r, i : TypeStep(f, r, i), [ok |-> TRUE, stacks |-> << <<>> >>], c)

TypesOk(f, c) == TypeStacks(f, c).ok

-------------------------------------------------------------------------------
(* Locals safety: the abstract state of a local and its transfer           *)
(* functions.                                                              *)
LocalStates == {"Unavailable", "MaybeAvailable", "Available"}

InitialLocals(f) ==
    [l \in Locals(f) |-> IF l < Len(Sig[f].params) THEN "Available" ELSE "Unavailable"]

HoldsUndroppable(f, s, l) == s[l] # "Unavailable" /\ LocalAt(f, l) \notin Droppable

(* execute_inner: when an instruction is an error, and what it does.       *)
SafeToExecute(f, i, s) ==
    /\ i.op = "StLoc" => ~HoldsUndroppable(f, s, i.a)
    /\ i.op \in {"MoveLoc", "CopyLoc", "MutBorrowLoc", "ImmBorrowLoc"} => s[i.a] = "Available"
    /\ i.op = "Ret" => \A l \in Locals(f) : ~HoldsUndroppable(f, s, l)

ExecuteInner(i, s) ==
    CASE i.op = "StLoc" -> [s EXCEPT ![i.a] = "Available"]
      [] i.op = "MoveLoc" -> [s EXCEPT ![i.a] = "Unavailable"]
      [] OTHER -> s

(* join_: a local on which two paths disagree may be available.            *)
Join(s, t) == [l \in DOMAIN s |-> IF s[l] = t[l] THEN s[l] ELSE "MaybeAvailable"]

(* execute_block: the state after the block, or the error.                 *)
BlockOffsets(c, b) == [k \in 1 .. BlockEnd(c, b) - b + 1 |-> b + k - 1]

LocalsStep(f, c, r, pc) ==
    IF r.ok /\ SafeToExecute(f, At(c, pc), r.s)
    THEN [ok |-> TRUE, s |-> ExecuteInner(At(c, pc), r.s)]
    ELSE [ok |-> FALSE, s |-> r.s]

LocalsBlock(f, c, b, pre) ==
    FoldLeft(LAMBDA r, pc : LocalsStep(f, c, r, pc), [ok |-> TRUE, s |-> pre], BlockOffsets(c, b))

(* An instruction pops its operands before it is found to be an error.     *)
Popped(f, i, st, r) ==
    IF r.ok THEN r ELSE [r EXCEPT !.st = SubSeq(st, 1, Len(st) - NumPops(f, i))]

RefStep(f, c, r, pc) ==
    IF r.ok THEN Popped(f, At(c, pc), r.st, RefExecute(f, At(c, pc), r.s, r.st)) ELSE r

(* The reference pass makes the state canonical at the end of a block; an  *)
(* error may leave operands on the stack.                                  *)
RefsAtEnd(f, pre, r) ==
    [ok |-> r.ok, s |-> IF r.ok THEN Canonical(f, r.s) ELSE pre, left |-> r.st # <<>>]

RefsBlock(f, c, b, pre) ==
    RefsAtEnd(f, pre,
              FoldLeft(LAMBDA r, pc : RefStep(f, c, r, pc), RefOk(pre, <<>>), BlockOffsets(c, b)))

ExecuteBlock(f, c, b, pre) ==
    IF verdict = "locals" THEN LocalsBlock(f, c, b, pre) ELSE RefsBlock(f, c, b, pre)

(* AbstractDomain::join of the two analyses.                               *)
JoinPre(old, post) ==
    IF verdict = "locals" THEN Join(old, post)
    ELSE LET joined == RefJoin(old, post) IN IF RefUnchanged(old, joined) THEN old ELSE joined

(* A block the analysis has not met before.                                *)
Entered(map, b, pre) ==
    [x \in DOMAIN map \union {b} |-> IF x = b THEN [pre |-> pre, post |-> "Success"] ELSE map[x]]

PropagateAlways(m, next, post) ==
    [inv |-> IF next \in DOMAIN m.inv THEN [m.inv EXCEPT ![next].pre = JoinPre(@, post)]
             ELSE Entered(m.inv, next, post),
     work |-> Append(m.work, next)]

PropagateOnce(m, next, post) ==
    IF next \in DOMAIN m.inv THEN m
    ELSE [inv |-> Entered(m.inv, next, post), work |-> Append(m.work, next)]

(* Pass the state after a block on to one successor: insert it, or join it *)
(* and schedule the successor when that changed its precondition.          *)
Propagate(m, next, post) ==
    IF next \notin DOMAIN m.inv
    THEN [inv |-> Entered(m.inv, next, post), work |-> Append(m.work, next)]
    ELSE LET joined == JoinPre(m.inv[next].pre, post)
         IN  IF joined = m.inv[next].pre THEN m
             ELSE [inv |-> [m.inv EXCEPT ![next].pre = joined],
                   work |-> Append(m.work, next)]

PropagateAll(m, nexts, post) == FoldLeft(LAMBDA n, next : Propagate(n, next, post), m, nexts)

-------------------------------------------------------------------------------
(* The acquires list: what an instruction acquires itself or through the   *)
(* function it calls is annotated, and nothing else is.                    *)
Acquired(i) ==
    CASE i.op \in {"MoveFrom", "MutBorrowGlobal", "ImmBorrowGlobal"} -> {Pool[i.a]}
      [] i.op = "Call" -> Sig[i.a].acquires
      [] OTHER -> {}

AcquiresOk(f, c) ==
    /\ Sig[f].acquires = UNION {Acquired(At(c, pc)) : pc \in Offsets(c)}
    /\ Sig[f].acquires \subseteq Keyed

-------------------------------------------------------------------------------
VerifierInit ==
    /\ fn = FirstFunction
    /\ invMap = <<>>
    /\ workList = <<>>
    /\ verdict = "begin"

Reject ==
    /\ verdict' = "rejected"
    /\ UNCHANGED <<fn, invMap, workList>>

(* The start of analyze_function.                                          *)
StartAnalysis(phase, initial) ==
    /\ invMap' = [b \in {0} |-> [pre |-> initial, post |-> "Unprocessed"]]
    /\ workList' = <<0>>
    /\ verdict' = phase
    /\ UNCHANGED fn

(* verify_common up to the locals pass.                                    *)
VerifyCommon ==
    /\ verdict = "begin"
    /\ IF CF!Accepted(Body) /\ StackUsageOk(fn, Body) /\ TypesOk(fn, Body)
       THEN StartAnalysis("locals", InitialLocals(fn))
       ELSE Reject

(* The postcondition of a block.  "Litter" is an error of the reference    *)
(* pass that left operands on the stack the verifier keeps for all blocks. *)
PostOf(b, r) ==
    IF r.ok THEN "Success"
    ELSE IF verdict = "references" /\ (r.left \/ invMap[b].post = "Litter") THEN "Litter"
    ELSE "Error"

(* The stack must be empty at the end of a block, or the verifier panics.  *)
Panics(r) ==
    verdict = "references" /\ r.ok /\ \E b \in DOMAIN invMap : invMap[b].post = "Litter"

(* One round of analyze_function.                                          *)
AnalyzeBlock ==
    /\ verdict \in {"locals", "references"}
    /\ workList # <<>>
    /\ LET b == Last(workList)
           r == ExecuteBlock(fn, Body, b, invMap[b].pre)
           marked == [invMap EXCEPT ![b].post = PostOf(b, r)]
           done == PropagateAll([inv |-> marked, work |-> Front(workList)],
                                IF r.ok THEN Successors(Body, BlockEnd(Body, b)) ELSE <<>>, r.s)
       IN  IF Panics(r) THEN Reject
           ELSE invMap' = done.inv /\ workList' = done.work /\ UNCHANGED <<fn, verdict>>

NoErrors == \A b \in DOMAIN invMap : invMap[b].post \notin {"Error", "Litter"}

(* The end of locals_safety::verify, and on to the references.             *)
FinishLocals ==
    /\ verdict = "locals"
    /\ workList = <<>>
    /\ IF NoErrors THEN StartAnalysis("references", InitialRefs(fn)) ELSE Reject

(* The end of reference_safety::verify, the acquires list, and on to the   *)
(* next function.                                                          *)
FinishReferences ==
    /\ verdict = "references"
    /\ workList = <<>>
    /\ IF ~NoErrors \/ ~AcquiresOk(fn, Body) THEN Reject
       ELSE IF fn = LastFunction
       THEN verdict' = "accepted" /\ UNCHANGED <<fn, invMap, workList>>
       ELSE /\ fn' = fn + 1
            /\ verdict' = "begin"
            /\ invMap' = <<>>
            /\ UNCHANGED workList

VerifierNext == VerifyCommon \/ AnalyzeBlock \/ FinishLocals \/ FinishReferences

(* The verifier by itself.                                                 *)
VerifierSpec ==
    /\ \E family \in Programs : program \in family
    /\ VerifierInit
    /\ [][VerifierNext /\ UNCHANGED program]_<<program, verifierVars>>

-------------------------------------------------------------------------------
(* A path of the control flow graph, ignoring the values of conditions,    *)
(* is at an offset with some locals that hold a value.                     *)
PathStep(c, x) ==
    LET i == At(c, x[1])
        held == IF i.op = "StLoc" THEN x[2] \union {i.a}
                ELSE IF i.op = "MoveLoc" THEN x[2] \ {i.a} ELSE x[2]
    IN  {<<q, held>> : q \in Range(Successors(c, x[1]))}

PathSafe(f, c, x) ==
    LET i == At(c, x[1])
        stuck == {l \in Locals(f) : LocalAt(f, l) \notin Droppable}
    IN  /\ i.op = "StLoc" => i.a \notin x[2] \intersect stuck
        /\ i.op \in {"MoveLoc", "CopyLoc", "MutBorrowLoc", "ImmBorrowLoc"} => i.a \in x[2]
        /\ i.op = "Ret" => x[2] \intersect stuck = {}

(* When the worklist is empty and no error was found, both analyses have   *)
(* reached a fixed point: the state after every block adds nothing to the  *)
(* precondition of its successors.                                         *)
FixedPointReached ==
    verdict \in {"locals", "references"} /\ workList = <<>> /\ NoErrors =>
        \A b \in DOMAIN invMap :
            LET after == ExecuteBlock(fn, Body, b, invMap[b].pre).s
            IN  \A next \in Range(Successors(Body, BlockEnd(Body, b))) :
                    /\ next \in DOMAIN invMap
                    /\ JoinPre(invMap[next].pre, after) = invMap[next].pre

(* How much the analysis may still change: blocks it has not met, and      *)
(* locals that are not yet MaybeAvailable in the blocks it has met.        *)
Undecided(map, b) ==
    IF b \in DOMAIN map
    THEN Cardinality({l \in Locals(fn) : map[b].pre[l] # "MaybeAvailable"})
    ELSE Cardinality(Locals(fn)) + 1

Variant(map, work) ==
    Len(work) + 2 * SumFunction([b \in BlockIds(Body) |-> Undecided(map, b)])

(* Every round of the worklist uses up some of a quantity that cannot drop *)
(* below zero, so the locals analysis ends whatever the loops of the code. *)
AnalysisProgresses ==
    [][verdict = "locals" /\ AnalyzeBlock =>
           Variant(invMap', workList') < Variant(invMap, workList)]_verifierVars
===============================================================================
