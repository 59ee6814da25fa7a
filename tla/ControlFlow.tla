------------------------------ MODULE ControlFlow ------------------------------
(***************************************************************************)
(* The control flow pass of the bytecode verifier                          *)
(* (bytecode-verifier/src/control_flow.rs), over every code unit of at     *)
(* most MaxCode instructions from Alphabet.  A behaviour builds a code     *)
(* unit instruction by instruction; the properties compare the pass, which *)
(* walks the code with a stack of open loops, with what its documentation  *)
(* promises about the jumps of the code it accepts.                        *)
(***************************************************************************)
EXTENDS Bytecode, Functions

CONSTANTS
    Alphabet,   \* the instructions a code unit is built from
    MaxCode     \* bound on the length of a code unit

ASSUME MaxCodeAssumption == MaxCode \in Nat

\* CodeOffset is an unsigned number.
ASSUME OffsetsAssumption == \A i \in Alphabet : HasOffset(i) => i.a \in Nat

VARIABLE code

vars == <<code>>

BackJump(c, pc) == HasOffset(At(c, pc)) /\ At(c, pc).a <= pc

ForwardJump(c, pc) == HasOffset(At(c, pc)) /\ At(c, pc).a > pc

(* instruction_labels: a loop head is the target of a back jump, and its   *)
(* label keeps the last of those jumps.                                    *)
Continues(c, h) == {pc \in Offsets(c) : BackJump(c, pc) /\ At(c, pc).a = h}

LastContinueFirst(c, h) == CHOOSE pc \in Continues(c, h) : \A q \in Continues(c, h) : q >= pc

LoopHeads(c) == {h \in Offsets(c) : Continues(c, h) # {}}

LastContinue(c, h) == CHOOSE pc \in Continues(c, h) : \A q \in Continues(c, h) : q <= pc

EndOf(loop) == loop[2]

Top(stack) == stack[Len(stack)]

Closes(c, pc, stack) == BackJump(c, pc) /\ stack # <<>> /\ pc = EndOf(Top(stack))

(* check_code: the stack of open loops with which each instruction is      *)
(* checked.  A loop is pushed at its head and popped after its last        *)
(* continue.                                                               *)
OpenLoops(c) ==
    LET heads == LoopHeads(c)
        open[pc \in Offsets(c)] ==
            LET before == IF pc = 0 THEN <<>> ELSE open[pc - 1]
                prev == IF pc > 0 /\ Closes(c, pc - 1, before)
                        THEN SubSeq(before, 1, Len(before) - 1) ELSE before
            IN  IF pc \in heads
                THEN Append(prev, <<pc, LastContinue(c, pc)>>) ELSE prev
    IN  open

(* check_continues.  The code unwraps the top of the stack.                *)
ContinueOk(c, open, pc) ==
    BackJump(c, pc) => LET loops == open[pc]
                       IN  loops # <<>> /\ At(c, pc).a = Top(loops)[1]

BreakOkAnywhere(c, open, pc) == TRUE

(* check_breaks.                                                           *)
BreakOk(c, open, pc) ==
    LET loops == open[pc]
    IN  ForwardJump(c, pc) /\ loops # <<>> /\ At(c, pc).a > EndOf(Top(loops))
            => At(c, pc).a = EndOf(Top(loops)) + 1

(* count_loop_depth.                                                       *)
LoopDepth(c) ==
    LET heads == LoopHeads(c)
        last == {LastContinue(c, h) : h \in heads}
        depth[pc \in Offsets(c)] ==
            (IF pc = 0 THEN 0
             ELSE depth[pc - 1] - (IF pc - 1 \in last THEN 1 ELSE 0))
            + (IF pc \in heads THEN 1 ELSE 0)
    IN  depth

IsBreak(loops, target) == loops # <<>> /\ target > EndOf(Top(loops))

(* check_no_loop_splits.                                                   *)
SplitOk(c, open, depth, pc) ==
    LET j == At(c, pc).a
    IN  ForwardJump(c, pc) /\ ~IsBreak(open[pc], j)
            => depth[pc] = (IF j \in LoopHeads(c) THEN depth[j] - 1 ELSE depth[j])

(* control_flow::verify.                                                   *)
Accepted(c) ==
    LET open == OpenLoops(c)
        depth == LoopDepth(c)
    IN  /\ c # <<>>
        /\ IsUnconditional(At(c, Len(c) - 1))
        /\ \A pc \in Offsets(c) : ContinueOk(c, open, pc)
        /\ \A pc \in Offsets(c) : BreakOk(c, open, pc)
        /\ \A pc \in Offsets(c) : SplitOk(c, open, depth, pc)

Init == code = <<>>

(* The deserializer reads one more instruction of the code unit.           *)
Extend ==
    /\ Len(code) < MaxCode
    /\ \E i \in Alphabet : code' = Append(code, i)

Next == Extend

Spec == Init /\ [][Next]_vars

-------------------------------------------------------------------------------
(* The code unit a bounds checked function would hold.                     *)
Verified == InBounds(code) /\ Accepted(code)

Body(h) == h .. LastContinue(code, h)

Edges == UNION {{p} \X Range(Successors(code, p)) : p \in Offsets(code)}

(* "All forward jumps do not enter into the middle of a loop": in accepted *)
(* code every edge into a loop from outside it, jump or fall-through,      *)
(* goes to its head.                                                       *)
LoopsEnteredAtHead ==
    Verified => \A h \in LoopHeads(code) : \A e \in Edges :
        e[1] \notin Body(h) /\ e[2] \in Body(h) => e[2] = h

(* "All breaks go to the end of the loop": every edge that leaves a loop   *)
(* goes to the instruction after its last continue.                        *)
LoopsLeftAtEnd ==
    Verified => \A h \in LoopHeads(code) : \A e \in Edges :
        e[1] \in Body(h) /\ e[2] \notin Body(h) => e[2] = LastContinue(code, h) + 1

(* "All continues are only to the current loop": loops are nested or       *)
(* disjoint, and a back jump goes to the innermost loop around it.         *)
LoopsNested ==
    Verified => \A h, g \in LoopHeads(code) :
        /\ Body(h) \intersect Body(g) = {} \/ Body(h) \subseteq Body(g) \/ Body(g) \subseteq Body(h)
        /\ \A pc \in Continues(code, h) : pc \in Body(g) => Body(h) \subseteq Body(g)

(* Accepted code has structured loops only: nested, entered at the head    *)
(* and left at the end (control_flow.rs, the three rules of verify).       *)
LoopsStructured == LoopsNested /\ LoopsEnteredAtHead /\ LoopsLeftAtEnd

(* The pass never unwraps an empty loop stack: the first back jump that is *)
(* not to the open loop ends the walk with an error, and up to there every *)
(* back jump finds its loop open.  The depth count never drops below zero  *)
(* once the continues are checked.                                         *)
NeverUnwrapsEmpty ==
    InBounds(code) /\ code # <<>> =>
        LET open == OpenLoops(code)
            depth == LoopDepth(code)
            bad == {pc \in Offsets(code) : ~ContinueOk(code, open, pc)}
        IN  /\ \A pc \in Offsets(code) :
                 BackJump(code, pc) /\ (\A q \in bad : q >= pc) => open[pc] # <<>>
            /\ bad = {} => \A pc \in Offsets(code) : depth[pc] >= 0

===============================================================================
