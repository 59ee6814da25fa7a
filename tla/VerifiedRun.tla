------------------------------ MODULE VerifiedRun ------------------------------
(***************************************************************************)
(* The bytecode verifier in front of the interpreter: a program is         *)
(* verified function by function and runs only when all of it is accepted. *)
(* The properties say what acceptance promises the interpreter, which does *)
(* not check again.                                                        *)
(***************************************************************************)
EXTENDS CodeVerifier, ReferenceInstructions

runVars == <<program, verifierVars, interpreterVars>>

VerifiedInit ==
    /\ \E family \in Programs : program \in family
    /\ VerifierInit
    /\ InterpreterInit

Verify ==
    /\ VerifierNext
    /\ UNCHANGED <<program, interpreterVars>>

Start ==
    /\ verdict = "accepted"
    /\ Execute
    /\ UNCHANGED <<program, verifierVars>>

Run ==
    /\ Step \/ ReferenceStep
    /\ UNCHANGED <<program, verifierVars>>

Finished == verdict = "rejected" \/ status \notin {"idle", "run"}

VerifiedNext == Verify \/ Start \/ Run

VerifiedSpec == VerifiedInit /\ [][VerifiedNext]_runVars

-------------------------------------------------------------------------------
(* The checks of the interpreter that the verifier makes superfluous never *)
(* fail on verified code: no pop from an empty stack, no cast of a value   *)
(* of another type, no use of a moved local, no element of another layout, *)
(* no run off the end of the code.  The one check that the verifier does   *)
(* not make superfluous has its own status here, "MOVING_REFERRED_         *)
(* CONTAINER": a container that a reference counts is not moved or taken   *)
(* apart (swap_loc, move_from and take_unique_ownership), and a reference  *)
(* that a join has made the analysis forget counts.                        *)
NoFailedCheck == status \notin {"EMPTY_VALUE_STACK", "INTERNAL_TYPE_ERROR",
                                "UNKNOWN_INVARIANT_VIOLATION_ERROR", "PC_OVERFLOW"}

(* Verified code uses no reference whose place was moved away or           *)
(* overwritten, and no immutable reference to something that has changed   *)
(* since.                                                                  *)
NoDeadReference == status \notin {"DANGLING_REFERENCE", "STALE_REFERENCE"}

StaticStack(fr) == TypeStacks(fr.fn, program[fr.fn]).stacks[fr.pc + 1]

(* What a suspended frame left on the stack: what is under the arguments   *)
(* of its call.                                                            *)
Suspended(fr) ==
    LET st == StaticStack(fr)
    IN  SubSeq(st, 1, Len(st) - NumPops(fr.fn, At(program[fr.fn], fr.pc)))

(* What all suspended frames left there, frame after frame.                *)
WaitingStack ==
    LET under[k \in 0 .. Len(callStack)] ==
            IF k = 0 THEN <<>> ELSE under[k - 1] \o Suspended(callStack[k])
    IN  under[Len(callStack)]

(* The operand stack is, frame after frame, what the type checker computed *)
(* for the instruction each frame is at, and nothing else is on it; every  *)
(* local of the frame holds a value of its declared type or none.          *)
StackAsTyped ==
    status = "run" =>
        /\ [k \in DOMAIN operandStack |-> operandStack[k].ty] = WaitingStack \o StaticStack(frame)
        /\ \A l \in Locals(frame.fn) :
             frame.locals[l] = Invalid \/ frame.locals[l].ty = LocalAt(frame.fn, l)

(* The operands of every VecPack have the element type.  The verifier does *)
(* not look (type_safety.rs:724); a compiler sees to it.                   *)
PacksTyped ==
    \A f \in DOMAIN program : \A pc \in Offsets(program[f]) :
        LET i == At(program[f], pc)
            st == TypeStacks(f, program[f]).stacks[pc + 1]
        IN  i.op = "VecPack" => Operands(f, i, st) = [k \in 1 .. i.n |-> Pool[i.a]]
===============================================================================
