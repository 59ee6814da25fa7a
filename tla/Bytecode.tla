------------------------------- MODULE Bytecode -------------------------------
(***************************************************************************)
(* Code units of the Move VM as the bytecode verifier and the interpreter  *)
(* see them: instructions, jump targets, successors and basic blocks.      *)
(* An instruction is [op, a, n]: the opcode, its index or offset operand   *)
(* (a local, a jump target, a pool index, a function) and the element      *)
(* count of the vector instructions.  Offsets count from 0 as in the code, *)
(* so the instruction at offset pc is code[pc + 1].                        *)
(***************************************************************************)
EXTENDS Integers, Sequences, FiniteSets

Instr(op, a, n) == [op |-> op, a |-> a, n |-> n]

I0(op) == Instr(op, 0, 0)
I1(op, a) == Instr(op, a, 0)

Offsets(code) == 0 .. Len(code) - 1

At(code, pc) == code[pc + 1]

IsConditional(i) == i.op \in {"BrTrue", "BrFalse"}

IsUnconditional(i) == i.op \in {"Ret", "Abort", "Branch"}

HasOffset(i) == i.op \in {"BrTrue", "BrFalse", "Branch"}

(* The successors of an instruction, in ascending order and without        *)
(* duplicates; the last instruction never falls through.                   *)
Successors(code, pc) ==
    LET i == At(code, pc)
        target == IF HasOffset(i) THEN {i.a} ELSE {}
        next == IF pc + 1 < Len(code) /\ ~IsUnconditional(i)
                THEN {pc + 1} ELSE {}
        both == target \union next
    IN  IF both = {} THEN <<>>
        ELSE LET least == CHOOSE x \in both : \A y \in both : x <= y
             IN  IF Cardinality(both) = 1 THEN <<least>>
                 ELSE <<least, CHOOSE x \in both : x # least>>

(* The offsets that begin a basic block.                                   *)
BlockIds(code) ==
    {0} \union {At(code, pc).a : pc \in {p \in Offsets(code) : HasOffset(At(code, p))}}
        \union {pc + 1 : pc \in {p \in Offsets(code) :
                    /\ p + 1 < Len(code)
                    /\ IsConditional(At(code, p)) \/ IsUnconditional(At(code, p))}}

IsEndOfBlock(code, pc) == pc + 1 = Len(code) \/ pc + 1 \in BlockIds(code)

(* The first instruction from b on that ends a block.                      *)
BlockEnd(code, b) ==
    LET starts == BlockIds(code)
        isEnd(pc) == pc + 1 = Len(code) \/ pc + 1 \in starts
    IN  CHOOSE e \in Offsets(code) : /\ e >= b
                                     /\ isEnd(e)
                                     /\ \A p \in b .. e - 1 : ~isEnd(p)

(* What the bounds checker has established before a code unit is verified: *)
(* every jump lands inside the code.                                       *)
InBounds(code) ==
    \A pc \in Offsets(code) : HasOffset(At(code, pc)) => At(code, pc).a < Len(code)
===============================================================================
