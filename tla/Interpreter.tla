------------------------------ MODULE Interpreter ------------------------------
(***************************************************************************)
(* The interpreter (runtime/src/interpreter.rs): frames, the call stack,   *)
(* the operand stack and one action per instruction, with every check the  *)
(* code makes at run time and the status it fails with.  Integers have no  *)
(* value, so an addition may overflow and a comparison may go either way;  *)
(* gas may run out before any instruction.                                 *)
(*                                                                         *)
(* A value is [ty, b, f]: the type it was made with, which the run time    *)
(* checks only through its kind, the value of a boolean, and the fields of *)
(* a struct or the elements of a vector.  A reference has also the place   *)
(* it refers to and a mark.  In the code it is a counted pointer, which    *)
(* follows its container wherever that moves and keeps it from being taken *)
(* apart; so the place follows too, and the mark notes that it is no       *)
(* longer the one that was borrowed, or that it was written to, to say     *)
(* that verified code never uses such a reference.                         *)
(***************************************************************************)
EXTENDS Program, SequencesExt

CONSTANTS
    Arguments,        \* function -> the argument sequences it may be executed with
    Stored,           \* the contents the account may have before
    Inputs,           \* the values both are made of, with all their components
    StackLimit,       \* OPERAND_STACK_SIZE_LIMIT
    CallLimit         \* CALL_STACK_SIZE_LIMIT

VARIABLES
    frame,          \* the current frame [fn, pc, locals]
    callStack,      \* the suspended frames
    operandStack,
    global,         \* the resources of the one account: type -> value, or Invalid
    status          \* "idle", "run", "done" or the status code of an error

interpreterVars == <<frame, callStack, operandStack, global, status>>

Val(t, b, f) == [ty |-> t, b |-> b, f |-> f]
Invalid == Val("Invalid", FALSE, <<>>)
Flat(t) == Val(t, FALSE, <<>>)
BoolType == CHOOSE t \in Types : Kind(t) = "bool"
Bool(b) == Val(BoolType, b, <<>>)

(* The representation the value has at run time, all that a cast can see.  *)
Rep(v) == IF v = Invalid THEN "invalid" ELSE Kind(v.ty)

(* A value is built as its type says, from components in a set.            *)
WellBuilt(v, set) ==
    /\ v = Val(v.ty, v.b, v.f)
    /\ v.ty \in Types /\ v.b \in BOOLEAN
    /\ Kind(v.ty) \notin {"ref", "mut"}
    /\ v.f \in Seq(set)
    /\ Kind(v.ty) # "vector" => Len(v.f) = Len(Desc[v.ty].args)
    /\ \A k \in DOMAIN v.f : v.f[k].ty = Desc[v.ty].args[IF Kind(v.ty) = "vector" THEN 1 ELSE k]

(* Locals::new and store_loc of the arguments.                             *)
NewFrame(f, args) ==
    [fn |-> f, pc |-> 0,
     locals |-> [l \in Locals(f) |-> IF l < Len(args) THEN args[l + 1] ELSE Invalid]]

Code(f) == program[f]

InterpreterInit ==
    /\ frame = NewFrame(LastFunction, <<>>)
    /\ callStack = <<>>
    /\ operandStack = <<>>
    /\ global = [t \in Keyed |-> Invalid]
    /\ status = "idle"

-------------------------------------------------------------------------------
(* A reference to the place `at`: a root and the indices that lead from it *)
(* to the value.  A root is a local of a frame, counted from the bottom of *)
(* the call stack, a global resource, or a signer made for the call.       *)
Ref(t, at) == [ty |-> t, b |-> FALSE, f |-> <<>>, at |-> at, mark |-> "live"]

IsReference(v) == "at" \in DOMAIN v
IsContainer(t) == Kind(t) \in {"struct", "vector", "signer"}
RefersTo(v) == Desc[v.ty].args[1]

(* What comes from outside has the declared types: deserialization sees to *)
(* that.  An argument is a value or a reference to a signer.               *)
SignerRoot(t) == <<"signer", t>>

ArgumentOf(v, t) ==
    \/ v \in Inputs /\ v.ty = t
    \/ /\ Kind(t) = "ref" /\ Kind(Desc[t].args[1]) = "signer"
       /\ v = Ref(t, <<SignerRoot(Desc[t].args[1])>>)

(* popn takes a u16.                                                       *)
U16 == 65536

ASSUME InterpreterConstants ==
    /\ StackLimit \in Nat \ {0} /\ CallLimit \in Nat \ {0}
    /\ StackLimit < U16
    /\ \A v \in Inputs : WellBuilt(v, Inputs)
    /\ \A f \in DOMAIN Arguments : \A args \in Arguments[f] :
          /\ f \in Functions
          /\ args = [k \in 1 .. Len(Sig[f].params) |-> args[k]]
          /\ \A k \in DOMAIN args : ArgumentOf(args[k], Sig[f].params[k])
    /\ \A g \in Stored : /\ g \in [Keyed -> Inputs \union {Invalid}]
                          /\ \A t \in Keyed : g[t] = Invalid \/ g[t].ty = t
    /\ \A family \in Programs : \A p \in family :
          \E f \in DOMAIN p \intersect DOMAIN Arguments : \A g \in DOMAIN p : g <= f

LocalRoot(depth, l) == <<"local", depth, l>>
GlobalRoot(t) == <<"global", t>>
ThisLocal(l) == <<LocalRoot(Len(callStack) + 1, l)>>

Frames == Append(callStack, frame)

(* All references that are held.                                           *)
Held ==
    {v \in Range(operandStack)
             \union UNION {{fr.locals[l] : l \in DOMAIN fr.locals} : fr \in Range(Frames)} :
        IsReference(v)}

(* Where a value is while it is an operand, and once it was dropped.       *)
OnStack(j) == << <<"stack", j>> >>
Nowhere == << <<"nowhere">> >>

(* The place of the container whose count a reference adds to: what it     *)
(* refers to, or what that is an element of when it is no container.       *)
Counts(r) == IF IsContainer(RefersTo(r)) THEN r.at ELSE Front(r.at)

(* rc_count > 1 of the container at a place.                               *)
StillReferred(at) == \E r \in Held : Counts(r) = at

(* Values move, each from a place to another; moves is a set of such       *)
(* pairs.  A reference to what moved, or to a part of it, goes along when  *)
(* it counts in there.                                                     *)
Displaced(moves, v) ==
    IF ~IsReference(v) \/ ~\E m \in moves : IsPrefix(m[1], v.at) THEN v
    ELSE LET m == CHOOSE x \in moves : IsPrefix(x[1], v.at)
             along == m[2] \o SubSeq(v.at, Len(m[1]) + 1, Len(v.at))
         IN  [v EXCEPT !.mark = "dangling", !.at = IF IsPrefix(m[1], Counts(v)) THEN along ELSE @]

(* A place was written to as well: for an immutable reference to it or to  *)
(* what contains it the value has changed.                                 *)
Overwritten(at, moves, v) ==
    LET w == Displaced(moves, v)
    IN  IF IsReference(w) /\ w.mark # "dangling" /\ IsPrefix(w.at, at) /\ Kind(w.ty) = "ref"
        THEN [w EXCEPT !.mark = "stale"] ELSE w

MarkFrame(mark(_), fr) == [fr EXCEPT !.locals = [l \in DOMAIN @ |-> mark(@[l])]]
MarkAll(mark(_), vs) == [k \in DOMAIN vs |-> mark(vs[k])]

-------------------------------------------------------------------------------
Depth == Len(operandStack)
TopN(n) == SubSeq(operandStack, Depth - n + 1, Depth)
Below(n) == SubSeq(operandStack, 1, Depth - n)
Top == operandStack[Depth]

(* The instruction at pc is op.                                            *)
Running(op) ==
    /\ status = "run"
    /\ At(Code(frame.fn), frame.pc).op = op

Current == At(Code(frame.fn), frame.pc)

Fail(code) ==
    /\ status' = code
    /\ UNCHANGED <<frame, callStack, operandStack, global>>

Unless(cond, code, act) == IF cond THEN act ELSE Fail(code)

(* Finish an instruction: push its results on the rest of the stack, unless *)
(* that exceeds the limit, and go to pc, which must be inside the code.     *)
(* The references that are held follow what moved.                          *)
Resume(moves, rest, results, locals, pc) ==
    LET mark(v) == Displaced(moves, v)
    IN  IF Len(rest) + Len(results) > StackLimit
        THEN Fail("EXECUTION_STACK_OVERFLOW")
        ELSE IF pc >= Len(Code(frame.fn))
        THEN Fail("PC_OVERFLOW")
        ELSE /\ operandStack' = MarkAll(mark, rest) \o results
             /\ frame' = MarkFrame(mark, [frame EXCEPT !.locals = locals, !.pc = pc])
             /\ callStack' = [k \in DOMAIN callStack |-> MarkFrame(mark, callStack[k])]
             /\ UNCHANGED <<global, status>>

Continue(moves, rest, results) == Resume(moves, rest, results, frame.locals, frame.pc + 1)

Jump(rest, pc) == Resume({}, rest, <<>>, frame.locals, pc)

(* The operands that an instruction drops, the k-th of n that it packs,    *)
(* and the k-th component of what is on top.                               *)
Dropping(n) == {<<OnStack(Depth - n + k), Nowhere>> : k \in 1 .. n}
Packing(n) == {<<OnStack(Depth - n + k), Append(OnStack(Depth - n + 1), k)>> : k \in 1 .. n}
Unpacking == {<<Append(OnStack(Depth), k), OnStack(Depth - 1 + k)>> : k \in DOMAIN Top.f}

(* take_unique_ownership of an operand.  The status stands for             *)
(* UNKNOWN_INVARIANT_VIOLATION_ERROR, which the code gives to all moves of *)
(* a container that a reference still counts.                              *)
Owned(at, act) == Unless(~StillReferred(at), "MOVING_REFERRED_CONTAINER", act)

PopInstr ==
    /\ Running("Pop")
    /\ Unless(Depth >= 1, "EMPTY_VALUE_STACK", Continue(Dropping(1), Below(1), <<>>))

Nop ==
    /\ Running("Nop")
    /\ Continue({}, operandStack, <<>>)

(* BrTrue and BrFalse pop a boolean and jump when it is b.                 *)
ConditionalBranch(op, b) ==
    /\ Running(op)
    /\ Unless(Depth >= 1, "EMPTY_VALUE_STACK",
         Unless(Rep(Top) = "bool", "INTERNAL_TYPE_ERROR",
           Jump(Below(1), IF Top.b = b THEN Current.a ELSE frame.pc + 1)))

Branch ==
    /\ Running("Branch")
    /\ Jump(operandStack, Current.a)

Load ==
    \/ Running("LdU64") /\ Continue({}, operandStack, <<Flat(U64)>>)
    \/ Running("LdTrue") /\ Continue({}, operandStack, <<Bool(TRUE)>>)
    \/ Running("LdFalse") /\ Continue({}, operandStack, <<Bool(FALSE)>>)

CopyLoc ==
    /\ Running("CopyLoc")
    /\ Unless(frame.locals[Current.a] # Invalid, "UNKNOWN_INVARIANT_VIOLATION_ERROR",
         Continue({}, operandStack, <<frame.locals[Current.a]>>))

(* swap_loc: a container that is still referred to is not taken out.       *)
Swappable(l) == IsContainer(frame.locals[l].ty) => ~StillReferred(ThisLocal(l))

\* Mutant of MoveLoc: the value stays in the local.
MoveLocKeeps ==
    /\ Running("MoveLoc")
    /\ Unless(frame.locals[Current.a] # Invalid, "UNKNOWN_INVARIANT_VIOLATION_ERROR",
         Continue({}, operandStack, <<frame.locals[Current.a]>>))

MoveLoc ==
    /\ Running("MoveLoc")
    /\ LET l == Current.a
       IN  Unless(frame.locals[l] # Invalid, "UNKNOWN_INVARIANT_VIOLATION_ERROR",
             Unless(Swappable(l), "MOVING_REFERRED_CONTAINER",
               Resume({<<ThisLocal(l), OnStack(Depth + 1)>>}, operandStack, <<frame.locals[l]>>,
                      [frame.locals EXCEPT ![l] = Invalid], frame.pc + 1)))

(* store_loc drops the value the local held.                               *)
StLoc ==
    /\ Running("StLoc")
    /\ LET l == Current.a
           moves == {<<ThisLocal(l), Nowhere>>, <<OnStack(Depth), ThisLocal(l)>>}
       IN  Unless(Depth >= 1, "EMPTY_VALUE_STACK",
             Unless(frame.locals[l] = Invalid \/ Swappable(l), "MOVING_REFERRED_CONTAINER",
               Resume(moves, Below(1), <<>>, [frame.locals EXCEPT ![l] = Top], frame.pc + 1)))

(* popn of the fields; the fields' types are not checked.                  *)
Pack ==
    /\ Running("Pack")
    /\ LET n == Len(Desc[Pool[Current.a]].args)
       IN  Unless(Depth >= n, "EMPTY_VALUE_STACK",
             Continue(Packing(n), Below(n), <<Val(Pool[Current.a], FALSE, TopN(n))>>))

(* A signer is a struct at run time.                                       *)
IsStruct(v) == Rep(v) \in {"struct", "signer"}

Unpack ==
    /\ Running("Unpack")
    /\ Unless(Depth >= 1, "EMPTY_VALUE_STACK",
         Unless(IsStruct(Top), "INTERNAL_TYPE_ERROR",
           Owned(OnStack(Depth), Continue(Unpacking, Below(1), Top.f))))

(* Vector::pack: the elements of a vector of integers or booleans are      *)
(* cast, those of a vector of structs or vectors are taken as they are,    *)
(* and the type must not be a type parameter.                              *)
VecPack ==
    /\ Running("VecPack")
    /\ LET elem == Pool[Current.a]
           n == Current.n % U16
       IN  Unless(Depth >= n, "EMPTY_VALUE_STACK",
             Unless(Kind(elem) \notin {"param", "ref", "mut"},
                    "UNKNOWN_INVARIANT_VIOLATION_ERROR",
               Unless(IsContainer(elem)
                        \/ \A k \in 1 .. n : TopN(n)[k].ty = elem, "INTERNAL_TYPE_ERROR",
                 Continue(Packing(n), Below(n),
                   <<Val(CHOOSE t \in Types : Kind(t) = "vector" /\ Desc[t].args = <<elem>>,
                         FALSE, TopN(n))>>))))

(* check_elem_layout compares containers: vectors of structs and vectors   *)
(* of vectors look alike, those of integers and booleans do not.           *)
Layout(t) == IF IsContainer(t) THEN "container" ELSE t

HasLayout(t, elem) ==
    /\ Kind(t) = "vector" /\ Kind(elem) \notin {"param", "ref", "mut"}
    /\ Layout(Desc[t].args[1]) = Layout(elem)

VecUnpack ==
    /\ Running("VecUnpack")
    /\ Unless(Depth >= 1, "EMPTY_VALUE_STACK",
         Unless(IsContainer(Top.ty), "INTERNAL_TYPE_ERROR",
           Unless(HasLayout(Top.ty, Pool[Current.a]), "UNKNOWN_INVARIANT_VIOLATION_ERROR",
             Owned(OnStack(Depth),
               Unless(Len(Top.f) = Current.n, "ABORTED", Continue(Unpacking, Below(1), Top.f))))))

(* Add: two integers of one width; the sum may not fit.                    *)
Add ==
    /\ Running("Add")
    /\ Unless(Depth >= 2, "EMPTY_VALUE_STACK",
         LET o == TopN(2)
         IN  Unless(Rep(o[1]) = "int" /\ o[1].ty = o[2].ty, "INTERNAL_TYPE_ERROR",
               \/ Continue({}, Below(2), <<Flat(o[1].ty)>>)
               \/ Fail("ARITHMETIC_ERROR")))

(* equals compares representations, not types.                             *)
Comparable(v, w) ==
    /\ Rep(v) = Rep(w)
    /\ Rep(v) = "int" => v.ty = w.ty
    /\ Rep(v) = "vector" => Layout(Desc[v.ty].args[1]) = Layout(Desc[w.ty].args[1])

(* The values of integers are abstract, so equality of anything but two    *)
(* booleans may go either way.                                             *)
Eq ==
    /\ Running("Eq")
    /\ ~(Depth >= 2 /\ IsReference(TopN(2)[1]) /\ IsReference(TopN(2)[2]))
    /\ Unless(Depth >= 2, "EMPTY_VALUE_STACK",
         LET o == TopN(2)
         IN  Unless(Comparable(o[1], o[2]), "INTERNAL_TYPE_ERROR",
               \E b \in (IF Rep(o[1]) = "bool" THEN {o[1].b = o[2].b} ELSE BOOLEAN) :
                   Continue(Dropping(2), Below(2), <<Bool(b)>>)))

And ==
    /\ Running("And")
    /\ Unless(Depth >= 2, "EMPTY_VALUE_STACK",
         Unless(Rep(TopN(2)[1]) = "bool" /\ Rep(TopN(2)[2]) = "bool", "INTERNAL_TYPE_ERROR",
           Continue({}, Below(2), <<Bool(TopN(2)[1].b /\ TopN(2)[2].b)>>)))

Not ==
    /\ Running("Not")
    /\ Unless(Depth >= 1, "EMPTY_VALUE_STACK",
         Unless(Rep(Top) = "bool", "INTERNAL_TYPE_ERROR",
           Continue({}, Below(1), <<Bool(~Top.b)>>)))

Abort ==
    /\ Running("Abort")
    /\ Unless(Depth >= 1, "EMPTY_VALUE_STACK",
         Unless(Top.ty = U64, "INTERNAL_TYPE_ERROR", Fail("ABORTED")))

(* Call: the arguments are popped into the locals of a new frame before    *)
(* the caller is pushed.                                                   *)
Call ==
    /\ Running("Call")
    /\ LET n == Len(Sig[Current.a].params)
           moves == {<<OnStack(Depth - n + k), <<LocalRoot(Len(callStack) + 2, k - 1)>> >> : k \in 1 .. n}
           mark(v) == Displaced(moves, v)
           marked(fr) == MarkFrame(mark, fr)
       IN  Unless(Depth >= n, "EMPTY_VALUE_STACK",
             Unless(Len(callStack) < CallLimit, "CALL_STACK_OVERFLOW",
               /\ callStack' = [k \in 1 .. Len(callStack) + 1 |-> marked(Frames[k])]
               /\ frame' = NewFrame(Current.a, MarkAll(mark, TopN(n)))
               /\ operandStack' = MarkAll(mark, Below(n))
               /\ UNCHANGED <<global, status>>))

(* Ret: the results stay on the operand stack; the caller continues after  *)
(* its call.  The locals of the callee are dropped.                        *)
Ret ==
    /\ Running("Ret")
    /\ IF callStack = <<>>
       THEN status' = "done" /\ UNCHANGED <<frame, callStack, operandStack, global>>
       ELSE LET caller == Last(callStack)
                moves == {<<ThisLocal(l), Nowhere>> : l \in DOMAIN frame.locals}
                mark(v) == Displaced(moves, v)
            IN  Unless(caller.pc + 1 < Len(Code(caller.fn)), "PC_OVERFLOW",
                  /\ frame' = MarkFrame(mark, [caller EXCEPT !.pc = @ + 1])
                  /\ callStack' = [k \in DOMAIN Front(callStack) |-> MarkFrame(mark, callStack[k])]
                  /\ operandStack' = MarkAll(mark, operandStack)
                  /\ UNCHANGED <<global, status>>)

(* Every instruction is charged for.                                       *)
OutOfGas ==
    /\ status = "run"
    /\ Fail("OUT_OF_GAS")

Execute ==
    /\ status = "idle"
    /\ \E args \in Arguments[LastFunction] : frame' = NewFrame(LastFunction, args)
    /\ global' \in Stored
    /\ status' = "run"
    /\ UNCHANGED <<callStack, operandStack>>

Step ==
    \/ PopInstr \/ Nop \/ ConditionalBranch("BrTrue", TRUE) \/ ConditionalBranch("BrFalse", FALSE)
    \/ Branch \/ Load \/ CopyLoc \/ MoveLoc \/ StLoc \/ Pack \/ Unpack \/ VecPack \/ VecUnpack
    \/ Add \/ Eq \/ And \/ Not \/ Abort \/ Call \/ Ret \/ OutOfGas
===============================================================================
