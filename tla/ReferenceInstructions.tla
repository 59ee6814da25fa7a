------------------------- MODULE ReferenceInstructions -------------------------
(***************************************************************************)
(* The instructions of the interpreter that make and use references, reach *)
(* global storage and vectors through them, and convert integers.          *)
(* Integers have no value: an index may be any element or out of bounds.   *)
(***************************************************************************)
EXTENDS Interpreter

CONSTANT MaxVector   \* how long a vector may grow before the gas is used up
ASSUME MaxVectorAssumption == MaxVector \in Nat

(* The value at a place.                                                   *)
SignerValue(t) == Val(t, FALSE, <<Flat(Desc[t].args[1])>>)

RootValue(root) ==
    CASE root[1] = "local" -> Frames[root[2]].locals[root[3]]
      [] root[1] = "global" -> global[root[2]]
      [] root[1] = "signer" -> SignerValue(root[2])

(* The values on the way from v along a path, v itself first.              *)
Visited(v, path) ==
    LET visited[n \in 0 .. Len(path)] == IF n = 0 THEN v ELSE visited[n - 1].f[path[n]]
    IN  visited

At_(v, path) == Visited(v, path)[Len(path)]

ValueAt(at) == At_(RootValue(at[1]), Tail(at))

(* The same values once the last of them is new.                           *)
Rebuilt(v, path, new) ==
    LET visited == Visited(v, path)
        rebuilt[n \in 0 .. Len(path)] ==
            IF n = Len(path) THEN new ELSE [visited[n] EXCEPT !.f[path[n + 1]] = rebuilt[n + 1]]
    IN  rebuilt

Replaced(v, path, new) == Rebuilt(v, path, new)[0]

(* Go on after an instruction that made new the value at a place.          *)
Store(at, new, moves, rest, results) ==
    LET root == at[1]
        mark(v) == Overwritten(at, moves, v)
        value == Replaced(RootValue(root), Tail(at), new)
        put(fr) == MarkFrame(mark, [fr EXCEPT !.locals[root[3]] = value])
        inLocal(k) == root[1] = "local" /\ root[2] = k
        next == [frame EXCEPT !.pc = @ + 1]
    IN  IF Len(rest) + Len(results) > StackLimit THEN Fail("EXECUTION_STACK_OVERFLOW")
        ELSE IF frame.pc + 1 >= Len(Code(frame.fn)) THEN Fail("PC_OVERFLOW")
        ELSE /\ operandStack' = MarkAll(mark, rest) \o results
             /\ frame' = IF inLocal(Len(Frames)) THEN put(next) ELSE MarkFrame(mark, next)
             /\ callStack' = [k \in DOMAIN callStack |->
                                IF inLocal(k) THEN put(callStack[k]) ELSE MarkFrame(mark, callStack[k])]
             /\ global' = IF root[1] = "global" THEN [global EXCEPT ![root[2]] = value] ELSE global
             /\ UNCHANGED status

Pops(n, act) == Unless(Depth >= n, "EMPTY_VALUE_STACK", act)

(* A reference that is used: its place must be what it was.                *)
Using(r, act) ==
    Unless(IsReference(r), "INTERNAL_TYPE_ERROR",
      Unless(r.mark # "dangling", "DANGLING_REFERENCE",
        Unless(r.mark # "stale", "STALE_REFERENCE", act)))

(* pop_as::<StructRef> and ::<VectorRef>: a reference to any container.    *)
UsingContainer(r, act) ==
    Using(r, Unless(IsContainer(RefersTo(r)), "INTERNAL_TYPE_ERROR", act))

(* The type a reference has for the verifier; the run time makes no        *)
(* difference between the two kinds.                                       *)
RefType(op, t) ==
    CHOOSE r \in Types : /\ Kind(r) = IF op \in {"MutBorrowLoc", "MutBorrowField", "MutBorrowGlobal",
                                                 "VecMutBorrow"} THEN "mut" ELSE "ref"
                         /\ Desc[r].args[1] = t

-------------------------------------------------------------------------------
BorrowLoc(op) ==
    /\ Running(op)
    /\ LET v == frame.locals[Current.a]
       IN  Unless(v # Invalid /\ ~IsReference(v), "UNKNOWN_INVARIANT_VIOLATION_ERROR",
             Continue({}, operandStack, <<Ref(RefType(op, v.ty), ThisLocal(Current.a))>>))

(* borrow_elem of a struct.                                                *)
BorrowField(op) ==
    /\ Running(op)
    /\ Pops(1, UsingContainer(Top,
         LET fields == ValueAt(Top.at).f
         IN  Unless(Current.n \in DOMAIN fields, "UNKNOWN_INVARIANT_VIOLATION_ERROR",
               Continue({}, Below(1),
                 <<Ref(RefType(op, fields[Current.n].ty), Append(Top.at, Current.n))>>))))

(* A null operation: only what the verifier makes of the reference changes.  *)
FreezeRef ==
    /\ Running("FreezeRef")
    /\ IF Depth > 0 /\ IsReference(Top)
       THEN Continue({}, Below(1), <<[Top EXCEPT !.ty = RefType("FreezeRef", RefersTo(Top))]>>)
       ELSE Continue({}, operandStack, <<>>)

ReadRef ==
    /\ Running("ReadRef")
    /\ Pops(1, Using(Top, Continue({}, Below(1), <<ValueAt(Top.at)>>)))

(* What write_ref puts at a place must suit it: a container is replaced by *)
(* one of the same representation, an element of a vector of integers by   *)
(* one of that width, another element by anything that is no container.    *)
SameContainer(v, w) ==
    \/ IsStruct(v) /\ IsStruct(w)
    \/ /\ Rep(v) = "vector" /\ Rep(w) = "vector"
       /\ Layout(Desc[v.ty].args[1]) = Layout(Desc[w.ty].args[1])

InTypedVector(at) ==
    Len(at) > 1 /\ LET t == ValueAt(Front(at)).ty
                   IN  Kind(t) = "vector" /\ ~IsContainer(Desc[t].args[1])

(* The components of the new value, on the stack, take the place of those  *)
(* that were there.                                                        *)
Replacing(at, old, new) ==
    {<<Append(OnStack(Depth - 1), k), Append(at, k)>> : k \in DOMAIN new.f}
    \union {<<Append(at, k), Nowhere>> : k \in DOMAIN old.f}

(* The reference is on top of the new value.                               *)
WriteRef ==
    /\ Running("WriteRef")
    /\ Pops(2, Using(Top,
         LET new == TopN(2)[1]
             old == ValueAt(Top.at)
             store == Store(Top.at, new, Replacing(Top.at, old, new), Below(2), <<>>)
         IN  IF IsContainer(RefersTo(Top))
             THEN Unless(SameContainer(old, new), "UNKNOWN_INVARIANT_VIOLATION_ERROR",
                    Owned(OnStack(Depth - 1), store))
             ELSE Unless(~IsReference(new) /\ ~IsContainer(new.ty), "UNKNOWN_INVARIANT_VIOLATION_ERROR",
                    Unless(InTypedVector(Top.at) => new.ty = old.ty, "INTERNAL_TYPE_ERROR", store))))

(* Equality of references is that of the values referred to.               *)
EqRefs ==
    /\ Running("Eq")
    /\ Depth >= 2 /\ IsReference(TopN(2)[1]) /\ IsReference(TopN(2)[2])
    /\ LET o == TopN(2)
       IN  Using(o[1], Using(o[2],
             Unless(Comparable(ValueAt(o[1].at), ValueAt(o[2].at)), "INTERNAL_TYPE_ERROR",
               \E b \in BOOLEAN : Continue({}, Below(2), <<Bool(b)>>))))

-------------------------------------------------------------------------------
(* Global storage of the one account.                                      *)
AnAddress(v) == Rep(v) = "address"

BorrowGlobal(op) ==
    /\ Running(op)
    /\ Pops(1, Unless(AnAddress(Top), "INTERNAL_TYPE_ERROR",
         LET t == Pool[Current.a]
         IN  Unless(global[t] # Invalid, "MISSING_DATA",
               Continue({}, Below(1), <<Ref(RefType(op, t), <<GlobalRoot(t)>>)>>))))

Exists ==
    /\ Running("Exists")
    /\ Pops(1, Unless(AnAddress(Top), "INTERNAL_TYPE_ERROR",
         Continue({}, Below(1), <<Bool(global[Pool[Current.a]] # Invalid)>>)))

MoveFrom ==
    /\ Running("MoveFrom")
    /\ Pops(1, Unless(AnAddress(Top), "INTERNAL_TYPE_ERROR",
         LET t == Pool[Current.a]
         IN  Unless(global[t] # Invalid, "MISSING_DATA",
               Unless(~StillReferred(<<GlobalRoot(t)>>), "MOVING_REFERRED_CONTAINER",
                 Store(<<GlobalRoot(t)>>, Invalid, {<< <<GlobalRoot(t)>>, OnStack(Depth)>>},
                       Below(1), <<global[t]>>)))))

(* The resource is on top, the reference to the signer under it: its first *)
(* field is the address.                                                   *)
MoveTo ==
    /\ Running("MoveTo")
    /\ Pops(2, UsingContainer(TopN(2)[1],
         LET t == Pool[Current.a]
             fields == ValueAt(TopN(2)[1].at).f
         IN  Unless(fields # <<>>, "UNKNOWN_INVARIANT_VIOLATION_ERROR",
               Unless(AnAddress(fields[1]), "INTERNAL_TYPE_ERROR",
                 Unless(global[t] = Invalid, "RESOURCE_ALREADY_EXISTS",
                   Unless(IsStruct(Top), "UNKNOWN_INVARIANT_VIOLATION_ERROR",
                     Store(<<GlobalRoot(t)>>, Top, {<<OnStack(Depth), <<GlobalRoot(t)>> >>},
                           Below(2), <<>>)))))))

-------------------------------------------------------------------------------
(* check_elem_layout of the vector.                                        *)
WithVector(r, act) ==
    UsingContainer(r,
      Unless(HasLayout(RefersTo(r), Pool[Current.a]), "UNKNOWN_INVARIANT_VIOLATION_ERROR", act))

(* pop_as::<u64> of the n indices on top.                                  *)
WithIndices(n, act) ==
    Unless(\A k \in 1 .. n : TopN(n)[k].ty = U64, "INTERNAL_TYPE_ERROR", act)

Elements(r) == ValueAt(r.at).f

WithElements(r, els) == [ValueAt(r.at) EXCEPT !.f = els]

VecLen ==
    /\ Running("VecLen")
    /\ Pops(1, WithVector(Top, Continue({}, Below(1), <<Flat(U64)>>)))

VecBorrow(op) ==
    /\ Running(op)
    /\ Pops(2, LET r == TopN(2)[1] IN WithIndices(1, WithVector(r,
         \/ Fail("ABORTED")
         \/ \E k \in DOMAIN Elements(r) :
              Continue({}, Below(2), <<Ref(RefType(op, Elements(r)[k].ty), Append(r.at, k))>>))))

VecPushBack ==
    /\ Running("VecPushBack")
    /\ Pops(2, LET r == TopN(2)[1] IN WithVector(r,
         Unless(IsContainer(Pool[Current.a]) \/ Top.ty = Pool[Current.a], "INTERNAL_TYPE_ERROR",
           Unless(Len(Elements(r)) # MaxVector, "OUT_OF_GAS",
             Store(r.at, WithElements(r, Append(Elements(r), Top)),
                   {<<OnStack(Depth), Append(r.at, Len(Elements(r)) + 1)>>}, Below(2), <<>>)))))

VecPopBack ==
    /\ Running("VecPopBack")
    /\ Pops(1, WithVector(Top,
         IF Elements(Top) = <<>> THEN Fail("ABORTED")
         ELSE Store(Top.at, WithElements(Top, Front(Elements(Top))),
                    {<<Append(Top.at, Len(Elements(Top))), OnStack(Depth)>>},
                    Below(1), <<Last(Elements(Top))>>)))

VecSwap ==
    /\ Running("VecSwap")
    /\ Pops(3, LET r == TopN(3)[1] IN WithIndices(2, WithVector(r,
         \/ Fail("ABORTED")
         \/ \E j, k \in DOMAIN Elements(r) :
              LET swapped == [Elements(r) EXCEPT ![j] = Elements(r)[k], ![k] = Elements(r)[j]]
              IN  Store(r.at, WithElements(r, swapped),
                        {<<Append(r.at, j), Append(r.at, k)>>, <<Append(r.at, k), Append(r.at, j)>>},
                        Below(3), <<>>))))

-------------------------------------------------------------------------------
(* Conversions of integers; the value may not fit a byte.                  *)
CastU8 ==
    /\ Running("CastU8")
    /\ Pops(1, Unless(Rep(Top) = "int", "INTERNAL_TYPE_ERROR",
         \/ Continue({}, Below(1), <<Flat(CHOOSE t \in Types : Kind(t) = "int" /\ t # U64)>>)
         \/ Fail("ARITHMETIC_ERROR")))

CastU64 ==
    /\ Running("CastU64")
    /\ Pops(1, Unless(Rep(Top) = "int", "INTERNAL_TYPE_ERROR", Continue({}, Below(1), <<Flat(U64)>>)))

Lt ==
    /\ Running("Lt")
    /\ Pops(2, Unless(Rep(TopN(2)[1]) = "int" /\ TopN(2)[1].ty = TopN(2)[2].ty, "INTERNAL_TYPE_ERROR",
         \E b \in BOOLEAN : Continue({}, Below(2), <<Bool(b)>>)))

ReferenceStep ==
    \/ BorrowLoc("MutBorrowLoc") \/ BorrowLoc("ImmBorrowLoc")
    \/ BorrowField("MutBorrowField") \/ BorrowField("ImmBorrowField")
    \/ FreezeRef \/ ReadRef \/ WriteRef \/ EqRefs
    \/ BorrowGlobal("MutBorrowGlobal") \/ BorrowGlobal("ImmBorrowGlobal")
    \/ Exists \/ MoveFrom \/ MoveTo
    \/ VecLen \/ VecBorrow("VecMutBorrow") \/ VecBorrow("VecImmBorrow")
    \/ VecPushBack \/ VecPopBack \/ VecSwap \/ CastU8 \/ CastU64 \/ Lt
===============================================================================
