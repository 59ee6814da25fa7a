---------------------------- MODULE ReferenceSafety ----------------------------
(***************************************************************************)
(* The abstract state and the transfer functions of the reference safety   *)
(* pass (reference_safety/).  A state is [locals, graph, next]: locals maps *)
(* every local that holds a value to NonReference or to the id of a        *)
(* reference, next is the next free id.  Ids below the number of locals    *)
(* name the references in locals of a canonical state, the number of       *)
(* locals itself names the frame root.                                     *)
(***************************************************************************)
EXTENDS Program, BorrowGraph

NonReference == -1

IsRef(v) == v # NonReference

LocalLabel(l) == <<"local", l>>
GlobalLabel(t) == <<"global", t>>
FieldLabel(t, k) == <<"field", t, k>>

NumLocals(f) == Len(LocalTypes(f))
FrameRoot(f) == NumLocals(f)

IsReferenceType(t) == Kind(t) \in {"ref", "mut"}

(* AbstractState::new: a reference for every reference parameter.          *)
InitialRefs(f) ==
    LET params == 0 .. Len(Sig[f].params) - 1
        refs == {l \in params : IsReferenceType(LocalAt(f, l))}
    IN  [locals |-> [l \in params |-> IF l \in refs THEN l ELSE NonReference],
         graph |-> [EmptyGraph EXCEPT !.mut =
                       [r \in refs \union {FrameRoot(f)} |->
                            r = FrameRoot(f) \/ Kind(LocalAt(f, r)) = "mut"]],
         next |-> NumLocals(f) + 1]

-------------------------------------------------------------------------------
(* The core predicates.                                                    *)
HasConsistentBorrows(g, id) == OutEdges(g, id) # {}

HasConsistentBorrowsAt(g, id, label) ==
    FullBorrows(g, id) \union FieldBorrows(g, id, label) # {}

AllImmutable(g, ids) == \A r \in ids : ~IsMutable(g, r)

HasMutableBorrows(g, id) ==
    ~AllImmutable(g, FullBorrows(g, id) \union AnyFieldBorrows(g, id))

HasMutableBorrowsAt(g, id, label) ==
    ~AllImmutable(g, FullBorrows(g, id) \union FieldBorrows(g, id, label))

IsWritableImm(g, id) == ~HasMutableBorrows(g, id)

IsWritable(g, id) == ~HasConsistentBorrows(g, id)

IsFreezable(g, id) == ~HasMutableBorrows(g, id)

IsReadable(g, id) == ~IsMutable(g, id) \/ IsFreezable(g, id)

IsReadableAt(g, id, label) == ~IsMutable(g, id) \/ ~HasMutableBorrowsAt(g, id, label)

-------------------------------------------------------------------------------
(* Transfer functions: a result is [ok, s, st], the state and the operands *)
(* after the instruction, or ok = FALSE for an error.                      *)
RefError(s, st) == [ok |-> FALSE, s |-> s, st |-> st]

RefOk(s, st) == [ok |-> TRUE, s |-> s, st |-> st]

RefUnless(cond, s, st, result) == IF cond THEN result ELSE RefError(s, st)

(* release_value                                                           *)
Dropped(s, v) == IF IsRef(v) THEN [s EXCEPT !.graph = Release(@, v)] ELSE s

(* new_ref, and a borrow edge to it.                                       *)
Fresh(s, mutable) == [s EXCEPT !.graph = NewRef(@, s.next, mutable), !.next = @ + 1]

Borrowed(s, mutable, parent, path) ==
    LET t == Fresh(s, mutable) IN [t EXCEPT !.graph = Factor(@, parent, path, s.next)]

WeaklyBorrowed(s, mutable, parents, path) ==
    LET t == Fresh(s, mutable) IN [t EXCEPT !.graph = AddWeak(@, parents, path, s.next)]

CopyLocRef(f, i, s, st) ==
    LET v == s.locals[i.a]
    IN  IF IsRef(v)
        THEN RefOk(Borrowed(s, IsMutable(s.graph, v), v, <<>>), Append(st, s.next))
        ELSE RefUnless(~HasMutableBorrowsAt(s.graph, FrameRoot(f), LocalLabel(i.a)), s, st,
                       RefOk(s, Append(st, NonReference)))

Without(fun, l) == [k \in DOMAIN fun \ {l} |-> fun[k]]

MoveLocRef(f, i, s, st) ==
    RefUnless(IsRef(s.locals[i.a]) \/ ~HasConsistentBorrowsAt(s.graph, FrameRoot(f), LocalLabel(i.a)),
              s, st,
              RefOk([s EXCEPT !.locals = Without(@, i.a)], Append(st, s.locals[i.a])))

StLocRef(f, i, s, st) ==
    LET t == [s EXCEPT !.locals = (i.a :> Last(st)) @@ @]
    IN  IF i.a \notin DOMAIN s.locals THEN RefOk(t, Front(st))
        ELSE IF IsRef(s.locals[i.a]) THEN RefOk(Dropped(t, s.locals[i.a]), Front(st))
        ELSE RefUnless(~HasConsistentBorrowsAt(s.graph, FrameRoot(f), LocalLabel(i.a)), s, st,
                       RefOk(t, Front(st)))

BorrowLocRef(f, i, s, st, mutable) ==
    RefUnless(mutable \/ ~HasMutableBorrowsAt(s.graph, FrameRoot(f), LocalLabel(i.a)), s, st,
              RefOk(Borrowed(s, mutable, FrameRoot(f), <<LocalLabel(i.a)>>), Append(st, s.next)))

BorrowFieldRef(i, s, st, mutable) ==
    LET id == Last(st)
        label == FieldLabel(Pool[i.a], i.n)
    IN  RefUnless(IF mutable THEN FullBorrows(s.graph, id) = {} ELSE IsReadableAt(s.graph, id, label),
                  s, st,
                  RefOk(Dropped(Borrowed(s, mutable, id, <<label>>), id), Append(Front(st), s.next)))

BorrowGlobalRef(f, i, s, st, mutable) ==
    LET label == GlobalLabel(Pool[i.a])
    IN  RefUnless(/\ mutable => ~HasConsistentBorrowsAt(s.graph, FrameRoot(f), label)
                  /\ ~HasMutableBorrowsAt(s.graph, FrameRoot(f), label),
                  s, st,
                  RefOk(WeaklyBorrowed(s, mutable, {FrameRoot(f)}, <<label>>),
                        Append(Front(st), s.next)))

MoveFromRef(f, i, s, st) ==
    RefUnless(~HasConsistentBorrowsAt(s.graph, FrameRoot(f), GlobalLabel(Pool[i.a])), s, st,
              RefOk(s, Append(Front(st), NonReference)))

FreezeRefRef(s, st) ==
    RefUnless(IsFreezable(s.graph, Last(st)), s, st,
              RefOk(Dropped(Borrowed(s, FALSE, Last(st), <<>>), Last(st)), Append(Front(st), s.next)))

ReadRefRef(s, st) ==
    RefUnless(IsReadable(s.graph, Last(st)), s, st,
              RefOk(Dropped(s, Last(st)), Append(Front(st), NonReference)))

(* The reference is on top, the value under it.                            *)
WriteRefRef(s, st) ==
    RefUnless(IsWritable(s.graph, Last(st)), s, st, RefOk(Dropped(s, Last(st)), Front(Front(st))))

ComparisonRef(s, st) ==
    LET v1 == Last(st)
        v2 == Last(Front(st))
        rest == Front(Front(st))
    IN  RefUnless(IsRef(v1) => IsReadable(s.graph, v1) /\ IsReadable(s.graph, v2), s, st,
                  RefOk(Dropped(Dropped(s, v1), v2), Append(rest, NonReference)))

(* vector_op and vector_element_borrow; under the reference nothing, above *)
(* it `over` other operands.                                               *)
VectorOpRef(s, st, over, mutable, results) ==
    LET rest == SubSeq(st, 1, Len(st) - over)
        id == Last(rest)
    IN  RefUnless(mutable => IsWritable(s.graph, id), s, st,
                  RefOk(Dropped(s, id), Front(rest) \o results))

VectorElementBorrowRef(s, st, mutable) ==
    LET rest == Front(st)
        id == Last(rest)
    IN  RefUnless(mutable => IsWritable(s.graph, id), s, st,
                  RefOk(Dropped(WeaklyBorrowed(s, mutable, {id}, <<>>), id), Append(Front(rest), s.next)))

(* call: the results may borrow from every argument of their kind.         *)
CallRef(f, i, s, st) ==
    LET n == Len(Sig[i.a].params)
        args == {v \in Range(SubSeq(st, Len(st) - n + 1, Len(st))) : IsRef(v)}
        mutable == {v \in args : IsMutable(s.graph, v)}
        returned(r, t) ==
            IF Kind(t) = "mut"
            THEN [s |-> WeaklyBorrowed(r.s, TRUE, mutable, <<>>), st |-> Append(r.st, r.s.next)]
            ELSE IF Kind(t) = "ref"
            THEN [s |-> WeaklyBorrowed(r.s, FALSE, args, <<>>), st |-> Append(r.st, r.s.next)]
            ELSE [s |-> r.s, st |-> Append(r.st, NonReference)]
        after == FoldLeft(returned, [s |-> s, st |-> SubSeq(st, 1, Len(st) - n)], Sig[i.a].rets)
    IN  RefUnless(/\ \A t \in Sig[i.a].acquires :
                        ~HasConsistentBorrowsAt(s.graph, FrameRoot(f), GlobalLabel(t))
                  /\ \A v \in mutable : IsWritable(s.graph, v),
                  s, st,
                  RefOk(FoldLeft(LAMBDA t, v : Dropped(t, v), after.s, SetToSortSeq(args, <)), after.st))

(* ret: all references in locals are released; after that nothing may      *)
(* borrow from the frame, and a mutable result must not be borrowed.       *)
RetRef(f, s, st) ==
    LET held == {s.locals[l] : l \in {k \in DOMAIN s.locals : IsRef(s.locals[k])}}
        t == FoldLeft(LAMBDA u, v : Dropped(u, v), s, SetToSortSeq(held, <))
        results == {v \in Range(st) : IsRef(v)}
    IN  RefUnless(/\ ~HasConsistentBorrows(t.graph, FrameRoot(f))
                  /\ \A v \in results : IsMutable(t.graph, v) => IsWritable(t.graph, v),
                  s, st,
                  RefOk(t, <<>>))

(* Instructions that only move plain values.                               *)
PlainRef(f, i, s, st) ==
    RefOk(s, SubSeq(st, 1, Len(st) - NumPops(f, i)) \o [k \in 1 .. NumPushes(f, i) |-> NonReference])

(* execute_inner                                                           *)
RefExecute(f, i, s, st) ==
    CASE i.op = "Pop" -> RefOk(Dropped(s, Last(st)), Front(st))
      [] i.op = "CopyLoc" -> CopyLocRef(f, i, s, st)
      [] i.op = "MoveLoc" -> MoveLocRef(f, i, s, st)
      [] i.op = "StLoc" -> StLocRef(f, i, s, st)
      [] i.op = "FreezeRef" -> FreezeRefRef(s, st)
      [] i.op = "Eq" -> ComparisonRef(s, st)
      [] i.op = "ReadRef" -> ReadRefRef(s, st)
      [] i.op = "WriteRef" -> WriteRefRef(s, st)
      [] i.op \in {"MutBorrowLoc", "ImmBorrowLoc"} ->
            BorrowLocRef(f, i, s, st, i.op = "MutBorrowLoc")
      [] i.op \in {"MutBorrowField", "ImmBorrowField"} ->
            BorrowFieldRef(i, s, st, i.op = "MutBorrowField")
      [] i.op \in {"MutBorrowGlobal", "ImmBorrowGlobal"} ->
            BorrowGlobalRef(f, i, s, st, i.op = "MutBorrowGlobal")
      [] i.op = "MoveFrom" -> MoveFromRef(f, i, s, st)
      [] i.op = "MoveTo" -> RefOk(Dropped(s, Last(Front(st))), Front(Front(st)))
      [] i.op = "Call" -> CallRef(f, i, s, st)
      [] i.op = "Ret" -> RetRef(f, s, st)
      [] i.op = "VecLen" -> VectorOpRef(s, st, 0, FALSE, <<NonReference>>)
      [] i.op = "VecPopBack" -> VectorOpRef(s, st, 0, TRUE, <<NonReference>>)
      [] i.op = "VecPushBack" -> VectorOpRef(s, st, 1, TRUE, <<>>)
      [] i.op = "VecSwap" -> VectorOpRef(s, st, 2, TRUE, <<>>)
      [] i.op \in {"VecMutBorrow", "VecImmBorrow"} ->
            VectorElementBorrowRef(s, st, i.op = "VecMutBorrow")
      [] OTHER -> PlainRef(f, i, s, st)

-------------------------------------------------------------------------------
(* construct_canonical_state: the reference in a local gets its number.    *)
Canonical(f, s) ==
    LET refs == {l \in DOMAIN s.locals : IsRef(s.locals[l])}
        holder(r) == CHOOSE l \in refs : s.locals[l] = r
        idMap == [r \in {s.locals[l] : l \in refs} \union {FrameRoot(f)} |->
                    IF r = FrameRoot(f) THEN r ELSE holder(r)]
    IN  [locals |-> [l \in DOMAIN s.locals |-> IF l \in refs THEN l ELSE NonReference],
         graph |-> RemapRefs(s.graph, idMap),
         next |-> NumLocals(f) + 1]

(* join_: what only one side holds is released there.                      *)
RefJoin(s, t) ==
    LET both == DOMAIN s.locals \intersect DOMAIN t.locals
        shed(u) == FoldLeft(LAMBDA g, l : IF IsRef(u.locals[l]) THEN Release(g, u.locals[l]) ELSE g,
                            u.graph, SetToSortSeq(DOMAIN u.locals \ both, <))
    IN  [s EXCEPT !.locals = [l \in both |-> s.locals[l]],
                  !.graph = JoinGraphs(shed(s), shed(t))]

(* AbstractDomain::join reports no change when the locals are the same and *)
(* the old graph covers the joined one.                                    *)
RefUnchanged(old, joined) == old.locals = joined.locals /\ Covers(old.graph, joined.graph)
===============================================================================
