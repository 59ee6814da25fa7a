----------------------------- MODULE DataCache -----------------------------
(***************************************************************************)
(* The transaction data cache of a Move session and the reference-counted  *)
(* values it hands out (move-vm/runtime/src/data_cache.rs and              *)
(* move-vm/types/src/values/values_impl.rs).                               *)
(*                                                                         *)
(* A resource is a struct with one immediate field and one nested struct   *)
(* with one immediate field: the smallest shape in which a reference to an *)
(* outer container, a reference to a container inside it and a reference   *)
(* to an immediate all occur.  Every container is an Rc<RefCell<..>>: a    *)
(* Cell here.  The Clean/Dirty status is shared by reference too: a Flag.  *)
(*                                                                         *)
(* The program is not assumed to be verified: it may apply any operation   *)
(* of the right type to any value and reference it holds.                  *)
(***************************************************************************)
EXTENDS Naturals, FiniteSets

CONSTANTS Addr,       \* account addresses
          Ty,         \* resource types
          Val,        \* the values of an immediate field
          Cell,       \* addresses of Rc<RefCell<Vec<ValueImpl>>> allocations
          Flag,       \* addresses of Rc<RefCell<GlobalDataStatus>> allocations
          Absent,     \* storage: get_resource returns Ok(None)
          Corrupt,    \* storage: bytes that do not deserialize
          Nil,        \* no cell, no flag
          NoChange,   \* GlobalValueEffect::None
          MaxRefs,    \* bound: references held by the program
          MaxLocals   \* bound: struct values held by the program

ASSUME Sentinels ==
    /\ Nil \notin Cell /\ Nil \notin Flag
    /\ Absent # Corrupt /\ Absent # NoChange
    /\ MaxRefs \in Nat /\ MaxLocals \in Nat

ASSUME FinitelyManyAddresses == IsFiniteSet(Addr)

VARIABLES remote,   \* MoveResolver: the storage below the session
          slot,     \* account_map: (address, type) -> GlobalValueImpl
          heap,     \* the live containers
          dirty,    \* the live status flags
          refs,     \* ContainerRef (and IndexedRef) values of the program
          locals,   \* struct values owned by the program's locals and stack
          session,  \* "running", "finished" or "failed"
          change    \* the ChangeSet of a finished session

vars == <<remote, slot, heap, dirty, refs, locals, session, change>>

Key == Addr \X Ty

\* A serialized resource: its own immediate and its nested struct's.
Blob == [imm : Val, sub : Val]

\* The contents of a container: sub is Nil when it has no nested struct.
Node == [imm : Val, sub : Cell \cup {Nil}]

ASSUME BlobSentinels ==
    Absent \notin Blob /\ Corrupt \notin Blob /\ NoChange \notin Blob /\ Nil \notin Node

SlotTag == {"unloaded", "none", "fresh", "cached", "deleted"}
Slot == [st : SlotTag, cell : Cell \cup {Nil}, flag : Flag \cup {Nil}]

Unloaded == [st |-> "unloaded", cell |-> Nil, flag |-> Nil]
None     == [st |-> "none",     cell |-> Nil, flag |-> Nil]
Deleted  == [st |-> "deleted",  cell |-> Nil, flag |-> Nil]
Fresh(c)     == [st |-> "fresh",  cell |-> c, flag |-> Nil]
Cached(c, f) == [st |-> "cached", cell |-> c, flag |-> f]

\* A reference without a flag is ContainerRef::Local, with one it is ::Global.
Ref == [cell : Cell, flag : Flag \cup {Nil}]

-----------------------------------------------------------------------------
(* Memory: a container is freed when the last Rc to it is dropped.         *)

\* The containers owned by a slot or by the program, and those held at all.
Owned(sl, lo) == ({sl[k].cell : k \in Key} \cup lo) \cap Cell
Held(sl, rf, lo) == Owned(sl, lo) \cup {r.cell : r \in rf}

Live(h, sl, rf, lo) ==
    Held(sl, rf, lo) \cup ({h[c].sub : c \in Held(sl, rf, lo)} \cap Cell)

Collect(h, sl, rf, lo) ==
    [c \in Cell |-> IF c \in Live(h, sl, rf, lo) THEN h[c] ELSE Nil]

FlagsHeld(sl, rf) == ({sl[k].flag : k \in Key} \cup {r.flag : r \in rf}) \cap Flag

CollectFlags(d, sl, rf) == [f \in Flag |-> f \in FlagsHeld(sl, rf) /\ d[f]]

Free  == {c \in Cell : heap[c] = Nil}
NewCell  == CHOOSE c \in Free : TRUE
NewCell2 == CHOOSE c \in Free \ {NewCell} : TRUE
NewFlag  == CHOOSE f \in Flag \ FlagsHeld(slot, refs) : TRUE

CanAlloc  == Free # {}
CanAlloc2 == CanAlloc /\ Free # {NewCell}
CanFlag   == Flag \ FlagsHeld(slot, refs) # {}

\* Mutant: the reference counts are never looked at.
SharedNever(c) == FALSE

\* Rc::strong_count(c) > 1 for a container with one owner.
Shared(c) == \E r \in refs : r.cell = c

IsOuter(c) == heap[c].sub # Nil

\* simple_serialize of the struct in container c.
Serialize(h, c) == [imm |-> h[c].imm, sub |-> h[h[c].sub].imm]

-----------------------------------------------------------------------------
(* GlobalValueImpl.                                                        *)

Exists(s) == s.st \in {"fresh", "cached"}

\* Mutant: a resource published by the transaction does not count.
IsMutatedNotFresh(k) ==
    \/ slot[k].st = "deleted"
    \/ slot[k].st = "cached" /\ dirty[slot[k].flag]

IsMutated(k) ==
    \/ slot[k].st \in {"deleted", "fresh"}
    \/ slot[k].st = "cached" /\ dirty[slot[k].flag]

IntoEffect(k) ==
    IF slot[k].st = "deleted" THEN Absent
    ELSE IF slot[k].st = "fresh" \/ (slot[k].st = "cached" /\ dirty[slot[k].flag])
    THEN Serialize(heap, slot[k].cell)
    ELSE NoChange

\* Mutant: a moved-out resource always counts as never stored.
VacatedNone(s) == None

\* The slot a resource is moved out of.
Vacated(s) == IF s.st = "fresh" THEN None ELSE Deleted

\* The change set, as a function that is NoChange where it has no entry.
IntoEffects == [k \in Key |-> IntoEffect(k)]

\* The sender's account is counted whether it was mutated or not.
NumMutatedAccounts(sender) ==
    1 + Cardinality({a \in Addr \ {sender} : \E t \in Ty : IsMutated(<<a, t>>)})

\* Mutant: deletions are not applied.
ApplyNoDelete(base, ch) == [k \in Key |-> IF ch[k] \in {NoChange, Absent} THEN base[k] ELSE ch[k]]

\* The host's side: insert, delete or leave alone each resource.
Apply(base, ch) == [k \in Key |-> IF ch[k] = NoChange THEN base[k] ELSE ch[k]]

-----------------------------------------------------------------------------
(* load_resource: the slot, heap and flags after the resource is in the    *)
(* cache.  The set is empty when the bytes do not deserialize.             *)

LoadResource(k) ==
    IF slot[k].st # "unloaded"
    THEN {[slot |-> slot[k], heap |-> heap, dirty |-> dirty]}
    ELSE IF remote[k] = Absent
    THEN {[slot |-> None, heap |-> heap, dirty |-> dirty]}
    ELSE IF remote[k] \in Blob /\ CanAlloc2 /\ CanFlag
    THEN {[slot  |-> Cached(NewCell, NewFlag),
           heap  |-> [heap EXCEPT ![NewCell]  = [imm |-> remote[k].imm, sub |-> NewCell2],
                                  ![NewCell2] = [imm |-> remote[k].sub, sub |-> Nil]],
           dirty |-> [dirty EXCEPT ![NewFlag] = FALSE]]}
    ELSE {}

\* Every operation leaves the containers and flags that are still held.
Settle(h, d, sl, rf, lo) ==
    /\ slot' = sl /\ refs' = rf /\ locals' = lo
    /\ heap' = Collect(h, sl, rf, lo)
    /\ dirty' = CollectFlags(d, sl, rf)

Running == session = "running"
Continue == UNCHANGED <<remote, session, change>>

\* The session and every value of its program are dropped.
Drop ==
    /\ slot' = [k \in Key |-> Unloaded]
    /\ heap' = [c \in Cell |-> Nil]
    /\ dirty' = [f \in Flag |-> FALSE]
    /\ refs' = {} /\ locals' = {}

\* An error of any instruction ends the run; the caller drops the session unfinished.
Error == session' = "failed" /\ Drop /\ UNCHANGED <<remote, change>>

\* A storage error, or FAILED_TO_DESERIALIZE_RESOURCE, in any operation on k.
LoadFails(k) ==
    /\ Running
    /\ slot[k].st = "unloaded"
    /\ Error

ExistsGlobal(k) ==
    /\ Running
    /\ \E ld \in LoadResource(k) :
          Settle(ld.heap, ld.dirty, [slot EXCEPT ![k] = ld.slot], refs, locals)
    /\ Continue

BorrowGlobal(k) ==
    /\ Running
    /\ \E ld \in LoadResource(k) :
          LET sl == [slot EXCEPT ![k] = ld.slot] IN
          IF Exists(ld.slot)
          THEN /\ Cardinality(refs) < MaxRefs
               /\ Settle(ld.heap, ld.dirty, sl,
                         refs \cup {[cell |-> ld.slot.cell, flag |-> ld.slot.flag]}, locals)
               /\ Continue
          ELSE Error          \* MISSING_DATA

\* The slot is replaced before the reference count is looked at: an error leaves a
\* half-done move behind, which the drop of the session undoes.
MoveFrom(k) ==
    /\ Running
    /\ \E ld \in LoadResource(k) :
          IF ~Exists(ld.slot)
          THEN Error          \* MISSING_DATA
          ELSE LET sl == [slot EXCEPT ![k] = Vacated(ld.slot)]
               IN  IF Shared(ld.slot.cell)
                   THEN Error \* "moving global resource with dangling reference"
                   ELSE /\ Cardinality(locals) < MaxLocals
                        /\ Settle(ld.heap, ld.dirty, sl, refs, locals \cup {ld.slot.cell})
                        /\ Continue

\* MoveLoc of the value, then MoveTo.  The cached slot of a deleted resource is born dirty.
MoveTo(k, c) ==
    /\ Running
    /\ c \in locals /\ IsOuter(c)
    /\ IF Shared(c)
       THEN Error      \* "moving container with dangling references"
       ELSE \E ld \in LoadResource(k) :
              IF Exists(ld.slot)
              THEN Error      \* RESOURCE_ALREADY_EXISTS
              ELSE IF ld.slot.st = "none"
              THEN /\ Settle(ld.heap, ld.dirty, [slot EXCEPT ![k] = Fresh(c)], refs, locals \ {c})
                   /\ Continue
              ELSE /\ CanFlag
                   /\ Settle(ld.heap, [ld.dirty EXCEPT ![NewFlag] = TRUE],
                             [slot EXCEPT ![k] = Cached(c, NewFlag)], refs, locals \ {c})
                   /\ Continue

-----------------------------------------------------------------------------
(* References and struct values.                                           *)

\* borrow_elem on the nested struct: the new reference inherits the flag.
FieldRef(r) == [cell |-> heap[r.cell].sub, flag |-> r.flag]

BorrowField(r) ==
    /\ Running
    /\ r \in refs /\ IsOuter(r.cell)
    /\ Cardinality(refs) < MaxRefs
    /\ Settle(heap, dirty, slot, refs \cup {FieldRef(r)}, locals)
    /\ Continue

BorrowLoc(c) ==
    /\ Running
    /\ c \in locals
    /\ Cardinality(refs) < MaxRefs
    /\ Settle(heap, dirty, slot, refs \cup {[cell |-> c, flag |-> Nil]}, locals)
    /\ Continue

\* Mutant: a write to a nested struct does not mark the resource.
MarkDirtyOuter(r) ==
    IF r.flag = Nil \/ ~IsOuter(r.cell) THEN dirty ELSE [dirty EXCEPT ![r.flag] = TRUE]

MarkDirty(r) == IF r.flag = Nil THEN dirty ELSE [dirty EXCEPT ![r.flag] = TRUE]

\* IndexedRef::write_ref of an immediate.
WriteImm(r, v) ==
    /\ Running
    /\ r \in refs
    /\ Settle([heap EXCEPT ![r.cell].imm = v], MarkDirty(r), slot, refs, locals)
    /\ Continue

\* MoveLoc of the value, then ContainerRef::write_ref: the contents move in.
WriteStruct(r, c) ==
    /\ Running
    /\ r \in refs /\ c \in locals
    /\ IsOuter(r.cell) = IsOuter(c)
    /\ IF Shared(c)
       THEN Error
       ELSE /\ Settle([heap EXCEPT ![r.cell] = heap[c]], MarkDirty(r), slot, refs, locals \ {c})
            /\ Continue

\* read_ref: a deep copy of the nested struct or of the whole resource.
ReadRef(r) ==
    /\ Running
    /\ r \in refs
    /\ Cardinality(locals) < MaxLocals
    /\ IF IsOuter(r.cell)
       THEN /\ CanAlloc2
            /\ Settle([heap EXCEPT ![NewCell]  = [imm |-> heap[r.cell].imm, sub |-> NewCell2],
                                   ![NewCell2] = heap[heap[r.cell].sub]],
                      dirty, slot, refs, locals \cup {NewCell})
       ELSE /\ CanAlloc
            /\ Settle([heap EXCEPT ![NewCell] = heap[r.cell]],
                      dirty, slot, refs, locals \cup {NewCell})
    /\ Continue

DropRef(r) ==
    /\ Running
    /\ r \in refs
    /\ Settle(heap, dirty, slot, refs \ {r}, locals)
    /\ Continue

\* Pack of the nested struct.
PackInner(v) ==
    /\ Running
    /\ CanAlloc /\ Cardinality(locals) < MaxLocals
    /\ Settle([heap EXCEPT ![NewCell] = [imm |-> v, sub |-> Nil]],
              dirty, slot, refs, locals \cup {NewCell})
    /\ Continue

\* MoveLoc of a nested struct, then Pack of the resource around it.
PackOuter(v, c) ==
    /\ Running
    /\ c \in locals /\ ~IsOuter(c) /\ CanAlloc
    /\ IF Shared(c)
       THEN Error
       ELSE /\ Settle([heap EXCEPT ![NewCell] = [imm |-> v, sub |-> c]],
                      dirty, slot, refs, (locals \ {c}) \cup {NewCell})
            /\ Continue

\* MoveLoc, then Unpack of a resource: its nested struct becomes a value of its own.
Unpack(c) ==
    /\ Running
    /\ c \in locals /\ IsOuter(c)
    /\ IF Shared(c)
       THEN Error
       ELSE /\ Settle(heap, dirty, slot, refs, (locals \ {c}) \cup {heap[c].sub})
            /\ Continue

\* MoveLoc and Pop, or StLoc over the value.
DropLocal(c) ==
    /\ Running
    /\ c \in locals
    /\ IF Shared(c)
       THEN Error
       ELSE Settle(heap, dirty, slot, refs, locals \ {c}) /\ Continue

-----------------------------------------------------------------------------
(* The end of a session.                                                   *)

\* Abort, out of gas, arithmetic error: any error of the program.
Abort == Running /\ Error

\* Session::finish -> TransactionDataCache::into_effects.
Finish ==
    /\ Running
    /\ change' = IntoEffects
    /\ session' = "finished"
    /\ Drop
    /\ UNCHANGED remote

\* The host applies the change set of a successful session, drops a failed one,
\* and opens the next session with an empty cache.
NextSession ==
    /\ ~Running
    /\ remote' = IF session = "finished" THEN Apply(remote, change) ELSE remote
    /\ Drop
    /\ session' = "running"
    /\ change' = [k \in Key |-> NoChange]

Init ==
    /\ remote \in [Key -> Blob \cup {Absent, Corrupt}]
    /\ slot = [k \in Key |-> Unloaded]
    /\ heap = [c \in Cell |-> Nil]
    /\ dirty = [f \in Flag |-> FALSE]
    /\ refs = {} /\ locals = {}
    /\ session = "running"
    /\ change = [k \in Key |-> NoChange]

OnKey(k) ==
    \/ LoadFails(k) \/ ExistsGlobal(k) \/ BorrowGlobal(k) \/ MoveFrom(k)
    \/ \E c \in Cell : MoveTo(k, c)

OnRef(r) ==
    \/ BorrowField(r) \/ ReadRef(r) \/ DropRef(r)
    \/ \E v \in Val : WriteImm(r, v)
    \/ \E c \in Cell : WriteStruct(r, c)

OnLocal(c) ==
    \/ BorrowLoc(c) \/ Unpack(c) \/ DropLocal(c)
    \/ \E v \in Val : PackOuter(v, c)

Next ==
    \/ \E k \in Key : OnKey(k)
    \/ \E r \in refs : OnRef(r)
    \/ \E c \in locals : OnLocal(c)
    \/ \E v \in Val : PackInner(v)
    \/ Abort \/ Finish \/ NextSession

Spec == Init /\ [][Next]_vars

-----------------------------------------------------------------------------
(* Properties.                                                             *)

\* Type invariant: every slot, container, flag, reference and change is one the
\* Rust types of data_cache.rs and values_impl.rs allow.
TypeOK ==
    /\ remote \in [Key -> Blob \cup {Absent, Corrupt}]
    /\ slot \in [Key -> Slot]
    /\ heap \in [Cell -> Node \cup {Nil}]
    /\ dirty \in [Flag -> BOOLEAN]
    /\ refs \subseteq Ref
    /\ locals \subseteq Cell
    /\ session \in {"running", "finished", "failed"}
    /\ change \in [Key -> Blob \cup {Absent, NoChange}]

\* What the program reads at k: the cached resource, or storage if it is not loaded.
ContentIn(sl, h, k) ==
    IF sl[k].st = "unloaded" THEN remote[k]
    ELSE IF Exists(sl[k]) THEN Serialize(h, sl[k].cell) ELSE Absent

Content(k) == ContentIn(slot, heap, k)

\* No lost update: a resource that differs from storage is never reported as
\* unchanged, whichever references it was written through (mark_dirty, borrow_elem,
\* GlobalValueImpl::into_effect).
NoLostUpdate ==
    \A k \in Key : IntoEffect(k) = NoChange => Content(k) = remote[k]

\* A slot's state tells whether storage holds the resource: None and Fresh say it
\* does not, Cached and Deleted say it does, so an effect never deletes what is not
\* there (GlobalValueImpl).
SlotMatchesStorage ==
    \A k \in Key : /\ slot[k].st \in {"none", "fresh"} => remote[k] = Absent
                   /\ slot[k].st \in {"cached", "deleted"} => remote[k] \in Blob

\* Nothing held was freed: every container a slot, a value or a reference points to is
\* allocated, its nested struct too, and only resources live in slots.
HeapShape(sl, h, rf, lo) ==
    /\ \A c \in Held(sl, rf, lo) :
          /\ h[c] \in Node
          /\ h[c].sub # Nil => h[h[c].sub] \in Node /\ h[h[c].sub].sub = Nil
    /\ \A k \in Key :
          /\ Exists(sl[k]) => sl[k].cell \in Cell /\ h[sl[k].cell].sub # Nil
          /\ ~Exists(sl[k]) => sl[k].cell = Nil
          /\ sl[k].st = "cached" <=> sl[k].flag # Nil

\* No two slots, values or fields own the same container, also when it is only seen
\* through a reference; an outer container never outlives its owner.
Ownership(sl, h, rf, lo) ==
    /\ \A j, k \in Key : sl[j].cell = sl[k].cell /\ sl[j].cell # Nil => j = k
    /\ \A k \in Key : sl[k].cell \notin lo
    /\ \A c, d \in Held(sl, rf, lo) : h[c].sub # Nil /\ h[c].sub = h[d].sub => c = d
    /\ \A c \in Held(sl, rf, lo) : h[c].sub \notin Owned(sl, lo)
    /\ \A r \in rf : h[r.cell].sub # Nil => r.cell \in Owned(sl, lo)

\* A clean resource is the stored one, and every reference into it carries its flag.
CleanIsTracked(sl, h, d, rf) ==
    /\ \A k \in Key : sl[k].st = "cached" /\ ~d[sl[k].flag] =>
          /\ Serialize(h, sl[k].cell) = remote[k]
          /\ \A r \in rf : r.cell \in {sl[k].cell, h[sl[k].cell].sub} => r.flag = sl[k].flag
    /\ \A j, k \in Key : sl[j].flag = sl[k].flag /\ sl[j].flag # Nil => j = k

\* The containers form a forest: a write through one reference cannot change two
\* resources and no reference sees freed memory (the Rc::strong_count checks of
\* move_from, swap_loc and take_unique_ownership).
SingleOwner == HeapShape(slot, heap, refs, locals) /\ Ownership(slot, heap, refs, locals)

\* A reference into a resource that still counts as clean always marks that very
\* resource when it is written through (borrow_global, borrow_elem, mark_dirty).
CleanTracked == CleanIsTracked(slot, heap, dirty, refs)

\* The write gas charged for mutated accounts covers every account whose storage the
\* transaction is about to change (num_mutated_accounts against into_effects).
WriteGasCoversChanges ==
    \A s \in Addr :
        Cardinality({a \in Addr : \E t \in Ty : Content(<<a, t>>) # remote[<<a, t>>]})
            <= NumMutatedAccounts(s)

\* The abstract view: the cache while running, the pending change set once finished,
\* storage once failed.
View == [k \in Key |->
            IF session = "running" THEN Content(k)
            ELSE IF session = "finished" THEN Apply(remote, change)[k] ELSE remote[k]]

Abs == INSTANCE TxStore WITH stored <- remote, view <- View

\* The cache with its flags, shared cells and late effects implements the
\* transactional store: what is committed is exactly what the program saw.
Refines == Abs!Spec
=============================================================================
