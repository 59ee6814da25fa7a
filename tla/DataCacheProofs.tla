-------------------------- MODULE DataCacheProofs --------------------------
(***************************************************************************)
(* Proofs about the transaction data cache, for every set of accounts,     *)
(* types, values, cells and flags.                                         *)
(***************************************************************************)
EXTENDS DataCache, FiniteSetTheorems, TLAPS

USE Sentinels, BlobSentinels

\* The inductive invariant, over explicit components, so that an operation can be
\* followed from the state before it to the state before memory is collected.
Typed(sl, h, d, rf, lo) ==
    /\ sl \in [Key -> Slot]
    /\ h \in [Cell -> Node \cup {Nil}]
    /\ d \in [Flag -> BOOLEAN]
    /\ rf \subseteq Ref
    /\ lo \subseteq Cell

Matches(sl) ==
    \A k \in Key : /\ sl[k].st \in {"none", "fresh"} => remote[k] = Absent
                   /\ sl[k].st \in {"cached", "deleted"} => remote[k] \in Blob

Good(sl, h, d, rf, lo) ==
    /\ Typed(sl, h, d, rf, lo)
    /\ HeapShape(sl, h, rf, lo)
    /\ Ownership(sl, h, rf, lo)
    /\ CleanIsTracked(sl, h, d, rf)
    /\ Matches(sl)

\* A held container keeps its contents, and so does its nested struct.
LEMMA CollectKeeps ==
    ASSUME NEW sl, NEW h, NEW rf, NEW lo, NEW d,
           Typed(sl, h, d, rf, lo), HeapShape(sl, h, rf, lo),
           NEW c \in Held(sl, rf, lo)
    PROVE  /\ c \in Cell
           /\ Collect(h, sl, rf, lo)[c] = h[c]
           /\ h[c].sub # Nil => /\ h[c].sub \in Cell
                                /\ Collect(h, sl, rf, lo)[h[c].sub] = h[h[c].sub]
<1>1. c \in Cell
  BY DEF Typed, Held, Owned, Ref
<1>2. h[c] \in Node
  BY DEF HeapShape
<1>3. h[c].sub # Nil => h[c].sub \in Cell
  BY <1>2 DEF Node
<1>4. c \in Live(h, sl, rf, lo)
  BY DEF Live
<1>5. h[c].sub # Nil => h[c].sub \in Live(h, sl, rf, lo)
  BY <1>3 DEF Live
<1> QED
  BY <1>1, <1>3, <1>4, <1>5 DEF Collect

\* Collecting memory keeps the invariant.
LEMMA CollectGood ==
    ASSUME NEW sl, NEW h, NEW d, NEW rf, NEW lo, Good(sl, h, d, rf, lo)
    PROVE  Good(sl, Collect(h, sl, rf, lo), CollectFlags(d, sl, rf), rf, lo)
<1> DEFINE H == Collect(h, sl, rf, lo)
           D == CollectFlags(d, sl, rf)
<1>1. \A c \in Held(sl, rf, lo) :
         /\ c \in Cell
         /\ H[c] = h[c]
         /\ h[c].sub # Nil => h[c].sub \in Cell /\ H[h[c].sub] = h[h[c].sub]
  BY CollectKeeps DEF Good
<1>2. \A f \in FlagsHeld(sl, rf) : f \in Flag /\ D[f] = d[f]
  BY DEF CollectFlags, FlagsHeld, Good, Typed
<1>3. Typed(sl, H, D, rf, lo)
  <2>1. H \in [Cell -> Node \cup {Nil}]
    BY DEF Good, Typed, Collect
  <2>2. D \in [Flag -> BOOLEAN]
    BY DEF CollectFlags
  <2> QED BY <2>1, <2>2 DEF Good, Typed
<1>4. \A k \in Key : Exists(sl[k]) => sl[k].cell \in Held(sl, rf, lo)
  BY DEF Good, HeapShape, Held, Owned
<1>5. HeapShape(sl, H, rf, lo)
  BY <1>1, <1>4 DEF Good, HeapShape
<1>6. Ownership(sl, H, rf, lo)
  <2>1. \A r \in rf : r.cell \in Held(sl, rf, lo)
    BY DEF Held
  <2> QED BY <1>1, <2>1 DEF Good, Ownership
<1>7. CleanIsTracked(sl, H, D, rf)
  <2>1. ASSUME NEW k \in Key, sl[k].st = "cached", ~D[sl[k].flag]
        PROVE  /\ Serialize(H, sl[k].cell) = remote[k]
               /\ \A r \in rf : r.cell \in {sl[k].cell, H[sl[k].cell].sub} => r.flag = sl[k].flag
    <3>1. sl[k].flag \in FlagsHeld(sl, rf)
      BY <2>1 DEF Good, HeapShape, Typed, Slot, FlagsHeld
    <3>2. ~d[sl[k].flag]
      BY <2>1, <3>1, <1>2
    <3>3. sl[k].cell \in Held(sl, rf, lo) /\ h[sl[k].cell].sub # Nil
      BY <2>1, <1>4 DEF Exists, Good, HeapShape
    <3>4. H[sl[k].cell] = h[sl[k].cell] /\ Serialize(H, sl[k].cell) = Serialize(h, sl[k].cell)
      BY <3>3, <1>1 DEF Serialize
    <3> QED BY <2>1, <3>2, <3>4 DEF Good, CleanIsTracked
  <2> QED BY <2>1 DEF Good, CleanIsTracked
<1> QED BY <1>3, <1>5, <1>6, <1>7 DEF Good

\* Collecting memory changes nothing the program reads.
LEMMA CollectContent ==
    ASSUME NEW sl, NEW h, NEW d, NEW rf, NEW lo, Good(sl, h, d, rf, lo), NEW k \in Key
    PROVE  ContentIn(sl, Collect(h, sl, rf, lo), k) = ContentIn(sl, h, k)
<1>1. CASE Exists(sl[k])
  <2>1. sl[k].cell \in Held(sl, rf, lo) /\ h[sl[k].cell].sub # Nil
    BY <1>1 DEF Good, HeapShape, Held, Owned
  <2> QED BY <2>1, CollectKeeps DEF Good, ContentIn, Serialize
<1>2. CASE ~Exists(sl[k])
  BY <1>2 DEF ContentIn
<1> QED BY <1>1, <1>2

-----------------------------------------------------------------------------
(* Loading a resource.                                                     *)

\* A freed container is neither held nor nested in a held one.
LEMMA FreeIsUnused ==
    ASSUME NEW sl, NEW h, NEW d, NEW rf, NEW lo, Good(sl, h, d, rf, lo),
           NEW c \in Cell, h[c] = Nil
    PROVE  /\ c \notin Held(sl, rf, lo)
           /\ \A x \in Held(sl, rf, lo) : h[x].sub # c
BY DEF Good, HeapShape

\* What the program reads does not depend on containers no slot owns.
LEMMA ContentFrame ==
    ASSUME NEW sl, NEW h, NEW d, NEW rf, NEW lo, Good(sl, h, d, rf, lo),
           NEW g, NEW j \in Key,
           Exists(sl[j]) => /\ g[sl[j].cell] = h[sl[j].cell]
                            /\ g[h[sl[j].cell].sub].imm = h[h[sl[j].cell].sub].imm
    PROVE  ContentIn(sl, g, j) = ContentIn(sl, h, j)
BY DEF ContentIn, Serialize

\* load_resource of a stored resource: new containers and a clear flag of its own.
LEMMA LoadCached ==
    ASSUME NEW sl, NEW h, NEW d, NEW rf, NEW lo, Good(sl, h, d, rf, lo),
           NEW k \in Key, sl[k].st = "unloaded", remote[k] \in Blob,
           NEW a \in Cell, NEW b \in Cell, a # b, h[a] = Nil, h[b] = Nil,
           NEW f \in Flag, f \notin FlagsHeld(sl, rf),
           NEW s2 \in [Key -> Slot], s2[k] = Cached(a, f),
           \A j \in Key : j # k => s2[j] = sl[j],
           NEW h2 \in [Cell -> Node \cup {Nil}],
           h2[a] = [imm |-> remote[k].imm, sub |-> b],
           h2[b] = [imm |-> remote[k].sub, sub |-> Nil],
           \A x \in Cell : x # a /\ x # b => h2[x] = h[x],
           NEW d2 \in [Flag -> BOOLEAN], ~d2[f], \A g \in Flag : g # f => d2[g] = d[g]
    PROVE  /\ Good(s2, h2, d2, rf, lo)
           /\ \A j \in Key : ContentIn(s2, h2, j) = ContentIn(sl, h, j)
<1>1. /\ a \notin Held(sl, rf, lo) /\ b \notin Held(sl, rf, lo)
      /\ \A x \in Held(sl, rf, lo) : h[x].sub # a /\ h[x].sub # b
  BY FreeIsUnused
<1>2. /\ remote[k].imm \in Val /\ remote[k].sub \in Val
      /\ remote[k] = [imm |-> remote[k].imm, sub |-> remote[k].sub]
  BY DEF Blob
<1>3. /\ sl \in [Key -> Slot] /\ h \in [Cell -> Node \cup {Nil}] /\ d \in [Flag -> BOOLEAN]
      /\ rf \subseteq Ref /\ lo \subseteq Cell
  BY DEF Good, Typed
<1>4. sl[k].cell = Nil /\ sl[k].flag = Nil
  BY DEF Good, HeapShape, Exists
<1>5. /\ h2[a] = [imm |-> remote[k].imm, sub |-> b]
      /\ h2[b] = [imm |-> remote[k].sub, sub |-> Nil]
      /\ \A x \in Held(sl, rf, lo) :
            /\ x \in Cell /\ h2[x] = h[x]
            /\ h[x].sub # Nil => h[x].sub \in Cell /\ h2[h[x].sub] = h[h[x].sub]
  <2>1. \A x \in Held(sl, rf, lo) : x \in Cell
    BY <1>3 DEF Held, Owned, Ref
  <2>2. \A x \in Held(sl, rf, lo) : h[x].sub # Nil => h[x].sub \in Cell
    BY DEF Good, HeapShape, Node
  <2> QED BY <1>1, <1>3, <2>1, <2>2
<1>7. /\ Owned(s2, lo) = Owned(sl, lo) \cup {a}
      /\ Held(s2, rf, lo) = Held(sl, rf, lo) \cup {a}
  <2>1. {s2[j].cell : j \in Key} \cap Cell = ({sl[j].cell : j \in Key} \cap Cell) \cup {a}
    BY <1>4 DEF Cached
  <2> QED BY <2>1 DEF Owned, Held
<1>8. Typed(s2, h2, d2, rf, lo)
  BY <1>3 DEF Typed
<1>9. HeapShape(s2, h2, rf, lo)
  <2>1. h2[a] \in Node /\ h2[a].sub = b /\ h2[b] \in Node /\ h2[b].sub = Nil
    BY <1>2, <1>5 DEF Node
  <2>2. ASSUME NEW c \in Held(s2, rf, lo)
        PROVE  /\ h2[c] \in Node
               /\ h2[c].sub # Nil => h2[h2[c].sub] \in Node /\ h2[h2[c].sub].sub = Nil
    <3>1. CASE c = a BY <2>1, <3>1
    <3>2. CASE c \in Held(sl, rf, lo) BY <3>2, <1>5 DEF Good, HeapShape
    <3> QED BY <3>1, <3>2, <1>7
  <2>3. ASSUME NEW j \in Key
        PROVE  /\ Exists(s2[j]) => s2[j].cell \in Cell /\ h2[s2[j].cell].sub # Nil
               /\ ~Exists(s2[j]) => s2[j].cell = Nil
               /\ s2[j].st = "cached" <=> s2[j].flag # Nil
    <3>1. CASE j = k
      BY <3>1, <2>1 DEF Cached, Exists
    <3>2. CASE j # k
      <4>1. Exists(sl[j]) => sl[j].cell \in Held(sl, rf, lo)
        BY DEF Good, HeapShape, Held, Owned
      <4> QED BY <3>2, <4>1, <1>5 DEF Good, HeapShape
    <3> QED BY <3>1, <3>2
  <2> QED BY <2>2, <2>3 DEF HeapShape
<1>10. Ownership(s2, h2, rf, lo)
  <2>1. \A j \in Key : sl[j].cell # a
    BY <1>1, <1>3 DEF Held, Owned
  <2>2. a \notin lo
    BY <1>1, <1>3 DEF Held, Owned
  <2>3. \A i, j \in Key : s2[i].cell = s2[j].cell /\ s2[i].cell # Nil => i = j
    BY <2>1 DEF Cached, Good, Ownership
  <2>4. \A j \in Key : s2[j].cell \notin lo
    BY <2>2 DEF Cached, Good, Ownership
  <2>5. \A c, e \in Held(s2, rf, lo) : h2[c].sub # Nil /\ h2[c].sub = h2[e].sub => c = e
    BY <1>1, <1>5, <1>7 DEF Good, Ownership
  <2>6. b \notin Owned(s2, lo)
    BY <1>1, <1>7 DEF Held
  <2>7. \A c \in Held(s2, rf, lo) : h2[c].sub \notin Owned(s2, lo)
    BY <2>6, <1>1, <1>5, <1>7 DEF Good, Ownership
  <2>8. \A r \in rf : h2[r.cell].sub # Nil => r.cell \in Owned(s2, lo)
    <3>1. \A r \in rf : r.cell \in Held(sl, rf, lo)
      BY DEF Held
    <3> QED BY <3>1, <1>5, <1>7 DEF Good, Ownership
  <2> QED BY <2>3, <2>4, <2>5, <2>7, <2>8 DEF Ownership
<1>11. CleanIsTracked(s2, h2, d2, rf)
  <2>1. \A j \in Key : sl[j].flag # f
    BY DEF FlagsHeld
  <2>2. \A i, j \in Key : s2[i].flag = s2[j].flag /\ s2[i].flag # Nil => i = j
    BY <2>1 DEF Cached, Good, CleanIsTracked
  <2>3. ASSUME NEW j \in Key, s2[j].st = "cached", ~d2[s2[j].flag]
        PROVE  /\ Serialize(h2, s2[j].cell) = remote[j]
               /\ \A r \in rf : r.cell \in {s2[j].cell, h2[s2[j].cell].sub} => r.flag = s2[j].flag
    <3>1. CASE j = k
      <4>1. \A r \in rf : r.cell # a /\ r.cell # b
        BY <1>1 DEF Held
      <4> QED BY <3>1, <4>1, <1>2, <1>5 DEF Cached, Serialize
    <3>2. CASE j # k
      <4>1. sl[j].st = "cached" /\ sl[j].flag \in Flag
        BY <3>2, <2>3, <1>3 DEF Good, HeapShape, Slot
      <4>2. ~d[sl[j].flag]
        BY <4>1, <3>2, <2>1, <2>3
      <4>3. sl[j].cell \in Held(sl, rf, lo) /\ h[sl[j].cell].sub # Nil
        BY <4>1 DEF Exists, Good, HeapShape, Held, Owned
      <4>4. s2[j] = sl[j] /\ h2[sl[j].cell] = h[sl[j].cell]
            /\ h2[h[sl[j].cell].sub] = h[h[sl[j].cell].sub]
        BY <3>2, <4>3, <1>5
      <4>5. Serialize(h2, s2[j].cell) = Serialize(h, sl[j].cell)
        BY <4>4 DEF Serialize
      <4> QED BY <4>1, <4>2, <4>4, <4>5 DEF Good, CleanIsTracked
    <3> QED BY <3>1, <3>2
  <2> QED BY <2>2, <2>3 DEF CleanIsTracked
<1>12. Matches(s2)
  BY DEF Cached, Good, Matches
<1>13. ASSUME NEW j \in Key PROVE ContentIn(s2, h2, j) = ContentIn(sl, h, j)
  <2>1. CASE j = k
    BY <2>1, <1>2, <1>5 DEF ContentIn, Cached, Exists, Serialize
  <2>2. CASE j # k
    <3>1. Exists(sl[j]) => sl[j].cell \in Held(sl, rf, lo) /\ h[sl[j].cell].sub # Nil
      BY DEF Good, HeapShape, Held, Owned
    <3>2. ContentIn(sl, h2, j) = ContentIn(sl, h, j)
      BY <3>1, <1>5, ContentFrame
    <3> QED BY <2>2, <3>2 DEF ContentIn
  <2> QED BY <2>1, <2>2
<1>14. Good(s2, h2, d2, rf, lo)
  BY <1>8, <1>9, <1>10, <1>11, <1>12 DEF Good
<1> QED BY <1>13, <1>14

\* load_resource leaves a good cache that reads as before.
LEMMA LoadGood ==
    ASSUME Good(slot, heap, dirty, refs, locals),
           remote \in [Key -> Blob \cup {Absent, Corrupt}],
           NEW k \in Key, NEW ld \in LoadResource(k)
    PROVE  LET s2 == [slot EXCEPT ![k] = ld.slot]
           IN  /\ Good(s2, ld.heap, ld.dirty, refs, locals)
               /\ s2[k] = ld.slot /\ ld.slot.st # "unloaded"
               /\ \A j \in Key : ContentIn(s2, ld.heap, j) = Content(j)
<1> DEFINE s2 == [slot EXCEPT ![k] = ld.slot]
<1>0. slot \in [Key -> Slot]
  BY DEF Good, Typed
<1>1. CASE slot[k].st # "unloaded"
  <2>1. ld = [slot |-> slot[k], heap |-> heap, dirty |-> dirty]
    BY <1>1 DEF LoadResource
  <2>2. s2 = slot
    BY <1>0, <2>1
  <2> QED BY <1>1, <2>1, <2>2 DEF Content
<1>2. CASE slot[k].st = "unloaded" /\ remote[k] = Absent
  <2>1. ld = [slot |-> None, heap |-> heap, dirty |-> dirty]
    BY <1>2 DEF LoadResource
  <2>2. slot[k].cell = Nil /\ slot[k].flag = Nil
    BY <1>2 DEF Good, HeapShape, Exists
  <2>3. s2[k] = None /\ \A j \in Key : j # k => s2[j] = slot[j]
    BY <1>0, <2>1
  <2>4. None \in Slot /\ s2 \in [Key -> Slot]
    BY <1>0, <2>1 DEF None, Slot, SlotTag
  <2> HIDE DEF s2
  <2>5. \A j \in Key : s2[j].cell = slot[j].cell /\ s2[j].flag = slot[j].flag
                      /\ (Exists(s2[j]) <=> Exists(slot[j]))
                      /\ (s2[j].st = "cached" <=> slot[j].st = "cached")
    BY <1>2, <2>2, <2>3 DEF None, Exists
  <2>6. Owned(s2, locals) = Owned(slot, locals) /\ Held(s2, refs, locals) = Held(slot, refs, locals)
    BY <2>5 DEF Owned, Held
  <2>7. Typed(s2, heap, dirty, refs, locals)
    BY <2>4 DEF Good, Typed
  <2>8. HeapShape(s2, heap, refs, locals)
    BY <2>5, <2>6 DEF Good, HeapShape
  <2>9. Ownership(s2, heap, refs, locals)
    BY <2>5, <2>6 DEF Good, Ownership
  <2>10. CleanIsTracked(s2, heap, dirty, refs)
    BY <2>5 DEF Good, CleanIsTracked
  <2>11. Matches(s2)
    BY <1>2, <2>3 DEF None, Good, Matches
  <2>12. Good(s2, heap, dirty, refs, locals)
    BY <2>7, <2>8, <2>9, <2>10, <2>11 DEF Good
  <2>13. \A j \in Key : ContentIn(s2, heap, j) = Content(j)
    BY <1>2, <2>3 DEF Content, ContentIn, None, Exists
  <2> QED BY <2>1, <2>3, <2>12, <2>13 DEF s2, None
<1>3. CASE slot[k].st = "unloaded" /\ remote[k] # Absent
  <2>1. /\ remote[k] \in Blob /\ CanAlloc2 /\ CanFlag
        /\ ld = [slot  |-> Cached(NewCell, NewFlag),
                 heap  |-> [heap EXCEPT ![NewCell]  = [imm |-> remote[k].imm, sub |-> NewCell2],
                                        ![NewCell2] = [imm |-> remote[k].sub, sub |-> Nil]],
                 dirty |-> [dirty EXCEPT ![NewFlag] = FALSE]]
    BY <1>3 DEF LoadResource
  <2>2. /\ NewCell \in Cell /\ heap[NewCell] = Nil
        /\ NewCell2 \in Cell /\ heap[NewCell2] = Nil /\ NewCell # NewCell2
    BY <2>1, Zenon DEF CanAlloc2, CanAlloc, NewCell, NewCell2, Free
  <2>3. NewFlag \in Flag /\ NewFlag \notin FlagsHeld(slot, refs)
    BY <2>1, Zenon DEF CanFlag, NewFlag
  <2> DEFINE s3 == [slot EXCEPT ![k] = Cached(NewCell, NewFlag)]
             h3 == [heap EXCEPT ![NewCell]  = [imm |-> remote[k].imm, sub |-> NewCell2],
                                ![NewCell2] = [imm |-> remote[k].sub, sub |-> Nil]]
             d3 == [dirty EXCEPT ![NewFlag] = FALSE]
  <2>4. Good(s3, h3, d3, refs, locals) /\ \A j \in Key : ContentIn(s3, h3, j) = ContentIn(slot, heap, j)
    <3>1. heap \in [Cell -> Node \cup {Nil}] /\ dirty \in [Flag -> BOOLEAN]
      BY DEF Good, Typed
    <3>2. remote[k] \in Blob /\ remote[k].imm \in Val /\ remote[k].sub \in Val
      BY <2>1 DEF Blob
    <3>3. /\ s3 \in [Key -> Slot] /\ s3[k] = Cached(NewCell, NewFlag)
          /\ \A j \in Key : j # k => s3[j] = slot[j]
      BY <1>0, <2>2, <2>3 DEF Cached, Slot, SlotTag
    <3>4. /\ h3 \in [Cell -> Node \cup {Nil}]
          /\ h3[NewCell] = [imm |-> remote[k].imm, sub |-> NewCell2]
          /\ h3[NewCell2] = [imm |-> remote[k].sub, sub |-> Nil]
          /\ \A x \in Cell : x # NewCell /\ x # NewCell2 => h3[x] = heap[x]
      BY <2>2, <3>1, <3>2 DEF Node
    <3>5. /\ d3 \in [Flag -> BOOLEAN] /\ ~d3[NewFlag]
          /\ \A g \in Flag : g # NewFlag => d3[g] = dirty[g]
      BY <2>3, <3>1
    <3> HIDE DEF s3, h3, d3
    <3> QED BY <1>3, <2>2, <2>3, <3>2, <3>3, <3>4, <3>5, LoadCached
  <2>5. ld.slot = Cached(NewCell, NewFlag) /\ ld.heap = h3 /\ ld.dirty = d3
    BY <2>1
  <2>6. s3[k] = Cached(NewCell, NewFlag)
    BY <1>0
  <2>7. s2 = s3 /\ ld.slot.st # "unloaded"
    BY <2>5 DEF Cached
  <2> HIDE DEF s2, s3, h3, d3
  <2>8. \A j \in Key : ContentIn(s2, ld.heap, j) = Content(j)
    BY <2>4, <2>5, <2>7 DEF Content
  <2>9. Good(s2, ld.heap, ld.dirty, refs, locals) /\ s2[k] = ld.slot
    BY <2>4, <2>5, <2>6, <2>7
  <2> QED BY <2>7, <2>8, <2>9 DEF s2
<1> QED BY <1>1, <1>2, <1>3

-----------------------------------------------------------------------------
(* References come and go.                                                 *)

\* A reference to a slot carries that slot's flag.
LEMMA BorrowGlobalGood ==
    ASSUME NEW sl, NEW h, NEW d, NEW rf, NEW lo, Good(sl, h, d, rf, lo),
           NEW k \in Key, Exists(sl[k])
    PROVE  Good(sl, h, d, rf \cup {[cell |-> sl[k].cell, flag |-> sl[k].flag]}, lo)
<1> DEFINE r2 == [cell |-> sl[k].cell, flag |-> sl[k].flag]
           rf2 == rf \cup {r2}
<1>1. sl[k].cell \in Cell /\ sl[k].flag \in Flag \cup {Nil} /\ sl[k].cell \in Owned(sl, lo)
  BY DEF Good, Typed, HeapShape, Slot, Owned
<1>2. r2 \in Ref /\ r2.cell = sl[k].cell /\ r2.flag = sl[k].flag
  BY <1>1 DEF Ref
<1>3. \A r \in rf2 : r \in rf \/ r = r2
  OBVIOUS
<1>4. Held(sl, rf2, lo) = Held(sl, rf, lo)
  <2>1. {r.cell : r \in rf2} = {r.cell : r \in rf} \cup {sl[k].cell}
    BY <1>2
  <2> QED BY <2>1, <1>1 DEF Held
<1> HIDE DEF r2, rf2
<1>5. Typed(sl, h, d, rf2, lo)
  BY <1>2 DEF Good, Typed, rf2
<1>6. HeapShape(sl, h, rf2, lo)
  BY <1>4 DEF Good, HeapShape
<1>7. Ownership(sl, h, rf2, lo)
  BY <1>1, <1>2, <1>3, <1>4 DEF Good, Ownership
<1>8. CleanIsTracked(sl, h, d, rf2)
  <2>1. \A j \in Key : sl[j].st = "cached" /\ sl[k].cell \in {sl[j].cell, h[sl[j].cell].sub} => j = k
    <3>1. \A j \in Key : sl[j].st = "cached" => sl[j].cell \in Held(sl, rf, lo) /\ sl[j].cell # Nil
      BY DEF Good, HeapShape, Exists, Held, Owned
    <3> QED BY <1>1, <3>1 DEF Good, Ownership
  <2> QED BY <1>2, <1>3, <2>1 DEF Good, CleanIsTracked
<1> QED BY <1>5, <1>6, <1>7, <1>8 DEF Good, r2, rf2

\* A reference to a nested struct carries the flag of the reference it came from.
LEMMA BorrowFieldGood ==
    ASSUME NEW sl, NEW h, NEW d, NEW rf, NEW lo, Good(sl, h, d, rf, lo),
           NEW q \in rf, h[q.cell].sub # Nil
    PROVE  Good(sl, h, d, rf \cup {[cell |-> h[q.cell].sub, flag |-> q.flag]}, lo)
<1> DEFINE n == h[q.cell].sub
           r2 == [cell |-> n, flag |-> q.flag]
           rf2 == rf \cup {r2}
<1>1. /\ q \in Ref /\ q.cell \in Held(sl, rf, lo) /\ h[q.cell] \in Node /\ n \in Cell
      /\ h[n] \in Node /\ h[n].sub = Nil
  BY DEF Good, Typed, HeapShape, Node, Held
<1>2. r2 \in Ref /\ r2.cell = n /\ r2.flag = q.flag
  BY <1>1 DEF Ref
<1>3. \A r \in rf2 : r \in rf \/ r = r2
  OBVIOUS
<1>4. Held(sl, rf2, lo) = Held(sl, rf, lo) \cup {n}
  <2>1. {r.cell : r \in rf2} = {r.cell : r \in rf} \cup {n}
    BY <1>2
  <2> QED BY <2>1 DEF Held
<1> HIDE DEF r2, rf2
<1>5. Typed(sl, h, d, rf2, lo)
  BY <1>2 DEF Good, Typed, rf2
<1>6. HeapShape(sl, h, rf2, lo)
  BY <1>1, <1>4 DEF Good, HeapShape
<1>7. Ownership(sl, h, rf2, lo)
  <2>1. Nil \notin Owned(sl, lo)
    BY DEF Owned
  <2> QED BY <1>1, <1>2, <1>3, <1>4, <2>1 DEF Good, Ownership
<1>8. CleanIsTracked(sl, h, d, rf2)
  <2>1. \A j \in Key : sl[j].st = "cached" =>
            sl[j].cell \in Held(sl, rf, lo) /\ sl[j].cell \in Owned(sl, lo)
    BY DEF Good, HeapShape, Exists, Held, Owned
  <2>2. \A j \in Key : sl[j].st = "cached" /\ n \in {sl[j].cell, h[sl[j].cell].sub} => q.cell = sl[j].cell
    BY <1>1, <2>1 DEF Good, Ownership
  <2> QED BY <1>2, <1>3, <2>2 DEF Good, CleanIsTracked
<1> QED BY <1>5, <1>6, <1>7, <1>8 DEF Good, r2, rf2

\* A reference to a value of the program needs no flag.
LEMMA BorrowLocGood ==
    ASSUME NEW sl, NEW h, NEW d, NEW rf, NEW lo, Good(sl, h, d, rf, lo), NEW c \in lo
    PROVE  Good(sl, h, d, rf \cup {[cell |-> c, flag |-> Nil]}, lo)
<1> DEFINE r2 == [cell |-> c, flag |-> Nil]
           rf2 == rf \cup {r2}
<1>1. c \in Cell /\ c \in Owned(sl, lo)
  BY DEF Good, Typed, Owned
<1>2. r2 \in Ref /\ r2.cell = c
  BY <1>1 DEF Ref
<1>3. \A r \in rf2 : r \in rf \/ r = r2
  OBVIOUS
<1>4. Held(sl, rf2, lo) = Held(sl, rf, lo)
  <2>1. {r.cell : r \in rf2} = {r.cell : r \in rf} \cup {c}
    BY <1>2
  <2> QED BY <2>1, <1>1 DEF Held
<1> HIDE DEF r2, rf2
<1>5. Typed(sl, h, d, rf2, lo)
  BY <1>2 DEF Good, Typed, rf2
<1>6. HeapShape(sl, h, rf2, lo)
  BY <1>4 DEF Good, HeapShape
<1>7. Ownership(sl, h, rf2, lo)
  BY <1>1, <1>2, <1>3, <1>4 DEF Good, Ownership
<1>8. CleanIsTracked(sl, h, d, rf2)
  <2>1. \A j \in Key : sl[j].st = "cached" => c \notin {sl[j].cell, h[sl[j].cell].sub}
    <3>1. \A j \in Key : sl[j].st = "cached" => sl[j].cell \in Held(sl, rf, lo)
      BY DEF Good, HeapShape, Exists, Held, Owned
    <3> QED BY <1>1, <3>1 DEF Good, Ownership
  <2> QED BY <1>2, <1>3, <2>1 DEF Good, CleanIsTracked
<1> QED BY <1>5, <1>6, <1>7, <1>8 DEF Good, r2, rf2

\* Giving up a reference is always safe.
LEMMA DropRefGood ==
    ASSUME NEW sl, NEW h, NEW d, NEW rf, NEW lo, Good(sl, h, d, rf, lo), NEW q
    PROVE  Good(sl, h, d, rf \ {q}, lo)
<1> DEFINE rf2 == rf \ {q}
<1>1. Held(sl, rf2, lo) \subseteq Held(sl, rf, lo)
  BY DEF Held
<1>2. Typed(sl, h, d, rf2, lo)
  BY DEF Good, Typed
<1>3. HeapShape(sl, h, rf2, lo)
  BY <1>1 DEF Good, HeapShape
<1>4. Ownership(sl, h, rf2, lo)
  BY <1>1 DEF Good, Ownership
<1>5. CleanIsTracked(sl, h, d, rf2)
  BY DEF Good, CleanIsTracked
<1> QED BY <1>2, <1>3, <1>4, <1>5 DEF Good

-----------------------------------------------------------------------------
(* Values move between the program and the slots.                          *)

\* A value without references is given up.
LEMMA DropLocalGood ==
    ASSUME NEW sl, NEW h, NEW d, NEW rf, NEW lo, Good(sl, h, d, rf, lo),
           NEW c, \A r \in rf : r.cell # c
    PROVE  Good(sl, h, d, rf, lo \ {c})
<1> DEFINE lo2 == lo \ {c}
<1>1. Held(sl, rf, lo2) \subseteq Held(sl, rf, lo) /\ Owned(sl, lo2) \subseteq Owned(sl, lo)
  BY DEF Held, Owned
<1>2. \A x \in Owned(sl, lo) : x # c => x \in Owned(sl, lo2)
  BY DEF Owned
<1>3. Typed(sl, h, d, rf, lo2)
  BY DEF Good, Typed
<1>4. HeapShape(sl, h, rf, lo2)
  BY <1>1 DEF Good, HeapShape
<1>5. Ownership(sl, h, rf, lo2)
  BY <1>1, <1>2 DEF Good, Ownership
<1> QED BY <1>3, <1>4, <1>5 DEF Good

\* move_from: the container passes from the slot to the program.
LEMMA MoveFromGood ==
    ASSUME NEW sl, NEW h, NEW d, NEW rf, NEW lo, Good(sl, h, d, rf, lo),
           NEW k \in Key, Exists(sl[k]),
           NEW s2 \in [Key -> Slot],
           s2[k] = Vacated(sl[k]),
           \A j \in Key : j # k => s2[j] = sl[j]
    PROVE  /\ Good(s2, h, d, rf, lo \cup {sl[k].cell})
           /\ ContentIn(s2, h, k) = Absent
           /\ \A j \in Key : j # k => ContentIn(s2, h, j) = ContentIn(sl, h, j)
<1> DEFINE c == sl[k].cell
           lo2 == lo \cup {c}
<1>1. c \in Cell /\ h[c].sub # Nil
  BY DEF Good, HeapShape
<1>2. /\ s2[k].cell = Nil /\ s2[k].flag = Nil /\ ~Exists(s2[k])
      /\ s2[k].st \in {"none", "deleted"}
  BY DEF Vacated, None, Deleted, Exists
<1>3. \A j \in Key : j # k => s2[j].cell # c
  BY <1>1 DEF Good, Ownership
<1>4. Owned(s2, lo2) = Owned(sl, lo) /\ Held(s2, rf, lo2) = Held(sl, rf, lo)
  <2>1. Owned(s2, lo2) = Owned(sl, lo)
    BY <1>1, <1>2 DEF Owned
  <2> QED BY <2>1 DEF Held
<1>5. Typed(s2, h, d, rf, lo2)
  BY <1>1 DEF Good, Typed
<1>6. HeapShape(s2, h, rf, lo2)
  BY <1>2, <1>4 DEF Good, HeapShape
<1>7. Ownership(s2, h, rf, lo2)
  <2>1. \A i, j \in Key : s2[i].cell = s2[j].cell /\ s2[i].cell # Nil => i = j
    BY <1>2 DEF Good, Ownership
  <2>2. \A j \in Key : s2[j].cell \notin lo2
    <3>1. Nil \notin lo2
      BY <1>1 DEF Good, Typed
    <3> QED BY <3>1, <1>2, <1>3 DEF Good, Ownership
  <2> QED BY <2>1, <2>2, <1>4 DEF Good, Ownership
<1>8. CleanIsTracked(s2, h, d, rf)
  BY <1>2 DEF Good, CleanIsTracked
<1>9. Matches(s2)
  BY DEF Good, Matches, Vacated, None, Deleted, Exists
<1>10. ContentIn(s2, h, k) = Absent
  BY <1>2 DEF ContentIn
<1>11. \A j \in Key : j # k => ContentIn(s2, h, j) = ContentIn(sl, h, j)
  BY DEF ContentIn
<1> QED BY <1>5, <1>6, <1>7, <1>8, <1>9, <1>10, <1>11 DEF Good

\* move_to into an empty slot: fresh, or cached and dirty from the start.
LEMMA MoveToGood ==
    ASSUME NEW sl, NEW h, NEW d, NEW rf, NEW lo, Good(sl, h, d, rf, lo),
           NEW k \in Key, NEW c \in lo, h[c].sub # Nil,
           NEW s2 \in [Key -> Slot], \A j \in Key : j # k => s2[j] = sl[j],
           NEW d2 \in [Flag -> BOOLEAN],
           \/ sl[k].st = "none" /\ s2[k] = Fresh(c) /\ d2 = d
           \/ \E f \in Flag \ FlagsHeld(sl, rf) :
                 /\ sl[k].st = "deleted" /\ s2[k] = Cached(c, f) /\ d2[f]
                 /\ \A g \in Flag : g # f => d2[g] = d[g]
    PROVE  /\ Good(s2, h, d2, rf, lo \ {c})
           /\ ContentIn(sl, h, k) = Absent /\ ContentIn(s2, h, k) \in Blob
           /\ \A j \in Key : j # k => ContentIn(s2, h, j) = ContentIn(sl, h, j)
<1> DEFINE lo2 == lo \ {c}
<1>1. c \in Cell /\ c \in Held(sl, rf, lo) /\ h[c] \in Node /\ h[c].sub \in Cell /\ h[h[c].sub] \in Node
  BY DEF Good, Typed, HeapShape, Held, Owned, Node
<1>2. /\ s2[k].cell = c /\ Exists(s2[k])
      /\ ~Exists(sl[k]) /\ sl[k].cell = Nil /\ sl[k].flag = Nil /\ sl[k].st \in {"none", "deleted"}
  BY DEF Good, HeapShape, Fresh, Cached, Exists
<1>3. \A j \in Key : sl[j].cell # c
  BY DEF Good, Ownership
<1>4. /\ \A j \in Key : sl[j].flag # Nil => d2[sl[j].flag] = d[sl[j].flag]
      /\ \/ s2[k].st = "fresh" /\ s2[k].flag = Nil
         \/ s2[k].st = "cached" /\ s2[k].flag \in Flag /\ d2[s2[k].flag]
      /\ \A j \in Key : sl[j].flag = s2[k].flag => sl[j].flag = Nil
  <2>1. \A j \in Key : sl[j].flag # Nil => sl[j].flag \in FlagsHeld(sl, rf) /\ sl[j].flag \in Flag
    BY DEF FlagsHeld, Good, Typed, Slot
  <2>2. CASE sl[k].st = "none" /\ s2[k] = Fresh(c) /\ d2 = d
    <3>1. s2[k].st = "fresh" /\ s2[k].flag = Nil
      BY <2>2 DEF Fresh
    <3> QED BY <2>2, <3>1
  <2>3. CASE \E f \in Flag \ FlagsHeld(sl, rf) :
                 /\ sl[k].st = "deleted" /\ s2[k] = Cached(c, f) /\ d2[f]
                 /\ \A g \in Flag : g # f => d2[g] = d[g]
    <3>1. PICK f \in Flag \ FlagsHeld(sl, rf) :
                 /\ s2[k] = Cached(c, f) /\ d2[f]
                 /\ \A g \in Flag : g # f => d2[g] = d[g]
      BY <2>3
    <3>2. s2[k].st = "cached" /\ s2[k].flag = f
      BY <3>1 DEF Cached
    <3>3. \A j \in Key : sl[j].flag # f
      BY <2>1
    <3>4. \A j \in Key : sl[j].flag # Nil => d2[sl[j].flag] = d[sl[j].flag]
      BY <2>1, <3>1, <3>3
    <3> QED BY <3>1, <3>2, <3>3, <3>4
  <2> QED BY <2>2, <2>3
<1>5. Owned(s2, lo2) = Owned(sl, lo) /\ Held(s2, rf, lo2) = Held(sl, rf, lo)
  <2>1. Owned(s2, lo2) = Owned(sl, lo)
    BY <1>1, <1>2 DEF Owned
  <2> QED BY <2>1 DEF Held
<1>6. Typed(s2, h, d2, rf, lo2)
  BY DEF Good, Typed
<1>7. HeapShape(s2, h, rf, lo2)
  <2>1. s2[k].st = "cached" <=> s2[k].flag # Nil
    BY <1>4
  <2> QED BY <1>1, <1>2, <2>1, <1>5 DEF Good, HeapShape
<1>8. Ownership(s2, h, rf, lo2)
  <2>1. \A i, j \in Key : s2[i].cell = s2[j].cell /\ s2[i].cell # Nil => i = j
    BY <1>2, <1>3 DEF Good, Ownership
  <2>2. \A j \in Key : s2[j].cell \notin lo2
    BY <1>2 DEF Good, Ownership
  <2> QED BY <2>1, <2>2, <1>5 DEF Good, Ownership
<1>9. CleanIsTracked(s2, h, d2, rf)
  <2>1. ASSUME NEW j \in Key, s2[j].st = "cached", ~d2[s2[j].flag]
        PROVE  j # k /\ ~d[sl[j].flag]
    <3>1. j # k
      BY <2>1, <1>4
    <3>2. sl[j].flag # Nil
      BY <2>1, <3>1 DEF Good, HeapShape
    <3> QED BY <2>1, <3>1, <3>2, <1>4
  <2>2. \A i, j \in Key : s2[i].flag = s2[j].flag /\ s2[i].flag # Nil => i = j
    BY <1>4 DEF Good, CleanIsTracked
  <2> QED BY <2>1, <2>2 DEF Good, CleanIsTracked
<1>10. Matches(s2)
  BY <1>2 DEF Good, Matches, Fresh, Cached
<1>11. ContentIn(s2, h, k) = Serialize(h, c) /\ ContentIn(sl, h, k) = Absent
  BY <1>2 DEF ContentIn, Exists
<1>12. Serialize(h, c) \in Blob
  BY <1>1 DEF Serialize, Blob, Node
<1>13. \A j \in Key : j # k => ContentIn(s2, h, j) = ContentIn(sl, h, j)
  BY DEF ContentIn
<1> QED BY <1>6, <1>7, <1>8, <1>9, <1>10, <1>11, <1>12, <1>13 DEF Good

-----------------------------------------------------------------------------
(* Writes and new containers.                                              *)

\* The case of a slot that storage has nothing for: no flag changes.
LEMMA MoveToFreshGood ==
    ASSUME NEW sl, NEW h, NEW d, NEW rf, NEW lo, Good(sl, h, d, rf, lo),
           NEW k \in Key, NEW c \in lo, h[c].sub # Nil,
           NEW s2 \in [Key -> Slot], \A j \in Key : j # k => s2[j] = sl[j],
           sl[k].st = "none", s2[k] = Fresh(c)
    PROVE  /\ Good(s2, h, d, rf, lo \ {c})
           /\ ContentIn(sl, h, k) = Absent /\ ContentIn(s2, h, k) \in Blob
           /\ \A j \in Key : j # k => ContentIn(s2, h, j) = ContentIn(sl, h, j)
<1>1. d \in [Flag -> BOOLEAN]
  BY DEF Good, Typed
<1>2. \/ sl[k].st = "none" /\ s2[k] = Fresh(c) /\ d = d
      \/ \E f \in Flag \ FlagsHeld(sl, rf) :
            /\ sl[k].st = "deleted" /\ s2[k] = Cached(c, f) /\ d[f]
            /\ \A g \in Flag : g # f => d[g] = d[g]
  OBVIOUS
<1> QED BY <1>1, <1>2, MoveToGood, SMTT(60)

\* A write through reference q changes one container; a clean resource that the
\* container lies in is marked, and no other resource is changed.
LEMMA WriteTracked ==
    ASSUME NEW sl, NEW h, NEW d, NEW rf, NEW lo, Good(sl, h, d, rf, lo),
           NEW q \in rf,
           NEW h2, \A c \in Cell : c # q.cell => h2[c] = h[c],
           NEW l2, HeapShape(sl, h2, rf, l2),
           NEW d2 \in [Flag -> BOOLEAN],
           q.flag # Nil => d2[q.flag],
           \A f \in Flag : d[f] => d2[f]
    PROVE  /\ CleanIsTracked(sl, h2, d2, rf)
           /\ \A j \in Key :
                 ContentIn(sl, h, j) # ContentIn(sl, h2, j) =>
                    /\ ContentIn(sl, h, j) \in Blob /\ ContentIn(sl, h2, j) \in Blob
                    /\ \A i \in Key : i # j => ContentIn(sl, h, i) = ContentIn(sl, h2, i)
<1> DEFINE x == q.cell
<1>1. x \in Cell /\ q.flag \in Flag \cup {Nil}
  BY DEF Good, Typed, Ref
<1>2. \A c \in Cell : c # x => h2[c] = h[c]
  OBVIOUS
<1>3. ASSUME NEW k \in Key, Exists(sl[k])
      PROVE  /\ sl[k].cell \in Held(sl, rf, lo) /\ sl[k].cell \in Owned(sl, lo) /\ sl[k].cell \in Cell
             /\ sl[k].cell # Nil
             /\ h[sl[k].cell] \in Node /\ h[sl[k].cell].sub # Nil /\ h[sl[k].cell].sub \in Cell
             /\ h[h[sl[k].cell].sub] \in Node
  BY <1>3 DEF Good, HeapShape, Held, Owned, Node
<1>4. ASSUME NEW k \in Key, Exists(sl[k])
      PROVE  Serialize(h, sl[k].cell) \in Blob /\ Serialize(h2, sl[k].cell) \in Blob
  <2>1. Serialize(h, sl[k].cell) \in Blob
    BY <1>3, <1>4 DEF Serialize, Blob, Node
  <2>2. sl[k].cell \in Held(sl, rf, l2) /\ h2[sl[k].cell].sub # Nil
    BY <1>4 DEF HeapShape, Held, Owned
  <2>3. h2[sl[k].cell] \in Node /\ h2[h2[sl[k].cell].sub] \in Node
    BY <2>2 DEF HeapShape
  <2>4. Serialize(h2, sl[k].cell) \in Blob
    BY <2>3 DEF Serialize, Blob, Node
  <2> QED BY <2>1, <2>4
<1> HIDE DEF x
<1>5. ASSUME NEW k \in Key, Exists(sl[k]), x \notin {sl[k].cell, h[sl[k].cell].sub}
      PROVE  h2[sl[k].cell] = h[sl[k].cell] /\ Serialize(h2, sl[k].cell) = Serialize(h, sl[k].cell)
  <2>1. h2[sl[k].cell] = h[sl[k].cell]
    BY <1>2, <1>3, <1>5
  <2>2. h2[h[sl[k].cell].sub] = h[h[sl[k].cell].sub]
    BY <1>2, <1>3, <1>5
  <2> QED BY <2>1, <2>2 DEF Serialize
<1>6. CleanIsTracked(sl, h2, d2, rf)
  <2>1. ASSUME NEW k \in Key, sl[k].st = "cached", ~d2[sl[k].flag]
        PROVE  /\ Serialize(h2, sl[k].cell) = remote[k]
               /\ \A r \in rf : r.cell \in {sl[k].cell, h2[sl[k].cell].sub} => r.flag = sl[k].flag
    <3>1. Exists(sl[k]) /\ sl[k].flag \in Flag
      BY <2>1 DEF Exists, Good, HeapShape, Typed, Slot
    <3>2. ~d[sl[k].flag] /\ q.flag # sl[k].flag
      BY <2>1, <3>1
    <3>3. x \notin {sl[k].cell, h[sl[k].cell].sub}
      BY <2>1, <3>2 DEF Good, CleanIsTracked, x
    <3> QED BY <2>1, <3>1, <3>2, <3>3, <1>5 DEF Good, CleanIsTracked
  <2> QED BY <2>1 DEF Good, CleanIsTracked
<1>7. ASSUME NEW j \in Key, ContentIn(sl, h, j) # ContentIn(sl, h2, j)
      PROVE  /\ ContentIn(sl, h, j) \in Blob /\ ContentIn(sl, h2, j) \in Blob
             /\ \A i \in Key : i # j => ContentIn(sl, h, i) = ContentIn(sl, h2, i)
  <2>1. Exists(sl[j])
    BY <1>7 DEF ContentIn
  <2>2. ContentIn(sl, h, j) = Serialize(h, sl[j].cell) /\ ContentIn(sl, h2, j) = Serialize(h2, sl[j].cell)
    BY <2>1 DEF ContentIn, Exists
  <2>3. x \in {sl[j].cell, h[sl[j].cell].sub}
    BY <2>1, <2>2, <1>5, <1>7
  <2>4. ASSUME NEW i \in Key, i # j PROVE ContentIn(sl, h, i) = ContentIn(sl, h2, i)
    <3>1. CASE Exists(sl[i])
      <4>1. sl[i].cell # sl[j].cell
        BY <2>1, <2>4, <1>3 DEF Good, Ownership
      <4>2. h[sl[i].cell].sub # h[sl[j].cell].sub
        BY <4>1, <2>1, <3>1, <1>3 DEF Good, Ownership
      <4>3. h[sl[i].cell].sub # sl[j].cell /\ h[sl[j].cell].sub # sl[i].cell
        BY <2>1, <3>1, <1>3 DEF Good, Ownership
      <4> QED BY <4>1, <4>2, <4>3, <2>3, <3>1, <1>5 DEF ContentIn
    <3>2. CASE ~Exists(sl[i])
      BY <3>2 DEF ContentIn
    <3> QED BY <3>1, <3>2
  <2> QED BY <2>1, <2>2, <2>4, <1>4
<1> QED BY <1>6, <1>7

\* Every held container, with its nested struct, is allocated.
LEMMA HeldIsAllocated ==
    ASSUME NEW sl, NEW h, NEW d, NEW rf, NEW lo, Good(sl, h, d, rf, lo),
           NEW c \in Held(sl, rf, lo)
    PROVE  /\ c \in Cell /\ h[c] \in Node
           /\ h[c].sub # Nil => h[c].sub \in Cell /\ h[h[c].sub] \in Node /\ h[h[c].sub].sub = Nil
<1>1. c \in Cell
  BY DEF Good, Typed, Held, Owned, Ref
<1> QED BY <1>1 DEF Good, HeapShape, Node

\* Overwriting an immediate leaves the forest as it is.
LEMMA WriteImmShape ==
    ASSUME NEW sl, NEW h, NEW d, NEW rf, NEW lo, Good(sl, h, d, rf, lo),
           NEW q \in rf, NEW v \in Val,
           NEW h2, h2[q.cell] = [h[q.cell] EXCEPT !.imm = v],
           \A c \in Cell : c # q.cell => h2[c] = h[c]
    PROVE  HeapShape(sl, h2, rf, lo) /\ Ownership(sl, h2, rf, lo)
<1> DEFINE x == q.cell
<1>1. x \in Held(sl, rf, lo) /\ x \in Cell /\ h[x] \in Node /\ h \in [Cell -> Node \cup {Nil}]
  BY HeldIsAllocated DEF Good, Typed, Held
<1>2. h2[x] = [h[x] EXCEPT !.imm = v] /\ \A c \in Cell : c # x => h2[c] = h[c]
  OBVIOUS
<1>3. h2[x] \in Node /\ h2[x].sub = h[x].sub
  BY <1>1, <1>2 DEF Node
<1> HIDE DEF x
<1>4. \A c \in Cell : h[c] \in Node => h2[c] \in Node /\ h2[c].sub = h[c].sub
  BY <1>2, <1>3
<1>5. \A c \in Held(sl, rf, lo) :
         /\ h2[c] \in Node /\ h2[c].sub = h[c].sub
         /\ h2[c].sub # Nil => h2[h2[c].sub] \in Node /\ h2[h2[c].sub].sub = Nil
  BY <1>4, HeldIsAllocated
<1>6. HeapShape(sl, h2, rf, lo)
  <2>1. \A k \in Key : Exists(sl[k]) => sl[k].cell \in Held(sl, rf, lo)
    BY DEF Good, HeapShape, Held, Owned
  <2> QED BY <1>5, <2>1 DEF Good, HeapShape
<1>7. Ownership(sl, h2, rf, lo)
  <2>1. \A r \in rf : r.cell \in Held(sl, rf, lo)
    BY DEF Held
  <2> QED BY <1>5, <2>1 DEF Good, Ownership
<1> QED BY <1>6, <1>7

\* The contents of an unshared value move into the container behind q.
LEMMA WriteStructShape ==
    ASSUME NEW sl, NEW h, NEW d, NEW rf, NEW lo, Good(sl, h, d, rf, lo),
           NEW q \in rf, NEW c \in lo, \A r \in rf : r.cell # c,
           h[q.cell].sub # Nil <=> h[c].sub # Nil,
           NEW h2, h2[q.cell] = h[c], \A e \in Cell : e # q.cell => h2[e] = h[e]
    PROVE  HeapShape(sl, h2, rf, lo \ {c}) /\ Ownership(sl, h2, rf, lo \ {c})
<1> DEFINE x == q.cell
           l2 == lo \ {c}
<1>1. x \in Held(sl, rf, lo) /\ c \in Held(sl, rf, lo) /\ c \in Owned(sl, lo) /\ x # c
  BY DEF Good, Typed, Held, Owned
<1>2. /\ x \in Cell /\ h[x] \in Node /\ c \in Cell /\ h[c] \in Node
      /\ h[c].sub # Nil => h[c].sub \in Cell /\ h[h[c].sub] \in Node /\ h[h[c].sub].sub = Nil
      /\ h \in [Cell -> Node \cup {Nil}]
  BY <1>1, HeldIsAllocated DEF Good, Typed
<1>3. h2[x] = h[c] /\ \A e \in Cell : e # x => h2[e] = h[e]
  OBVIOUS
<1>4. Good(sl, h, d, rf, l2)
  BY DropLocalGood
<1>5. /\ Held(sl, rf, l2) \subseteq Held(sl, rf, lo) /\ Owned(sl, l2) \subseteq Owned(sl, lo)
      /\ x \in Held(sl, rf, l2) /\ \A r \in rf : r.cell \in Held(sl, rf, l2)
  BY DEF Held, Owned
<1>6. c \notin Held(sl, rf, l2)
  BY <1>2 DEF Held, Owned, Good, Ownership
<1> HIDE DEF x, l2
<1>7. \A e \in Held(sl, rf, lo) : e # c /\ h[e].sub # Nil => h[e].sub # h[c].sub
  BY <1>1 DEF Good, Ownership
<1>8. h[x].sub # x /\ h[c].sub # x
  <2>1. h[x].sub # Nil => x \in Owned(sl, lo)
    BY DEF Good, Ownership, x
  <2>2. CASE h[c].sub = Nil BY <2>2, <1>2 DEF x
  <2>3. CASE h[c].sub # Nil
    BY <2>1, <2>3, <1>1 DEF Good, Ownership, x
  <2> QED BY <2>2, <2>3
<1>9. \A e \in Held(sl, rf, l2) : e # x /\ h[e].sub = x => h[x].sub = Nil
  BY <1>5, HeldIsAllocated
<1>10. \A e \in Held(sl, rf, l2) :
         /\ h2[e] \in Node
         /\ h2[e].sub # Nil => h2[h2[e].sub] \in Node /\ h2[h2[e].sub].sub = Nil
  <2>1. ASSUME NEW e \in Held(sl, rf, l2)
        PROVE  /\ h2[e] \in Node
               /\ h2[e].sub # Nil => h2[h2[e].sub] \in Node /\ h2[h2[e].sub].sub = Nil
    <3>1. /\ e \in Cell /\ h[e] \in Node
          /\ h[e].sub # Nil => h[e].sub \in Cell /\ h[h[e].sub] \in Node /\ h[h[e].sub].sub = Nil
      BY <1>5, HeldIsAllocated
    <3>2. CASE e = x
      BY <3>2, <1>2, <1>3, <1>8
    <3>3. CASE e # x
      <4>1. h2[e] = h[e]
        BY <3>1, <3>3, <1>3
      <4>2. CASE h[e].sub = x
        <5>1. h[x].sub = Nil /\ h[c].sub = Nil
          BY <4>2, <3>3, <1>9 DEF x
        <5> QED BY <3>1, <4>1, <4>2, <5>1, <1>2, <1>3
      <4>3. CASE h[e].sub # x
        BY <4>1, <4>3, <3>1, <1>3
      <4> QED BY <4>2, <4>3
    <3> QED BY <3>2, <3>3
  <2> QED BY <2>1
<1>11. HeapShape(sl, h2, rf, l2)
  <2>1. ASSUME NEW k \in Key, Exists(sl[k]) PROVE sl[k].cell \in Cell /\ h2[sl[k].cell].sub # Nil
    <3>1. sl[k].cell \in Cell /\ h[sl[k].cell].sub # Nil
      BY <2>1 DEF Good, HeapShape
    <3> QED BY <3>1, <1>3 DEF x
  <2> QED BY <1>10, <2>1 DEF Good, HeapShape
<1>12. Ownership(sl, h2, rf, l2)
  <2>1. \A e \in Held(sl, rf, l2) : e # x => h2[e] = h[e]
    BY <1>3, <1>5, HeldIsAllocated
  <2>2. \A e, g \in Held(sl, rf, l2) : h2[e].sub # Nil /\ h2[e].sub = h2[g].sub => e = g
    BY <2>1, <1>3, <1>5, <1>6, <1>7 DEF Good, Ownership
  <2>3. h[c].sub \notin Owned(sl, l2)
    BY <1>1, <1>5 DEF Good, Ownership
  <2>4. \A e \in Held(sl, rf, l2) : h2[e].sub \notin Owned(sl, l2)
    BY <1>4, <2>1, <2>3, <1>3 DEF Good, Ownership
  <2>5. \A r \in rf : h2[r.cell].sub # Nil => r.cell \in Owned(sl, l2)
    BY <1>3, <1>4, <1>5, <2>1 DEF Good, Ownership, x
  <2> QED BY <2>2, <2>4, <2>5, <1>4 DEF Good, Ownership
<1> QED BY <1>11, <1>12 DEF l2

\* A new container with no nested struct, owned by the program.
LEMMA NewInnerGood ==
    ASSUME NEW sl, NEW h, NEW d, NEW rf, NEW lo, Good(sl, h, d, rf, lo),
           NEW a \in Cell, h[a] = Nil, NEW v \in Val,
           NEW h2 \in [Cell -> Node \cup {Nil}], h2[a] = [imm |-> v, sub |-> Nil],
           \A x \in Cell : x # a => h2[x] = h[x]
    PROVE  /\ Good(sl, h2, d, rf, lo \cup {a})
           /\ \A j \in Key : ContentIn(sl, h2, j) = ContentIn(sl, h, j)
<1> DEFINE l2 == lo \cup {a}
<1>1. a \notin Held(sl, rf, lo) /\ \A x \in Held(sl, rf, lo) : h[x].sub # a
  BY FreeIsUnused
<1>2. /\ h2 \in [Cell -> Node \cup {Nil}] /\ h2[a] \in Node /\ h2[a].sub = Nil
      /\ \A x \in Cell : x # a => h2[x] = h[x]
  <2>1. [imm |-> v, sub |-> Nil] \in Node
    BY DEF Node
  <2> QED BY <2>1 DEF Good, Typed
<1>3. /\ Held(sl, rf, l2) = Held(sl, rf, lo) \cup {a} /\ Owned(sl, l2) = Owned(sl, lo) \cup {a}
      /\ \A r \in rf : r.cell \in Held(sl, rf, lo)
      /\ \A k \in Key : Exists(sl[k]) => sl[k].cell \in Held(sl, rf, lo)
      /\ \A k \in Key : sl[k].cell # a
  BY <1>1 DEF Held, Owned, Good, HeapShape
<1> HIDE DEF l2
<1>4. \A x \in Held(sl, rf, lo) :
         /\ x \in Cell /\ h2[x] = h[x] /\ h[x] \in Node
         /\ h[x].sub # Nil => /\ h[x].sub \in Cell /\ h2[h[x].sub] = h[h[x].sub]
                              /\ h[h[x].sub] \in Node /\ h[h[x].sub].sub = Nil
  BY <1>1, <1>2, HeldIsAllocated
<1>5. Typed(sl, h2, d, rf, l2)
  BY <1>2 DEF Good, Typed, l2
<1>6. HeapShape(sl, h2, rf, l2)
  BY <1>2, <1>3, <1>4 DEF Good, HeapShape
<1>7. Ownership(sl, h2, rf, l2)
  <2>1. \A k \in Key : sl[k].cell \notin l2
    BY <1>3 DEF Good, Ownership, l2
  <2>2. Nil \notin Owned(sl, l2)
    BY DEF Owned
  <2> QED BY <1>1, <1>2, <1>3, <1>4, <2>1, <2>2 DEF Good, Ownership
<1>8. CleanIsTracked(sl, h2, d, rf)
  <2>1. \A k \in Key : sl[k].st = "cached" =>
           h2[sl[k].cell] = h[sl[k].cell] /\ Serialize(h2, sl[k].cell) = Serialize(h, sl[k].cell)
    <3>1. \A k \in Key : sl[k].st = "cached" =>
            sl[k].cell \in Held(sl, rf, lo) /\ h[sl[k].cell].sub # Nil
      BY <1>3 DEF Exists, Good, HeapShape
    <3> QED BY <1>4, <3>1 DEF Serialize
  <2> QED BY <2>1 DEF Good, CleanIsTracked
<1>9. \A j \in Key : ContentIn(sl, h2, j) = ContentIn(sl, h, j)
  <2>1. \A j \in Key : Exists(sl[j]) => h[sl[j].cell].sub # Nil
    BY DEF Good, HeapShape
  <2>2. ASSUME NEW j \in Key PROVE ContentIn(sl, h2, j) = ContentIn(sl, h, j)
    <3>1. Exists(sl[j]) => /\ h2[sl[j].cell] = h[sl[j].cell]
                           /\ h2[h[sl[j].cell].sub].imm = h[h[sl[j].cell].sub].imm
      BY <1>3, <1>4, <2>1
    <3> QED BY <3>1, ContentFrame
  <2> QED BY <2>2
<1> QED BY <1>5, <1>6, <1>7, <1>8, <1>9 DEF Good, l2

\* A new resource around an unshared nested struct of the program.
LEMMA PackGood ==
    ASSUME NEW sl, NEW h, NEW d, NEW rf, NEW lo, Good(sl, h, d, rf, lo),
           NEW a \in Cell, h[a] = Nil, NEW v \in Val,
           NEW n \in lo, h[n].sub = Nil, \A r \in rf : r.cell # n,
           NEW h2 \in [Cell -> Node \cup {Nil}], h2[a] = [imm |-> v, sub |-> n],
           \A x \in Cell : x # a => h2[x] = h[x]
    PROVE  /\ Good(sl, h2, d, rf, (lo \ {n}) \cup {a})
           /\ \A j \in Key : ContentIn(sl, h2, j) = ContentIn(sl, h, j)
<1> DEFINE l1 == lo \ {n}
           l2 == l1 \cup {a}
<1>1. a \notin Held(sl, rf, lo) /\ \A x \in Held(sl, rf, lo) : h[x].sub # a
  BY FreeIsUnused
<1>2. n \in Held(sl, rf, lo) /\ n \in Owned(sl, lo) /\ n \in Cell /\ h[n] \in Node /\ n # a
  BY <1>1, HeldIsAllocated DEF Held, Owned, Good, Typed
<1>3. /\ h2 \in [Cell -> Node \cup {Nil}] /\ h2[a] \in Node /\ h2[a].sub = n
      /\ \A x \in Cell : x # a => h2[x] = h[x]
  <2>1. [imm |-> v, sub |-> n] \in Node
    BY <1>2 DEF Node
  <2> QED BY <2>1 DEF Good, Typed
<1>4. Good(sl, h, d, rf, l1)
  BY DropLocalGood
<1>5. /\ Held(sl, rf, l2) = Held(sl, rf, l1) \cup {a} /\ Owned(sl, l2) = Owned(sl, l1) \cup {a}
      /\ Held(sl, rf, l1) \subseteq Held(sl, rf, lo) /\ Owned(sl, l1) \subseteq Owned(sl, lo)
      /\ n \notin Owned(sl, l1)
      /\ \A r \in rf : r.cell \in Held(sl, rf, l1)
      /\ \A k \in Key : Exists(sl[k]) => sl[k].cell \in Held(sl, rf, l1)
      /\ \A k \in Key : sl[k].cell # a
  BY <1>1 DEF Held, Owned, Good, HeapShape, Ownership
<1>6. \A k \in Key : sl[k].cell \notin l2
  BY <1>5 DEF Good, Ownership
<1>7. Typed(sl, h2, d, rf, l2)
  BY <1>3 DEF Good, Typed
<1> HIDE DEF l1, l2
<1>8. \A x \in Held(sl, rf, lo) :
         /\ x \in Cell /\ h2[x] = h[x] /\ h[x] \in Node
         /\ h[x].sub # Nil => /\ h[x].sub \in Cell /\ h2[h[x].sub] = h[h[x].sub]
                              /\ h[h[x].sub] \in Node /\ h[h[x].sub].sub = Nil
  BY <1>1, <1>3, HeldIsAllocated
<1>9. HeapShape(sl, h2, rf, l2)
  <2>1. h2[n] = h[n]
    BY <1>2, <1>3
  <2>2. ASSUME NEW e \in Held(sl, rf, l2)
        PROVE  /\ h2[e] \in Node
               /\ h2[e].sub # Nil => h2[h2[e].sub] \in Node /\ h2[h2[e].sub].sub = Nil
    <3>1. CASE e = a BY <3>1, <2>1, <1>2, <1>3
    <3>2. CASE e \in Held(sl, rf, lo) BY <3>2, <1>8
    <3> QED BY <3>1, <3>2, <1>5
  <2> QED BY <2>2, <1>5, <1>8 DEF Good, HeapShape
<1>10. Ownership(sl, h2, rf, l2)
  <2>1. \A x \in Held(sl, rf, l1) : h[x].sub # n
    BY <1>2, <1>5 DEF Good, Ownership
  <2>2. \A e, g \in Held(sl, rf, l2) : h2[e].sub # Nil /\ h2[e].sub = h2[g].sub => e = g
    BY <2>1, <1>3, <1>5, <1>8 DEF Good, Ownership
  <2>3. \A e \in Held(sl, rf, l2) : h2[e].sub \notin Owned(sl, l2)
    BY <1>1, <1>2, <1>3, <1>4, <1>5, <1>8 DEF Good, Ownership
  <2>4. \A r \in rf : h2[r.cell].sub # Nil => r.cell \in Owned(sl, l2)
    BY <1>4, <1>5, <1>8 DEF Good, Ownership
  <2> QED BY <2>2, <2>3, <2>4, <1>6 DEF Good, Ownership
<1>11. CleanIsTracked(sl, h2, d, rf)
  <2>1. \A k \in Key : sl[k].st = "cached" =>
           h2[sl[k].cell] = h[sl[k].cell] /\ Serialize(h2, sl[k].cell) = Serialize(h, sl[k].cell)
    <3>1. \A k \in Key : sl[k].st = "cached" =>
            sl[k].cell \in Held(sl, rf, lo) /\ h[sl[k].cell].sub # Nil
      BY <1>5 DEF Exists, Good, HeapShape
    <3> QED BY <1>8, <3>1 DEF Serialize
  <2> QED BY <2>1 DEF Good, CleanIsTracked
<1>12. \A j \in Key : ContentIn(sl, h2, j) = ContentIn(sl, h, j)
  <2>1. \A j \in Key : Exists(sl[j]) => h[sl[j].cell].sub # Nil
    BY DEF Good, HeapShape
  <2>2. ASSUME NEW j \in Key PROVE ContentIn(sl, h2, j) = ContentIn(sl, h, j)
    <3>1. Exists(sl[j]) => /\ h2[sl[j].cell] = h[sl[j].cell]
                           /\ h2[h[sl[j].cell].sub].imm = h[h[sl[j].cell].sub].imm
      BY <1>5, <1>8, <2>1
    <3> QED BY <3>1, ContentFrame
  <2> QED BY <2>2
<1> QED BY <1>7, <1>9, <1>10, <1>11, <1>12 DEF Good, l1, l2

\* Unpack: the nested struct of an unshared resource becomes a value of its own.
LEMMA UnpackGood ==
    ASSUME NEW sl, NEW h, NEW d, NEW rf, NEW lo, Good(sl, h, d, rf, lo),
           NEW c \in lo, h[c].sub # Nil, \A r \in rf : r.cell # c
    PROVE  Good(sl, h, d, rf, (lo \ {c}) \cup {h[c].sub})
<1> DEFINE n == h[c].sub
           l1 == lo \ {c}
           l2 == l1 \cup {n}
<1>1. c \in Held(sl, rf, lo) /\ c \in Owned(sl, lo)
  BY DEF Held, Owned, Good, Typed
<1>2. n \in Cell /\ h[n] \in Node /\ h[n].sub = Nil
  BY <1>1, HeldIsAllocated
<1>3. Good(sl, h, d, rf, l1)
  BY DropLocalGood
<1>4. /\ Held(sl, rf, l2) = Held(sl, rf, l1) \cup {n} /\ Owned(sl, l2) = Owned(sl, l1) \cup {n}
      /\ Held(sl, rf, l1) \subseteq Held(sl, rf, lo)
      /\ \A r \in rf : r.cell \in Held(sl, rf, l1)
  BY <1>2 DEF Held, Owned
<1>5. c \notin Held(sl, rf, l1)
  BY <1>1 DEF Held, Owned, Good, Ownership
<1>6. n \notin Owned(sl, lo)
  BY <1>1 DEF Good, Ownership
<1>7. \A k \in Key : sl[k].cell \notin l2
  BY <1>2, <1>6 DEF Good, Ownership, Owned
<1>8. Typed(sl, h, d, rf, l2)
  BY <1>2 DEF Good, Typed
<1>9. \A x \in Held(sl, rf, l1) : h[x].sub # n
  BY <1>1, <1>4, <1>5 DEF Good, Ownership
<1> HIDE DEF n, l1, l2
<1>10. HeapShape(sl, h, rf, l2)
  BY <1>2, <1>3, <1>4 DEF Good, HeapShape
<1>11. Ownership(sl, h, rf, l2)
  <2>1. \A e, g \in Held(sl, rf, l2) : h[e].sub # Nil /\ h[e].sub = h[g].sub => e = g
    BY <1>2, <1>3, <1>4 DEF Good, Ownership
  <2>2. Nil \notin Owned(sl, l2)
    BY DEF Owned
  <2>3. \A e \in Held(sl, rf, l2) : h[e].sub \notin Owned(sl, l2)
    BY <2>2, <1>2, <1>3, <1>4, <1>9 DEF Good, Ownership
  <2> QED BY <2>1, <2>3, <1>3, <1>4, <1>7 DEF Good, Ownership
<1> QED BY <1>8, <1>10, <1>11 DEF Good, n, l1, l2

-----------------------------------------------------------------------------
(* The inductive invariant.                                                *)

IInv == TypeOK /\ SingleOwner /\ CleanTracked /\ SlotMatchesStorage

\* The invariant in terms of its explicit components.
LEMMA IInvIsGood ==
    IInv <=> /\ Good(slot, heap, dirty, refs, locals)
             /\ remote \in [Key -> Blob \cup {Absent, Corrupt}]
             /\ session \in {"running", "finished", "failed"}
             /\ change \in [Key -> Blob \cup {Absent, NoChange}]
BY DEF IInv, TypeOK, SingleOwner, CleanTracked, SlotMatchesStorage, Good, Typed, Matches

\* After an operation has been followed to its end, memory is collected.
LEMMA SettleIInv ==
    ASSUME IInv, NEW h, NEW d, NEW sl, NEW rf, NEW lo,
           Good(sl, h, d, rf, lo), Settle(h, d, sl, rf, lo), Continue
    PROVE  /\ IInv'
           /\ \A k \in Key : Content(k)' = ContentIn(sl, h, k)
<1> DEFINE H == Collect(h, sl, rf, lo)
           D == CollectFlags(d, sl, rf)
<1>1. Good(sl, H, D, rf, lo)
  BY CollectGood
<1>2. slot' = sl /\ heap' = H /\ dirty' = D /\ refs' = rf /\ locals' = lo
  BY DEF Settle
<1>3. remote' = remote /\ session' = session /\ change' = change
  BY DEF Continue
<1>4. \A k \in Key : ContentIn(sl, H, k) = ContentIn(sl, h, k)
  BY CollectContent
<1> HIDE DEF H, D
<1>5. Good(slot, heap, dirty, refs, locals)'
  BY <1>1, <1>2, <1>3 DEF Good, Typed, HeapShape, Ownership, CleanIsTracked, Matches,
                          Held, Owned, Serialize, Exists
<1>6. \A k \in Key : Content(k)' = ContentIn(sl, H, k)
  BY <1>2, <1>3 DEF Content, ContentIn, Serialize, Exists
<1>7. IInv'
  BY <1>3, <1>5, IInvIsGood DEF IInv, TypeOK, SingleOwner, CleanTracked, SlotMatchesStorage,
                                Good, Typed, Matches
<1> QED BY <1>4, <1>6, <1>7

\* A dropped session leaves an empty cache, which reads as storage.
LEMMA DropIInv ==
    ASSUME Drop,
           remote' \in [Key -> Blob \cup {Absent, Corrupt}],
           session' \in {"running", "finished", "failed"},
           change' \in [Key -> Blob \cup {Absent, NoChange}]
    PROVE  IInv' /\ \A k \in Key : Content(k)' = remote'[k]
<1>1. /\ slot' \in [Key -> Slot]
      /\ \A k \in Key : slot'[k].st = "unloaded" /\ slot'[k].cell = Nil /\ slot'[k].flag = Nil
  BY DEF Drop, Unloaded, Slot, SlotTag
<1>2. heap' \in [Cell -> Node \cup {Nil}] /\ dirty' \in [Flag -> BOOLEAN] /\ refs' = {} /\ locals' = {}
  BY DEF Drop
<1>3. Held(slot', refs', locals') = {} /\ Owned(slot', locals') = {}
  BY <1>1, <1>2 DEF Held, Owned
<1>4. TypeOK'
  BY <1>1, <1>2 DEF TypeOK
<1>5. HeapShape(slot', heap', refs', locals') /\ Ownership(slot', heap', refs', locals')
  BY <1>1, <1>2, <1>3 DEF HeapShape, Ownership, Exists
<1>6. CleanTracked' /\ SlotMatchesStorage'
  BY <1>1, <1>2 DEF CleanTracked, CleanIsTracked, SlotMatchesStorage
<1>7. \A k \in Key : Content(k)' = remote'[k]
  BY <1>1 DEF Content, ContentIn
<1> QED BY <1>4, <1>5, <1>6, <1>7 DEF IInv, SingleOwner

-----------------------------------------------------------------------------
(* What a step does to the abstract view.                                  *)

\* An error drops the session and the view with it.
LEMMA ErrorStep ==
    ASSUME IInv, Running, Error PROVE IInv' /\ Abs!Fail
<1>1. remote' = remote /\ change' = change /\ session' = "failed" /\ Drop
  BY DEF Error
<1>2. IInv' /\ \A k \in Key : Content(k)' = remote'[k]
  BY <1>1, DropIInv DEF IInv, TypeOK
<1>3. View' = [k \in Key |-> remote'[k]]
  BY <1>1 DEF View
<1>4. View' = remote
  BY <1>1, <1>3 DEF IInv, TypeOK
<1> QED BY <1>1, <1>2, <1>4 DEF Abs!Fail, Running

\* A step that no reader can notice.
LEMMA StutterView ==
    ASSUME Running, Continue, \A k \in Key : Content(k)' = Content(k)
    PROVE  UNCHANGED Abs!vars
<1>1. session = "running" /\ session' = "running" /\ remote' = remote
  BY DEF Running, Continue
<1>2. View = [k \in Key |-> Content(k)]
  BY <1>1 DEF View
<1>3. View' = [k \in Key |-> Content(k)']
  BY <1>1 DEF View
<1> QED BY <1>1, <1>2, <1>3 DEF Abs!vars

\* A step that changes what is read at one key.
LEMMA ChangeView ==
    ASSUME Running, Continue, NEW k \in Key,
           \A j \in Key : j # k => Content(j)' = Content(j),
           \/ Content(k) = Absent /\ Content(k)' \in Blob
           \/ Content(k) \in Blob /\ Content(k)' = Absent
           \/ Content(k) \in Blob /\ Content(k)' \in Blob
    PROVE  Abs!Next
<1>1. session = "running" /\ session' = "running" /\ remote' = remote
  BY DEF Running, Continue
<1>2. View = [j \in Key |-> Content(j)] /\ View' = [j \in Key |-> Content(j)']
  BY <1>1 DEF View
<1>3. View' = [View EXCEPT ![k] = Content(k)'] /\ View[k] = Content(k)
  BY <1>2
<1> QED BY <1>1, <1>3 DEF Abs!Next, Abs!Publish, Abs!Withdraw, Abs!Update

-----------------------------------------------------------------------------
(* One lemma per action: the invariant is kept, and the action is a step   *)
(* of the abstract store or invisible to it.                               *)

AbsStep == Abs!Next \/ UNCHANGED Abs!vars

\* After a load that succeeded.
LEMMA LoadStep ==
    ASSUME IInv, NEW k \in Key, NEW ld \in LoadResource(k)
    PROVE  /\ Good([slot EXCEPT ![k] = ld.slot], ld.heap, ld.dirty, refs, locals)
           /\ [slot EXCEPT ![k] = ld.slot][k] = ld.slot
           /\ ld.slot.st # "unloaded"
           /\ \A j \in Key : ContentIn([slot EXCEPT ![k] = ld.slot], ld.heap, j) = Content(j)
BY IInvIsGood, LoadGood

\* exists only loads.
LEMMA ExistsStep ==
    ASSUME IInv, NEW k \in Key, ExistsGlobal(k) PROVE IInv' /\ AbsStep
<1>1. PICK ld \in LoadResource(k) :
         Settle(ld.heap, ld.dirty, [slot EXCEPT ![k] = ld.slot], refs, locals)
  BY DEF ExistsGlobal
<1> DEFINE sl == [slot EXCEPT ![k] = ld.slot]
<1>2. Good(sl, ld.heap, ld.dirty, refs, locals) /\ \A j \in Key : ContentIn(sl, ld.heap, j) = Content(j)
  BY LoadStep
<1>3. Settle(ld.heap, ld.dirty, sl, refs, locals)
  BY <1>1
<1> HIDE DEF sl
<1>4. IInv' /\ \A j \in Key : Content(j)' = Content(j)
  BY <1>2, <1>3, SettleIInv DEF ExistsGlobal
<1> QED BY <1>4, StutterView DEF ExistsGlobal, AbsStep

\* borrow_global is invisible, or fails.
LEMMA BorrowGlobalStep ==
    ASSUME IInv, NEW k \in Key, BorrowGlobal(k) PROVE IInv' /\ AbsStep
<1>1. PICK ld \in LoadResource(k) :
         IF Exists(ld.slot)
         THEN /\ Settle(ld.heap, ld.dirty, [slot EXCEPT ![k] = ld.slot],
                        refs \cup {[cell |-> ld.slot.cell, flag |-> ld.slot.flag]}, locals)
              /\ Continue
         ELSE Error
  BY DEF BorrowGlobal
<1> DEFINE sl == [slot EXCEPT ![k] = ld.slot]
           rf == refs \cup {[cell |-> ld.slot.cell, flag |-> ld.slot.flag]}
<1>2. CASE ~Exists(ld.slot)
  BY <1>1, <1>2, ErrorStep DEF BorrowGlobal, AbsStep, Abs!Next
<1>3. CASE Exists(ld.slot)
  <2>1. /\ Good(sl, ld.heap, ld.dirty, refs, locals) /\ sl[k] = ld.slot
        /\ \A j \in Key : ContentIn(sl, ld.heap, j) = Content(j)
    BY LoadStep
  <2>2. Settle(ld.heap, ld.dirty, sl, rf, locals) /\ Continue
    BY <1>1, <1>3
  <2>3. Good(sl, ld.heap, ld.dirty, rf, locals)
    <3> HIDE DEF sl
    <3> QED BY <2>1, <1>3, BorrowGlobalGood
  <2> HIDE DEF sl, rf
  <2>4. IInv' /\ \A j \in Key : Content(j)' = Content(j)
    BY <2>1, <2>2, <2>3, SettleIInv
  <2> QED BY <2>2, <2>4, StutterView DEF BorrowGlobal, AbsStep
<1> QED BY <1>2, <1>3

\* move_from withdraws the resource, or fails.
LEMMA MoveFromStep ==
    ASSUME IInv, NEW k \in Key, MoveFrom(k) PROVE IInv' /\ AbsStep
<1>1. PICK ld \in LoadResource(k) :
         IF ~Exists(ld.slot) \/ Shared(ld.slot.cell)
         THEN Error
         ELSE /\ Settle(ld.heap, ld.dirty,
                        [slot EXCEPT ![k] = Vacated(ld.slot)],
                        refs, locals \cup {ld.slot.cell})
              /\ Continue
  BY DEF MoveFrom
<1> DEFINE sl == [slot EXCEPT ![k] = ld.slot]
           s2 == [slot EXCEPT ![k] = Vacated(ld.slot)]
           l2 == locals \cup {ld.slot.cell}
<1>2. CASE ~Exists(ld.slot) \/ Shared(ld.slot.cell)
  BY <1>1, <1>2, ErrorStep DEF MoveFrom, AbsStep, Abs!Next
<1>3. CASE ~(~Exists(ld.slot) \/ Shared(ld.slot.cell))
  <2>1. /\ Good(sl, ld.heap, ld.dirty, refs, locals) /\ sl[k] = ld.slot
        /\ \A j \in Key : ContentIn(sl, ld.heap, j) = Content(j)
    BY LoadStep
  <2>2. Settle(ld.heap, ld.dirty, s2, refs, l2) /\ Continue
    BY <1>1, <1>3
  <2>3. /\ s2 \in [Key -> Slot]
        /\ s2[k] = Vacated(sl[k])
        /\ \A j \in Key : j # k => s2[j] = sl[j]
    <3>1. slot \in [Key -> Slot] /\ None \in Slot /\ Deleted \in Slot
      BY DEF IInv, TypeOK, None, Deleted, Slot, SlotTag
    <3> QED BY <2>1, <3>1 DEF Vacated
  <2> HIDE DEF sl, s2
  <2>4. /\ Good(s2, ld.heap, ld.dirty, refs, l2)
        /\ ContentIn(s2, ld.heap, k) = Absent
        /\ \A j \in Key : j # k => ContentIn(s2, ld.heap, j) = ContentIn(sl, ld.heap, j)
    BY <1>3, <2>1, <2>3, MoveFromGood
  <2>5. Content(k) \in Blob
    <3>1. ContentIn(sl, ld.heap, k) = Serialize(ld.heap, sl[k].cell)
      BY <1>3, <2>1 DEF ContentIn, Exists
    <3>2. sl[k].cell \in Held(sl, refs, locals) /\ ld.heap[sl[k].cell].sub # Nil
      BY <1>3, <2>1 DEF Good, HeapShape, Held, Owned
    <3>3. ld.heap[sl[k].cell] \in Node /\ ld.heap[ld.heap[sl[k].cell].sub] \in Node
      BY <2>1, <3>2, HeldIsAllocated
    <3> QED BY <2>1, <3>1, <3>3 DEF Serialize, Blob, Node
  <2> HIDE DEF l2
  <2>6. IInv' /\ \A j \in Key : Content(j)' = ContentIn(s2, ld.heap, j)
    BY <2>2, <2>4, SettleIInv
  <2>7. Content(k)' = Absent /\ \A j \in Key : j # k => Content(j)' = Content(j)
    BY <2>1, <2>4, <2>6
  <2> QED BY <2>2, <2>5, <2>6, <2>7, ChangeView DEF MoveFrom, AbsStep
<1> QED BY <1>2, <1>3

\* move_to publishes a resource, or fails.
LEMMA MoveToStep ==
    ASSUME IInv, NEW k \in Key, NEW c \in Cell, MoveTo(k, c) PROVE IInv' /\ AbsStep
<1>1. CASE Error
  BY <1>1, ErrorStep DEF MoveTo, AbsStep, Abs!Next
<1>2. CASE ~Error
  <2>1. PICK ld \in LoadResource(k) :
           /\ ~Exists(ld.slot)
           /\ IF ld.slot.st = "none"
              THEN /\ Settle(ld.heap, ld.dirty, [slot EXCEPT ![k] = Fresh(c)], refs, locals \ {c})
                   /\ Continue
              ELSE /\ CanFlag
                   /\ Settle(ld.heap, [ld.dirty EXCEPT ![NewFlag] = TRUE],
                             [slot EXCEPT ![k] = Cached(c, NewFlag)], refs, locals \ {c})
                   /\ Continue
    BY <1>2 DEF MoveTo
  <2> DEFINE sl == [slot EXCEPT ![k] = ld.slot]
             l2 == locals \ {c}
  <2>2. /\ Good(sl, ld.heap, ld.dirty, refs, locals) /\ sl[k] = ld.slot
        /\ ld.slot.st # "unloaded"
        /\ \A j \in Key : ContentIn(sl, ld.heap, j) = Content(j)
    BY LoadStep
  <2>3. slot \in [Key -> Slot] /\ Running /\ c \in locals /\ ~Shared(c) /\ heap[c].sub # Nil
    BY <1>2 DEF MoveTo, IsOuter, IInv, TypeOK
  <2>4. ld.slot.st \in {"none", "deleted"}
    BY <2>1, <2>2 DEF Good, Typed, Slot, SlotTag, Exists
  <2>5. ld.heap = heap /\ ld.dirty = dirty
    BY <2>1, <2>4 DEF LoadResource, Cached, Exists
  <2>6. \A j \in Key : j # k => sl[j] = slot[j]
    BY <2>3
  <2> HIDE DEF sl
  <2>7. CASE ld.slot.st = "none"
    <3> DEFINE s2 == [slot EXCEPT ![k] = Fresh(c)]
    <3>1. Settle(heap, dirty, s2, refs, l2) /\ Continue
      BY <2>1, <2>5, <2>7
    <3>2. s2 \in [Key -> Slot] /\ s2[k] = Fresh(c) /\ \A j \in Key : j # k => s2[j] = sl[j]
      BY <2>3, <2>6 DEF Fresh, Slot, SlotTag
    <3> HIDE DEF s2
    <3>3. /\ dirty \in [Flag -> BOOLEAN]
          /\ Good(sl, heap, dirty, refs, locals) /\ sl[k].st = "none"
      BY <2>2, <2>5, <2>7 DEF IInv, TypeOK
    <3>4. /\ Good(s2, heap, dirty, refs, l2)
          /\ ContentIn(sl, heap, k) = Absent /\ ContentIn(s2, heap, k) \in Blob
          /\ \A j \in Key : j # k => ContentIn(s2, heap, j) = ContentIn(sl, heap, j)
      BY <2>3, <3>2, <3>3, MoveToFreshGood
    <3> HIDE DEF l2
    <3>5. IInv' /\ \A j \in Key : Content(j)' = ContentIn(s2, heap, j)
      BY <3>1, <3>4, SettleIInv
    <3>6. /\ Content(k) = Absent /\ Content(k)' \in Blob
          /\ \A j \in Key : j # k => Content(j)' = Content(j)
      BY <2>2, <2>5, <3>4, <3>5
    <3> QED BY <2>3, <3>1, <3>5, <3>6, ChangeView DEF AbsStep
  <2>8. CASE ld.slot.st = "deleted"
    <3> DEFINE s2 == [slot EXCEPT ![k] = Cached(c, NewFlag)]
               d2 == [dirty EXCEPT ![NewFlag] = TRUE]
    <3>1. Settle(heap, d2, s2, refs, l2) /\ Continue /\ CanFlag
      BY <2>1, <2>5, <2>8
    <3>2. NewFlag \in Flag /\ NewFlag \notin FlagsHeld(slot, refs)
      BY <3>1, Zenon DEF CanFlag, NewFlag
    <3>3. s2 \in [Key -> Slot] /\ s2[k] = Cached(c, NewFlag) /\ \A j \in Key : j # k => s2[j] = sl[j]
      BY <2>3, <2>6, <3>2 DEF Cached, Slot, SlotTag
    <3>4. d2 \in [Flag -> BOOLEAN] /\ d2[NewFlag] /\ \A g \in Flag : g # NewFlag => d2[g] = dirty[g]
      BY <3>2 DEF IInv, TypeOK
    <3>5. NewFlag \notin FlagsHeld(sl, refs)
      <4>1. ld.slot.flag = Nil
        BY <2>2, <2>8 DEF Good, HeapShape
      <4> QED BY <3>2, <4>1, <2>2, <2>6 DEF FlagsHeld
    <3> HIDE DEF s2, d2
    <3>6. /\ Good(s2, heap, d2, refs, l2)
          /\ ContentIn(sl, heap, k) = Absent /\ ContentIn(s2, heap, k) \in Blob
          /\ \A j \in Key : j # k => ContentIn(s2, heap, j) = ContentIn(sl, heap, j)
      BY <2>2, <2>3, <2>5, <2>8, <3>2, <3>3, <3>4, <3>5, MoveToGood
    <3> HIDE DEF l2
    <3>7. IInv' /\ \A j \in Key : Content(j)' = ContentIn(s2, heap, j)
      BY <3>1, <3>6, SettleIInv
    <3>8. /\ Content(k) = Absent /\ Content(k)' \in Blob
          /\ \A j \in Key : j # k => Content(j)' = Content(j)
      BY <2>2, <2>5, <3>6, <3>7
    <3> QED BY <2>3, <3>1, <3>7, <3>8, ChangeView DEF AbsStep
  <2> QED BY <2>4, <2>7, <2>8
<1> QED BY <1>1, <1>2

\* Borrowing a field is invisible.
LEMMA BorrowFieldStep ==
    ASSUME IInv, NEW r \in refs, BorrowField(r) PROVE IInv' /\ AbsStep
<1> DEFINE rf == refs \cup {[cell |-> heap[r.cell].sub, flag |-> r.flag]}
<1>1. Settle(heap, dirty, slot, rf, locals) /\ Continue /\ Running
  BY DEF BorrowField, FieldRef
<1>2. Good(slot, heap, dirty, refs, locals) /\ heap[r.cell].sub # Nil
  BY IInvIsGood DEF BorrowField, IsOuter
<1>3. Good(slot, heap, dirty, rf, locals)
  BY <1>2, BorrowFieldGood
<1> HIDE DEF rf
<1>4. IInv' /\ \A j \in Key : Content(j)' = ContentIn(slot, heap, j)
  BY <1>1, <1>3, SettleIInv
<1> QED BY <1>1, <1>4, StutterView DEF AbsStep, Content

\* Borrowing a value is invisible.
LEMMA BorrowLocStep ==
    ASSUME IInv, NEW c \in locals, BorrowLoc(c) PROVE IInv' /\ AbsStep
<1> DEFINE rf == refs \cup {[cell |-> c, flag |-> Nil]}
<1>1. Settle(heap, dirty, slot, rf, locals) /\ Continue /\ Running
  BY DEF BorrowLoc
<1>2. Good(slot, heap, dirty, rf, locals)
  BY IInvIsGood, BorrowLocGood
<1> HIDE DEF rf
<1>3. IInv' /\ \A j \in Key : Content(j)' = ContentIn(slot, heap, j)
  BY <1>1, <1>2, SettleIInv
<1> QED BY <1>1, <1>3, StutterView DEF AbsStep, Content

\* Giving up a reference is invisible.
LEMMA DropRefStep ==
    ASSUME IInv, NEW r \in refs, DropRef(r) PROVE IInv' /\ AbsStep
<1> DEFINE rf == refs \ {r}
<1>1. Settle(heap, dirty, slot, rf, locals) /\ Continue /\ Running
  BY DEF DropRef
<1>2. Good(slot, heap, dirty, rf, locals)
  BY IInvIsGood, DropRefGood
<1> HIDE DEF rf
<1>3. IInv' /\ \A j \in Key : Content(j)' = ContentIn(slot, heap, j)
  BY <1>1, <1>2, SettleIInv
<1> QED BY <1>1, <1>3, StutterView DEF AbsStep, Content

\* The flag a write sets stays set, and no other flag is cleared.
LEMMA MarkDirtyFacts ==
    ASSUME IInv, NEW r \in refs
    PROVE  /\ MarkDirty(r) \in [Flag -> BOOLEAN]
           /\ r.flag # Nil => MarkDirty(r)[r.flag]
           /\ \A f \in Flag : dirty[f] => MarkDirty(r)[f]
<1>1. dirty \in [Flag -> BOOLEAN] /\ r.flag \in Flag \cup {Nil}
  BY DEF IInv, TypeOK, Ref
<1>2. CASE r.flag = Nil
  BY <1>1, <1>2 DEF MarkDirty
<1>3. CASE r.flag # Nil
  BY <1>1, <1>3 DEF MarkDirty
<1> QED BY <1>2, <1>3

\* A write is an update of the one resource it changes, if any.
LEMMA WriteView ==
    ASSUME Running, Continue, NEW h2,
           \A j \in Key : Content(j)' = ContentIn(slot, h2, j),
           \A j \in Key :
              ContentIn(slot, heap, j) # ContentIn(slot, h2, j) =>
                 /\ ContentIn(slot, heap, j) \in Blob /\ ContentIn(slot, h2, j) \in Blob
                 /\ \A i \in Key : i # j => ContentIn(slot, heap, i) = ContentIn(slot, h2, i)
    PROVE  AbsStep
<1>1. CASE \A j \in Key : ContentIn(slot, heap, j) = ContentIn(slot, h2, j)
  BY <1>1, StutterView DEF AbsStep, Content
<1>2. CASE \E j \in Key : ContentIn(slot, heap, j) # ContentIn(slot, h2, j)
  <2>1. PICK j \in Key : ContentIn(slot, heap, j) # ContentIn(slot, h2, j)
    BY <1>2
  <2>2. /\ Content(j) \in Blob /\ Content(j)' \in Blob
        /\ \A i \in Key : i # j => Content(i)' = Content(i)
    BY <2>1 DEF Content
  <2> QED BY <2>2, ChangeView DEF AbsStep
<1> QED BY <1>1, <1>2

\* A write of an immediate updates at most one resource.
LEMMA WriteImmStep ==
    ASSUME IInv, NEW r \in refs, NEW v \in Val, WriteImm(r, v) PROVE IInv' /\ AbsStep
<1> DEFINE h2 == [heap EXCEPT ![r.cell].imm = v]
           d2 == MarkDirty(r)
<1>1. Settle(h2, d2, slot, refs, locals) /\ Continue /\ Running
  BY DEF WriteImm
<1>2. Good(slot, heap, dirty, refs, locals)
  BY IInvIsGood
<1>3. /\ h2 \in [Cell -> Node \cup {Nil}] /\ \A c \in Cell : c # r.cell => h2[c] = heap[c]
      /\ HeapShape(slot, h2, refs, locals) /\ Ownership(slot, h2, refs, locals)
  <2>1. heap \in [Cell -> Node \cup {Nil}] /\ r.cell \in Cell /\ heap[r.cell] \in Node
    BY <1>2, HeldIsAllocated DEF Good, Typed, Held
  <2>2. /\ h2 \in [Cell -> Node \cup {Nil}] /\ h2[r.cell] = [heap[r.cell] EXCEPT !.imm = v]
        /\ \A c \in Cell : c # r.cell => h2[c] = heap[c]
    BY <2>1 DEF Node
  <2> HIDE DEF h2
  <2> QED BY <1>2, <2>2, WriteImmShape
<1>4. d2 \in [Flag -> BOOLEAN] /\ (r.flag # Nil => d2[r.flag]) /\ \A f \in Flag : dirty[f] => d2[f]
  BY MarkDirtyFacts
<1> HIDE DEF h2, d2
<1>5. /\ CleanIsTracked(slot, h2, d2, refs)
      /\ \A j \in Key :
            ContentIn(slot, heap, j) # ContentIn(slot, h2, j) =>
               /\ ContentIn(slot, heap, j) \in Blob /\ ContentIn(slot, h2, j) \in Blob
               /\ \A i \in Key : i # j => ContentIn(slot, heap, i) = ContentIn(slot, h2, i)
  BY <1>2, <1>3, <1>4, WriteTracked
<1>6. Good(slot, h2, d2, refs, locals)
  BY <1>2, <1>3, <1>4, <1>5 DEF Good, Typed
<1>7. IInv' /\ \A j \in Key : Content(j)' = ContentIn(slot, h2, j)
  BY <1>1, <1>6, SettleIInv
<1> QED BY <1>1, <1>5, <1>7, WriteView

\* A write of a struct updates at most one resource, or fails.
LEMMA WriteStructStep ==
    ASSUME IInv, NEW r \in refs, NEW c \in Cell, WriteStruct(r, c) PROVE IInv' /\ AbsStep
<1>1. CASE Error
  BY <1>1, ErrorStep DEF WriteStruct, AbsStep, Abs!Next
<1>2. CASE ~Error
  <2> DEFINE h2 == [heap EXCEPT ![r.cell] = heap[c]]
             d2 == MarkDirty(r)
             l2 == locals \ {c}
  <2>1. Settle(h2, d2, slot, refs, l2) /\ Continue /\ Running
    BY <1>2 DEF WriteStruct
  <2>2. /\ Good(slot, heap, dirty, refs, locals) /\ c \in locals /\ \A q \in refs : q.cell # c
        /\ heap[r.cell].sub # Nil <=> heap[c].sub # Nil
    BY <1>2, IInvIsGood DEF WriteStruct, Shared, IsOuter
  <2>3. /\ h2 \in [Cell -> Node \cup {Nil}] /\ \A e \in Cell : e # r.cell => h2[e] = heap[e]
        /\ HeapShape(slot, h2, refs, l2) /\ Ownership(slot, h2, refs, l2)
    <3>1. heap \in [Cell -> Node \cup {Nil}] /\ r.cell \in Cell
      BY <2>2 DEF Good, Typed, Ref
    <3>2. /\ h2 \in [Cell -> Node \cup {Nil}] /\ h2[r.cell] = heap[c]
          /\ \A e \in Cell : e # r.cell => h2[e] = heap[e]
      BY <3>1
    <3> HIDE DEF h2
    <3> QED BY <2>2, <3>2, WriteStructShape
  <2>4. d2 \in [Flag -> BOOLEAN] /\ (r.flag # Nil => d2[r.flag]) /\ \A f \in Flag : dirty[f] => d2[f]
    BY MarkDirtyFacts
  <2> HIDE DEF h2, d2
  <2>5. /\ CleanIsTracked(slot, h2, d2, refs)
        /\ \A j \in Key :
              ContentIn(slot, heap, j) # ContentIn(slot, h2, j) =>
                 /\ ContentIn(slot, heap, j) \in Blob /\ ContentIn(slot, h2, j) \in Blob
                 /\ \A i \in Key : i # j => ContentIn(slot, heap, i) = ContentIn(slot, h2, i)
    BY <2>2, <2>3, <2>4, WriteTracked
  <2>6. Good(slot, h2, d2, refs, l2)
    BY <2>2, <2>3, <2>4, <2>5 DEF Good, Typed
  <2> HIDE DEF l2
  <2>7. IInv' /\ \A j \in Key : Content(j)' = ContentIn(slot, h2, j)
    BY <2>1, <2>6, SettleIInv
  <2> QED BY <2>1, <2>5, <2>7, WriteView
<1> QED BY <1>1, <1>2

\* Packing a nested struct is invisible.
LEMMA PackInnerStep ==
    ASSUME IInv, NEW v \in Val, PackInner(v) PROVE IInv' /\ AbsStep
<1> DEFINE h2 == [heap EXCEPT ![NewCell] = [imm |-> v, sub |-> Nil]]
           l2 == locals \cup {NewCell}
<1>1. Settle(h2, dirty, slot, refs, l2) /\ Continue /\ Running
  BY DEF PackInner
<1>2. NewCell \in Cell /\ heap[NewCell] = Nil
  BY Zenon DEF PackInner, CanAlloc, NewCell, Free
<1>3. Good(slot, heap, dirty, refs, locals) /\ heap \in [Cell -> Node \cup {Nil}]
  BY IInvIsGood DEF Good, Typed
<1>4. /\ h2 \in [Cell -> Node \cup {Nil}] /\ h2[NewCell] = [imm |-> v, sub |-> Nil]
      /\ \A x \in Cell : x # NewCell => h2[x] = heap[x]
  <2>1. [imm |-> v, sub |-> Nil] \in Node
    BY DEF Node
  <2> QED BY <1>2, <1>3, <2>1
<1> HIDE DEF h2
<1>5. Good(slot, h2, dirty, refs, l2) /\ \A j \in Key : ContentIn(slot, h2, j) = ContentIn(slot, heap, j)
  BY <1>2, <1>3, <1>4, NewInnerGood
<1> HIDE DEF l2
<1>6. IInv' /\ \A j \in Key : Content(j)' = ContentIn(slot, h2, j)
  BY <1>1, <1>5, SettleIInv
<1> QED BY <1>1, <1>5, <1>6, StutterView DEF AbsStep, Content

\* Packing a resource is invisible, or fails.
LEMMA PackOuterStep ==
    ASSUME IInv, NEW c \in locals, NEW v \in Val, PackOuter(v, c) PROVE IInv' /\ AbsStep
<1>1. CASE Error
  BY <1>1, ErrorStep DEF PackOuter, AbsStep, Abs!Next
<1>2. CASE ~Error
  <2> DEFINE h2 == [heap EXCEPT ![NewCell] = [imm |-> v, sub |-> c]]
             l2 == (locals \ {c}) \cup {NewCell}
  <2>1. /\ Settle(h2, dirty, slot, refs, l2) /\ Continue /\ Running
        /\ heap[c].sub = Nil /\ \A r \in refs : r.cell # c
    BY <1>2 DEF PackOuter, Shared, IsOuter
  <2>2. NewCell \in Cell /\ heap[NewCell] = Nil
    BY Zenon DEF PackOuter, CanAlloc, NewCell, Free
  <2>3. Good(slot, heap, dirty, refs, locals) /\ heap \in [Cell -> Node \cup {Nil}] /\ c \in Cell
    BY IInvIsGood DEF Good, Typed
  <2>4. /\ h2 \in [Cell -> Node \cup {Nil}] /\ h2[NewCell] = [imm |-> v, sub |-> c]
        /\ \A x \in Cell : x # NewCell => h2[x] = heap[x]
    <3>1. [imm |-> v, sub |-> c] \in Node
      BY <2>3 DEF Node
    <3> QED BY <2>2, <2>3, <3>1
  <2> HIDE DEF h2
  <2>5. Good(slot, h2, dirty, refs, l2) /\ \A j \in Key : ContentIn(slot, h2, j) = ContentIn(slot, heap, j)
    BY <2>1, <2>2, <2>3, <2>4, PackGood
  <2> HIDE DEF l2
  <2>6. IInv' /\ \A j \in Key : Content(j)' = ContentIn(slot, h2, j)
    BY <2>1, <2>5, SettleIInv
  <2> QED BY <2>1, <2>5, <2>6, StutterView DEF AbsStep, Content
<1> QED BY <1>1, <1>2

\* Unpacking is invisible, or fails.
LEMMA UnpackStep ==
    ASSUME IInv, NEW c \in locals, Unpack(c) PROVE IInv' /\ AbsStep
<1>1. CASE Error
  BY <1>1, ErrorStep DEF Unpack, AbsStep, Abs!Next
<1>2. CASE ~Error
  <2> DEFINE l2 == (locals \ {c}) \cup {heap[c].sub}
  <2>1. /\ Settle(heap, dirty, slot, refs, l2) /\ Continue /\ Running
        /\ heap[c].sub # Nil /\ \A r \in refs : r.cell # c
    BY <1>2 DEF Unpack, Shared, IsOuter
  <2>2. Good(slot, heap, dirty, refs, l2)
    BY <2>1, IInvIsGood, UnpackGood
  <2> HIDE DEF l2
  <2>3. IInv' /\ \A j \in Key : Content(j)' = ContentIn(slot, heap, j)
    BY <2>1, <2>2, SettleIInv
  <2> QED BY <2>1, <2>3, StutterView DEF AbsStep, Content
<1> QED BY <1>1, <1>2

\* Dropping a value is invisible, or fails.
LEMMA DropLocalStep ==
    ASSUME IInv, NEW c \in locals, DropLocal(c) PROVE IInv' /\ AbsStep
<1>1. CASE Error
  BY <1>1, ErrorStep DEF DropLocal, AbsStep, Abs!Next
<1>2. CASE ~Error
  <2> DEFINE l2 == locals \ {c}
  <2>1. /\ Settle(heap, dirty, slot, refs, l2) /\ Continue /\ Running
        /\ \A r \in refs : r.cell # c
    BY <1>2 DEF DropLocal, Shared
  <2>2. Good(slot, heap, dirty, refs, l2)
    BY <2>1, IInvIsGood, DropLocalGood
  <2> HIDE DEF l2
  <2>3. IInv' /\ \A j \in Key : Content(j)' = ContentIn(slot, heap, j)
    BY <2>1, <2>2, SettleIInv
  <2> QED BY <2>1, <2>3, StutterView DEF AbsStep, Content
<1> QED BY <1>1, <1>2

\* A deep copy is a new value: of a nested struct, or of a resource, which is a new
\* nested struct with a new resource packed around it.
LEMMA ReadRefStep ==
    ASSUME IInv, NEW r \in refs, ReadRef(r) PROVE IInv' /\ AbsStep
<1>1. Good(slot, heap, dirty, refs, locals) /\ heap \in [Cell -> Node \cup {Nil}] /\ locals \subseteq Cell
  BY IInvIsGood DEF Good, Typed
<1>2. /\ r.cell \in Cell /\ heap[r.cell] \in Node
      /\ heap[r.cell].sub # Nil => /\ heap[heap[r.cell].sub] \in Node
                                   /\ heap[heap[r.cell].sub].sub = Nil
  BY <1>1, HeldIsAllocated DEF Held
<1>3. Continue /\ Running
  BY DEF ReadRef
<1>4. ASSUME NEW h2, NEW l2, Settle(h2, dirty, slot, refs, l2), Good(slot, h2, dirty, refs, l2),
             \A j \in Key : ContentIn(slot, h2, j) = ContentIn(slot, heap, j)
      PROVE  IInv' /\ AbsStep
  <2>1. IInv' /\ \A j \in Key : Content(j)' = ContentIn(slot, h2, j)
    BY <1>3, <1>4, SettleIInv
  <2> QED BY <1>3, <1>4, <2>1, StutterView DEF AbsStep, Content
<1>5. CASE heap[r.cell].sub = Nil
  <2> DEFINE h2 == [heap EXCEPT ![NewCell] = heap[r.cell]]
             l2 == locals \cup {NewCell}
  <2>1. Settle(h2, dirty, slot, refs, l2) /\ CanAlloc
    BY <1>5 DEF ReadRef, IsOuter
  <2>2. NewCell \in Cell /\ heap[NewCell] = Nil
    BY <2>1, Zenon DEF CanAlloc, NewCell, Free
  <2>3. heap[r.cell].imm \in Val /\ heap[r.cell] = [imm |-> heap[r.cell].imm, sub |-> Nil]
    BY <1>2, <1>5 DEF Node
  <2>4. /\ h2 \in [Cell -> Node \cup {Nil}] /\ h2[NewCell] = heap[r.cell]
        /\ \A x \in Cell : x # NewCell => h2[x] = heap[x]
    BY <1>1, <1>2, <2>2
  <2> HIDE DEF h2
  <2>5. Good(slot, h2, dirty, refs, l2) /\ \A j \in Key : ContentIn(slot, h2, j) = ContentIn(slot, heap, j)
    <3>1. h2[NewCell] = [imm |-> heap[r.cell].imm, sub |-> Nil]
      BY <2>3, <2>4
    <3> QED BY <1>1, <2>2, <2>3, <2>4, <3>1, NewInnerGood
  <2> HIDE DEF l2
  <2> QED BY <2>1, <2>5, <1>4
<1>6. CASE heap[r.cell].sub # Nil
  <2> DEFINE n == heap[heap[r.cell].sub]
             h1 == [heap EXCEPT ![NewCell2] = n]
             h2 == [heap EXCEPT ![NewCell] = [imm |-> heap[r.cell].imm, sub |-> NewCell2],
                                ![NewCell2] = n]
             l1 == locals \cup {NewCell2}
             l2 == locals \cup {NewCell}
  <2>1. Settle(h2, dirty, slot, refs, l2) /\ CanAlloc2
    BY <1>6 DEF ReadRef, IsOuter
  <2>2. /\ NewCell \in Cell /\ heap[NewCell] = Nil
        /\ NewCell2 \in Cell /\ heap[NewCell2] = Nil /\ NewCell # NewCell2
    BY <2>1, Zenon DEF CanAlloc2, CanAlloc, NewCell, NewCell2, Free
  <2>3. n.imm \in Val /\ n = [imm |-> n.imm, sub |-> Nil] /\ n \in Node /\ heap[r.cell].imm \in Val
    BY <1>2, <1>6 DEF Node
  <2>4. /\ h1 \in [Cell -> Node \cup {Nil}] /\ h1[NewCell2] = n
        /\ \A x \in Cell : x # NewCell2 => h1[x] = heap[x]
    BY <1>1, <2>2, <2>3
  <2>5. /\ h2 \in [Cell -> Node \cup {Nil}]
        /\ h2[NewCell] = [imm |-> heap[r.cell].imm, sub |-> NewCell2]
        /\ \A x \in Cell : x # NewCell => h2[x] = h1[x]
    <3>1. [imm |-> heap[r.cell].imm, sub |-> NewCell2] \in Node
      BY <2>2, <2>3 DEF Node
    <3> QED BY <1>1, <2>2, <2>3, <3>1
  <2> HIDE DEF h1, h2, n
  <2>6. Good(slot, h1, dirty, refs, l1) /\ \A j \in Key : ContentIn(slot, h1, j) = ContentIn(slot, heap, j)
    <3>1. h1[NewCell2] = [imm |-> n.imm, sub |-> Nil]
      BY <2>3, <2>4
    <3> QED BY <1>1, <2>2, <2>3, <2>4, <3>1, NewInnerGood
  <2>7. /\ NewCell2 \in l1 /\ h1[NewCell2].sub = Nil /\ h1[NewCell] = Nil
        /\ (l1 \ {NewCell2}) \cup {NewCell} = l2
        /\ \A q \in refs : q.cell # NewCell2
    <3>1. NewCell2 \notin Held(slot, refs, locals)
      BY <1>1, <2>2, FreeIsUnused
    <3>2. NewCell2 \notin locals /\ \A q \in refs : q.cell # NewCell2
      BY <1>1, <3>1 DEF Held, Owned
    <3>3. h1[NewCell2].sub = Nil /\ h1[NewCell] = Nil
      BY <2>2, <2>3, <2>4
    <3> QED BY <3>2, <3>3
  <2> HIDE DEF l1, l2
  <2>8. /\ Good(slot, h2, dirty, refs, l2)
        /\ \A j \in Key : ContentIn(slot, h2, j) = ContentIn(slot, h1, j)
    <3>1. /\ Good(slot, h2, dirty, refs, (l1 \ {NewCell2}) \cup {NewCell})
          /\ \A j \in Key : ContentIn(slot, h2, j) = ContentIn(slot, h1, j)
      BY <2>2, <2>3, <2>5, <2>6, <2>7, PackGood
    <3> QED BY <2>7, <3>1
  <2> QED BY <2>1, <2>6, <2>8, <1>4
<1> QED BY <1>5, <1>6

\* A resource whose effect is empty is unchanged: the heart of the matter.
LEMMA EffectIsContent ==
    ASSUME IInv, NEW k \in Key
    PROVE  /\ IntoEffect(k) \in Blob \cup {Absent, NoChange}
           /\ IntoEffect(k) = NoChange => Content(k) = remote[k]
           /\ IntoEffect(k) # NoChange => Content(k) = IntoEffect(k)
<1>1. Good(slot, heap, dirty, refs, locals) /\ slot[k] \in Slot
  BY IInvIsGood DEF Good, Typed
<1>2. Exists(slot[k]) => Serialize(heap, slot[k].cell) \in Blob
  <2>1. SUFFICES ASSUME Exists(slot[k]) PROVE Serialize(heap, slot[k].cell) \in Blob
    OBVIOUS
  <2>2. slot[k].cell \in Held(slot, refs, locals) /\ heap[slot[k].cell].sub # Nil
    BY <1>1, <2>1 DEF Good, HeapShape, Held, Owned
  <2>3. heap[slot[k].cell] \in Node /\ heap[heap[slot[k].cell].sub] \in Node
    BY <1>1, <2>2, HeldIsAllocated
  <2> QED BY <2>3 DEF Serialize, Blob, Node
<1>3. Matches(slot) /\ CleanIsTracked(slot, heap, dirty, refs)
  BY <1>1 DEF Good
<1>4. slot[k].st \in SlotTag
  BY <1>1 DEF Slot
<1>5. CASE slot[k].st = "unloaded" \/ slot[k].st = "none"
  BY <1>3, <1>5 DEF IntoEffect, Content, ContentIn, Exists, Matches
<1>6. CASE slot[k].st = "deleted"
  BY <1>6 DEF IntoEffect, Content, ContentIn, Exists
<1>7. CASE slot[k].st = "fresh" \/ (slot[k].st = "cached" /\ dirty[slot[k].flag])
  <2>1. IntoEffect(k) = Serialize(heap, slot[k].cell)
    BY <1>7 DEF IntoEffect
  <2>2. Exists(slot[k]) /\ Content(k) = Serialize(heap, slot[k].cell)
    BY <1>7 DEF Content, ContentIn, Exists
  <2> QED BY <2>1, <2>2, <1>2
<1>8. CASE slot[k].st = "cached" /\ ~dirty[slot[k].flag]
  <2>1. IntoEffect(k) = NoChange
    BY <1>8 DEF IntoEffect
  <2>2. Exists(slot[k]) /\ Content(k) = Serialize(heap, slot[k].cell)
    BY <1>8 DEF Content, ContentIn, Exists
  <2> QED BY <2>1, <2>2, <1>3, <1>8 DEF CleanIsTracked
<1> QED BY <1>4, <1>5, <1>6, <1>7, <1>8 DEF SlotTag

\* The change set, applied to storage, is the view.
LEMMA FinishStep ==
    ASSUME IInv, Finish PROVE IInv' /\ AbsStep
<1>1. /\ Running /\ change' = IntoEffects /\ session' = "finished" /\ Drop /\ remote' = remote
  BY DEF Finish
<1>2. change' \in [Key -> Blob \cup {Absent, NoChange}]
  BY <1>1, EffectIsContent DEF IntoEffects
<1>3. IInv'
  BY <1>1, <1>2, DropIInv DEF IInv, TypeOK
<1>4. View' = [k \in Key |-> Apply(remote', change')[k]]
  BY <1>1 DEF View
<1>5. View = [k \in Key |-> Content(k)]
  BY <1>1 DEF View, Running
<1>6. \A k \in Key : Apply(remote', change')[k] = Content(k)
  <2>1. \A k \in Key : change'[k] = IntoEffect(k)
    BY <1>1 DEF IntoEffects
  <2> QED BY <1>1, <2>1, EffectIsContent DEF Apply
<1>7. View' = View
  BY <1>4, <1>5, <1>6
<1> QED BY <1>1, <1>3, <1>7 DEF AbsStep, Abs!Next, Abs!Finish, Running

\* The host stores the view.
LEMMA NextSessionStep ==
    ASSUME IInv, NextSession PROVE IInv' /\ AbsStep
<1>1. /\ session # "running" /\ Drop /\ session' = "running"
      /\ remote' = IF session = "finished" THEN Apply(remote, change) ELSE remote
      /\ change' = [k \in Key |-> NoChange]
  BY DEF NextSession, Running
<1>2. /\ remote \in [Key -> Blob \cup {Absent, Corrupt}]
      /\ change \in [Key -> Blob \cup {Absent, NoChange}]
  BY DEF IInv, TypeOK
<1>3. Apply(remote, change) \in [Key -> Blob \cup {Absent, Corrupt}]
  BY <1>2 DEF Apply
<1>4. IInv' /\ \A k \in Key : Content(k)' = remote'[k]
  BY <1>1, <1>2, <1>3, DropIInv
<1>5. View' = [k \in Key |-> Content(k)']
  BY <1>1 DEF View
<1>6. View' = remote'
  BY <1>1, <1>2, <1>3, <1>4, <1>5
<1>7. View = remote'
  <2>1. CASE session = "finished"
    BY <1>1, <1>3, <2>1 DEF View
  <2>2. CASE session # "finished"
    BY <1>1, <1>2, <2>2 DEF View
  <2> QED BY <2>1, <2>2
<1> QED BY <1>1, <1>4, <1>6, <1>7 DEF AbsStep, Abs!Next, Abs!NextSession

-----------------------------------------------------------------------------
(* The theorems.                                                           *)

\* The invariant and the abstract initial condition hold initially.
LEMMA InitIInv == Init => IInv /\ Abs!Init
<1> SUFFICES ASSUME Init PROVE IInv /\ Abs!Init
  OBVIOUS
<1>1. /\ slot \in [Key -> Slot]
      /\ \A k \in Key : slot[k].st = "unloaded" /\ slot[k].cell = Nil /\ slot[k].flag = Nil
  BY DEF Init, Unloaded, Slot, SlotTag
<1>2. TypeOK
  BY <1>1 DEF Init, TypeOK
<1>3. Held(slot, refs, locals) = {} /\ Owned(slot, locals) = {} /\ refs = {} /\ locals = {}
  BY <1>1 DEF Held, Owned, Init
<1>4. SingleOwner
  BY <1>1, <1>3 DEF SingleOwner, HeapShape, Ownership, Exists
<1>5. CleanTracked /\ SlotMatchesStorage
  BY <1>1, <1>3 DEF CleanTracked, CleanIsTracked, SlotMatchesStorage
<1>6. View = [k \in Key |-> remote[k]]
  BY <1>1 DEF Init, View, Content, ContentIn
<1>7. View = remote
  BY <1>2, <1>6 DEF TypeOK
<1> QED BY <1>2, <1>4, <1>5, <1>7 DEF IInv, Abs!Init, Init

\* Every step keeps the invariant and is an abstract step or invisible.
LEMMA NextIInv == IInv /\ [Next]_vars => IInv' /\ AbsStep
<1> SUFFICES ASSUME IInv, [Next]_vars PROVE IInv' /\ AbsStep
  OBVIOUS
<1>1. ASSUME NEW k \in Key, OnKey(k) PROVE IInv' /\ AbsStep
  <2>1. CASE LoadFails(k)
    BY <2>1, ErrorStep DEF LoadFails, AbsStep, Abs!Next
  <2> QED BY <1>1, <2>1, ExistsStep, BorrowGlobalStep, MoveFromStep, MoveToStep DEF OnKey
<1>2. ASSUME NEW r \in refs, OnRef(r) PROVE IInv' /\ AbsStep
  BY <1>2, BorrowFieldStep, ReadRefStep, DropRefStep, WriteImmStep, WriteStructStep DEF OnRef
<1>3. ASSUME NEW c \in locals, OnLocal(c) PROVE IInv' /\ AbsStep
  BY <1>3, BorrowLocStep, UnpackStep, DropLocalStep, PackOuterStep DEF OnLocal
<1>4. ASSUME NEW v \in Val, PackInner(v) PROVE IInv' /\ AbsStep
  BY <1>4, PackInnerStep
<1>5. CASE Abort
  BY <1>5, ErrorStep DEF Abort, AbsStep, Abs!Next
<1>6. CASE UNCHANGED vars
  <2>1. IInv'
    BY <1>6 DEF vars, IInv, TypeOK, SingleOwner, HeapShape, Ownership, Held, Owned, CleanTracked,
                CleanIsTracked, SlotMatchesStorage, Serialize, Exists
  <2>2. UNCHANGED Abs!vars
    BY <1>6 DEF vars, Abs!vars, View, Content, ContentIn, Serialize, Exists, Apply
  <2> QED BY <2>1, <2>2 DEF AbsStep
<1> QED BY <1>1, <1>2, <1>3, <1>4, <1>5, <1>6, FinishStep, NextSessionStep DEF Next

\* The data cache is type correct in every reachable state of every instance.
THEOREM TypeCorrect == Spec => []TypeOK
<1>1. IInv => TypeOK
  BY DEF IInv
<1> QED BY <1>1, InitIInv, NextIInv, PTL DEF Spec

\* Containers form a forest under any program, verified or not.
THEOREM OwnershipCorrect == Spec => []SingleOwner
<1>1. IInv => SingleOwner
  BY DEF IInv
<1> QED BY <1>1, InitIInv, NextIInv, PTL DEF Spec

\* A slot's state agrees with storage under any program.
THEOREM SlotsCorrect == Spec => []SlotMatchesStorage
<1>1. IInv => SlotMatchesStorage
  BY DEF IInv
<1> QED BY <1>1, InitIInv, NextIInv, PTL DEF Spec

\* A change to a resource is never left out of the change set, whichever references
\* it was made through.
THEOREM UpdatesKept == Spec => []NoLostUpdate
<1>1. IInv => NoLostUpdate
  BY EffectIsContent DEF NoLostUpdate
<1> QED BY <1>1, InitIInv, NextIInv, PTL DEF Spec

\* An account with a changed resource is counted as mutated, unless it is the sender's,
\* which is always counted.
LEMMA ChangesCounted == IInv => WriteGasCoversChanges
<1> SUFFICES ASSUME IInv, NEW s \in Addr
             PROVE  Cardinality({a \in Addr : \E t \in Ty : Content(<<a, t>>) # remote[<<a, t>>]})
                        <= NumMutatedAccounts(s)
  BY DEF WriteGasCoversChanges
<1> DEFINE C == {a \in Addr : \E t \in Ty : Content(<<a, t>>) # remote[<<a, t>>]}
           M == {a \in Addr \ {s} : \E t \in Ty : IsMutated(<<a, t>>)}
<1>1. \A k \in Key : Content(k) # remote[k] => IsMutated(k)
  <2> SUFFICES ASSUME NEW k \in Key, Content(k) # remote[k] PROVE IsMutated(k)
    OBVIOUS
  <2>1. IntoEffect(k) # NoChange
    BY EffectIsContent
  <2> QED BY <2>1 DEF IntoEffect, IsMutated
<1>2. \A a \in Addr, t \in Ty : <<a, t>> \in Key
  BY DEF Key
<1>3. C \subseteq M \cup {s}
  BY <1>1, <1>2
<1>4. M \subseteq Addr /\ s \notin M /\ NumMutatedAccounts(s) = 1 + Cardinality(M)
  BY DEF NumMutatedAccounts
<1> HIDE DEF C, M
<1>5. IsFiniteSet(M)
  BY <1>4, FinitelyManyAddresses, FS_Subset
<1>6. IsFiniteSet(M \cup {s}) /\ Cardinality(M \cup {s}) = Cardinality(M) + 1
  BY <1>4, <1>5, FS_AddElement
<1>7. IsFiniteSet(C) /\ Cardinality(C) <= Cardinality(M \cup {s})
  BY <1>3, <1>6, FS_Subset
<1>8. Cardinality(M) \in Nat
  BY <1>5, FS_CardinalityType
<1> QED BY <1>4, <1>6, <1>7, <1>8 DEF C

\* The write gas is charged for at least as many accounts as the change set touches,
\* whoever sends the transaction and whichever references were written through
\* (num_mutated_accounts against into_effects).
THEOREM WritesAreCharged == Spec => []WriteGasCoversChanges
BY ChangesCounted, InitIInv, NextIInv, PTL DEF Spec

\* A session over the data cache is a session over the abstract transactional store:
\* it commits exactly the view its program had, or nothing.
THEOREM CacheRefinesStore == Spec => Refines
<1>1. AbsStep => [Abs!Next]_(Abs!vars)
  BY DEF AbsStep
<1> QED BY <1>1, InitIInv, NextIInv, PTL DEF Spec, Refines, Abs!Spec
=============================================================================
