------------------------------ MODULE BorrowGraph ------------------------------
(***************************************************************************)
(* The borrow graph (language/borrow-graph).  A graph is [mut, edges]:     *)
(* mut maps the id of every reference to whether it is mutable, an edge    *)
(* [from, to, strong, path] says that `to` borrows from `from` at exactly  *)
(* path (strong) or at path or below (weak).  borrows_from is the reverse  *)
(* of borrowed_by and not stored.  Labels of paths are opaque.             *)
(***************************************************************************)
EXTENDS Integers, FiniteSets, TLC, SequencesExt

Edge(from, to, strong, path) == [from |-> from, to |-> to, strong |-> strong, path |-> path]

EmptyGraph == [mut |-> <<>>, edges |-> {}]

ContainsId(g, id) == id \in DOMAIN g.mut

IsMutable(g, id) == g.mut[id]

(* The ids of new references are fresh, or the verifier panics.            *)
NewRef(g, id, mutable) ==
    IF ContainsId(g, id) THEN Assert(FALSE, <<"ref exists", id>>)
    ELSE [g EXCEPT !.mut = (id :> mutable) @@ @]

OutEdges(g, id) == {e \in g.edges : e.from = id}

InEdges(g, id) == {e \in g.edges : e.to = id}

(* borrowed_by: the borrowers of the whole of id, and of one field of it.  *)
FullBorrows(g, id) == {e.to : e \in {d \in OutEdges(g, id) : d.path = <<>>}}

FieldBorrows(g, id, label) ==
    {e.to : e \in {d \in OutEdges(g, id) : d.path # <<>> /\ d.path[1] = label}}

AnyFieldBorrows(g, id) == {e.to : e \in {d \in OutEdges(g, id) : d.path # <<>>}}

-------------------------------------------------------------------------------
(* Weak borrows of the parents by child, at path or anywhere below it.     *)
AddWeak(g, parents, path, child) ==
    [g EXCEPT !.edges = @ \union {Edge(p, child, FALSE, path) : p \in parents}]

(* factor: a strong borrow of parent at path by mid.  What was borrowed at *)
(* path or below is borrowed from mid from now on.                         *)
Factor(g, parent, path, mid) ==
    LET moved == {e \in OutEdges(g, parent) : IsPrefix(path, e.path)}
        suffix(e) == SubSeq(e.path, Len(path) + 1, Len(e.path))
    IN  [g EXCEPT !.edges = (@ \ moved)
                            \union {Edge(mid, e.to, e.strong, suffix(e)) : e \in moved}
                            \union {Edge(parent, mid, TRUE, path)}]

(* splice_out_intermediate: a borrow of a borrow.                          *)
Spliced(p, c) ==
    Edge(p.from, c.to, p.strong /\ c.strong, IF p.strong THEN p.path \o c.path ELSE p.path)

\* Mutant: the borrowers of a released reference are cut off.
ReleaseCutsOff(g, id) ==
    [mut |-> [r \in DOMAIN g.mut \ {id} |-> g.mut[r]],
     edges |-> {e \in g.edges : e.from # id /\ e.to # id}]

(* release: the borrowers of id borrow from what id borrowed.              *)
Release(g, id) ==
    [mut |-> [r \in DOMAIN g.mut \ {id} |-> g.mut[r]],
     edges |-> {e \in g.edges : e.from # id /\ e.to # id}
               \union {Spliced(x[1], x[2]) :
                          x \in {y \in InEdges(g, id) \X OutEdges(g, id) : y[1].from # y[2].to}}]

-------------------------------------------------------------------------------
(* BorrowEdge::leq: e covers d.                                            *)
EdgeLeq(e, d) ==
    \/ e.strong = d.strong /\ e.path = d.path
    \/ ~e.strong /\ IsPrefix(e.path, d.path)

(* unmatched_edges: the edges of h that no edge of g covers.  It looks up  *)
(* every reference of h in g, and asserts that none borrows from itself.   *)
Unmatched(g, h) ==
    LET unmatched == {d \in h.edges : ~\E e \in g.edges :
                                         e.from = d.from /\ e.to = d.to /\ EdgeLeq(e, d)}
    IN  IF /\ \A id \in DOMAIN h.mut : ContainsId(g, id)
           /\ \A d \in unmatched : d.from # d.to
        THEN unmatched ELSE Assert(FALSE, "no entry found for key")

(* leq: g covers h.                                                        *)
Covers(g, h) == Unmatched(g, h) = {}

JoinGraphs(g, h) == [g EXCEPT !.edges = @ \union Unmatched(g, h)]

(* remap_refs renames one pair of ids after the other, in the order of the *)
(* old ids: first the targets in every borrowed_by, then the keys.  A name *)
(* that is still in use is overwritten.                                    *)
RetargetOne(edges, old, new) ==
    LET parents == {e.from : e \in {d \in edges : d.to = old}}
    IN  IF old = new THEN edges
        ELSE {e \in edges : e.to # old /\ ~(e.to = new /\ e.from \in parents)}
             \union {[e EXCEPT !.to = new] : e \in {d \in edges : d.to = old}}

RenameOne(g, old, new) ==
    IF old = new \/ ~ContainsId(g, old) THEN g
    ELSE [mut |-> (new :> g.mut[old]) @@ [r \in DOMAIN g.mut \ {old} |-> g.mut[r]],
          edges |-> {e \in g.edges : e.from \notin {old, new}}
                    \union {[e EXCEPT !.from = new] : e \in OutEdges(g, old)}]

RemapRefs(g, idMap) ==
    LET olds == SetToSortSeq(DOMAIN idMap, <)
        retargeted == FoldLeft(LAMBDA es, old : RetargetOne(es, old, idMap[old]), g.edges, olds)
    IN  FoldLeft(LAMBDA h, old : RenameOne(h, old, idMap[old]),
                 [g EXCEPT !.edges = retargeted], olds)

(* check_invariant: every id on an edge is a reference of the graph, and   *)
(* none borrows from itself.                                               *)
CheckInvariant(g) ==
    \A e \in g.edges : ContainsId(g, e.from) /\ ContainsId(g, e.to) /\ e.from # e.to
===============================================================================
