---------------------------- MODULE LoopPasses ----------------------------
(* The two passes that look for cycles: structs that contain themselves    *)
(* (struct_defs.rs) and generic functions that call each other with types  *)
(* that grow without end (instantiation_loops.rs).                         *)
EXTENDS ModuleView

RECURSIVE ReachedFrom(_, _)
ReachedFrom(edges, seen) ==
    LET next == seen \union {e[2] : e \in {f \in edges : f[1] \in seen}}
    IN  IF next = seen THEN seen ELSE ReachedFrom(edges, next)

(***************************************************************************)
(* Recursive structs                                                       *)
(***************************************************************************)
HandleToDef(m) == { <<At(m.struct_defs, d).struct_handle, d>> : d \in Indices(m.struct_defs) }

\* The structs of this module that a type mentions, in arguments too.
MentionedDefs(m, t) ==
    { p[2] : p \in {q \in HandleToDef(m) :
        \E n \in Nodes(t) : n.k \in {"struct", "inst"} /\ n.h = q[1]} }

StructGraph(m) ==
    UNION { LET info == At(m.struct_defs, d).field_information
            IN  IF info.native THEN {}
                ELSE UNION { {<<d, e>> : e \in MentionedDefs(m, f.signature)} :
                             f \in Range(info.fields) } :
            d \in Indices(m.struct_defs) }

StructsNotRecursive(m) ==
    \A e \in StructGraph(m) : e[1] \notin ReachedFrom(StructGraph(m), {e[2]})

(***************************************************************************)
(* Instantiation loops                                                     *)
(***************************************************************************)
FuncHandleDefMap(m) == { <<At(m.function_defs, d).function, d>> : d \in Indices(m.function_defs) }

\* The number the graph gives a caller: its place among the functions that
\* are not native.
CallerIndex(m, d) ==
    Cardinality({e \in Indices(m.function_defs) : e < d /\ ~At(m.function_defs, e).code.native})

\* Mutant: parameters inside a type are not extracted.
TopTypeParameter(t) == IF t.k = "param" THEN {t.i} ELSE {}

ExtractTypeParameters(t) == { n.i : n \in {q \in Nodes(t) : q.k = "param"} }

\* One edge for each type parameter of the caller in each actual.
CallEdges(m, caller, callee, actuals) ==
    UNION { { << <<caller, p>>, <<callee, formal>>,
                 IF At(actuals, formal).k = "param" THEN "Identity" ELSE "TyConApp" >> :
              p \in ExtractTypeParameters(At(actuals, formal)) } :
            formal \in Indices(actuals) }

FunctionEdges(m, d) ==
    UNION { LET inst == At(m.function_instantiations, i.arg)
            IN  UNION { CallEdges(m, CallerIndex(m, d), c[2], At(m.signatures, inst.type_parameters)) :
                        c \in {p \in FuncHandleDefMap(m) : p[1] = inst.handle} } :
            i \in {j \in Instructions(At(m.function_defs, d).code) : j.op = "CALL_GENERIC"} }

InstantiationGraph(m) ==
    UNION { FunctionEdges(m, d) :
            d \in {e \in Indices(m.function_defs) : ~At(m.function_defs, e).code.native} }

\* A component that holds an edge that builds a type grows without end.
NoInstantiationLoops(m) ==
    \A e \in InstantiationGraph(m) :
        e[3] = "TyConApp" => e[1] \notin ReachedFrom(InstantiationGraph(m), {e[2]})
============================================================================
