------------------------------ MODULE Linking ------------------------------
(* What a unit says of the modules it imports, compared with the modules    *)
(* (dependencies.rs).  A handle names what it stands for; a definition is   *)
(* found by that name in the dependency.                                    *)
EXTENDS ModuleView

SelfId(m) == ModuleName(m, m.self_module_handle_idx)
IsOwn(u, handle) == ~IsScript(u) /\ handle.module = u.self_module_handle_idx

\* The dependencies by their names, the unit itself left out.
DependencyMap(u, deps) == {d \in deps : IsScript(u) \/ SelfId(d) # SelfId(u)}

Owners(u, deps, handle) ==
    {d \in DependencyMap(u, deps) : SelfId(d) = ModuleName(u, handle.module)}

ImmediateFriends(m) ==
    { <<At(m.address_identifiers, h.address), At(m.identifiers, h.name)>> : h \in Range(m.friend_decls) }

\* Mutant: functions for friends are found by everyone.
CalledByAll(u, d, def) == def.visibility # "private"

MayBeCalled(u, d, def) ==
    \/ def.visibility \in {"public", "script"}
    \/ def.visibility = "friend" /\ ~IsScript(u) /\ SelfId(u) \in ImmediateFriends(d)

\* Handles, in their own modules, of what a handle of the unit stands for.
StructIdToHandle(u, d, handle) ==
    { At(d.struct_handles, def.struct_handle) : def \in {s \in Range(d.struct_defs) :
        At(d.identifiers, At(d.struct_handles, s.struct_handle).name) = At(u.identifiers, handle.name)} }

FunctionDefs(u, d, handle) ==
    { def \in Range(d.function_defs) :
        At(d.identifiers, At(d.function_handles, def.function).name) = At(u.identifiers, handle.name) }

FuncIdToHandle(u, d, handle) ==
    { At(d.function_handles, def.function) :
      def \in {f \in FunctionDefs(u, d, handle) : MayBeCalled(u, d, f)} }

(***************************************************************************)
(* The view an importer has may be narrower, never wider                   *)
(***************************************************************************)
CompatibleTypeParameterConstraints(local, defined) == defined \subseteq local

\* Mutant: the importer may add what the definition lacks.
PhantomAnyway(local, defined) == TRUE

CompatibleTypeParameterPhantomDecl(local, defined) == local.is_phantom => defined.is_phantom

CompatibleFunTypeParameters(local, defined) ==
    /\ Len(local) = Len(defined)
    /\ \A p \in DOMAIN local : CompatibleTypeParameterConstraints(local[p], defined[p])

CompatibleStruct(local, defined) ==
    /\ local.abilities \subseteq defined.abilities
    /\ Len(local.type_parameters) = Len(defined.type_parameters)
    /\ \A p \in DOMAIN local.type_parameters :
        LET l == local.type_parameters[p] d == defined.type_parameters[p]
        IN  /\ CompatibleTypeParameterPhantomDecl(l, d)
            /\ CompatibleTypeParameterConstraints(l.constraints, d.constraints)

CompareStructs(u, h, d, g) ==
    LET local == At(u.struct_handles, h)
        defined == At(d.struct_handles, g)
    IN  /\ ModuleName(u, local.module) = ModuleName(d, defined.module)
        /\ At(u.identifiers, local.name) = At(d.identifiers, defined.name)

RECURSIVE CompareTypes(_, _, _, _)
CompareTypes(u, t, d, s) ==
    /\ t.k = s.k
    /\ t.k = "param" => t.i = s.i
    /\ t.k \in {"struct", "inst"} => CompareStructs(u, t.h, d, s.h)
    /\ Len(Children(t)) = Len(Children(s))
    /\ \A c \in DOMAIN Children(t) : CompareTypes(u, Children(t)[c], d, Children(s)[c])

CompareCrossModuleSignatures(u, sig, d, def_sig) ==
    Len(sig) = Len(def_sig) /\ \A i \in DOMAIN sig : CompareTypes(u, sig[i], d, def_sig[i])

(***************************************************************************)
(* The checks                                                              *)
(***************************************************************************)
VerifyImportedModules(u, deps) ==
    \A h \in Indices(u.module_handles) :
        \/ ~IsScript(u) /\ h = u.self_module_handle_idx
        \/ \E d \in DependencyMap(u, deps) : SelfId(d) = ModuleName(u, h)

VerifyImportedStructs(u, deps) ==
    \A handle \in Range(u.struct_handles) : ~IsOwn(u, handle) =>
        \E d \in Owners(u, deps, handle) : \E defined \in StructIdToHandle(u, d, handle) :
            CompatibleStruct(handle, defined)

VerifyImportedFunctions(u, deps) ==
    \A handle \in Range(u.function_handles) : ~IsOwn(u, handle) =>
        \E d \in Owners(u, deps, handle) : \E defined \in FuncIdToHandle(u, d, handle) :
            /\ CompatibleFunTypeParameters(handle.type_parameters, defined.type_parameters)
            /\ CompareCrossModuleSignatures(u, At(u.signatures, handle.parameters),
                                            d, At(d.signatures, defined.parameters))
            /\ CompareCrossModuleSignatures(u, At(u.signatures, handle.return_),
                                            d, At(d.signatures, defined.return_))

\* The visibilities known of a function handle.
FunctionVisibilities(u, deps, h) ==
    LET handle == At(u.function_handles, h)
    IN  IF IsOwn(u, handle)
        THEN {def.visibility : def \in {f \in Range(u.function_defs) : f.function = h}}
        ELSE UNION { {def.visibility : def \in FunctionDefs(u, d, handle)} :
                     d \in Owners(u, deps, handle) }

CalledHandles(u, code) ==
    {i.arg : i \in {j \in Instructions(code) : j.op = "CALL"}}
    \union {At(u.function_instantiations, i.arg).handle :
            i \in {j \in Instructions(code) : j.op = "CALL_GENERIC"}}

\* Functions for scripts are called by such functions and by scripts only.
VerifyScriptVisibilityUsage(u, deps, current, code) ==
    \A h \in CalledHandles(u, code) :
        "script" \in FunctionVisibilities(u, deps, h) => current = "script"

VerifyAllScriptVisibilityUsage(u, deps) ==
    IF IsScript(u) THEN VerifyScriptVisibilityUsage(u, deps, "script", u.main)
    ELSE \A def \in Range(u.function_defs) : ~def.code.native =>
            VerifyScriptVisibilityUsage(u, deps, def.visibility, def.code)
============================================================================
