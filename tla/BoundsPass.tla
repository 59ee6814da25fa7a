---------------------------- MODULE BoundsPass ----------------------------
(* The bounds checker (check_bounds.rs): every index of a unit is within   *)
(* its table, every type has as many arguments as its struct has           *)
(* parameters, and type parameters are within their scope.                 *)
EXTENDS ModuleView

CheckType(u, t) ==
    \A n \in Nodes(t) : n.k \in {"struct", "inst"} =>
        /\ Has(u.struct_handles, n.h)
        /\ Len(At(u.struct_handles, n.h).type_parameters) = Len(Children(n))

\* Mutant: parameters inside a type are not looked at.
TopParameterOnly(t, count) == t.k = "param" => t.i < count

CheckTypeParameter(t, count) == \A n \in Nodes(t) : n.k = "param" => n.i < count

CheckTypeParameters(sig, count) == \A i \in DOMAIN sig : CheckTypeParameter(sig[i], count)

CheckSignaturesBound(u) ==
    \A s \in DOMAIN u.signatures : \A i \in DOMAIN u.signatures[s] :
        CheckType(u, u.signatures[s][i])

CheckConstantsBound(u) == \A c \in DOMAIN u.constant_pool : CheckType(u, u.constant_pool[c].type_)

CheckModuleHandle(u, h) == Has(u.address_identifiers, h.address) /\ Has(u.identifiers, h.name)

CheckModuleHandles(u) ==
    \A i \in DOMAIN u.module_handles : CheckModuleHandle(u, u.module_handles[i])

CheckStructHandle(u, h) == Has(u.module_handles, h.module) /\ Has(u.identifiers, h.name)

CheckFunctionHandle(u, h) ==
    /\ Has(u.module_handles, h.module)
    /\ Has(u.identifiers, h.name)
    /\ Has(u.signatures, h.parameters)
    /\ Has(u.signatures, h.return_)
    /\ CheckTypeParameters(At(u.signatures, h.parameters), Len(h.type_parameters))
    /\ CheckTypeParameters(At(u.signatures, h.return_), Len(h.type_parameters))

CheckFunctionInstantiation(u, f) ==
    Has(u.function_handles, f.handle) /\ Has(u.signatures, f.type_parameters)

CheckStructInstantiation(u, s) ==
    Has(u.struct_defs, s.def) /\ Has(u.signatures, s.type_parameters)

FieldCount(def) ==
    IF def.field_information.native THEN 0 ELSE Len(def.field_information.fields)

CheckFieldHandle(u, h) ==
    Has(u.struct_defs, h.owner) /\ h.field < FieldCount(At(u.struct_defs, h.owner))

CheckFieldInstantiation(u, f) ==
    Has(u.field_handles, f.handle) /\ Has(u.signatures, f.type_parameters)

CheckStructDef(u, d) ==
    /\ Has(u.struct_handles, d.struct_handle)
    /\ ~d.field_information.native =>
        \A f \in Range(d.field_information.fields) :
            /\ Has(u.identifiers, f.name)
            /\ CheckType(u, f.signature)
            /\ CheckTypeParameter(f.signature,
                    Len(At(u.struct_handles, d.struct_handle).type_parameters))

(***************************************************************************)
(* Code                                                                    *)
(***************************************************************************)
\* A script has no table of definitions: operands that name one pass here.
CheckOperand(u, i) ==
    (i.op \in PlainOps \union GenericOps \union VectorOps \union {"LD_CONST"} /\
     OperandTable(i.op) \in DOMAIN u) => Has(u[OperandTable(i.op)], i.arg)

CheckTypeArguments(u, i, type_param_count) ==
    (i.op \in GenericOps \union VectorOps /\ OperandTable(i.op) \in DOMAIN u) =>
        CheckTypeParameters(TypeArguments(u, i), type_param_count)

CheckJump(i, code_len) == i.op \in BranchOps => i.arg < code_len

CheckLocal(i, locals_count) == i.op \in LocalOps => i.arg < locals_count

CheckCode(u, unit, type_parameters, parameters) ==
    /\ Has(u.signatures, unit.locals)
    /\ LET locals == At(u.signatures, unit.locals)
           count == Len(type_parameters)
       IN  /\ CheckTypeParameters(locals, count)
           /\ \A i \in Instructions(unit) :
                /\ CheckOperand(u, i)
                /\ CheckTypeArguments(u, i, count)
                /\ CheckJump(i, Len(unit.code))
                /\ CheckLocal(i, Len(locals) + Len(parameters))

CheckFunctionDef(u, d) ==
    /\ Has(u.function_handles, d.function)
    /\ \A a \in Range(d.acquires) : Has(u.struct_defs, a)
    /\ ~d.code.native =>
        LET handle == At(u.function_handles, d.function)
            parameters == At(u.signatures, handle.parameters)
        IN  /\ Has(u.signatures, d.code.locals)
            /\ Len(At(u.signatures, d.code.locals)) + Len(parameters) <= CountMax + 1
            /\ CheckCode(u, d.code, handle.type_parameters, parameters)

(***************************************************************************)
(* Units                                                                   *)
(***************************************************************************)
CommonInBounds(u) ==
    /\ CheckSignaturesBound(u)
    /\ CheckConstantsBound(u)
    /\ CheckModuleHandles(u)
    /\ IsScript(u) \/ Has(u.module_handles, u.self_module_handle_idx)
    /\ \A h \in Range(u.struct_handles) : CheckStructHandle(u, h)
    /\ \A h \in Range(u.function_handles) : CheckFunctionHandle(u, h)

ModuleInBounds(m) ==
    /\ m.module_handles # <<>>
    /\ CommonInBounds(m)
    /\ \A h \in Range(m.field_handles) : CheckFieldHandle(m, h)
    /\ \A h \in Range(m.friend_decls) : CheckModuleHandle(m, h)
    /\ \A s \in Range(m.struct_def_instantiations) : CheckStructInstantiation(m, s)
    /\ \A f \in Range(m.function_instantiations) : CheckFunctionInstantiation(m, f)
    /\ \A f \in Range(m.field_instantiations) : CheckFieldInstantiation(m, f)
    /\ \A d \in Range(m.struct_defs) : CheckStructDef(m, d)
    /\ \A d \in Range(m.function_defs) : CheckFunctionDef(m, d)

\* The parameters' own type parameters are not compared with the script's.
ScriptInBounds(s) ==
    /\ CommonInBounds(s)
    /\ \A f \in Range(s.function_instantiations) : CheckFunctionInstantiation(s, f)
    /\ Has(s.signatures, s.parameters)
    /\ CheckCode(s, s.main, s.type_parameters, At(s.signatures, s.parameters))
============================================================================
