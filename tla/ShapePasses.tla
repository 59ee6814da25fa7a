--------------------------- MODULE ShapePasses ---------------------------
(* The passes that look at a unit's tables and types: duplication,         *)
(* signatures, instruction consistency, friends, field abilities and the   *)
(* signature of an entry point.  All of them run on units in bounds.       *)
EXTENDS ModuleView

(***************************************************************************)
(* check_duplication.rs                                                    *)
(***************************************************************************)
Project(table, Key(_)) == [i \in DOMAIN table |-> Key(table[i])]

NameKey(h) == <<h.module, h.name>>

CommonDistinct(u) ==
    /\ IsInjective(u.identifiers)
    /\ IsInjective(u.address_identifiers)
    /\ IsInjective(u.constant_pool)
    /\ IsInjective(u.signatures)
    /\ IsInjective(u.module_handles)
    /\ IsInjective(Project(u.struct_handles, NameKey))
    /\ IsInjective(Project(u.function_handles, NameKey))
    /\ IsInjective(u.function_instantiations)

\* Definitions point to handles of this module, one to one; every handle of
\* this module has its definition.
DefinesOwnHandles(m, handles, defined) ==
    /\ IsInjective(defined)
    /\ \A h \in Range(defined) : At(handles, h).module = m.self_module_handle_idx
    /\ \A h \in Indices(handles) :
        At(handles, h).module = m.self_module_handle_idx => h \in Range(defined)

CheckFunctionDefinitions(m) ==
    /\ DefinesOwnHandles(m, m.function_handles, Project(m.function_defs, LAMBDA d : d.function))
    /\ \A d \in Range(m.function_defs) : IsInjective(d.acquires)

CheckStructDefinitions(m) ==
    /\ DefinesOwnHandles(m, m.struct_handles, Project(m.struct_defs, LAMBDA d : d.struct_handle))
    /\ \A d \in Range(m.struct_defs) : ~d.field_information.native =>
        /\ d.field_information.fields # <<>>
        /\ IsInjective(Project(d.field_information.fields, LAMBDA f : f.name))

ModuleDistinct(m) ==
    /\ CommonDistinct(m)
    /\ IsInjective(m.friend_decls)
    /\ IsInjective(m.field_handles)
    /\ IsInjective(m.field_instantiations)
    /\ CheckFunctionDefinitions(m)
    /\ CheckStructDefinitions(m)
    /\ IsInjective(m.struct_def_instantiations)

(***************************************************************************)
(* signature.rs                                                            *)
(***************************************************************************)
\* No references are permitted.
CheckSignatureToken(t) == \A n \in Nodes(t) : ~IsReference(n)

CheckSignatureTokens(tys) == \A t \in Range(tys) : CheckSignatureToken(t)

\* References are permitted at the top level.
CheckSignature(sig) ==
    \A t \in Range(sig) : CheckSignatureToken(IF IsReference(t) THEN t.of ELSE t)

CheckGenericInstance(u, args, constraints, global_abilities) ==
    /\ Len(args) = Len(constraints)
    /\ \A p \in DOMAIN args : constraints[p] \subseteq Abilities(u, args[p], global_abilities)

\* Only an instantiation at the top of the type is looked at.
CheckTypeInstantiation(u, t, type_parameters) ==
    t.k = "inst" =>
        CheckGenericInstance(u, t.args, Constraints(At(u.struct_handles, t.h)), type_parameters)

CheckInstantiation(u, sig, type_parameters) ==
    \A t \in Range(sig) : CheckTypeInstantiation(u, t, type_parameters)

RECURSIVE CheckPhantomParams(_, _, _, _)
CheckPhantomParams(u, t, is_phantom_pos, type_parameters) ==
    CASE t.k = "vector" -> CheckPhantomParams(u, t.of, FALSE, type_parameters)
      [] t.k = "inst" -> \A p \in DOMAIN t.args :
            CheckPhantomParams(u, t.args[p],
                At(u.struct_handles, t.h).type_parameters[p].is_phantom, type_parameters)
      [] t.k = "param" -> At(type_parameters, t.i).is_phantom => is_phantom_pos
      [] OTHER -> TRUE

VerifyFunctionSignature(u, h) ==
    \A sig \in {At(u.signatures, h.return_), At(u.signatures, h.parameters)} :
        CheckSignature(sig) /\ CheckInstantiation(u, sig, h.type_parameters)

VerifyFields(u, d) ==
    LET handle == At(u.struct_handles, d.struct_handle)
    IN  ~d.field_information.native =>
            \A f \in Range(d.field_information.fields) :
                /\ CheckSignatureToken(f.signature)
                /\ CheckTypeInstantiation(u, f.signature, Constraints(handle))
                /\ CheckPhantomParams(u, f.signature, FALSE, handle.type_parameters)

VerifyInstruction(u, i, type_parameters) ==
    /\ i.op \in GenericOps =>
        /\ OperandTable(i.op) \in DOMAIN u
        /\ CheckSignatureTokens(TypeArguments(u, i))
        /\ CheckGenericInstance(u, TypeArguments(u, i), FormalsOf(u, i), type_parameters)
    /\ i.op \in VectorOps =>
        Len(TypeArguments(u, i)) = 1 /\ CheckSignatureTokens(TypeArguments(u, i))

VerifyCode(u, unit, type_parameters) ==
    /\ CheckSignature(At(u.signatures, unit.locals))
    /\ CheckInstantiation(u, At(u.signatures, unit.locals), type_parameters)
    /\ \A i \in Instructions(unit) : VerifyInstruction(u, i, type_parameters)

CommonSignatures(u) ==
    /\ \A sig \in Range(u.signatures) : CheckSignature(sig)
    /\ \A h \in Range(u.function_handles) : VerifyFunctionSignature(u, h)

VerifyCodeUnits(m) ==
    \A d \in Range(m.function_defs) : ~d.code.native =>
        VerifyCode(m, d.code, At(m.function_handles, d.function).type_parameters)

ModuleSignatures(m) ==
    /\ CommonSignatures(m)
    /\ \A d \in Range(m.struct_defs) : VerifyFields(m, d)
    /\ VerifyCodeUnits(m)

ScriptSignatures(s) == CommonSignatures(s) /\ VerifyCode(s, s.main, s.type_parameters)

(***************************************************************************)
(* instruction_consistency.rs                                              *)
(***************************************************************************)
\* A generic instruction is about something generic, a plain one is not.
CheckMember(u, i) ==
    i.op \in PlainOps \union GenericOps =>
        /\ OperandTable(i.op) \in DOMAIN u
        /\ (i.op \in GenericOps) = (FormalsOf(u, i) # <<>>)

CheckInstructions(u, unit) == \A i \in Instructions(unit) : CheckMember(u, i)

ModuleConsistent(m) ==
    \A d \in Range(m.function_defs) : ~d.code.native => CheckInstructions(m, d.code)

ScriptConsistent(s) == CheckInstructions(s, s.main)

(***************************************************************************)
(* friends.rs, ability_field_requirements.rs, script_signature.rs          *)
(***************************************************************************)
FriendsVerified(m) ==
    LET self == At(m.module_handles, m.self_module_handle_idx)
    IN  /\ self \notin Range(m.friend_decls)
        /\ \A h \in Range(m.friend_decls) :
            At(m.address_identifiers, h.address) = At(m.address_identifiers, self.address)

\* Type parameters count as having every ability.
FieldsHaveAbilities(m) ==
    \A d \in Range(m.struct_defs) : ~d.field_information.native =>
        LET handle == At(m.struct_handles, d.struct_handle)
            required == {Requires[a] : a \in handle.abilities}
            parameters == [p \in DOMAIN handle.type_parameters |-> Ability]
        IN  \A f \in Range(d.field_information.fields) :
                required \subseteq Abilities(m, f.signature, parameters)

\* How an entry point of a unit of this version takes its signers.
SignerParameter(version) == IF version <= 1 THEN RefTo(Prim("signer")) ELSE Prim("signer")

\* Mutant: signers may come anywhere.
SignersAnywhere(u, arguments, returned) ==
    /\ \A i \in DOMAIN arguments :
        arguments[i] = SignerParameter(u.version) \/ IsValidForConstant(arguments[i])
    /\ returned = <<>>

\* Signers come first; what follows has types constants may have.
VerifyMainSignature(u, arguments, returned) ==
    /\ \E n \in 0..Len(arguments) :
        /\ \A i \in 1..n : arguments[i] = SignerParameter(u.version)
        /\ \A i \in (n + 1)..Len(arguments) : IsValidForConstant(arguments[i])
    /\ returned = <<>>

ScriptEntry(s) == VerifyMainSignature(s, At(s.signatures, s.parameters), <<>>)

\* A function called as the entry point of a transaction.
ModuleScriptFunction(m, d) ==
    LET handle == At(m.function_handles, d.function)
    IN  /\ d.visibility = "script"
        /\ VerifyMainSignature(m, At(m.signatures, handle.parameters),
                               At(m.signatures, handle.return_))
============================================================================
