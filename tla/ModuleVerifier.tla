-------------------------- MODULE ModuleVerifier --------------------------
(* A compiled unit goes through the passes of verify_module or of           *)
(* verify_script, in their order (verifier.rs), up to the passes on code    *)
(* units; an accepted unit is linked with the modules it imports            *)
(* (dependencies.rs), and a linked script or script function is called.     *)
EXTENDS BoundsPass, ShapePasses, LoopPasses, Bcs, Linking

CONSTANTS
    Families,       \* the modules and scripts that are submitted: a list of sets
    Library,        \* the modules that imports are looked up in
    SenderLists,    \* the senders a transaction may have
    ArgumentLists,  \* the argument bytes it may carry
    Ground,         \* closed types that type parameters are bound to
    Fuel,           \* how far types and instantiations are unfolded
    None

VARIABLES
    unit,   \* the unit being verified
    stage,  \* the pass it has come to, or the verdict
    call    \* the entry point called last, with its arguments

vars == <<unit, stage, call>>

---------------------------------------------------------------------------
(* What an entry point is called with (runtime.rs): signers built from the  *)
(* senders of the transaction, the other arguments read from bytes.         *)

Signer(address) == [k |-> "signer", v |-> address]
SignerReference(address) == [k |-> "signer_ref", v |-> address]

NoArguments == [ok |-> FALSE]
Arguments(values) == [ok |-> TRUE, values |-> values]

\* type_to_type_layout: the types that have one and occur in these units.
RECURSIVE HasLayout(_)
HasLayout(t) == t.k \in Primitive \/ (t.k = "vector" /\ HasLayout(t.of))

\* A reference to a signer can be made from the bytes of a signer.
DeserializeArg(t, bytes) ==
    IF t = RefTo(Prim("signer"))
    THEN Then(FromBytes(Prim("signer"), bytes), LAMBDA r : Arguments(<<SignerReference(r.v.v)>>))
    ELSE IF HasLayout(t) THEN Then(FromBytes(t, bytes), LAMBDA r : Arguments(<<r.v>>))
    ELSE NoArguments

\* Arguments before and after.
Joined(vals, more) ==
    Then(vals, LAMBDA v : Then(more, LAMBDA w : Arguments(v.values \o w.values)))

DeserializeArgs(tys, args) ==
    IF Len(tys) # Len(args) THEN NoArguments
    ELSE FoldLeft(Joined, Arguments(<<>>), [i \in DOMAIN tys |-> DeserializeArg(tys[i], args[i])])

NumberOfSignerParams(version, tys) ==
    LET others == {i \in DOMAIN tys : tys[i] # SignerParameter(version)}
    IN  IF others = {} THEN Len(tys) ELSE (CHOOSE i \in others : \A j \in others : i <= j) - 1

\* All signers are used, or none.
CreateSignersAndArguments(version, tys, senders, args) ==
    LET n == NumberOfSignerParams(version, tys)
        make(a) == IF version <= 1 THEN SignerReference(a) ELSE Signer(a)
    IN  IF n > 0 /\ n # Len(senders) THEN NoArguments
        ELSE Joined(Arguments([i \in 1..n |-> make(senders[i])]),
                    DeserializeArgs(SubSeq(tys, n + 1, Len(tys)), args))

---------------------------------------------------------------------------
(* The passes in their order.                                               *)

LinkStages == <<"imported_modules", "imported_structs", "imported_functions",
    "script_visibility", "linked">>
ModuleStages == <<"bounds", "duplication", "signature", "consistency", "constants",
    "friends", "field_abilities", "recursive_structs", "instantiation_loops">> \o LinkStages
ScriptStages == <<"bounds", "duplication", "signature", "consistency", "constants",
    "script_signature">> \o LinkStages

Stages == IF IsScript(unit) THEN ScriptStages ELSE ModuleStages
Position(s) == CHOOSE i \in DOMAIN Stages : Stages[i] = s

\* The unit has come through every pass that looks at it alone.
Accepted == stage = "imported_modules"

\* The unit has passed this stage.
Past(s) == stage # "rejected" /\ Position(stage) > Position(s)

Init == (\E f \in DOMAIN Families : unit \in Families[f]) /\ stage = "bounds" /\ call = None

Pass(s, ok) ==
    /\ stage = s
    /\ stage' = IF ok THEN Stages[Position(s) + 1] ELSE "rejected"
    /\ UNCHANGED <<unit, call>>

BoundsChecker == Pass("bounds", IF IsScript(unit) THEN ScriptInBounds(unit) ELSE ModuleInBounds(unit))

DuplicationChecker ==
    Pass("duplication", IF IsScript(unit) THEN CommonDistinct(unit) ELSE ModuleDistinct(unit))

SignatureChecker ==
    Pass("signature", IF IsScript(unit) THEN ScriptSignatures(unit) ELSE ModuleSignatures(unit))

InstructionConsistency ==
    Pass("consistency", IF IsScript(unit) THEN ScriptConsistent(unit) ELSE ModuleConsistent(unit))

Constants == Pass("constants", ConstantsVerified(unit))
Friends == Pass("friends", FriendsVerified(unit))
AbilityFieldRequirements == Pass("field_abilities", FieldsHaveAbilities(unit))
RecursiveStructDefChecker == Pass("recursive_structs", StructsNotRecursive(unit))
InstantiationLoopChecker == Pass("instantiation_loops", NoInstantiationLoops(unit))
ScriptSignature == Pass("script_signature", ScriptEntry(unit))

ImportedModules == Pass("imported_modules", VerifyImportedModules(unit, Library))
ImportedStructs == Pass("imported_structs", VerifyImportedStructs(unit, Library))
ImportedFunctions == Pass("imported_functions", VerifyImportedFunctions(unit, Library))
ScriptVisibility == Pass("script_visibility", VerifyAllScriptVisibilityUsage(unit, Library))

Enter(tys, senders, args) ==
    /\ call' = [senders |-> senders,
                arguments |-> CreateSignersAndArguments(unit.version, tys, senders, args)]
    /\ UNCHANGED <<unit, stage>>

ExecuteScript ==
    /\ stage = "linked" /\ call = None /\ IsScript(unit)
    /\ \E senders \in SenderLists, args \in ArgumentLists :
        Enter(At(unit.signatures, unit.parameters), senders, args)

ExecuteScriptFunction ==
    /\ stage = "linked" /\ call = None /\ ~IsScript(unit)
    /\ \E d \in Range(unit.function_defs), senders \in SenderLists, args \in ArgumentLists :
        /\ ModuleScriptFunction(unit, d)
        /\ Enter(At(unit.signatures, At(unit.function_handles, d.function).parameters),
                 senders, args)

Next ==
    \/ BoundsChecker \/ DuplicationChecker \/ SignatureChecker \/ InstructionConsistency
    \/ Constants \/ Friends \/ AbilityFieldRequirements \/ RecursiveStructDefChecker
    \/ InstantiationLoopChecker \/ ScriptSignature
    \/ ImportedModules \/ ImportedStructs \/ ImportedFunctions \/ ScriptVisibility
    \/ ExecuteScript \/ ExecuteScriptFunction

Spec == Init /\ [][Next]_vars

(***************************************************************************)
(* What the properties are stated with                                     *)
(***************************************************************************)
RECURSIVE Subst(_, _)
Subst(t, args) ==
    CASE t.k = "param" -> At(args, t.i)
      [] t.k \in {"vector", "ref", "mut"} -> [t EXCEPT !.of = Subst(t.of, args)]
      [] t.k = "inst" -> [t EXCEPT !.args = [p \in DOMAIN t.args |-> Subst(t.args[p], args)]]
      [] OTHER -> t

HasName(u, h) ==
    /\ Has(u.module_handles, h.module)
    /\ LET m == At(u.module_handles, h.module)
       IN  Has(u.address_identifiers, m.address) /\ Has(u.identifiers, m.name)
    /\ Has(u.identifiers, h.name)

\* Everything a type names exists, and its parameters are in scope.
WellScoped(u, t, scope) ==
    \A n \in Nodes(t) :
        /\ n.k = "param" => n.i < scope
        /\ n.k \in {"struct", "inst"} =>
            /\ Has(u.struct_handles, n.h)
            /\ HasName(u, At(u.struct_handles, n.h))
            /\ Len(At(u.struct_handles, n.h).type_parameters) = Len(Children(n))

ScopedSignature(u, s, scope) ==
    Has(u.signatures, s) /\ \A t \in Range(At(u.signatures, s)) : WellScoped(u, t, scope)

HasStruct(u, def) ==
    Has(u.struct_defs, def) /\ Has(u.struct_handles, At(u.struct_defs, def).struct_handle)

HasField(u, h) ==
    /\ Has(u.field_handles, h)
    /\ LET f == At(u.field_handles, h)
       IN  /\ HasStruct(u, f.owner)
           /\ ~At(u.struct_defs, f.owner).field_information.native
           /\ Has(At(u.struct_defs, f.owner).field_information.fields, f.field)

HasFunction(u, h) == Has(u.function_handles, h) /\ HasName(u, At(u.function_handles, h))

\* The lookups that executing an instruction starts.
Resolves(u, i, scope) ==
    LET inst == At(u[OperandTable(i.op)], i.arg)
        scoped == Has(u[OperandTable(i.op)], i.arg) /\ ScopedSignature(u, inst.type_parameters, scope)
    IN  CASE i.op = "LD_CONST" -> Has(u.constant_pool, i.arg)
          [] i.op = "CALL" -> HasFunction(u, i.arg)
          [] i.op \in StructOps -> HasStruct(u, i.arg)
          [] i.op \in FieldOps -> HasField(u, i.arg)
          [] i.op = "CALL_GENERIC" -> scoped /\ HasFunction(u, inst.handle)
          [] i.op \in StructGenericOps -> scoped /\ HasStruct(u, inst.def)
          [] i.op \in FieldGenericOps -> scoped /\ HasField(u, inst.handle)
          [] i.op \in VectorOps -> ScopedSignature(u, i.arg, scope)
          [] OTHER -> TRUE

\* The functions of a module that have code.
Coded(m) == {d \in Range(m.function_defs) : ~d.code.native}
Scope(m, d) == Len(At(m.function_handles, d.function).type_parameters)

\* Closed arguments for n type parameters.
Bindings(n) == [1..n -> Ground]

\* The types an instruction is given, of the caller's parameters.
Actuals(u, i) == IF i.op \in GenericOps THEN TypeArguments(u, i) ELSE <<>>

FieldTypes(m, def) ==
    LET info == At(m.struct_defs, def).field_information
    IN  IF info.native THEN {} ELSE {f.signature : f \in Range(info.fields)}

\* The types of what an instruction hands to its target or takes from it.
TargetTypes(m, i) ==
    LET target == IF i.op \in GenericOps THEN At(m[OperandTable(i.op)], i.arg)
                  ELSE [handle |-> i.arg, def |-> i.arg]
    IN  CASE i.op \in {"CALL", "CALL_GENERIC"} ->
                Range(At(m.signatures, At(m.function_handles, target.handle).parameters))
          [] i.op \in StructOps \union StructGenericOps -> FieldTypes(m, target.def)
          [] OTHER -> {}

\* The type unfolds to one without structs in fewer than fuel steps.
RECURSIVE Unfolds(_, _, _)
Unfolds(m, t, fuel) ==
    /\ fuel > 0
    /\ t.k = "vector" => Unfolds(m, t.of, fuel)
    /\ t.k \in {"struct", "inst"} =>
        \A d \in Indices(m.struct_defs) : At(m.struct_defs, d).struct_handle = t.h =>
            \A f \in FieldTypes(m, d) : Unfolds(m, Subst(f, Children(t)), fuel - 1)

\* Functions of this module with closed type arguments, and those they call.
Instances(m) ==
    { <<d, b>> : d \in Indices(m.function_defs), b \in UNION {Bindings(n) : n \in 0..2} }
Callees(m, instance) ==
    LET def == At(m.function_defs, instance[1])
        calls == {i \in Instructions(def.code) : i.op \in {"CALL", "CALL_GENERIC"}}
        handle(i) == IF i.op = "CALL" THEN i.arg ELSE At(m.function_instantiations, i.arg).handle
    IN  IF def.code.native THEN {}
        ELSE UNION { { <<d, [p \in DOMAIN Actuals(m, i) |-> Subst(Actuals(m, i)[p], instance[2])]>> :
                       d \in {e \in Indices(m.function_defs) :
                              At(m.function_defs, e).function = handle(i)} } : i \in calls }

RECURSIVE Called(_, _, _)
Called(m, instances, fuel) ==
    IF fuel = 0 THEN instances
    ELSE Called(m, instances \union UNION {Callees(m, c) : c \in instances}, fuel - 1)

\* A type with the names of what it is built from, whichever unit it is from.
RECURSIVE NamedType(_, _)
NamedType(u, t) ==
    LET h == At(u.struct_handles, t.h)
    IN  [k |-> t.k,
         name |-> CASE t.k \in {"struct", "inst"} ->
                        <<ModuleName(u, h.module), At(u.identifiers, h.name)>>
                    [] t.k = "param" -> t.i
                    [] OTHER -> <<>>,
         of |-> [c \in DOMAIN Children(t) |-> NamedType(u, Children(t)[c])]]

NamedSignature(u, sig) ==
    LET tokens == At(u.signatures, sig) IN [i \in DOMAIN tokens |-> NamedType(u, tokens[i])]

\* The code of a unit, with the visibility it runs with.
Bodies(u) ==
    IF IsScript(u) THEN {[visibility |-> "script", code |-> u.main]}
    ELSE {[visibility |-> d.visibility, code |-> d.code] : d \in Coded(u)}

\* What an imported handle stands for, and in which module.
Definitions(u, handle) ==
    UNION { {<<d, def>> : def \in FunctionDefs(u, d, handle)} :
            d \in {l \in Library : SelfId(l) = ModuleName(u, handle.module)} }
DefinedStruct(u, handle) ==
    IF IsOwn(u, handle) THEN handle
    ELSE CHOOSE h \in UNION {StructIdToHandle(u, d, handle) :
                              d \in {l \in Library : SelfId(l) = ModuleName(u, handle.module)}} : TRUE

\* The abilities of a closed type as the modules that define its structs
\* declare them.
RECURSIVE TrueAbilities(_, _)
TrueAbilities(u, t) ==
    CASE t.k \in {"struct", "inst"} ->
            LET h == DefinedStruct(u, At(u.struct_handles, t.h))
            IN  PolymorphicAbilities(h.abilities,
                    [p \in DOMAIN h.type_parameters |-> h.type_parameters[p].is_phantom],
                    [c \in DOMAIN Children(t) |-> TrueAbilities(u, Children(t)[c])])
      [] t.k = "vector" ->
            PolymorphicAbilities(Primitives, <<FALSE>>, <<TrueAbilities(u, t.of)>>)
      [] OTHER -> Abilities(u, t, <<>>)

\* Closed types of a unit.
ClosedTypes(u) ==
    LET plain == {t \in Ground : \A n \in Nodes(t) :
            n.k \in {"struct", "inst"} => Has(u.struct_handles, n.h) /\
                Len(At(u.struct_handles, n.h).type_parameters) = Len(Children(n))}
    IN  plain \union { InstTok(h, <<t>>) : t \in plain,
            h \in {g \in Indices(u.struct_handles) : Len(At(u.struct_handles, g).type_parameters) = 1} }

RECURSIVE HoldsSigner(_)
HoldsSigner(value) ==
    \/ value.k \in {"signer", "signer_ref"}
    \/ value.k = "vector" /\ \E i \in DOMAIN value.v : HoldsSigner(value.v[i])

(***************************************************************************)
(* Properties                                                              *)
(***************************************************************************)
\* After the bounds pass no lookup that starts at code or at a field type
\* leaves its table, however many tables it goes through: the later passes
\* and the loader index without asking (check_bounds.rs, file_format.rs).
LookupsStayInside ==
    (Past("bounds") /\ ~IsScript(unit)) =>
        /\ \A d \in Range(unit.function_defs) :
            /\ HasFunction(unit, d.function)
            /\ \A a \in Range(d.acquires) : HasStruct(unit, a)
            /\ LET h == At(unit.function_handles, d.function)
               IN  /\ ScopedSignature(unit, h.parameters, Scope(unit, d))
                   /\ ScopedSignature(unit, h.return_, Scope(unit, d))
            /\ d.code.native \/
                /\ ScopedSignature(unit, d.code.locals, Scope(unit, d))
                /\ \A i \in Instructions(d.code) : Resolves(unit, i, Scope(unit, d))
        /\ \A def \in Indices(unit.struct_defs) :
            /\ HasStruct(unit, def)
            /\ \A t \in FieldTypes(unit, def) :
                WellScoped(unit, t, Len(StructHandleOf(unit, def).type_parameters))

\* After the duplication pass a function or struct has one handle, and the
\* handles with the name of this module are the ones it defines: the loader
\* looks up by name what the code refers to by index (check_duplication.rs).
NamesTellHandlesApart ==
    Past("duplication") =>
        /\ \A table \in {"function_handles", "struct_handles"} :
            IsInjective([i \in DOMAIN unit[table] |->
                <<ModuleName(unit, unit[table][i].module), At(unit.identifiers, unit[table][i].name)>>])
        /\ ~IsScript(unit) =>
            \A h \in Indices(unit.function_handles) :
                (ModuleName(unit, At(unit.function_handles, h).module) =
                    ModuleName(unit, unit.self_module_handle_idx)) =
                (h \in {d.function : d \in Range(unit.function_defs)})

\* In an accepted module the types of the fields and parameters that an
\* instruction deals with are closed by the type arguments it carries: no
\* type parameter of the target is left over (instruction_consistency.rs).
TypesAreClosed ==
    (Accepted /\ ~IsScript(unit)) =>
        \A d \in Coded(unit) : \A i \in Instructions(d.code) :
            i.op \in PlainOps \union GenericOps =>
                \A t \in TargetTypes(unit, i) : \A n \in Nodes(t) :
                    n.k = "param" =>
                        /\ Has(Actuals(unit, i), n.i)
                        /\ WellScoped(unit, At(Actuals(unit, i), n.i), Scope(unit, d))

\* In an accepted module, whatever closed types a struct is instantiated
\* with, its fields have what the abilities of the instance require: a value
\* that may be copied, dropped or stored holds nothing that may not
\* (ability_field_requirements.rs, polymorphic_abilities, phantom checks).
AbilitiesSound ==
    (Accepted /\ ~IsScript(unit)) =>
        \A def \in Indices(unit.struct_defs) :
            LET h == At(unit.struct_defs, def).struct_handle
                n == Len(At(unit.struct_handles, h).type_parameters)
            IN  \A b \in Bindings(n) :
                    LET instance == IF n = 0 THEN StructTok(h) ELSE InstTok(h, b)
                    IN  \A a \in Abilities(unit, instance, <<>>), t \in FieldTypes(unit, def) :
                            Requires[a] \in Abilities(unit, Subst(t, b), <<>>)

\* A function verified once stays right for every instantiation: if its type
\* arguments satisfy its constraints, so do those of everything it calls or
\* builds (signature.rs, check_generic_instance).
ConstraintsSurviveCalls ==
    (Accepted /\ ~IsScript(unit)) =>
        \A d \in Coded(unit) :
            LET constraints == At(unit.function_handles, d.function).type_parameters
            IN  \A b \in Bindings(Len(constraints)) :
                    (\A p \in DOMAIN b : constraints[p] \subseteq Abilities(unit, b[p], <<>>)) =>
                    \A i \in {j \in Instructions(d.code) : j.op \in GenericOps} :
                        \A p \in DOMAIN FormalsOf(unit, i) :
                            FormalsOf(unit, i)[p] \subseteq
                                Abilities(unit, Subst(Actuals(unit, i)[p], b), <<>>)

\* No accepted struct contains itself, through vectors, type arguments or
\* other structs: every type has a layout (struct_defs.rs).
LayoutsAreFinite ==
    (Accepted /\ ~IsScript(unit)) =>
        \A def \in Indices(unit.struct_defs) :
            LET h == At(unit.struct_defs, def).struct_handle
            IN  \A b \in Bindings(Len(At(unit.struct_handles, h).type_parameters)) :
                    Unfolds(unit, InstTok(h, b), Fuel)

\* Calls between the functions of an accepted module lead to finitely many
\* instances of them: the pass eliminates the call sites that could lead to
\* an infinite number of specialized instances (instantiation_loops.rs:10-13).
InstancesAreFinite ==
    (Accepted /\ ~IsScript(unit)) =>
        LET start == {c \in Instances(unit) :
                        Len(c[2]) = Scope(unit, At(unit.function_defs, c[1]))}
            reached == Called(unit, start, Fuel)
        IN  UNION {Callees(unit, c) : c \in reached} \subseteq reached

\* The functions with code come before the native ones.
NativesLast(m) ==
    \A d, e \in Indices(m.function_defs) :
        d < e /\ At(m.function_defs, d).code.native => At(m.function_defs, e).code.native

\* The friends of an accepted module are other modules of its account, by
\* name and not only by handle (friends.rs, check_duplication.rs).
FriendsAreOthers ==
    (Accepted /\ ~IsScript(unit)) =>
        LET self == ModuleName(unit, unit.self_module_handle_idx)
        IN  \A h \in Range(unit.friend_decls) :
                /\ At(unit.address_identifiers, h.address) = self[1]
                /\ At(unit.identifiers, h.name) # self[2]

\* What a unit refers to by index or by name is what the passes and the
\* loader find: inside the tables, told apart by name, closed by the type
\* arguments given, and with friends that are others.
LookupsSound ==
    LookupsStayInside /\ NamesTellHandlesApart /\ TypesAreClosed /\ FriendsAreOthers

\* What abilities promise holds for every instance of a struct or function.
AbilitiesSurvive == AbilitiesSound /\ ConstraintsSurviveCalls

\* The loader ends: the layouts of what was accepted are finite, and so are
\* the instances of its functions when the native ones are defined last.
\* After a native function the instantiation pass gives callers the numbers
\* of other functions and misses loops (instantiation_loops.rs:232-239).
TypesAreFinite ==
    /\ LayoutsAreFinite
    /\ (~IsScript(unit) /\ NativesLast(unit)) => InstancesAreFinite

\* Constants that pass verification load when they are executed, and their
\* bytes are the only ones that read as their value (constants.rs, bcs).
ConstantsLoad ==
    Past("constants") =>
        \A c \in Range(unit.constant_pool) :
            /\ DeserializeConstant(c).ok
            /\ ToBytes(DeserializeConstant(c).v) = Written(c.data)

\* A signer that reaches an entry point is a sender of the transaction, in
\* its place: none is read from argument bytes, although the reader can make
\* one (runtime.rs, script_signature.rs).
SignersAreSenders ==
    (call # None /\ call.arguments.ok) =>
        \A i \in DOMAIN call.arguments.values :
            HoldsSigner(call.arguments.values[i]) =>
                i <= Len(call.senders) /\ call.arguments.values[i].v = call.senders[i]

\* In a linked unit a handle of an imported function says of its parameters
\* and results what the definition says, struct by struct and by name, also
\* for structs of a third module (compare_types, compare_structs).
LinkedTypesAgree ==
    stage = "linked" =>
        \A handle \in Range(unit.function_handles) : ~IsOwn(unit, handle) =>
            \E e \in Definitions(unit, handle) :
                LET defined == At(e[1].function_handles, e[2].function)
                IN  /\ NamedSignature(unit, handle.parameters) = NamedSignature(e[1], defined.parameters)
                    /\ NamedSignature(unit, handle.return_) = NamedSignature(e[1], defined.return_)

\* What a linked unit may do with a value of a type built from imported
\* structs, the modules that define them allow; and the constraints that an
\* imported function puts on its type arguments hold for them there too
\* (compatible_struct_abilities, compatible_type_parameter_phantom_decl).
ImportsOnlyRestrict ==
    stage = "linked" =>
        /\ \A t \in ClosedTypes(unit) : Abilities(unit, t, <<>>) \subseteq TrueAbilities(unit, t)
        /\ \A handle \in Range(unit.function_handles) : ~IsOwn(unit, handle) =>
            \E e \in Definitions(unit, handle) :
                \A t \in ClosedTypes(unit) : \A p \in DOMAIN handle.type_parameters :
                    handle.type_parameters[p] \subseteq Abilities(unit, t, <<>>) =>
                    At(e[1].function_handles, e[2].function).type_parameters[p]
                        \subseteq TrueAbilities(unit, t)

\* An importer and the module it imports mean the same by every handle they
\* share, and the importer never claims more (dependencies.rs).
ImportsAgree == LinkedTypesAgree /\ ImportsOnlyRestrict

\* Code of a linked unit calls only functions that exist, and of another
\* module none that is private, none meant for friends unless it is one, and
\* none meant for scripts unless it is one itself; in particular the table of
\* visibilities that is indexed without asking has every function called.
CallsAreAllowed ==
    stage = "linked" =>
        \A body \in Bodies(unit) : \A h \in CalledHandles(unit, body.code) :
            LET handle == At(unit.function_handles, h)
                own == IsOwn(unit, handle)
                found == IF own
                         THEN {<<unit, f>> : f \in {g \in Range(unit.function_defs) : g.function = h}}
                         ELSE Definitions(unit, handle)
            IN  \E e \in found :
                    /\ e[2].visibility = "script" => body.visibility = "script"
                    /\ e[2].visibility = "private" => own
                    /\ e[2].visibility = "friend" =>
                        own \/ (~IsScript(unit) /\ SelfId(unit) \in ImmediateFriends(e[1]))
============================================================================
