--------------------------- MODULE RuntimeTypes ---------------------------
(* The tables code is run from (loader.rs): a loaded module or script has   *)
(* its handles replaced by indices into two global lists, of structs and    *)
(* of functions; a runtime type names a struct by such an index; and the    *)
(* tag and the layout of a struct type are cached under that index.         *)
(*                                                                          *)
(* Stored modules verify and link, which CodeLoader and ModuleVerifier are  *)
(* about; here the question is what the indices mean.  A runtime type has   *)
(* the shape of a signature token whose h is a global index.  The           *)
(* instructions of a frame run in any order.                                *)
EXTENDS Linking, ShapePasses

CONSTANTS
    Library,        \* the stored modules
    Scripts,        \* the scripts that are submitted: a list, and an index is the hash
    Tags,           \* lists of type arguments that a transaction may name
    LayoutTags,     \* types whose layout is asked for
    TypeDepthMax,   \* TYPE_DEPTH_MAX (256)
    ValueDepthMax,  \* VALUE_DEPTH_MAX (256)
    CallLimit       \* callers on the call stack (1024)

VARIABLES
    loader,     \* the module cache, the script cache and the type cache
    stack       \* the functions being run, with their type arguments

vars == <<loader, stack>>

(***************************************************************************)
(* Results: a step ends with the loader it leaves behind and, unless it    *)
(* fails, with a value                                                     *)
(***************************************************************************)
Done(ld, v) == [ok |-> TRUE, ld |-> ld, v |-> v]
Failed(ld) == [ok |-> FALSE, ld |-> ld, v |-> <<>>]
AndThen(r, Op(_, _)) == IF r.ok THEN Op(r.ld, r.v) ELSE r

\* Op on every element in turn, up to the first failure.
Each(Op(_, _), ld, s) ==
    FoldLeft(LAMBDA r, x : AndThen(r, LAMBDA l, vs :
                AndThen(Op(l, x), LAMBDA k, v : Done(k, Append(vs, v)))),
             Done(ld, <<>>), s)

(***************************************************************************)
(* Names to global indices                                                 *)
(***************************************************************************)
\* The name of no module: a script is being loaded.
NoModule == <<>>

EmptyLoader ==
    [structs |-> <<>>, functions |-> <<>>, modules |-> <<>>, scripts |-> <<>>,
     tags |-> <<>>, layouts |-> <<>>]

LastOf(set) == {i \in set : \A j \in set : j <= i}

\* The module being loaded is not in the cache yet: its entries are looked
\* for from the end of the list, up to the first of another module.
OwnEntry(list, id, name) ==
    LastOf({ i \in Indices(list) : At(list, i).name = name
                                   /\ \A j \in i..(Len(list) - 1) : At(list, j).module = id })

ResolveStructByName(ld, name, id) ==
    { ld.modules[i].struct_map[name] :
      i \in {j \in DOMAIN ld.modules : j = id /\ name \in DOMAIN ld.modules[j].struct_map} }

ResolveFunctionByName(ld, name, id) ==
    { ld.modules[i].function_map[name] :
      i \in {j \in DOMAIN ld.modules : j = id /\ name \in DOMAIN ld.modules[j].function_map} }

The(set) == CHOOSE x \in set : TRUE

Unresolved == [k |-> "unresolved"]
Resolved(tys) == \A t \in Range(tys) : \A n \in Nodes(t) : n # Unresolved

\* The struct a handle of the unit stands for, as a global index; loading is
\* the name of the unit while it is a module that is being loaded.
StructIndex(ld, loading, u, h) ==
    LET handle == At(u.struct_handles, h)
        name == At(u.identifiers, handle.name)
        id == ModuleName(u, handle.module)
    IN  IF id = loading THEN OwnEntry(ld.structs, id, name)
        ELSE ResolveStructByName(ld, name, id)

FunctionIndex(ld, loading, u, h) ==
    LET handle == At(u.function_handles, h)
        name == At(u.identifiers, handle.name)
        id == ModuleName(u, handle.module)
    IN  IF id = loading THEN OwnEntry(ld.functions, id, name)
        ELSE ResolveFunctionByName(ld, name, id)

RECURSIVE MakeType(_, _, _, _)
MakeType(ld, loading, u, t) ==
    LET made(s) == MakeType(ld, loading, u, s)
        found == StructIndex(ld, loading, u, t.h)
    IN  CASE t.k \in {"vector", "ref", "mut"} -> [t EXCEPT !.of = made(t.of)]
          [] t.k \in {"struct", "inst"} /\ found = {} -> Unresolved
          [] t.k = "struct" /\ found # {} -> StructTok(The(found))
          [] t.k = "inst" /\ found # {} ->
                InstTok(The(found), [a \in DOMAIN t.args |-> made(t.args[a])])
          [] OTHER -> t

MakeTypes(ld, loading, u, sig) == [i \in DOMAIN sig |-> MakeType(ld, loading, u, sig[i])]

(***************************************************************************)
(* Loaded modules and scripts                                              *)
(***************************************************************************)
MakeStructType(m, def) ==
    LET handle == At(m.struct_handles, def.struct_handle)
    IN  [module |-> SelfId(m), name |-> At(m.identifiers, handle.name),
         abilities |-> handle.abilities, type_parameters |-> handle.type_parameters,
         fields |-> <<>>]

MakeFunction(m, def) ==
    LET handle == At(m.function_handles, def.function)
    IN  [script |-> FALSE, module |-> SelfId(m), name |-> At(m.identifiers, handle.name),
         type_parameters |-> handle.type_parameters,
         parameters |-> At(m.signatures, handle.parameters),
         return_ |-> At(m.signatures, handle.return_),
         native |-> def.code.native, code |-> IF def.code.native THEN <<>> ELSE def.code.code]

FieldTypes(ld, m, def) ==
    MakeTypes(ld, SelfId(m), m, [f \in DOMAIN def.field_information.fields |->
                                    def.field_information.fields[f].signature])

\* All structs go in before the types of their fields, which may name them.
AddModule(ld, m) ==
    LET start == Len(ld.structs)
        bare == [ld EXCEPT !.structs = @ \o [d \in DOMAIN m.struct_defs |->
                                                MakeStructType(m, m.struct_defs[d])]]
        fields == [d \in DOMAIN m.struct_defs |-> FieldTypes(bare, m, m.struct_defs[d])]
    IN  IF \E d \in DOMAIN fields : ~Resolved(fields[d]) THEN Failed(ld)
        ELSE Done([bare EXCEPT
                !.structs = [i \in DOMAIN @ |->
                    IF i > start THEN [@[i] EXCEPT !.fields = fields[i - start]] ELSE @[i]],
                !.functions = @ \o [d \in DOMAIN m.function_defs |->
                                        MakeFunction(m, m.function_defs[d])]], m)

\* Indices of all handles of a table, in their order.  A search that comes
\* to the start of the list adds none.
StructRefs(ld, loading, u) ==
    FlattenSeq([h \in DOMAIN u.struct_handles |->
                    SetToSeq(StructIndex(ld, loading, u, h - 1))])
FunctionRefs(ld, loading, u) ==
    FlattenSeq([h \in DOMAIN u.function_handles |->
                    SetToSeq(FunctionIndex(ld, loading, u, h - 1))])

\* The search for an entry of the module itself fails when it meets an
\* entry of another module, any other search when there is no entry.
HandlesResolve(ld, loading, u) ==
    /\ \A h \in Indices(u.struct_handles) : StructIndex(ld, loading, u, h) = {} =>
        /\ ModuleName(u, At(u.struct_handles, h).module) = loading
        /\ \A s \in Range(ld.structs) : s.module = loading
    /\ \A h \in Indices(u.function_handles) : FunctionIndex(ld, loading, u, h) = {} =>
        /\ ModuleName(u, At(u.function_handles, h).module) = loading
        /\ \A f \in Range(ld.functions) : f.module = loading

\* The types of the vector instructions of a code unit, by signature.
SingleSignatureTokenMap(ld, loading, u, units) ==
    [ si \in UNION { {i.arg : i \in {j \in Instructions(c) : j.op \in VectorOps}} :
                     c \in {d \in units : ~d.native} } |->
        MakeType(ld, loading, u, At(u.signatures, si)[1]) ]

FunctionInstantiations(ld, loading, u, refs) ==
    [ i \in DOMAIN u.function_instantiations |->
        LET f == u.function_instantiations[i]
        IN  [handle |-> At(refs, f.handle),
             instantiation |-> MakeTypes(ld, loading, u, At(u.signatures, f.type_parameters))] ]

NewModule(ld, m) ==
    LET id == SelfId(m)
        refs == StructRefs(ld, id, m)
        calls == FunctionRefs(ld, id, m)
        structs == [ d \in DOMAIN m.struct_defs |->
            LET idx == At(refs, m.struct_defs[d].struct_handle)
            IN  [idx |-> idx, field_count |-> Len(At(ld.structs, idx).fields)] ]
        owners == [ f \in DOMAIN m.field_handles |->
            [owner |-> At(structs, m.field_handles[f].owner).idx,
             offset |-> m.field_handles[f].field] ]
        structName(d) == At(m.identifiers, StructHandleOf(m, d - 1).name)
        functionName(d) ==
            At(m.identifiers, At(m.function_handles, m.function_defs[d].function).name)
    IN  [ struct_refs |-> refs, structs |-> structs,
          struct_instantiations |-> [ i \in DOMAIN m.struct_def_instantiations |->
            LET s == m.struct_def_instantiations[i]
            IN  At(structs, s.def) @@
                [instantiation |-> MakeTypes(ld, id, m, At(m.signatures, s.type_parameters))] ],
          function_refs |-> calls,
          function_instantiations |-> FunctionInstantiations(ld, id, m, calls),
          field_handles |-> owners,
          field_instantiations |->
            [f \in DOMAIN m.field_instantiations |-> At(owners, m.field_instantiations[f].handle)],
          struct_map |-> [ n \in {structName(d) : d \in DOMAIN structs} |->
            structs[CHOOSE d \in DOMAIN structs : structName(d) = n].idx ],
          function_map |-> [ n \in {functionName(d) : d \in DOMAIN m.function_defs} |->
            At(calls, m.function_defs[CHOOSE d \in DOMAIN m.function_defs :
                                        functionName(d) = n].function) ],
          single |-> SingleSignatureTokenMap(ld, id, m, {d.code : d \in Range(m.function_defs)}) ]

AllResolved(b) ==
    /\ \A i \in Range(b.function_instantiations) : Resolved(i.instantiation)
    /\ \A si \in DOMAIN b.single : Resolved(<<b.single[si]>>)

\* A module that does not load leaves nothing behind.
Insert(ld, m) ==
    IF SelfId(m) \in DOMAIN ld.modules THEN Done(ld, m)
    ELSE LET added == AddModule(ld, m)
         IN  IF ~added.ok \/ ~HandlesResolve(added.ld, SelfId(m), m) THEN Failed(ld)
             ELSE LET new == NewModule(added.ld, m)
                  IN  IF AllResolved(new) /\ \A i \in Range(new.struct_instantiations) :
                                                Resolved(i.instantiation)
                      THEN Done([added.ld EXCEPT !.modules = (SelfId(m) :> new) @@ @], m)
                      ELSE Failed(ld)

NewScript(ld, hash) ==
    LET s == Scripts[hash]
        calls == FunctionRefs(ld, NoModule, s)
    IN  [ struct_refs |-> StructRefs(ld, NoModule, s), function_refs |-> calls,
          function_instantiations |-> FunctionInstantiations(ld, NoModule, s, calls),
          main |-> [script |-> TRUE, module |-> <<hash>>, name |-> "main",
                    type_parameters |-> s.type_parameters,
                    parameters |-> At(s.signatures, s.parameters), return_ |-> <<>>,
                    native |-> FALSE, code |-> s.main.code],
          parameter_tys |-> MakeTypes(ld, NoModule, s, At(s.signatures, s.parameters)),
          single |-> SingleSignatureTokenMap(ld, NoModule, s, {s.main}) ]

(***************************************************************************)
(* Loading from storage: imports first, then the friends                   *)
(***************************************************************************)
Dependencies(u) ==
    SelectSeq([h \in DOMAIN u.module_handles |-> ModuleName(u, h - 1)],
              LAMBDA id : IsScript(u) \/ id # SelfId(u))

RECURSIVE LoadModuleAndDependencies(_, _)
LoadModuleAndDependencies(ld, id) ==
    IF id \in DOMAIN ld.modules THEN Done(ld, id)
    ELSE IF \A m \in Library : SelfId(m) # id THEN Failed(ld)
    ELSE LET m == CHOOSE l \in Library : SelfId(l) = id
         IN  AndThen(Each(LAMBDA l, d : LoadModuleAndDependencies(l, d), ld, Dependencies(m)),
                     LAMBDA l, ids : Insert(l, m))

RECURSIVE LoadModule(_, _)
LoadModule(ld, id) ==
    AndThen(LoadModuleAndDependencies(ld, id), LAMBDA l, v :
        LET new == {m \in Library : SelfId(m) \in DOMAIN l.modules \ DOMAIN ld.modules}
            friends == UNION {ImmediateFriends(m) : m \in new} \ DOMAIN l.modules
        IN  Each(LAMBDA k, f : LoadModule(k, f), l, SetToSeq(friends)))
(***************************************************************************)
(* Types of a transaction                                                  *)
(***************************************************************************)
\* Abilities of a runtime type: the global list is its table of handles.
AbilitiesOf(ld, t) == Abilities([struct_handles |-> ld.structs], t, <<>>)

\* Mutant: only the number of type arguments is checked.
VerifyTyArgsCount(ld, constraints, tys) == Len(constraints) = Len(tys)

VerifyTyArgs(ld, constraints, tys) ==
    /\ Len(constraints) = Len(tys)
    /\ \A p \in DOMAIN tys : constraints[p] \subseteq AbilitiesOf(ld, tys[p])

RECURSIVE LoadType(_, _)
LoadType(ld, tag) ==
    CASE tag.k = "vector" ->
            AndThen(LoadType(ld, tag.of), LAMBDA l, t : Done(l, VectorOf(t)))
      [] tag.k = "struct" ->
            AndThen(LoadModule(ld, tag.module), LAMBDA l, v :
                LET found == ResolveStructByName(l, tag.name, tag.module)
                    g == The(found)
                    s == At(l.structs, g)
                IN  IF found = {} THEN Failed(l)
                    ELSE IF s.type_parameters = <<>> /\ tag.args = <<>>
                    THEN Done(l, StructTok(g))
                    ELSE AndThen(Each(LAMBDA k, a : LoadType(k, a), l, tag.args), LAMBDA k, tys :
                            IF VerifyTyArgs(k, Constraints(s), tys)
                            THEN Done(k, InstTok(g, tys)) ELSE Failed(k)))
      [] OTHER -> Done(ld, tag)

LoadTypes(ld, tags) == Each(LAMBDA l, t : LoadType(l, t), ld, tags)

\* A copy whose root is at depth d.
CloneAt(t, d) ==
    IF \E i \in DOMAIN Preorder(t) : d + Preorder(t)[i][2] - 1 > TypeDepthMax
    THEN Unresolved ELSE t

RECURSIVE ApplySubst(_, _, _)
ApplySubst(t, tys, d) ==
    CASE d > TypeDepthMax -> Unresolved
      [] d <= TypeDepthMax /\ t.k = "param" ->
            IF Has(tys, t.i) THEN CloneAt(At(tys, t.i), d) ELSE Unresolved
      [] d <= TypeDepthMax /\ t.k \in {"vector", "ref", "mut"} ->
            [t EXCEPT !.of = ApplySubst(t.of, tys, d + 1)]
      [] d <= TypeDepthMax /\ t.k = "inst" ->
            InstTok(t.h, [a \in DOMAIN t.args |-> ApplySubst(t.args[a], tys, d + 1)])
      [] OTHER -> t

Subst(types, tys) == [i \in DOMAIN types |-> ApplySubst(types[i], tys, 1)]

(***************************************************************************)
(* Tags and layouts, cached by index and type arguments                    *)
(***************************************************************************)
RECURSIVE TypeToTypeTag(_, _)
StructGidxToTypeTag(ld, g, tys) ==
    IF <<g, tys>> \in DOMAIN ld.tags THEN Done(ld, ld.tags[<<g, tys>>])
    ELSE AndThen(Each(LAMBDA l, t : TypeToTypeTag(l, t), ld, tys), LAMBDA l, tags :
            LET s == At(l.structs, g)
                tag == [k |-> "struct", module |-> s.module, name |-> s.name, args |-> tags]
            IN  Done([l EXCEPT !.tags = (<<g, tys>> :> tag) @@ @], tag))

TypeToTypeTag(ld, t) ==
    CASE t.k \in Primitive -> Done(ld, t)
      [] t.k = "vector" -> AndThen(TypeToTypeTag(ld, t.of), LAMBDA l, v : Done(l, VectorOf(v)))
      [] t.k = "struct" -> StructGidxToTypeTag(ld, t.h, <<>>)
      [] t.k = "inst" -> StructGidxToTypeTag(ld, t.h, t.args)
      [] OTHER -> Failed(ld)

RECURSIVE TypeToTypeLayoutAt(_, _, _)
StructGidxToTypeLayout(ld, g, tys, depth) ==
    IF <<g, tys>> \in DOMAIN ld.layouts THEN Done(ld, ld.layouts[<<g, tys>>])
    ELSE LET fields == Subst(At(ld.structs, g).fields, tys)
         IN  IF ~Resolved(fields) THEN Failed(ld)
             ELSE AndThen(Each(LAMBDA l, t : TypeToTypeLayoutAt(l, t, depth + 1), ld, fields),
                    LAMBDA l, v : LET layout == [k |-> "struct", fields |-> v]
                                  IN  Done([l EXCEPT !.layouts = (<<g, tys>> :> layout) @@ @],
                                           layout))

TypeToTypeLayoutAt(ld, t, depth) ==
    CASE depth > ValueDepthMax -> Failed(ld)
      [] depth <= ValueDepthMax /\ t.k \in Primitive -> Done(ld, t)
      [] depth <= ValueDepthMax /\ t.k = "vector" ->
            AndThen(TypeToTypeLayoutAt(ld, t.of, depth + 1), LAMBDA l, v : Done(l, VectorOf(v)))
      [] depth <= ValueDepthMax /\ t.k = "struct" ->
            StructGidxToTypeLayout(ld, t.h, <<>>, depth)
      [] depth <= ValueDepthMax /\ t.k = "inst" ->
            StructGidxToTypeLayout(ld, t.h, t.args, depth)
      [] OTHER -> Failed(ld)

TypeToTypeLayout(ld, t) == TypeToTypeLayoutAt(ld, t, 1)
TypesToLayouts(ld, tys) == Each(LAMBDA l, t : TypeToTypeLayout(l, t), ld, tys)

(***************************************************************************)
(* Entry points                                                            *)
(***************************************************************************)
Frame(fn, tys) == [fn |-> fn, ty_args |-> tys]

\* The arguments are read by the layouts of their types, n of them before
\* one cannot be read; the bytes of a signer make a reference to it.
ReadArguments(ld, tys, n) ==
    LET read == SubSeq(tys, 1, n)
    IN  AndThen(TypesToLayouts(ld, [i \in DOMAIN read |->
                    IF read[i] = RefTo(Prim("signer")) THEN Prim("signer") ELSE read[i]]),
                LAMBDA l, v : IF n = Len(tys) THEN Done(l, v) ELSE Failed(l))

LoadScript(ld, hash, tags) ==
    LET s == Scripts[hash]
        fetched ==
            IF hash \in DOMAIN ld.scripts THEN Done(ld, hash)
            ELSE AndThen(Each(LAMBDA l, id : LoadModule(l, id), ld, Dependencies(s)),
                    LAMBDA l, v :
                        LET new == NewScript(l, hash)
                        IN  IF HandlesResolve(l, NoModule, s) /\ AllResolved(new)
                                /\ Resolved(new.parameter_tys)
                            THEN Done([l EXCEPT !.scripts = (hash :> new) @@ @], hash)
                            ELSE Failed(l))
    IN  AndThen(fetched, LAMBDA l, h : AndThen(LoadTypes(l, tags), LAMBDA k, tys :
            IF VerifyTyArgs(k, s.type_parameters, tys) THEN Done(k, tys) ELSE Failed(k)))

\* The types of the parameters and of the results are not instantiated yet.
LoadFunction(ld, id, name, tags, is_script_execution) ==
    AndThen(LoadModule(ld, id), LAMBDA l, v :
        LET found == ResolveFunctionByName(l, name, id)
            fn == At(l.functions, The(found))
            m == CHOOSE k \in Library : SelfId(k) = id
            def == CHOOSE d \in Range(m.function_defs) :
                    At(m.identifiers, At(m.function_handles, d.function).name) = name
            params == MakeTypes(l, NoModule, m, fn.parameters)
            returns == MakeTypes(l, NoModule, m, fn.return_)
        IN  IF found = {} \/ ~Resolved(params) \/ ~Resolved(returns) THEN Failed(l)
            ELSE AndThen(LoadTypes(l, tags), LAMBDA k, tys :
                IF /\ VerifyTyArgs(k, fn.type_parameters, tys)
                   /\ is_script_execution => ModuleScriptFunction(m, def)
                THEN Done(k, [fn |-> fn, tys |-> tys, params |-> params, returns |-> returns])
                ELSE Failed(k)))

\* The call, or nothing when a step before it failed; what was loaded stays.
Start(r) ==
    /\ loader' = r.ld
    /\ stack' = IF r.ok THEN <<r.v>> ELSE <<>>

\* Parameters of a script are read by their types as they are declared.
ExecuteScript ==
    /\ stack = <<>>
    /\ \E hash \in DOMAIN Scripts, tags \in Tags :
       \E n \in 0..Len(At(Scripts[hash].signatures, Scripts[hash].parameters)) :
        Start(AndThen(LoadScript(loader, hash, tags), LAMBDA l, tys :
            AndThen(ReadArguments(l, l.scripts[hash].parameter_tys, n), LAMBDA k, v :
                Done(k, Frame(k.scripts[hash].main, tys)))))

\* Layouts of the results are computed from their types as declared.
ExecuteFunction ==
    /\ stack = <<>>
    /\ \E m \in Library, tags \in Tags, is_script_execution \in BOOLEAN :
       \E h \in {d.function : d \in Range(m.function_defs)} :
       \E n \in 0..Len(At(m.signatures, At(m.function_handles, h).parameters)) :
        Start(AndThen(LoadFunction(loader, SelfId(m), At(m.identifiers, At(m.function_handles, h).name),
                                   tags, is_script_execution), LAMBDA l, f :
            AndThen(TypesToLayouts(l, f.returns), LAMBDA k, layouts :
                LET params == Subst(f.params, f.tys)
                IN  IF ~Resolved(params) THEN Failed(k)
                    ELSE AndThen(ReadArguments(k, params, n), LAMBDA j, v :
                            Done(j, Frame(f.fn, f.tys))))))

GetTypeLayout ==
    /\ stack = <<>>
    /\ \E tag \in LayoutTags :
        loader' = AndThen(LoadType(loader, tag), LAMBDA l, t : TypeToTypeLayout(l, t)).ld
    /\ UNCHANGED stack

\* Mutants: scripts, or types, survive with the indices they hold.
ClearKeepsScripts ==
    stack = <<>> /\ loader' = [EmptyLoader EXCEPT !.scripts = loader.scripts] /\ UNCHANGED stack
ClearKeepsTypes ==
    stack = <<>> /\ loader' = [EmptyLoader EXCEPT !.tags = loader.tags, !.layouts = loader.layouts]
    /\ UNCHANGED stack

Clear == stack = <<>> /\ loader' = EmptyLoader /\ UNCHANGED stack

(***************************************************************************)
(* The instructions that use the tables                                    *)
(***************************************************************************)
Top == stack[Len(stack)]

\* The resolver of a frame: the tables of the unit its function is from.
Binary(ld, fn) == IF fn.script THEN ld.scripts[fn.module[1]] ELSE ld.modules[fn.module]

\* A failed instruction ends the transaction; a native function returns.
Enter(fn, tys) ==
    /\ stack' = CASE ~Resolved(tys) -> <<>>
                  [] Resolved(tys) /\ fn.native -> stack
                  [] Resolved(tys) /\ ~fn.native /\ Len(stack) > CallLimit -> <<>>
                  [] OTHER -> Append(stack, Frame(fn, tys))
    /\ UNCHANGED loader

Call(i) ==
    /\ i.op = "CALL"
    /\ Enter(At(loader.functions, At(Binary(loader, Top.fn).function_refs, i.arg)), <<>>)

CallGeneric(i) ==
    /\ i.op = "CALL_GENERIC"
    /\ LET inst == At(Binary(loader, Top.fn).function_instantiations, i.arg)
       IN  Enter(At(loader.functions, inst.handle), Subst(inst.instantiation, Top.ty_args))

GlobalOps == {"EXISTS", "IMM_BORROW_GLOBAL", "MUT_BORROW_GLOBAL", "MOVE_FROM", "MOVE_TO"}
GlobalGenericOps == {"EXISTS_GENERIC", "IMM_BORROW_GLOBAL_GENERIC",
    "MUT_BORROW_GLOBAL_GENERIC", "MOVE_FROM_GENERIC", "MOVE_TO_GENERIC"}

\* The type of the resource an instruction on global storage is about.
ResourceType(i) ==
    LET b == Binary(loader, Top.fn)
        inst == At(b.struct_instantiations, i.arg)
    IN  IF i.op \in GlobalOps THEN StructTok(At(b.structs, i.arg).idx)
        ELSE InstTok(inst.idx, Subst(inst.instantiation, Top.ty_args))

\* The first use of a resource in a session asks for its tag and its layout.
LoadResource(i) ==
    /\ i.op \in GlobalOps \union GlobalGenericOps
    /\ LET ty == ResourceType(i)
           r == IF ~Resolved(<<ty>>) THEN Failed(loader)
                ELSE AndThen(TypeToTypeTag(loader, ty), LAMBDA l, v : TypeToTypeLayout(l, ty))
       IN  /\ loader' = r.ld
           /\ stack' = IF r.ok THEN stack ELSE <<>>

Instruction ==
    /\ stack # <<>>
    /\ \E i \in Range(Top.fn.code) : Call(i) \/ CallGeneric(i) \/ LoadResource(i)

Return == stack # <<>> /\ stack' = Front(stack) /\ UNCHANGED loader

\* An error in an instruction, or no gas: every frame is dropped.
Fail == stack # <<>> /\ stack' = <<>> /\ UNCHANGED loader

Init == loader = EmptyLoader /\ stack = <<>>

Next ==
    \/ ExecuteScript \/ ExecuteFunction \/ GetTypeLayout \/ Clear
    \/ Instruction \/ Return \/ Fail

Spec == Init /\ [][Next]_vars

(***************************************************************************)
(* What the indices and the cache entries should mean, said with names     *)
(***************************************************************************)
\* The structs that handles, or global indices, stand for.
HandleNames(u) ==
    [ h \in DOMAIN u.struct_handles |->
        <<ModuleName(u, u.struct_handles[h].module), At(u.identifiers, u.struct_handles[h].name)>> ]
GlobalNames(ld) == [g \in DOMAIN ld.structs |-> <<ld.structs[g].module, ld.structs[g].name>>]

\* A type with names in place of its indices; a closed one is its tag.
RECURSIVE Spelled(_, _)
Spelled(names, t) ==
    IF t.k \in {"struct", "inst"}
    THEN [k |-> "struct", module |-> At(names, t.h)[1], name |-> At(names, t.h)[2],
          args |-> [c \in DOMAIN Children(t) |-> Spelled(names, Children(t)[c])]]
    ELSE IF t.k \in {"vector", "ref", "mut"} THEN [t EXCEPT !.of = Spelled(names, t.of)]
    ELSE t

SameTypes(ld, tys, u, sig) ==
    [i \in DOMAIN tys |-> Spelled(GlobalNames(ld), tys[i])]
        = [i \in DOMAIN sig |-> Spelled(HandleNames(u), sig[i])]

\* The module with this name, and its struct with that name.
Stored(id) == CHOOSE m \in Library : SelfId(m) = id
DefinitionOf(m, name) ==
    CHOOSE def \in Range(m.struct_defs) :
        At(m.identifiers, At(m.struct_handles, def.struct_handle).name) = name
FieldTokens(def) ==
    [f \in DOMAIN def.field_information.fields |-> def.field_information.fields[f].signature]

\* A tag with tags for its type parameters.
RECURSIVE Bound(_, _)
Bound(tag, args) ==
    CASE tag.k = "param" -> IF Has(args, tag.i) THEN At(args, tag.i) ELSE tag
      [] tag.k = "vector" -> VectorOf(Bound(tag.of, args))
      [] tag.k = "struct" -> [tag EXCEPT !.args = [a \in DOMAIN @ |-> Bound(@[a], args)]]
      [] OTHER -> tag

\* The layout a tag has by the definitions of the stored modules.
RECURSIVE DeclaredLayout(_)
DeclaredLayout(tag) ==
    CASE tag.k = "vector" -> VectorOf(DeclaredLayout(tag.of))
      [] tag.k = "struct" ->
            LET m == Stored(tag.module)
                fields == FieldTokens(DefinitionOf(m, tag.name))
            IN  [k |-> "struct", fields |-> [f \in DOMAIN fields |->
                    DeclaredLayout(Bound(Spelled(HandleNames(m), fields[f]), tag.args))]]
      [] OTHER -> tag

\* What modules and scripts have in common.
UnitSound(ld, u, b) ==
    /\ \A g \in Range(b.struct_refs) : Has(ld.structs, g)
    /\ \A g \in Range(b.function_refs) : Has(ld.functions, g)
    /\ [h \in DOMAIN b.struct_refs |-> At(GlobalNames(ld), b.struct_refs[h])] = HandleNames(u)
    /\ Len(b.function_refs) = Len(u.function_handles)
    /\ \A h \in DOMAIN b.function_refs :
        LET fn == At(ld.functions, b.function_refs[h])
            handle == u.function_handles[h]
        IN  /\ fn.module = ModuleName(u, handle.module)
            /\ fn.name = At(u.identifiers, handle.name)
    /\ \A i \in DOMAIN b.function_instantiations :
        LET f == u.function_instantiations[i]
            inst == b.function_instantiations[i]
        IN  /\ inst.handle = At(b.function_refs, f.handle)
            /\ SameTypes(ld, inst.instantiation, u, At(u.signatures, f.type_parameters))
    /\ \A si \in DOMAIN b.single : SameTypes(ld, <<b.single[si]>>, u, At(u.signatures, si))

\* The entries a module has for its own structs and fields.
ModuleSound(ld, m, b) ==
    /\ UnitSound(ld, m, b)
    /\ \A d \in DOMAIN m.struct_defs :
        LET s == At(ld.structs, b.structs[d].idx)
        IN  /\ DefinitionOf(m, s.name) = m.struct_defs[d]
            /\ SameTypes(ld, s.fields, m, FieldTokens(m.struct_defs[d]))
            /\ b.structs[d].field_count = Len(FieldTokens(m.struct_defs[d]))
            /\ b.struct_map[s.name] = b.structs[d].idx
    /\ \A i \in DOMAIN m.struct_def_instantiations :
        LET s == m.struct_def_instantiations[i]
            inst == b.struct_instantiations[i]
        IN  /\ inst.idx = At(b.structs, s.def).idx
            /\ SameTypes(ld, inst.instantiation, m, At(m.signatures, s.type_parameters))
    /\ \A f \in DOMAIN m.field_handles :
        b.field_handles[f].offset < Len(At(ld.structs, b.field_handles[f].owner).fields)
    /\ \A n \in DOMAIN b.function_map : At(ld.functions, b.function_map[n]).name = n

\* Whatever order modules and scripts were loaded in, and however often the
\* caches were cleared between transactions, each index in the tables of a
\* loaded unit leads to the struct or function that the handle at its place
\* names, and each type means what its signature says (loader.rs, Module::new,
\* Script::new, Loader::clear).
IndexesMeanNames ==
    /\ \A id \in DOMAIN loader.modules : ModuleSound(loader, Stored(id), loader.modules[id])
    /\ \A hash \in DOMAIN loader.scripts :
        LET s == Scripts[hash] b == loader.scripts[hash]
        IN  /\ UnitSound(loader, s, b)
            /\ SameTypes(loader, b.parameter_tys, s, At(s.signatures, s.parameters))

\* A cached tag is the name of its type, and a cached layout is the one the
\* stored definitions give it, whatever was in the cache when it was computed;
\* so resources are looked up and read as what they are.
TypeCacheSound ==
    /\ \A key \in DOMAIN loader.tags \union DOMAIN loader.layouts :
        \A n \in Nodes(InstTok(key[1], key[2])) :
            n.k \in {"struct", "inst"} => Has(loader.structs, n.h)
    /\ \A key \in DOMAIN loader.tags :
        loader.tags[key] = Spelled(GlobalNames(loader), InstTok(key[1], key[2]))
    /\ \A key \in DOMAIN loader.layouts :
        loader.layouts[key] = DeclaredLayout(Spelled(GlobalNames(loader), InstTok(key[1], key[2])))

Satisfy(ld, tys, constraints) ==
    /\ Len(tys) = Len(constraints)
    /\ \A p \in DOMAIN tys : constraints[p] \subseteq AbilitiesOf(ld, tys[p])

\* A closed type whose structs have the type arguments they ask for.
WellFormed(ld, t) == \A n \in Nodes(t) :
    /\ n.k \notin {"param", "ref", "mut", "unresolved"}
    /\ n.k \in {"struct", "inst"} =>
        Satisfy(ld, Children(n), Constraints(At(ld.structs, n.h)))

\* Type arguments are checked where a transaction names them and never again:
\* every function called from there, however deep, runs with as many type
\* arguments as it declares, all closed and with the abilities that its own
\* declaration, not the handle of its caller, asks for.
FramesSatisfyConstraints ==
    \A f \in Range(stack) :
        /\ \A t \in Range(f.ty_args) : WellFormed(loader, t)
        /\ Satisfy(loader, f.ty_args, f.fn.type_parameters)
============================================================================
