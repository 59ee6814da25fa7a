-------------------------- MODULE MCRuntimeTypes --------------------------
(* Four modules and two scripts for RuntimeTypes.  A::Mid imports A::Base   *)
(* and has A::Top, which imports it, for a friend; B::Side imports nothing. *)
(* Base, Mid and Side each have a struct named Box.                         *)
EXTENDS RuntimeTypes, BoundsPass, LoopPasses

U8 == Prim("u8")
U64 == Prim("u64")
T == ParamTok(0)

Struct(module, name, abilities, params) ==
    [module |-> module, name |-> name, abilities |-> abilities, type_parameters |-> params]
Function(module, name, parameters, constraints) ==
    [module |-> module, name |-> name, parameters |-> parameters, return_ |-> 0,
     type_parameters |-> constraints]
StructDef(handle, fields) ==
    [struct_handle |-> handle,
     field_information |-> Declared([f \in DOMAIN fields |-> [name |-> f - 1, signature |-> fields[f]]])]
FunctionDef(handle, code) ==
    [function |-> handle, visibility |-> "script", acquires |-> <<>>, code |-> code]
Code(ops) == CodeUnit(0, ops)
Op(op, arg) == [op |-> op, arg |-> arg]
Param(constraints, phantom) == <<[constraints |-> constraints, is_phantom |-> phantom]>>
Store == Param({"store"}, FALSE)
Inst(handle, sig) == [handle |-> handle, type_parameters |-> sig]
DefInst(def, sig) == [def |-> def, type_parameters |-> sig]
Modules(addresses) ==
    [i \in DOMAIN addresses |-> [address |-> addresses[i], name |-> i + 1]]

\* Names 0 and 1 are for fields, the modules come next.
Named(modules, addresses, names) == [EmptyModule EXCEPT
    !.identifiers = <<"x", "y">> \o modules \o names,
    !.address_identifiers = <<"A", "B">>,
    !.module_handles = Modules(addresses)]

\* struct Box<T: store> { T }, struct Coin { u64 } and
\* struct Vault<phantom P: store> { Box<Coin> }; put<T: store> calls
\* hold<Box<T>>, which looks for a Vault<T>; len is native.
Base == [Named(<<"Base">>, <<0>>, <<"Box", "Coin", "Vault", "put", "hold", "len">>) EXCEPT
    !.struct_handles = <<Struct(0, 3, {"copy", "drop", "store"}, Store), Struct(0, 4, {"store"}, <<>>),
                         Struct(0, 5, {"key"}, Param({"store"}, TRUE))>>,
    !.signatures = <<<<>>, <<T>>, <<InstTok(0, <<T>>)>> >>,
    !.struct_defs = <<StructDef(0, <<T>>), StructDef(1, <<U64>>),
                      StructDef(2, <<InstTok(0, <<StructTok(1)>>)>>)>>,
    !.struct_def_instantiations = <<DefInst(2, 1), DefInst(0, 1)>>,
    !.field_handles = <<[owner |-> 0, field |-> 0]>>,
    !.field_instantiations = <<[handle |-> 0, type_parameters |-> 1]>>,
    !.function_handles = <<Function(0, 6, 1, <<{"store"}>>), Function(0, 7, 0, <<{"store"}>>),
                           Function(0, 8, 1, <<{}>>)>>,
    !.function_instantiations = <<Inst(1, 2), Inst(2, 1)>>,
    !.function_defs = <<FunctionDef(0, Code(<<Op("CALL_GENERIC", 0), Op("CALL_GENERIC", 1), Op("VEC_LEN", 1)>>)),
                        FunctionDef(1, Code(<<Op("EXISTS_GENERIC", 0)>>)),
                        FunctionDef(2, NoCode)>>]

\* struct Pair<T: store> { Box<T>, Coin } of Base's structs and
\* struct Box { vector<Pair<u64>> }; run<T: store> calls put<Pair<T>>, with
\* less said of Box than Base says.
Mid == [Named(<<"Mid", "Base", "Top">>, <<0, 0>>, <<"Box", "Coin", "Pair", "put", "run">>) EXCEPT
    !.struct_handles = <<Struct(1, 5, {"store"}, Store), Struct(1, 6, {"store"}, <<>>),
                         Struct(0, 7, {"store"}, Store), Struct(0, 5, {"key", "store"}, <<>>)>>,
    !.signatures = <<<<>>, <<T>>, <<InstTok(2, <<T>>)>> >>,
    !.struct_defs = <<StructDef(2, <<InstTok(0, <<T>>), StructTok(1)>>),
                      StructDef(3, <<VectorOf(InstTok(2, <<U64>>))>>)>>,
    !.friend_decls = <<[address |-> 0, name |-> 4]>>,
    !.function_handles = <<Function(1, 8, 1, <<{"store"}>>), Function(0, 9, 0, <<{"drop", "store"}>>)>>,
    !.function_instantiations = <<Inst(0, 2)>>,
    !.function_defs = <<FunctionDef(1, Code(<<Op("CALL_GENERIC", 0), Op("EXISTS", 1)>>))>>]

\* struct Deep { Mid::Box }; go calls Mid::run<u64>.
Upper == [Named(<<"Top", "Mid">>, <<0, 0>>, <<"Deep", "Box", "run", "go">>) EXCEPT
    !.struct_handles = <<Struct(0, 4, {"key"}, <<>>), Struct(1, 5, {"store"}, <<>>)>>,
    !.signatures = <<<<>>, <<U64>> >>,
    !.struct_defs = <<StructDef(0, <<StructTok(1)>>)>>,
    !.function_handles = <<Function(0, 7, 0, <<>>), Function(1, 6, 0, <<{"drop", "store"}>>)>>,
    !.function_instantiations = <<Inst(1, 1)>>,
    !.function_defs = <<FunctionDef(0, Code(<<Op("CALL_GENERIC", 0), Op("EXISTS", 0)>>))>>]

\* struct Box { u8 }; put has no parameters.
Side == [Named(<<"Side">>, <<1>>, <<"Box", "put">>) EXCEPT
    !.struct_handles = <<Struct(0, 3, {"store", "key"}, <<>>)>>,
    !.signatures = << <<>> >>,
    !.struct_defs = <<StructDef(0, <<U8>>)>>,
    !.function_handles = <<Function(0, 4, 0, <<>>)>>,
    !.function_defs = <<FunctionDef(0, Code(<<[op |-> "RET"]>>))>>]

MCLibrary == {Base, Mid, Upper, Side}

\* Calls Base::hold<Base::Box<T>>, or Side::put.
OnBase == [EmptyScript EXCEPT
    !.identifiers = <<"Base", "Box", "hold">>, !.address_identifiers = <<"A">>,
    !.module_handles = <<[address |-> 0, name |-> 0]>>,
    !.struct_handles = <<Struct(0, 1, {"store"}, Store)>>,
    !.signatures = <<<<>>, <<T>>, <<InstTok(0, <<T>>)>>, <<U64>> >>,
    !.function_handles = <<Function(0, 2, 0, <<{"store"}>>)>>,
    !.function_instantiations = <<Inst(0, 2)>>,
    !.type_parameters = <<{"store"}>>, !.parameters = 3,
    !.main = Code(<<Op("CALL_GENERIC", 0)>>)]
OnSide == [EmptyScript EXCEPT
    !.identifiers = <<"Side", "put">>, !.address_identifiers = <<"B">>,
    !.module_handles = <<[address |-> 0, name |-> 0]>>,
    !.signatures = << <<>> >>,
    !.function_handles = <<Function(0, 1, 0, <<>>)>>,
    !.main = Code(<<Op("CALL", 0)>>)]
MCScripts == <<OnBase, OnSide>>

Tag(address, module, name, args) ==
    [k |-> "struct", module |-> <<address, module>>, name |-> name, args |-> args]
Box(t) == Tag("A", "Base", "Box", <<t>>)
SideBox == Tag("B", "Side", "Box", <<>>)

\* Good arguments, a signer, which lacks store, at the top and below, a
\* struct without its type argument, and one that is not stored.
MCTags == {<<>>, <<U64>>, <<Prim("signer")>>, <<Box(Box(SideBox))>>, <<VectorOf(Box(Prim("signer")))>>,
           <<Tag("A", "Base", "Box", <<>>)>>,
           <<Tag("B", "Base", "Box", <<>>)>>}
MCLayoutTags == {Tag("A", "Mid", "Box", <<>>), Tag("A", "Top", "Deep", <<>>)}

ModuleVerifies(m) ==
    /\ ModuleInBounds(m) /\ ModuleDistinct(m) /\ ModuleSignatures(m) /\ ModuleConsistent(m)
    /\ FriendsVerified(m) /\ FieldsHaveAbilities(m) /\ StructsNotRecursive(m)
    /\ NoInstantiationLoops(m)
ScriptVerifies(s) ==
    ScriptInBounds(s) /\ CommonDistinct(s) /\ ScriptSignatures(s) /\ ScriptConsistent(s) /\ ScriptEntry(s)
Links(u) ==
    /\ VerifyImportedModules(u, Library) /\ VerifyImportedStructs(u, Library)
    /\ VerifyImportedFunctions(u, Library) /\ VerifyAllScriptVisibilityUsage(u, Library)

\* What is stored and what is run has passed the verifier.
ASSUME UnitsVerify ==
    /\ \A m \in Library : ModuleVerifies(m) /\ Links(m)
    /\ \A s \in Range(Scripts) : ScriptVerifies(s) /\ Links(s)
============================================================================
