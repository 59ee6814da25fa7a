------------------------- MODULE MCModuleVerifier -------------------------
(* Families of small units for ModuleVerifier: two structs, two or three    *)
(* functions that call each other, one instruction on every kind of target, *)
(* a full module with one index changed, constants, entry points, and       *)
(* units that import two modules.                                           *)
EXTENDS ModuleVerifier

U8 == Prim("u8")
U64 == Prim("u64")
T0 == ParamTok(0)
S(t) == InstTok(0, <<t>>)
R == StructTok(1)
X == StructTok(2)

MCGround == {U64, Prim("signer"), VectorOf(Prim("signer")), R, X, S(X)}

Param(constraints, phantom) == [constraints |-> constraints, is_phantom |-> phantom]
Handle(module, name, abilities, params) ==
    [module |-> module, name |-> name, abilities |-> abilities, type_parameters |-> params]
FnHandle(name, parameters, constraints) ==
    [module |-> 0, name |-> name, parameters |-> parameters, return_ |-> 0,
     type_parameters |-> constraints]
Struct(handle, t) ==
    [struct_handle |-> handle, field_information |-> Declared(<<[name |-> 7, signature |-> t]>>)]
Fn(h, code) == [function |-> h, visibility |-> "script", acquires |-> <<>>, code |-> code]
Body(code) == CodeUnit(0, code)
Op(op, arg) == [op |-> op, arg |-> arg]

\* Module A::M with a struct S with one type parameter and a struct R, next
\* to a struct X of A::N.
Structs(sAb, sParam, sField, rAb, rField, xAb) == [EmptyModule EXCEPT
    !.module_handles = <<[address |-> 0, name |-> 0], [address |-> 0, name |-> 1]>>,
    !.identifiers = <<"M", "N", "f", "g", "S", "R", "X", "a", "h">>,
    !.address_identifiers = <<"A", "B">>,
    !.signatures = << <<>> >>,
    !.struct_handles = <<Handle(0, 4, sAb, <<sParam>>), Handle(0, 5, rAb, <<>>),
                         Handle(1, 6, xAb, <<>>)>>,
    !.struct_defs = <<Struct(0, sField), Struct(1, rField)>>]

AbilitySets == {{}, {"store"}, {"key"}, {"copy", "drop", "store"}, {"drop", "key"}}

StructUnits ==
    { Structs(sAb, Param(c, ph), sField, rAb, rField, xAb) :
        sAb \in AbilitySets, ph \in BOOLEAN, c \in {{}, {"store"}},
        sField \in {U64, T0, VectorOf(T0), X, R, S(T0)},
        rAb \in AbilitySets,
        rField \in {U64, X, S(U64), S(X), S(R), VectorOf(S(Prim("signer"))), S(S(X)),
                    VectorOf(R), RefTo(U64)},
        xAb \in {{}, {"store"}, {"copy", "drop", "store"}} }

Plain == Structs({"drop", "store"}, Param({}, FALSE), T0, {"drop", "store"}, U64, {"drop"})

(***************************************************************************)
(* Functions f and g with one type parameter, and a native one             *)
(***************************************************************************)
ActualSigs == <<<<>>, <<T0>>, <<VectorOf(T0)>>, <<U64>>, <<S(T0)>>, <<X>> >>

\* Every instantiation of f and of g with these signatures.
Insts == [i \in 1..10 |-> [handle |-> (i - 1) \div 5, type_parameters |-> ((i - 1) % 5) + 1]]

Calls(set) == Body(SetToSeq({Op("CALL_GENERIC", i) : i \in set}))

Functions(fC, gC, fCalls, gCalls, defs) == [Plain EXCEPT
    !.signatures = ActualSigs,
    !.function_handles = <<FnHandle(2, 1, <<fC>>), FnHandle(3, 1, <<gC>>), FnHandle(8, 0, <<{}>>)>>,
    !.function_instantiations = Insts,
    !.function_defs = [i \in DOMAIN defs |->
        IF defs[i] = 2 THEN Fn(2, NoCode)
        ELSE Fn(defs[i], Calls(IF defs[i] = 0 THEN fCalls ELSE gCalls))]]

CallSets == {{}} \union {{i} : i \in 0..9} \union {{i, j} : i \in {1, 3}, j \in {5, 6, 8}}

\* The native function, the third, comes after the others or before them.
FunctionUnits ==
    { Functions(fC, gC, f, g, defs) : defs \in {<<0, 1, 2>>, <<2, 0, 1>>},
        fC \in {{}, {"store"}}, gC \in {{}, {"drop"}, {"store"}}, f \in CallSets, g \in CallSets }

(***************************************************************************)
(* One instruction                                                         *)
(***************************************************************************)
\* A unit with every table, and one function with one type parameter.
Full(constraint, code) == [Plain EXCEPT
    !.signatures = <<<<>>, <<T0>>, <<U64>>, <<X>>, <<R, RefTo(S(U64))>>, <<S(S(T0))>>,
                     <<ParamTok(1)>>, <<RefTo(U64)>> >>,
    !.function_handles = <<FnHandle(2, 4, <<constraint>>), FnHandle(3, 2, <<>>),
                           [FnHandle(8, 1, <<{"drop"}>>) EXCEPT !.module = 1]>>,
    !.function_instantiations = <<[handle |-> 0, type_parameters |-> 1], [handle |-> 2, type_parameters |-> 5],
                                  [handle |-> 1, type_parameters |-> 0]>>,
    !.struct_def_instantiations = <<[def |-> 0, type_parameters |-> 1], [def |-> 1, type_parameters |-> 0],
                                    [def |-> 0, type_parameters |-> 7]>>,
    !.field_handles = <<[owner |-> 0, field |-> 0], [owner |-> 1, field |-> 0]>>,
    !.field_instantiations = <<[handle |-> 0, type_parameters |-> 3], [handle |-> 1, type_parameters |-> 0]>>,
    !.constant_pool = <<[type_ |-> U8, data |-> <<3>>]>>,
    !.friend_decls = <<[address |-> 0, name |-> 1]>>,
    !.function_defs = <<[Fn(0, [Body(code) EXCEPT !.locals = 1]) EXCEPT !.acquires = <<1>>],
                        Fn(1, Body(<<[op |-> "RET"]>>))>>]

OneInstruction ==
    { Op(op, arg) : op \in BranchOps \union LocalOps \union PlainOps \union GenericOps
                           \union VectorOps \union {"LD_CONST"}, arg \in 0..8 }

InstructionUnits == { Full(c, <<i, [op |-> "RET"]>>) : c \in {{}, {"drop"}}, i \in OneInstruction }

(***************************************************************************)
(* One index, name or entry of the full module changed                     *)
(***************************************************************************)
Rich == Full({}, <<Op("CALL_GENERIC", 0), Op("PACK_GENERIC", 0), Op("IMM_BORROW_FIELD_GENERIC", 0),
                   Op("CALL", 1), Op("VEC_LEN", 1), Op("COPY_LOC", 2)>>)

Entries(table) == DOMAIN Rich[table]
Changed(table, field, values) ==
    { [Rich EXCEPT ![table][i][field] = v] : i \in Entries(table), v \in values }

IndexUnits ==
    UNION { Changed("module_handles", f, 0..9) : f \in {"address", "name"} }
    \union UNION { Changed("struct_handles", f, 0..9) : f \in {"module", "name"} }
    \union UNION { Changed("function_handles", f, 0..9) :
                   f \in {"module", "name", "parameters", "return_"} }
    \union UNION { Changed("function_instantiations", f, 0..8) : f \in {"handle", "type_parameters"} }
    \union UNION { Changed("struct_def_instantiations", f, 0..8) : f \in {"def", "type_parameters"} }
    \union UNION { Changed("field_handles", f, 0..3) : f \in {"owner", "field"} }
    \union UNION { Changed("field_instantiations", f, 0..8) : f \in {"handle", "type_parameters"} }
    \union UNION { Changed("friend_decls", f, 0..9) : f \in {"address", "name"} }
    \union Changed("struct_defs", "struct_handle", 0..3)
    \union Changed("struct_defs", "field_information",
        {NativeFields, Declared(<<>>), Declared(<<[name |-> 9, signature |-> U64]>>),
         Declared(<<[name |-> 2, signature |-> U64], [name |-> 2, signature |-> U64]>>)}
        \union {Declared(<<[name |-> 2, signature |-> t]>>) :
                t \in {X, StructTok(0), StructTok(3), InstTok(1, <<U64>>), ParamTok(1), S(ParamTok(1))}})
    \union Changed("function_defs", "function", 0..3)
    \union Changed("function_defs", "acquires", {<<2>>, <<1, 1>>, <<0, 1>>})
    \union { [Rich EXCEPT !.function_defs[1].code.locals = v] : v \in 0..8 }
    \union { [Rich EXCEPT !.signatures[2] = [i \in 1..n |-> T0]] : n \in {2, 14, 15} }
    \union { [Rich EXCEPT !.identifiers[i] = v] : i \in 1..9, v \in {"M", "N", "f", "h", "S"} }
    \union { [Rich EXCEPT !.address_identifiers = v] : v \in {<<>>, <<"A">>, <<"A", "A">>} }
    \union { [Rich EXCEPT !.self_module_handle_idx = v] : v \in 0..2 }
    \union { [Rich EXCEPT !.friend_decls = v] :
             v \in {<<[address |-> 1, name |-> 0]>>, <<[address |-> 0, name |-> 1], [address |-> 0, name |-> 1]>>} }
    \union { [Rich EXCEPT !.friend_decls = v, !.identifiers[9] = n, !.module_handles = h] :
             v \in {<<[address |-> a, name |-> 8]>> : a \in 0..1}, n \in {"M", "P"},
             h \in {Rich.module_handles, <<>>} }
    \* Two handles for what has one name.
    \union { [Rich EXCEPT !.function_handles[3].module = m, !.function_handles[3].name = n,
                          !.identifiers[9] = id, !.module_handles[2] = [address |-> a, name |-> b],
                          !.address_identifiers[2] = ad] :
             m \in 0..1, n \in {2, 3, 8}, id \in {"f", "h"}, a \in 0..1, b \in 0..1, ad \in {"A", "B"} }

(***************************************************************************)
(* Constants and entry points                                              *)
(***************************************************************************)
Bytes == {0, 1, 2, 8, 9}
Data == UNION {[1..n -> Bytes] : n \in 0..3} \union {<<8, 8, 1, 0>>, <<9, 8, 4>>, <<1, 1, 0, 2>>}

ConstantUnits ==
    { [Plain EXCEPT !.constant_pool = <<[type_ |-> t, data |-> d]>>] :
      t \in {Prim("bool"), U8, U64, Prim("u128"), Prim("address"), Prim("signer"), VectorOf(U8),
             VectorOf(Prim("bool")), VectorOf(VectorOf(U8)), VectorOf(Prim("signer")), R},
      d \in Data }

EntryTypes == {Prim("signer"), RefTo(Prim("signer")), U8, VectorOf(Prim("signer")), VectorOf(U8),
               Prim("address")}
EntrySigs == UNION {[1..n -> EntryTypes] : n \in 0..2} \union {<<T0>>, <<Prim("signer"), U8, Prim("signer")>>}

ScriptUnits ==
    { [EmptyScript EXCEPT !.version = v, !.signatures = IF sig = <<>> THEN << <<>> >> ELSE <<<<>>, sig>>,
                          !.parameters = IF sig = <<>> THEN 0 ELSE 1, !.main = Body(<<[op |-> "RET"]>>)] :
      v \in {1, 4}, sig \in EntrySigs }
    \union
    { [EmptyScript EXCEPT !.signatures = <<<<>>, <<T0>>, <<U64>>, <<X>> >>, !.type_parameters = tps,
                          !.parameters = p, !.main = Body(<<i>>)] :
      tps \in {<<>>, <<{}>>}, p \in {0, 4}, i \in OneInstruction }

EntryUnits ==
    { [Plain EXCEPT !.version = v, !.signatures = IF sig = <<>> THEN << <<>> >> ELSE <<<<>>, sig>>,
                    !.function_handles = <<[FnHandle(2, IF sig = <<>> THEN 0 ELSE 1, <<{}>>) EXCEPT
                                            !.return_ = IF sig # <<>> /\ r THEN 1 ELSE 0]>>,
                    !.function_defs = <<[Fn(0, Body(<<[op |-> "RET"]>>)) EXCEPT !.visibility = vis]>>] :
      v \in {1, 4}, sig \in EntrySigs, r \in BOOLEAN, vis \in {"script", "public"} }

MCSenderLists == {<<>>, <<<<1, 1>>>>, <<<<1, 1>>, <<2, 2>>>>}
MCArgumentLists == UNION {[1..n -> {<<1>>, <<1, 2>>, <<1, 3, 3>>}] : n \in 0..2}

(***************************************************************************)
(* Linking: the library, and what a unit may say of it                     *)
(***************************************************************************)
LibraryNames == <<"M", "N", "f", "O", "k", "scr", "X", "a", "h", "fri", "pri", "G">>
LibHandle(module, name, sig, constraints) ==
    [module |-> module, name |-> name, parameters |-> sig, return_ |-> 0, type_parameters |-> constraints]
LibFn(h, visibility) == [Fn(h, Body(<<[op |-> "RET"]>>)) EXCEPT !.visibility = visibility]

\* A::N: structs X and G, and a function of each visibility; A::M is its friend.
LibN == [EmptyModule EXCEPT
    !.module_handles = <<[address |-> 0, name |-> 1]>>,
    !.identifiers = LibraryNames, !.address_identifiers = <<"A">>,
    !.signatures = << <<>>, <<T0>>, <<StructTok(0)>> >>,
    !.struct_handles = <<Handle(0, 6, {"drop", "store"}, <<>>),
                         Handle(0, 11, {"copy", "drop", "store"}, <<Param({"drop"}, FALSE)>>)>>,
    !.struct_defs = <<Struct(0, U64), Struct(1, T0)>>,
    !.function_handles = <<LibHandle(0, 8, 1, <<{"drop"}>>), LibHandle(0, 5, 2, <<>>),
                           LibHandle(0, 9, 2, <<>>), LibHandle(0, 10, 2, <<>>)>>,
    !.function_defs = <<LibFn(0, "public"), LibFn(1, "script"), LibFn(2, "friend"), LibFn(3, "private")>>,
    !.friend_decls = <<[address |-> 0, name |-> 0]>>]

\* A::O: a function that takes an X of N, and a struct of its own called X.
LibO == [EmptyModule EXCEPT
    !.module_handles = <<[address |-> 0, name |-> 3], [address |-> 0, name |-> 1]>>,
    !.identifiers = LibraryNames, !.address_identifiers = <<"A">>,
    !.signatures = << <<>>, <<StructTok(0), VectorOf(InstTok(2, <<U64>>))>> >>,
    !.struct_handles = <<Handle(1, 6, {"drop"}, <<>>), Handle(0, 6, {"copy", "drop"}, <<>>),
                         Handle(1, 11, {"drop"}, <<Param({"drop"}, FALSE)>>)>>,
    !.struct_defs = <<Struct(1, U64)>>,
    !.function_handles = <<LibHandle(0, 4, 1, <<>>)>>,
    !.function_defs = <<LibFn(0, "public")>>]

MCLibrary == {LibN, LibO}

Imports == << <<>>, <<T0>>, <<StructTok(0)>>, <<StructTok(0), VectorOf(InstTok(2, <<U64>>))>>,
              <<StructTok(1), VectorOf(InstTok(2, <<U64>>))>>, <<RefTo(StructTok(0))>>, <<U64>> >>

\* A unit that imports X of N, X of O, G and one function.
Importing(base, xAb, gAb, gParam, handle) == [base EXCEPT
    !.identifiers = LibraryNames, !.address_identifiers = <<"A">>,
    !.signatures = Imports,
    !.struct_handles = <<Handle(1, 6, xAb, <<>>), Handle(2, 6, {}, <<>>), Handle(1, 11, gAb, <<gParam>>)>>,
    !.function_handles = <<handle>>,
    !.function_instantiations = IF handle.type_parameters = <<>> THEN <<>>
                                ELSE <<[handle |-> 0, type_parameters |-> 6]>>]

CallIt(handle) == <<Op(IF handle.type_parameters = <<>> THEN "CALL" ELSE "CALL_GENERIC", 0), [op |-> "RET"]>>

Importer(self, visibility, xAb, gAb, gParam, handle) ==
    LET base == Importing(EmptyModule, xAb, gAb, gParam, handle)
    IN  [base EXCEPT
            !.module_handles = <<[address |-> 0, name |-> self], [address |-> 0, name |-> 1],
                                 [address |-> 0, name |-> 3]>>,
            !.function_handles = Append(@, LibHandle(0, 2, 0, <<>>)),
            !.function_defs = <<[Fn(1, Body(CallIt(handle))) EXCEPT !.visibility = visibility]>>]

ImportingScript(xAb, gAb, gParam, handle) ==
    LET base == Importing(EmptyScript, xAb, gAb, gParam, [handle EXCEPT !.module = @ - 1])
    IN  [base EXCEPT
            !.module_handles = <<[address |-> 0, name |-> 1], [address |-> 0, name |-> 3]>>,
            !.struct_handles = [i \in 1..3 |-> [base.struct_handles[i] EXCEPT !.module = @ - 1]],
            !.main = Body(CallIt(handle))]

ImportedHandles ==
    { LibHandle(module, name, sig, tps) :
      module \in 1..2, name \in {4, 5, 8, 9, 10}, sig \in 1..5,
      tps \in {<<>>, <<{}>>, <<{"drop"}>>, <<{"drop", "store"}>>} }

PlainX == {"drop"}
PlainG == Param({"drop"}, FALSE)

LinkUnits ==
    { Importer(self, v, PlainX, {"drop"}, PlainG, h) :
      self \in {0, 2}, v \in {"public", "script"}, h \in ImportedHandles }
    \union { ImportingScript(PlainX, {"drop"}, PlainG, h) : h \in ImportedHandles }
    \union { Importer(0, "public", xAb, gAb, Param(c, ph), LibHandle(1, 8, 1, <<{"drop"}>>)) :
             xAb \in AbilitySets \union {{"drop"}, {"drop", "store"}}, gAb \in AbilitySets,
             c \in {{}, {"drop"}, {"drop", "store"}}, ph \in BOOLEAN }

MCFamilies == <<StructUnits, FunctionUnits, InstructionUnits, IndexUnits, ConstantUnits,
    ScriptUnits, EntryUnits, LinkUnits>>

\* The functions alone.
FunctionFamilies == <<FunctionUnits>>
============================================================================
