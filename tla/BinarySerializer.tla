------------------------- MODULE BinarySerializer -------------------------
(* Writing a compiled unit as bytes (serializer.rs).  Every operation       *)
(* either emits bytes or bails; a unit is written only if no part bails.    *)
EXTENDS FileFormat

Emit(bytes) == [ok |-> TRUE, out |-> bytes]
Bail == [ok |-> FALSE, out |-> <<>>]
Both(a, b) == IF a.ok /\ b.ok THEN Emit(a.out \o b.out) ELSE Bail
Concat(parts) == FoldLeft(Both, Emit(<<>>), parts)
Each(Op(_), seq) == Concat([i \in DOMAIN seq |-> Op(seq[i])])

\* Low group first; every group but the last carries the continuation bit.
RECURSIVE Uleb(_)
Uleb(v) ==
    LET cur == v % 2^GroupBits
    IN  IF cur = v THEN <<cur>> ELSE <<cur + 2^GroupBits>> \o Uleb(v \div 2^GroupBits)

WriteUleb(v, max) == IF v > max THEN Bail ELSE Emit(Uleb(v))
WriteIndex(i) == WriteUleb(i, IndexMax)
WriteCounted(Op(_), seq) == Both(WriteUleb(Len(seq), CountMax), Each(Op, seq))
WriteBlob(bytes) == Both(WriteUleb(Len(bytes), IndexMax), Emit(bytes))

(***************************************************************************)
(* Tokens and abilities                                                    *)
(***************************************************************************)
SerializeNode(t) ==
    Both(Emit(<<SerializedType[t.k]>>),
         CASE t.k = "struct" -> WriteIndex(t.h)
           [] t.k = "inst" -> Both(WriteIndex(t.h), WriteUleb(Len(t.args), CountMax))
           [] t.k = "param" -> WriteUleb(t.i, TypeParameterIndexMax)
           [] OTHER -> Emit(<<>>))

SerializeToken(t) ==
    LET node(n) == IF n[2] > DepthMax THEN Bail ELSE SerializeNode(n[1])
    IN  Each(node, Preorder(t))

SerializeSignature(sig) == WriteCounted(SerializeToken, sig)

SerializeAbilitySet(set) == WriteUleb(IntoU8(set), IntoU8(Ability))
SerializeAbilitySets(sets) == WriteCounted(SerializeAbilitySet, sets)

SerializeTypeParameter(p) ==
    Both(SerializeAbilitySet(p.constraints), WriteUleb(IF p.is_phantom THEN 1 ELSE 0, 1))
SerializeTypeParameters(ps) == WriteCounted(SerializeTypeParameter, ps)

(***************************************************************************)
(* Code                                                                    *)
(***************************************************************************)
\* What follows the opcode byte of an instruction.
SerializeOperands(i) ==
    CASE i.op \in {"BR_TRUE", "BR_FALSE", "BRANCH"} -> WriteUleb(i.arg, IndexMax)
      [] i.op \in {"LD_U8", "LD_U64", "LD_U128"} -> Emit(i.arg)
      [] i.op \in {"COPY_LOC", "MOVE_LOC", "ST_LOC", "MUT_BORROW_LOC", "IMM_BORROW_LOC"} ->
            WriteUleb(i.arg, CountMax)
      [] i.op \in {"LD_CONST", "MUT_BORROW_FIELD", "MUT_BORROW_FIELD_GENERIC",
            "IMM_BORROW_FIELD", "IMM_BORROW_FIELD_GENERIC", "CALL", "PACK", "UNPACK",
            "CALL_GENERIC", "PACK_GENERIC", "UNPACK_GENERIC", "EXISTS",
            "MUT_BORROW_GLOBAL", "IMM_BORROW_GLOBAL", "MOVE_FROM", "MOVE_TO",
            "EXISTS_GENERIC", "MUT_BORROW_GLOBAL_GENERIC", "IMM_BORROW_GLOBAL_GENERIC",
            "MOVE_FROM_GENERIC", "MOVE_TO_GENERIC", "VEC_LEN", "VEC_IMM_BORROW",
            "VEC_MUT_BORROW", "VEC_PUSH_BACK", "VEC_POP_BACK", "VEC_SWAP"} ->
            WriteIndex(i.arg)
      [] i.op \in {"VEC_PACK", "VEC_UNPACK"} -> Both(WriteIndex(i.arg), Emit(i.num))
      [] OTHER -> Emit(<<>>)

SerializeInstruction(i) == Both(Emit(<<OpcodeByte(i.op)>>), SerializeOperands(i))

SerializeCode(code) ==
    Both(WriteUleb(Len(code), IndexMax), Each(SerializeInstruction, code))

SerializeCodeUnit(unit) == Both(WriteIndex(unit.locals), SerializeCode(unit.code))

(***************************************************************************)
(* Table entries                                                           *)
(***************************************************************************)
SerializeModuleHandle(h) == Both(WriteIndex(h.address), WriteIndex(h.name))

SerializeStructHandle(h) ==
    Concat(<<WriteIndex(h.module), WriteIndex(h.name), SerializeAbilitySet(h.abilities),
             SerializeTypeParameters(h.type_parameters)>>)

SerializeFunctionHandle(h) ==
    Concat(<<WriteIndex(h.module), WriteIndex(h.name), WriteIndex(h.parameters),
             WriteIndex(h.return_), SerializeAbilitySets(h.type_parameters)>>)

SerializeFunctionInstantiation(f) == Both(WriteIndex(f.handle), WriteIndex(f.type_parameters))

SerializeIdentifier(name) == WriteBlob(name)
SerializeAddress(address) == Emit(address)
SerializeConstant(c) == Both(SerializeToken(c.type_), WriteBlob(c.data))

SerializeFieldDefinition(f) == Both(WriteIndex(f.name), SerializeToken(f.signature))

SerializeStructDefinition(d) ==
    Both(WriteIndex(d.struct_handle),
         IF d.field_information.native
         THEN Emit(<<NativeFlag.NATIVE>>)
         ELSE Both(Emit(<<NativeFlag.DECLARED>>),
                   WriteCounted(SerializeFieldDefinition, d.field_information.fields)))

SerializeStructDefInstantiation(s) == Both(WriteIndex(s.def), WriteIndex(s.type_parameters))

SerializeFunctionDefinition(f) ==
    Concat(<<WriteIndex(f.function),
             Emit(<<Visibility[f.visibility], IF f.code.native THEN FunctionNative ELSE 0>>),
             WriteCounted(WriteIndex, f.acquires),
             IF f.code.native THEN Emit(<<>>) ELSE SerializeCodeUnit(f.code)>>)

SerializeFieldHandle(h) == Both(WriteIndex(h.owner), WriteUleb(h.field, CountMax))
SerializeFieldInstantiation(f) == Both(WriteIndex(f.handle), WriteIndex(f.type_parameters))

(***************************************************************************)
(* Units                                                                   *)
(***************************************************************************)
\* The contents of the tables every unit has, and of those of a module, in
\* the order they are written.
SerializeCommonTables(u) == <<
    <<"MODULE_HANDLES", Each(SerializeModuleHandle, u.module_handles)>>,
    <<"STRUCT_HANDLES", Each(SerializeStructHandle, u.struct_handles)>>,
    <<"FUNCTION_HANDLES", Each(SerializeFunctionHandle, u.function_handles)>>,
    <<"FUNCTION_INST", Each(SerializeFunctionInstantiation, u.function_instantiations)>>,
    <<"SIGNATURES", Each(SerializeSignature, u.signatures)>>,
    <<"IDENTIFIERS", Each(SerializeIdentifier, u.identifiers)>>,
    <<"ADDRESS_IDENTIFIERS", Each(SerializeAddress, u.address_identifiers)>>,
    <<"CONSTANT_POOL", Each(SerializeConstant, u.constant_pool)>> >>

SerializeModuleTables(m) == SerializeCommonTables(m) \o <<
    <<"STRUCT_DEFS", Each(SerializeStructDefinition, m.struct_defs)>>,
    <<"STRUCT_DEF_INST", Each(SerializeStructDefInstantiation, m.struct_def_instantiations)>>,
    <<"FUNCTION_DEFS", Each(SerializeFunctionDefinition, m.function_defs)>>,
    <<"FIELD_HANDLE", Each(SerializeFieldHandle, m.field_handles)>>,
    <<"FIELD_INST", Each(SerializeFieldInstantiation, m.field_instantiations)>>,
    <<"FRIEND_DECLS", Each(SerializeModuleHandle, m.friend_decls)>> >>

\* Where table i starts: after the contents of the tables before it.
TableStart(tables, i) == SumFunction([j \in 1..(i - 1) |-> Len(tables[j][2].out)])

\* One header for each table with contents: its kind, offset and size.
SerializeTableIndices(tables) ==
    LET used == SelectSeq([i \in DOMAIN tables |-> i], LAMBDA i : tables[i][2].out # <<>>)
        header(i) ==
            Concat(<<Emit(<<TableType[tables[i][1]]>>),
                     WriteUleb(TableStart(tables, i), OffsetMax),
                     WriteUleb(Len(tables[i][2].out), OffsetMax)>>)
    IN  Both(WriteUleb(Len(used), CountMax), Each(header, used))

SerializeMain(s) ==
    Concat(<<SerializeAbilitySets(s.type_parameters), WriteIndex(s.parameters),
             SerializeCodeUnit(s.main)>>)

\* CompiledModule::serialize and CompiledScript::serialize: always the
\* newest version, whatever version the unit was read from.
Serialize(u) ==
    LET tables == IF IsScript(u) THEN SerializeCommonTables(u) ELSE SerializeModuleTables(u)
        content(t) == t[2]
        contents == Each(content, tables)
    IN  Concat(<<IF Len(contents.out) > OffsetMax THEN Bail ELSE Emit(<<Magic, VersionMax>>),
                 SerializeTableIndices(tables),
                 contents,
                 IF IsScript(u) THEN SerializeMain(u)
                                ELSE WriteIndex(u.self_module_handle_idx)>>)
============================================================================
