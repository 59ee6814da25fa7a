--------------------------- MODULE BinaryTables ---------------------------
(* Reading the entries of the tables of a compiled unit (deserializer.rs).  *)
(* The layout of an entry is a list of fields, each a name and the kind of  *)
(* value read for it, in the order the code reads them.                     *)
EXTENDS BinaryReader

LoadModuleHandle == << <<"address", "index">>, <<"name", "index">> >>
LoadStructHandle == << <<"module", "index">>, <<"name", "index">>,
    <<"abilities", "struct_abilities">>, <<"type_parameters", "struct_type_parameters">> >>
LoadStructTypeParameter == << <<"constraints", "parameter_abilities">>, <<"is_phantom", "phantom">> >>
LoadFunctionHandle == << <<"module", "index">>, <<"name", "index">>, <<"parameters", "index">>,
    <<"return_", "index">>, <<"type_parameters", "ability_sets">> >>
\* Mutant of LoadFunctionInstantiation: the fields in the other order.
LoadFunctionInstantiationSwapped == << <<"type_parameters", "index">>, <<"handle", "index">> >>
LoadFunctionInstantiation == << <<"handle", "index">>, <<"type_parameters", "index">> >>
LoadStructInstantiation == << <<"def", "index">>, <<"type_parameters", "index">> >>
LoadConstant == << <<"type_", "token">>, <<"data", "blob">> >>
LoadFieldDef == << <<"name", "index">>, <<"signature", "token">> >>
LoadStructDef == << <<"struct_handle", "index">>, <<"field_information", "field_information">> >>
LoadFieldHandle == << <<"owner", "index">>, <<"field", "field_offset">> >>
LoadFieldInstantiation == << <<"handle", "index">>, <<"type_parameters", "index">> >>

Layout == [
    module_handle |-> LoadModuleHandle, struct_handle |-> LoadStructHandle,
    struct_type_parameter |-> LoadStructTypeParameter,
    function_handle |-> LoadFunctionHandle,
    function_instantiation |-> LoadFunctionInstantiation,
    struct_instantiation |-> LoadStructInstantiation,
    constant |-> LoadConstant, field_def |-> LoadFieldDef, struct_def |-> LoadStructDef,
    field_handle |-> LoadFieldHandle, field_instantiation |-> LoadFieldInstantiation]

\* Lists: a count, then that many entries.
ListOf == [
    struct_type_parameters |-> "struct_type_parameter", ability_sets |-> "function_abilities",
    signature |-> "token", field_defs |-> "field_def", acquires |-> "index"]

VectorOpcode == {"VEC_PACK", "VEC_LEN", "VEC_IMM_BORROW", "VEC_MUT_BORROW", "VEC_PUSH_BACK",
    "VEC_POP_BACK", "VEC_UNPACK", "VEC_SWAP"}

\* What load_code reads after an opcode byte.
OperandKind(op) ==
    CASE op \in {"BR_TRUE", "BR_FALSE", "BRANCH", "LD_CONST", "MUT_BORROW_FIELD",
            "MUT_BORROW_FIELD_GENERIC", "IMM_BORROW_FIELD", "IMM_BORROW_FIELD_GENERIC",
            "CALL", "CALL_GENERIC", "PACK", "PACK_GENERIC", "UNPACK", "UNPACK_GENERIC",
            "EXISTS", "EXISTS_GENERIC", "MUT_BORROW_GLOBAL", "MUT_BORROW_GLOBAL_GENERIC",
            "IMM_BORROW_GLOBAL", "IMM_BORROW_GLOBAL_GENERIC", "MOVE_FROM",
            "MOVE_FROM_GENERIC", "MOVE_TO", "MOVE_TO_GENERIC", "VEC_LEN", "VEC_IMM_BORROW",
            "VEC_MUT_BORROW", "VEC_PUSH_BACK", "VEC_POP_BACK", "VEC_SWAP"} -> "index"
      [] op \in {"COPY_LOC", "MOVE_LOC", "ST_LOC", "MUT_BORROW_LOC", "IMM_BORROW_LOC"} -> "local"
      [] op = "LD_U8" -> "u8"
      [] op = "LD_U64" -> "u64"
      [] op = "LD_U128" -> "u128"
      [] op \in {"VEC_PACK", "VEC_UNPACK"} -> "index_u64"
      [] OTHER -> "none"

RECURSIVE Load(_, _), LoadMany(_, _, _), LoadFields(_, _)

LoadMany(kind, n, c) ==
    IF n = 0 THEN Good(<<>>, c)
    ELSE Then(Load(kind, c), LAMBDA first : Then(LoadMany(kind, n - 1, first.c), LAMBDA rest :
            Good(<<first.val>> \o rest.val, rest.c)))

LoadFields(layout, c) ==
    IF layout = <<>> THEN Good(<<>>, c)
    ELSE Then(Load(Head(layout)[2], c), LAMBDA first :
            Then(LoadFields(Tail(layout), first.c), LAMBDA rest :
                Good((Head(layout)[1] :> first.val) @@ rest.val, rest.c)))

\* The operands of an instruction.
Operands(op) ==
    CASE OperandKind(op) = "none" -> <<>>
      [] OperandKind(op) = "index_u64" -> << <<"arg", "index">>, <<"num", "u64">> >>
      [] OTHER -> << <<"arg", OperandKind(op)>> >>

LoadInstruction(c) ==
    Then(ReadByte(c), LAMBDA byte :
        IF byte.val \notin DOMAIN Opcodes THEN Bad("UNKNOWN_OPCODE")
        ELSE IF Opcodes[byte.val] \in VectorOpcode /\ c.version < 4 THEN Bad("MALFORMED")
        ELSE Then(LoadFields(Operands(Opcodes[byte.val]), byte.c), LAMBDA r :
                Good(("op" :> Opcodes[byte.val]) @@ r.val, r.c)))

LoadCodeUnit(c) ==
    Then(ReadIndex(c), LAMBDA locals :
        Then(ReadUleb(locals.c, IndexMax, 2^WordBits), LAMBDA count :
            Then(LoadMany("instruction", count.val, count.c), LAMBDA code :
                Good(CodeUnit(locals.val, code.val), code.c))))

LoadFieldInformation(c) ==
    Then(ReadByte(c), LAMBDA flag :
        CASE flag.val = NativeFlag.NATIVE -> Good(NativeFields, flag.c)
          [] flag.val = NativeFlag.DECLARED ->
                Then(Load("field_defs", flag.c), LAMBDA fields : Good(Declared(fields.val), fields.c))
          [] OTHER -> Bad("UNKNOWN_NATIVE_STRUCT_FLAG"))

\* The flags of a function: one byte with both the public and the native
\* bit in version 1, a visibility byte and a flag byte afterwards.
ReadFunctionFlags(c) ==
    Then(ReadByte(c), LAMBDA first :
        IF c.version = 1
        THEN LET public == first.val % 2 = 1
             IN  Good(<<IF public THEN "public" ELSE "private",
                        IF public THEN first.val - 1 ELSE first.val>>, first.c)
        ELSE LET named == {v \in DOMAIN Visibility : Visibility[v] = first.val}
             IN  IF named = {} THEN Bad("MALFORMED")
                 ELSE Then(ReadByte(first.c), LAMBDA second :
                        Good(<<CHOOSE v \in named : TRUE, second.val>>, second.c)))

LoadFunctionDef(c) ==
    Then(ReadIndex(c), LAMBDA function :
      Then(ReadFunctionFlags(function.c), LAMBDA flags :
        Then(Load("acquires", flags.c), LAMBDA acquires :
          LET native == (flags.val[2] \div FunctionNative) % 2 = 1
              unused == IF native THEN flags.val[2] - FunctionNative ELSE flags.val[2]
          IN  Then(IF native THEN Good(NoCode, acquires.c) ELSE LoadCodeUnit(acquires.c), LAMBDA code :
                IF unused # 0 THEN Bad("INVALID_FLAG_BITS")
                ELSE Good([function |-> function.val, visibility |-> flags.val[1],
                           acquires |-> acquires.val, code |-> code.val], code.c)))))

Load(kind, c) ==
    CASE kind \in DOMAIN Layout -> LoadFields(Layout[kind], c)
      [] kind \in DOMAIN ListOf ->
            Then(ReadCount(c), LAMBDA n : LoadMany(ListOf[kind], n.val, n.c))
      [] kind = "index" -> ReadIndex(c)
      [] kind = "field_offset" -> ReadUleb(c, CountMax, IndexMax)
      [] kind = "local" -> ReadUleb(c, CountMax, CountMax)
      [] kind = "u8" -> ReadBytes(c, 1)
      [] kind = "u64" -> ReadBytes(c, U64Bytes)
      [] kind = "u128" -> ReadBytes(c, U128Bytes)
      [] kind = "blob" -> ReadBlob(c)
      [] kind = "identifier" -> LoadIdentifier(c)
      [] kind = "address" -> ReadBytes(c, AddressLength)
      [] kind = "token" -> LoadToken(c)
      [] kind = "struct_abilities" -> LoadAbilitySet(c, "struct")
      [] kind = "parameter_abilities" -> LoadAbilitySet(c, "struct_parameter")
      [] kind = "function_abilities" -> LoadAbilitySet(c, "function_parameter")
      [] kind = "phantom" -> LoadPhantom(c)
      [] kind = "field_information" -> LoadFieldInformation(c)
      [] kind = "function_def" -> LoadFunctionDef(c)
      [] kind = "instruction" -> LoadInstruction(c)

\* Every entry up to the end of the table.
RECURSIVE LoadEntries(_, _)
LoadEntries(kind, c) ==
    IF AtEnd(c) THEN Good(<<>>, c)
    ELSE Then(Load(kind, c), LAMBDA first : Then(LoadEntries(kind, first.c), LAMBDA rest :
            Good(<<first.val>> \o rest.val, rest.c)))
============================================================================
