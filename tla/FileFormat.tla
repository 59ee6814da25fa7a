---------------------------- MODULE FileFormat ----------------------------
(* The shape of compiled code: signature tokens, ability sets, opcodes and  *)
(* the limits of the binary format, shared by the serializer, the           *)
(* deserializer and the module passes.  Indices count from 0, as in the     *)
(* code; a table is a sequence, so entry i of table t is t[i + 1].          *)
EXTENDS Integers, Sequences, SequencesExt, FiniteSets

CONSTANTS
    GroupBits,      \* payload bits of a ULEB128 byte (7 in the code)
    WordBits,       \* width of the integer a ULEB128 is read into (64)
    IndexMax,       \* TABLE_INDEX_MAX, and the largest u16 (65535)
    CountMax,       \* SIGNATURE_SIZE_MAX, FIELD_COUNT_MAX, ... (255)
    OffsetMax,      \* TABLE_OFFSET_MAX, TABLE_SIZE_MAX, the largest u32
    DepthMax,       \* SIGNATURE_TOKEN_DEPTH_MAX (256)
    AddressLength,  \* AccountAddress::LENGTH
    U64Bytes,       \* bytes of a u64 immediate (8)
    U128Bytes       \* bytes of a u128 immediate (16)

\* One past the largest u16: the code's constant is 65536.
TypeParameterIndexMax == IndexMax + 1

VersionMax == 4

Magic == 161

(***************************************************************************)
(* Signature tokens                                                        *)
(***************************************************************************)
Primitive == {"bool", "u8", "u64", "u128", "address", "signer"}
Prim(p) == [k |-> p]
VectorOf(t) == [k |-> "vector", of |-> t]
RefTo(t) == [k |-> "ref", of |-> t]
MutTo(t) == [k |-> "mut", of |-> t]
StructTok(h) == [k |-> "struct", h |-> h]
InstTok(h, args) == [k |-> "inst", h |-> h, args |-> args]
ParamTok(i) == [k |-> "param", i |-> i]

Children(t) ==
    CASE t.k \in {"vector", "ref", "mut"} -> <<t.of>>
      [] t.k = "inst" -> t.args
      [] OTHER -> <<>>

\* The nodes of a token, parents first, each with its depth.
RECURSIVE PreorderAt(_, _)
PreorderAt(t, d) ==
    << <<t, d>> >> \o FlattenSeq([i \in DOMAIN Children(t) |-> PreorderAt(Children(t)[i], d + 1)])
Preorder(t) == PreorderAt(t, 1)
Nodes(t) == { Preorder(t)[i][1] : i \in DOMAIN Preorder(t) }

IsReference(t) == t.k \in {"ref", "mut"}

RECURSIVE IsValidForConstant(_)
IsValidForConstant(t) ==
    \/ t.k \in {"address", "bool", "u8", "u64", "u128"}
    \/ t.k = "vector" /\ IsValidForConstant(t.of)

(***************************************************************************)
(* Abilities                                                               *)
(***************************************************************************)
Ability == {"copy", "drop", "store", "key"}
AbilityBit == [copy |-> 1, drop |-> 2, store |-> 4, key |-> 8]
IntoU8(set) == SumSet({AbilityBit[a] : a \in set})
FromU8(u) == {a \in Ability : (u \div AbilityBit[a]) % 2 = 1}

(***************************************************************************)
(* Bytes of tables, types and instructions                                 *)
(***************************************************************************)
TableType == [
    MODULE_HANDLES |-> 1, STRUCT_HANDLES |-> 2, FUNCTION_HANDLES |-> 3, FUNCTION_INST |-> 4,
    SIGNATURES |-> 5, CONSTANT_POOL |-> 6, IDENTIFIERS |-> 7, ADDRESS_IDENTIFIERS |-> 8,
    STRUCT_DEFS |-> 10, STRUCT_DEF_INST |-> 11, FUNCTION_DEFS |-> 12, FIELD_HANDLE |-> 13,
    FIELD_INST |-> 14, FRIEND_DECLS |-> 15]

SerializedType == [
    bool |-> 1, u8 |-> 2, u64 |-> 3, u128 |-> 4, address |-> 5, ref |-> 6, mut |-> 7,
    struct |-> 8, param |-> 9, vector |-> 10, inst |-> 11, signer |-> 12]

NativeFlag == [NATIVE |-> 1, DECLARED |-> 2]

\* An opcode's byte is its place in this list.
Opcodes == <<
    "POP", "RET", "BR_TRUE", "BR_FALSE", "BRANCH", "LD_U64", "LD_CONST", "LD_TRUE",
    "LD_FALSE", "COPY_LOC", "MOVE_LOC", "ST_LOC", "MUT_BORROW_LOC", "IMM_BORROW_LOC",
    "MUT_BORROW_FIELD", "IMM_BORROW_FIELD", "CALL", "PACK", "UNPACK", "READ_REF",
    "WRITE_REF", "ADD", "SUB", "MUL", "MOD", "DIV", "BIT_OR", "BIT_AND", "XOR", "OR",
    "AND", "NOT", "EQ", "NEQ", "LT", "GT", "LE", "GE", "ABORT", "NOP", "EXISTS",
    "MUT_BORROW_GLOBAL", "IMM_BORROW_GLOBAL", "MOVE_FROM", "MOVE_TO", "FREEZE_REF",
    "SHL", "SHR", "LD_U8", "LD_U128", "CAST_U8", "CAST_U64", "CAST_U128",
    "MUT_BORROW_FIELD_GENERIC", "IMM_BORROW_FIELD_GENERIC", "CALL_GENERIC",
    "PACK_GENERIC", "UNPACK_GENERIC", "EXISTS_GENERIC", "MUT_BORROW_GLOBAL_GENERIC",
    "IMM_BORROW_GLOBAL_GENERIC", "MOVE_FROM_GENERIC", "MOVE_TO_GENERIC", "VEC_PACK",
    "VEC_LEN", "VEC_IMM_BORROW", "VEC_MUT_BORROW", "VEC_PUSH_BACK", "VEC_POP_BACK",
    "VEC_UNPACK", "VEC_SWAP" >>

OpcodeByte(op) == CHOOSE i \in DOMAIN Opcodes : Opcodes[i] = op

Visibility == [private |-> 0, public |-> 1, script |-> 2, friend |-> 3]

FunctionNative == 2

(***************************************************************************)
(* Compiled units                                                          *)
(***************************************************************************)
CommonTables == {"module_handles", "struct_handles", "function_handles",
    "function_instantiations", "signatures", "identifiers", "address_identifiers",
    "constant_pool"}
ModuleTables == CommonTables \union {"struct_defs", "struct_def_instantiations",
    "function_defs", "field_handles", "field_instantiations", "friend_decls"}

NativeFields == [native |-> TRUE]
Declared(fields) == [native |-> FALSE, fields |-> fields]
NoCode == [native |-> TRUE]
CodeUnit(locals, code) == [native |-> FALSE, locals |-> locals, code |-> code]

EmptyModule ==
    [t \in ModuleTables |-> <<>>] @@ [version |-> VersionMax, self_module_handle_idx |-> 0]
EmptyScript ==
    [t \in CommonTables |-> <<>>] @@
    [version |-> VersionMax, type_parameters |-> <<>>, parameters |-> 0,
     main |-> CodeUnit(0, <<>>)]

IsScript(u) == "main" \in DOMAIN u
============================================================================
