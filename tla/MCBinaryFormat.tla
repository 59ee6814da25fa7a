-------------------------- MODULE MCBinaryFormat --------------------------
(* Small units for BinaryFormat: one for each opcode, tokens up to and      *)
(* beyond the depth limit, every ability set, a module with every table, a  *)
(* script, and binaries of the versions no serializer here writes.          *)
EXTENDS BinaryFormat

U64 == Prim("u64")

\* Operands long enough to need two groups.
ArgOf(op) ==
    CASE OperandKind(op) = "none" -> <<>>
      [] OperandKind(op) = "index" -> "arg" :> 9
      [] OperandKind(op) = "local" -> "arg" :> 15
      [] OperandKind(op) = "u8" -> "arg" :> <<200>>
      [] OperandKind(op) = "u64" -> "arg" :> <<1, 2>>
      [] OperandKind(op) = "u128" -> "arg" :> <<1, 2, 3>>
      [] OTHER -> ("arg" :> 9) @@ ("num" :> <<4, 0>>)

Function(vis, code) == [function |-> 0, visibility |-> vis, acquires |-> <<1>>, code |-> code]

OpUnits == { [EmptyModule EXCEPT !.function_defs =
                <<Function("public", CodeUnit(0, << ("op" :> op) @@ ArgOf(op) >>))>>] :
             op \in Range(Opcodes) }

Tokens == { Prim(p) : p \in Primitive } \union
    { VectorOf(U64), RefTo(StructTok(9)), MutTo(ParamTok(63)), VectorOf(VectorOf(U64)),
      VectorOf(VectorOf(VectorOf(U64))), RefTo(InstTok(1, <<VectorOf(U64), ParamTok(0)>>)),
      InstTok(1, <<U64, InstTok(2, <<U64, ParamTok(1)>>), StructTok(0)>>),
      InstTok(1, <<VectorOf(VectorOf(U64))>>) }

TokenUnits == { [EmptyModule EXCEPT !.signatures = << <<t>>, <<>>, <<U64, t>> >>] : t \in Tokens }

HandleUnits ==
    { [EmptyModule EXCEPT !.struct_handles =
          <<[module |-> 0, name |-> 12, abilities |-> a,
             type_parameters |-> <<[constraints |-> b, is_phantom |-> a = b]>>]>>] :
      a \in SUBSET Ability, b \in {{}, {"key"}, {"copy", "drop"}} }

CountUnits ==
    { [EmptyModule EXCEPT !.signatures = <<[i \in 1..n |-> U64]>>] : n \in {15, 16} }

Rich == [EmptyModule EXCEPT
    !.module_handles = <<[address |-> 0, name |-> 0], [address |-> 1, name |-> 8]>>,
    !.function_handles = <<[module |-> 0, name |-> 1, parameters |-> 0, return_ |-> 1,
                            type_parameters |-> <<{"store"}, Ability>>]>>,
    !.function_instantiations = <<[handle |-> 0, type_parameters |-> 2]>>,
    !.identifiers = <<<<Letter, Digit>>, <<Underscore, Letter>>>>,
    !.address_identifiers = <<<<0, 1>>, <<2, 3>>>>,
    !.constant_pool = <<[type_ |-> VectorOf(Prim("u8")), data |-> <<2, 1, 1>>]>>,
    !.struct_defs = <<[struct_handle |-> 0, field_information |-> NativeFields],
                      [struct_handle |-> 1, field_information |->
                          Declared(<<[name |-> 1, signature |-> VectorOf(U64)]>>)]>>,
    !.struct_def_instantiations = <<[def |-> 0, type_parameters |-> 1]>>,
    !.function_defs = <<Function("friend", NoCode), Function("script", CodeUnit(1, <<[op |-> "RET"]>>))>>,
    !.field_handles = <<[owner |-> 1, field |-> 0]>>,
    !.field_instantiations = <<[handle |-> 0, type_parameters |-> 3]>>,
    !.friend_decls = <<[address |-> 1, name |-> 0]>>,
    !.self_module_handle_idx = 1]

Script == [EmptyScript EXCEPT
    !.signatures = <<<<>>, <<U64>>>>,
    !.type_parameters = <<{"drop"}>>, !.parameters = 1,
    !.main = CodeUnit(0, <<[op |-> "NOP"], [op |-> "RET"]>>)]

MCUnits == OpUnits \union TokenUnits \union HandleUnits \union CountUnits \union {Rich, Script}

\* A byte changed, the last byte lost, or a byte too many.
MCDamages(b) ==
    { [b EXCEPT ![i] = v] : i \in DOMAIN b, v \in 0..16 \union {64, 255} }
    \union { Front(b), Append(b, 0) }

\* A binary with one table of the given kind.
OneTable(version, kind, bytes) ==
    <<Magic, version, 1, TableType[kind], 0>> \o Uleb(Len(bytes)) \o bytes \o <<0>>

MCOldBlobs ==
    { OneTable(v, "STRUCT_HANDLES", <<0, 0, a, 1, b>>) : v \in 1..2, a \in 0..3, b \in 0..4 }
    \union { OneTable(v, "FUNCTION_HANDLES", <<0, 0, 0, 0, 1, a>>) : v \in 1..2, a \in 0..4 }
    \union { OneTable(v, "FUNCTION_DEFS", <<0, f, 0, 0, 1, 2>>) : v \in 1..3, f \in 0..7 }
    \union { OneTable(v, "FUNCTION_DEFS", <<0, f, 0>>) : v \in 1..2, f \in 0..7 }
    \union { OneTable(v, "FUNCTION_DEFS", <<0, 1, 0, 0, 1, OpcodeByte("VEC_LEN"), 0>>) : v \in 1..4 }
    \union { OneTable(v, "FRIEND_DECLS", <<0, 0>>) : v \in 0..5 }
    \union { OneTable(v, "SIGNATURES", <<1, SerializedType["inst"], 0, n, 3>>) : v \in 3..4, n \in 0..2 }
    \union { OneTable(4, "SIGNATURES", <<1, 10, 10, 10, 3>>),
             OneTable(4, "SIGNATURES", <<8, 2>> \o [i \in 1..16 |-> 1]) }
============================================================================
