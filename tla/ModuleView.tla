---------------------------- MODULE ModuleView ----------------------------
(* Reading a compiled unit: lookups in its tables, the groups instructions *)
(* fall in, and the abilities of a type.  A script lacks the tables of     *)
(* definitions; a lookup in one of them is an error there.                 *)
EXTENDS FileFormat

Has(table, i) == i < Len(table)
At(table, i) == table[i + 1]

\* The account and the name of the module a module handle stands for.
ModuleName(u, h) ==
    LET handle == At(u.module_handles, h)
    IN  <<At(u.address_identifiers, handle.address), At(u.identifiers, handle.name)>>

\* Indices of a table, from 0.
Indices(table) == {i - 1 : i \in DOMAIN table}

(***************************************************************************)
(* Instructions by what their operand names                                *)
(***************************************************************************)
BranchOps == {"BR_TRUE", "BR_FALSE", "BRANCH"}
LocalOps == {"COPY_LOC", "MOVE_LOC", "ST_LOC", "MUT_BORROW_LOC", "IMM_BORROW_LOC"}
FieldOps == {"MUT_BORROW_FIELD", "IMM_BORROW_FIELD"}
StructOps == {"PACK", "UNPACK", "EXISTS", "IMM_BORROW_GLOBAL", "MUT_BORROW_GLOBAL",
    "MOVE_FROM", "MOVE_TO"}
FieldGenericOps == {"MUT_BORROW_FIELD_GENERIC", "IMM_BORROW_FIELD_GENERIC"}
StructGenericOps == {"PACK_GENERIC", "UNPACK_GENERIC", "EXISTS_GENERIC",
    "IMM_BORROW_GLOBAL_GENERIC", "MUT_BORROW_GLOBAL_GENERIC", "MOVE_FROM_GENERIC",
    "MOVE_TO_GENERIC"}
VectorOps == {"VEC_PACK", "VEC_LEN", "VEC_IMM_BORROW", "VEC_MUT_BORROW",
    "VEC_PUSH_BACK", "VEC_POP_BACK", "VEC_UNPACK", "VEC_SWAP"}
GenericOps == FieldGenericOps \union StructGenericOps \union {"CALL_GENERIC"}
PlainOps == FieldOps \union StructOps \union {"CALL"}

\* The table an instruction's operand is an index of.
OperandTable(op) ==
    CASE op = "LD_CONST" -> "constant_pool"
      [] op = "CALL" -> "function_handles"
      [] op = "CALL_GENERIC" -> "function_instantiations"
      [] op \in FieldOps -> "field_handles"
      [] op \in FieldGenericOps -> "field_instantiations"
      [] op \in StructOps -> "struct_defs"
      [] op \in StructGenericOps -> "struct_def_instantiations"
      [] op \in VectorOps -> "signatures"

\* The signature with the type arguments of a generic or vector instruction.
TypeArguments(u, i) ==
    At(u.signatures,
       IF i.op \in VectorOps THEN i.arg ELSE At(u[OperandTable(i.op)], i.arg).type_parameters)

StructHandleOf(u, def) == At(u.struct_handles, At(u.struct_defs, def).struct_handle)

Constraints(handle) ==
    [p \in DOMAIN handle.type_parameters |-> handle.type_parameters[p].constraints]

\* The constraints on the type parameters of the function or struct that an
\* instruction, generic or not, is about.
FormalsOf(u, i) ==
    LET target == IF i.op \in GenericOps THEN At(u[OperandTable(i.op)], i.arg) ELSE [handle |-> i.arg, def |-> i.arg]
    IN  CASE i.op \in {"CALL", "CALL_GENERIC"} ->
                At(u.function_handles, target.handle).type_parameters
          [] i.op \in FieldOps \union FieldGenericOps ->
                Constraints(StructHandleOf(u, At(u.field_handles, target.handle).owner))
          [] OTHER -> Constraints(StructHandleOf(u, target.def))

\* The instructions of a code unit.
Instructions(unit) == {unit.code[pc] : pc \in DOMAIN unit.code}

(***************************************************************************)
(* Abilities                                                               *)
(***************************************************************************)
Requires == [copy |-> "copy", drop |-> "drop", store |-> "store", key |-> "store"]
RequiredBy(a) == {b \in Ability : Requires[b] = a}

Primitives == {"copy", "drop", "store"}
References == {"copy", "drop"}

\* Mutant: an ability requires itself, key too.
SameAbilities(declared, phantom, args) ==
    { a \in declared : \A p \in DOMAIN args : phantom[p] \/ a \in args[p] }

\* Declared abilities, kept only if every argument that is not phantom
\* has what they require.
PolymorphicAbilities(declared, phantom, args) ==
    { a \in declared : \A p \in DOMAIN args :
        phantom[p] \/ a \in UNION {RequiredBy(b) : b \in args[p]} }

RECURSIVE Abilities(_, _, _)
Abilities(u, t, constraints) ==
    CASE t.k \in {"bool", "u8", "u64", "u128", "address"} -> Primitives
      [] IsReference(t) -> References
      [] t.k = "signer" -> {"drop"}
      [] t.k = "param" -> At(constraints, t.i)
      [] t.k = "vector" ->
            PolymorphicAbilities(Primitives, <<FALSE>>, <<Abilities(u, t.of, constraints)>>)
      [] t.k = "struct" -> At(u.struct_handles, t.h).abilities
      [] t.k = "inst" ->
            LET h == At(u.struct_handles, t.h)
            IN  PolymorphicAbilities(h.abilities,
                    [p \in DOMAIN h.type_parameters |-> h.type_parameters[p].is_phantom],
                    [p \in DOMAIN t.args |-> Abilities(u, t.args[p], constraints)])
============================================================================
