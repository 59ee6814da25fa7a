-------------------------------- MODULE Program --------------------------------
(***************************************************************************)
(* The functions of a Move module as the verifier and the interpreter      *)
(* share them: a table of types, a pool that instructions index, function  *)
(* signatures, and the code of every function.                             *)
(***************************************************************************)
EXTENDS Bytecode

CONSTANTS
    Desc,       \* type -> [kind, args]: kind "int", "bool", "address", "signer", "struct",
                \* "vector", "ref", "mut" (the two kinds of reference) or "param"; args are
                \* the field types of a struct, the element type or the type referred to
    Pool,       \* the struct definitions and signatures instructions refer to
    Copyable,   \* the types with the copy ability
    Droppable,  \* the types with the drop ability
    Keyed,      \* the types with the key ability
    U64,        \* the type of abort codes
    Sig,        \* function -> [params, locals, rets], sequences of types, and
                \* acquires, a set of types
    Programs    \* families (sets) of programs to consider: function -> code for the
                \* functions of a module, a segment of all functions

Types == DOMAIN Desc
Functions == DOMAIN Sig

Kind(t) == Desc[t].kind

(* Types are built as the signature checker allows: nothing holds a        *)
(* reference, and only structs are published.  "Invalid" marks the local   *)
(* without a value.                                                        *)
ASSUME TypeTable ==
    /\ \A t \in Types : /\ Kind(t) \in {"int", "bool", "address", "signer", "struct",
                                         "vector", "ref", "mut", "param"}
                        /\ Desc[t].args \in Seq(Types)
                        /\ \A k \in DOMAIN Desc[t].args : Kind(Desc[t].args[k]) \notin {"ref", "mut"}
                        /\ Kind(t) \in {"vector", "ref", "mut", "signer"} => Len(Desc[t].args) = 1
                        /\ Kind(t) = "signer" => Kind(Desc[t].args[1]) = "address"
                        /\ Kind(t) \in {"int", "bool", "address", "param"} => Desc[t].args = <<>>
    /\ "Invalid" \notin Types
    /\ U64 \in Types /\ Kind(U64) = "int"
    /\ Copyable \subseteq Types /\ Droppable \subseteq Types /\ Keyed \subseteq Types
    /\ \A t \in Keyed : Kind(t) = "struct"

ASSUME SignatureTable ==
    /\ Functions \subseteq Int
    /\ \A f \in Functions : /\ Sig[f].params \in Seq(Types) /\ Sig[f].locals \in Seq(Types)
                            /\ Sig[f].rets \in Seq(Types)

LocalTypes(f) == Sig[f].params \o Sig[f].locals

(* Locals are numbered from 0, the parameters first.                       *)
LocalAt(f, l) == LocalTypes(f)[l + 1]

Locals(f) == 0 .. Len(LocalTypes(f)) - 1

LocalOps == {"StLoc", "MoveLoc", "CopyLoc", "MutBorrowLoc", "ImmBorrowLoc"}

PoolOps == {"Pack", "Unpack", "MutBorrowField", "ImmBorrowField", "MutBorrowGlobal",
            "ImmBorrowGlobal", "Exists", "MoveFrom", "MoveTo", "VecPack", "VecLen", "VecImmBorrow",
            "VecMutBorrow", "VecPushBack", "VecPopBack", "VecUnpack", "VecSwap"}

(* The table has the type of references to t.                              *)
HasReference(kind, t) == \E r \in Types : Kind(r) = kind /\ Desc[r].args[1] = t

(* The types of what an instruction makes are in the table.                *)
ResultsInTable(f, i) ==
    LET elem == Pool[i.a]
    IN  /\ i.op = "VecPack" => \E t \in Types : Kind(t) = "vector" /\ Desc[t].args = <<elem>>
        /\ i.op \in {"LdTrue", "LdFalse", "Not", "And", "Eq", "Lt", "Exists"} =>
              \E t \in Types : Kind(t) = "bool"
        /\ i.op = "CastU8" => \E t \in Types : Kind(t) = "int" /\ t # U64
        /\ i.op \in {"MutBorrowLoc", "ImmBorrowLoc"} /\ Kind(LocalAt(f, i.a)) \notin {"ref", "mut"} =>
              HasReference(IF i.op = "MutBorrowLoc" THEN "mut" ELSE "ref", LocalAt(f, i.a))
        /\ i.op = "MutBorrowField" => HasReference("mut", Desc[elem].args[i.n])
        /\ i.op = "ImmBorrowField" => HasReference("ref", Desc[elem].args[i.n])
        /\ i.op \in {"MutBorrowGlobal", "VecMutBorrow"} => HasReference("mut", elem)
        /\ i.op \in {"ImmBorrowGlobal", "VecImmBorrow"} => HasReference("ref", elem)
        /\ i.op = "FreezeRef" =>
              \A t \in Types : Kind(t) = "mut" => HasReference("ref", Desc[t].args[1])

(* What the deserializer and the bounds checker have established.          *)
WellFormedCode(f, c) ==
    /\ c \in Seq([op : STRING, a : Nat, n : Nat])
    /\ InBounds(c)
    /\ \A pc \in Offsets(c) :
          LET i == At(c, pc)
          IN  /\ i.op \in LocalOps => i.a \in Locals(f)
              /\ i.op \in PoolOps => i.a \in DOMAIN Pool /\ Pool[i.a] \in Types
              /\ i.op \in {"MutBorrowField", "ImmBorrowField"} =>
                    Kind(Pool[i.a]) = "struct" /\ i.n \in DOMAIN Desc[Pool[i.a]].args
              /\ i.op = "Call" => i.a \in Functions
              /\ ResultsInTable(f, i)

ASSUME ProgramsAssumption ==
    \A family \in Programs : \A p \in family :
        /\ \E i, j \in Functions : i <= j /\ DOMAIN p = i .. j
        /\ \A f \in DOMAIN p : f \in Functions /\ WellFormedCode(f, p[f])
        /\ \A f \in DOMAIN p : \A pc \in Offsets(p[f]) :
              At(p[f], pc).op = "Call" => At(p[f], pc).a \in DOMAIN p

VARIABLE program

FirstFunction == CHOOSE f \in DOMAIN program : \A g \in DOMAIN program : f <= g
LastFunction == CHOOSE f \in DOMAIN program : \A g \in DOMAIN program : g <= f

-------------------------------------------------------------------------------
(* instruction_effect: how many values an instruction of f pops and        *)
(* pushes.                                                                 *)
NumPops(f, i) ==
    CASE i.op \in {"Pop", "BrTrue", "BrFalse", "StLoc", "Abort", "Not", "Unpack", "VecUnpack",
                   "CastU8", "CastU64", "FreezeRef", "ReadRef", "MutBorrowField", "ImmBorrowField",
                   "MutBorrowGlobal", "ImmBorrowGlobal", "Exists", "MoveFrom", "VecLen",
                   "VecPopBack"} -> 1
      [] i.op \in {"Add", "Eq", "And", "Lt", "WriteRef", "MoveTo", "VecMutBorrow", "VecImmBorrow",
                   "VecPushBack"} -> 2
      [] i.op = "VecSwap" -> 3
      [] i.op = "Ret" -> Len(Sig[f].rets)
      [] i.op = "Call" -> Len(Sig[i.a].params)
      [] i.op = "Pack" -> Len(Desc[Pool[i.a]].args)
      [] i.op = "VecPack" -> i.n
      [] OTHER -> 0

NumPushes(f, i) ==
    CASE i.op \in {"LdU64", "LdTrue", "LdFalse", "CopyLoc", "MoveLoc", "Not",
                   "Add", "Eq", "And", "Lt", "Pack", "VecPack", "CastU8", "CastU64", "FreezeRef",
                   "ReadRef", "MutBorrowLoc", "ImmBorrowLoc", "MutBorrowField", "ImmBorrowField",
                   "MutBorrowGlobal", "ImmBorrowGlobal", "Exists", "MoveFrom", "VecLen",
                   "VecMutBorrow", "VecImmBorrow", "VecPopBack"} -> 1
      [] i.op = "Call" -> Len(Sig[i.a].rets)
      [] i.op = "Unpack" -> Len(Desc[Pool[i.a]].args)
      [] i.op = "VecUnpack" -> i.n
      [] OTHER -> 0
===============================================================================
