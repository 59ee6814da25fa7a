--------------------------- MODULE BinaryFormat ---------------------------
(* The life of a compiled unit as bytes: a module or script is serialized,  *)
(* its bytes may be damaged or handed to the wrong loader, and they are     *)
(* deserialized table by table.  A unit that was loaded is stored again,    *)
(* as a tool that rewrites old binaries would.                              *)
EXTENDS BinarySerializer, BinaryTables

CONSTANTS
    Units,       \* the compiled units that are serialized
    OldBlobs,    \* binaries of earlier versions, which no writer here makes
    Damages(_),  \* the damaged forms of a blob
    MaxRounds,   \* bound: how often a loaded unit is stored again
    None

VARIABLES
    phase,    \* where the load stands
    unit,     \* the unit held, or the one being built
    blob,     \* the bytes stored
    script,   \* whether the bytes are loaded as a script
    orig,     \* the unit the bytes were written from, or None
    cursor,   \* the cursor on the blob
    left,     \* table headers still to read
    tables,   \* the table headers, sorted once they are checked
    contents, \* the table contents
    next,     \* the next table to build
    status,   \* the status of a failed load
    rounds    \* how often a loaded unit was stored again

vars == <<phase, unit, blob, script, orig, cursor, left, tables, contents, next, status, rounds>>

load == <<cursor, left, tables, contents, next, status>>

\* The table of a unit each kind fills, and the entries it holds.
CommonKinds == [
    MODULE_HANDLES |-> <<"module_handles", "module_handle">>,
    STRUCT_HANDLES |-> <<"struct_handles", "struct_handle">>,
    FUNCTION_HANDLES |-> <<"function_handles", "function_handle">>,
    FUNCTION_INST |-> <<"function_instantiations", "function_instantiation">>,
    SIGNATURES |-> <<"signatures", "signature">>,
    CONSTANT_POOL |-> <<"constant_pool", "constant">>,
    IDENTIFIERS |-> <<"identifiers", "identifier">>,
    ADDRESS_IDENTIFIERS |-> <<"address_identifiers", "address">>]
ModuleKinds == [
    STRUCT_DEFS |-> <<"struct_defs", "struct_def">>,
    STRUCT_DEF_INST |-> <<"struct_def_instantiations", "struct_instantiation">>,
    FUNCTION_DEFS |-> <<"function_defs", "function_def">>,
    FIELD_HANDLE |-> <<"field_handles", "field_handle">>,
    FIELD_INST |-> <<"field_instantiations", "field_instantiation">>,
    FRIEND_DECLS |-> <<"friend_decls", "module_handle">>]

Init ==
    /\ phase \in {"held", "stored"}
    /\ phase = "held" => unit \in Units /\ blob = <<>>
    /\ phase = "stored" => unit = EmptyModule /\ blob \in OldBlobs
    /\ script = FALSE /\ orig = None /\ rounds = 0
    /\ cursor = Cursor(<<>>, 0) /\ left = 0 /\ tables = <<>> /\ contents = <<>>
    /\ next = 0 /\ status = None

\* CompiledModule::serialize, CompiledScript::serialize.
Store ==
    /\ phase = "held" /\ rounds <= MaxRounds
    /\ \E written \in {Serialize(unit)} :
          /\ phase' = IF written.ok THEN "stored" ELSE "unwritable"
          /\ blob' = IF written.ok THEN written.out ELSE blob
    /\ orig' = [unit EXCEPT !.version = VersionMax]
    /\ script' = IsScript(unit)
    /\ rounds' = rounds + 1
    /\ UNCHANGED <<unit, load>>

\* The bytes that arrive are not the ones that were written.
Damage ==
    /\ phase = "stored" /\ orig # None /\ rounds = 1
    /\ \/ blob' \in Damages(blob) /\ UNCHANGED script
       \/ script' = ~script /\ UNCHANGED blob
    /\ orig' = None
    /\ UNCHANGED <<phase, unit, load, rounds>>

Fail(code) ==
    /\ phase' = "failed" /\ status' = code
    /\ UNCHANGED <<unit, blob, script, orig, cursor, left, tables, contents, next, rounds>>

\* VersionedCursor::new.
ReadVersion(c) ==
    Then(ReadByte(c), LAMBDA version :
        IF version.val \in 1..VersionMax THEN Good(0, [version.c EXCEPT !.version = version.val])
        ELSE Bad("UNKNOWN_VERSION"))

\* VersionedCursor::new and the table count.
ReadHeader(bytes) ==
    LET magic == ReadByte(Cursor(bytes, 0))
    IN  IF ~magic.ok \/ magic.val # Magic THEN Bad("BAD_MAGIC")
        ELSE Then(ReadVersion(magic.c), LAMBDA v : ReadUleb(v.c, CountMax, CountMax))

Open ==
    /\ phase = "stored"
    /\ \E count \in {ReadHeader(blob)} :
          IF ~count.ok THEN Fail(count.val)
          ELSE /\ phase' = "headers"
               /\ cursor' = count.c /\ left' = count.val /\ tables' = <<>>
               /\ UNCHANGED <<unit, blob, script, orig, contents, next, status, rounds>>

TableFromU8(byte) == {k \in DOMAIN TableType : TableType[k] = byte}

\* read_table: the kind is checked after the offset and the size are read.
TableHeader(c) ==
    Then(ReadByte(c), LAMBDA kind : Then(ReadUleb(kind.c, OffsetMax, OffsetMax), LAMBDA offset :
        Then(ReadUleb(offset.c, OffsetMax, OffsetMax), LAMBDA count :
            IF TableFromU8(kind.val) = {} THEN Bad("UNKNOWN_TABLE_TYPE")
            ELSE Good([kind |-> CHOOSE k \in TableFromU8(kind.val) : TRUE,
                       offset |-> offset.val, count |-> count.val], count.c))))

ReadTable ==
    /\ phase = "headers" /\ left > 0
    /\ \E r \in {TableHeader(cursor)} :
          IF ~r.ok THEN Fail(r.val)
          ELSE /\ tables' = Append(tables, r.val)
               /\ cursor' = r.c /\ left' = left - 1
               /\ UNCHANGED <<phase, unit, blob, script, orig, contents, next, status, rounds>>

\* Mutant: a kind may come twice.
CheckTableTwice(acc, t) ==
    IF ~acc.ok THEN acc
    ELSE IF t.offset # acc.end \/ t.count = 0 \/ acc.end + t.count > acc.len
         THEN [acc EXCEPT !.ok = FALSE, !.why = "BAD_HEADER_TABLE"]
    ELSE [acc EXCEPT !.end = @ + t.count]

\* One table of check_tables: end is where the tables before it end.
CheckTable(acc, t) ==
    IF ~acc.ok THEN acc
    ELSE IF t.offset # acc.end \/ t.count = 0 \/ acc.end + t.count > OffsetMax
         THEN [acc EXCEPT !.ok = FALSE, !.why = "BAD_HEADER_TABLE"]
    ELSE IF t.kind \in acc.kinds THEN [acc EXCEPT !.ok = FALSE, !.why = "DUPLICATE_TABLE"]
    ELSE IF acc.end + t.count > acc.len
         THEN [acc EXCEPT !.ok = FALSE, !.why = "BAD_HEADER_TABLE"]
    ELSE [acc EXCEPT !.end = @ + t.count, !.kinds = @ \union {t.kind}]

SortTables(ts) == SortSeq(ts, LAMBDA a, b : a.offset < b.offset)

CheckTables(sorted) ==
    FoldLeft(CheckTable,
        [ok |-> TRUE, end |-> 0, kinds |-> {}, len |-> Len(blob), why |-> ""], sorted)

\* The unit as far as what follows the tables tells it.
ReadOwn(c) ==
    IF script
    THEN Then(Load("ability_sets", c), LAMBDA params : Then(ReadIndex(params.c), LAMBDA args :
            Then(LoadCodeUnit(args.c), LAMBDA main :
                Good([EmptyScript EXCEPT !.version = c.version, !.type_parameters = params.val,
                        !.parameters = args.val, !.main = main.val], main.c))))
    ELSE Then(ReadIndex(c), LAMBDA self :
            Good([EmptyModule EXCEPT !.version = c.version,
                    !.self_module_handle_idx = self.val], self.c))

\* check_tables, read_table_contents, then what follows the tables.
ReadContents ==
    /\ phase = "headers" /\ left = 0
    /\ \E sorted \in {SortTables(tables)} : \E check \in {CheckTables(sorted)} :
          \E bytes \in {IF check.ok THEN ReadBytes(cursor, check.end) ELSE Bad(check.why)} :
             \E own \in {Then(bytes, LAMBDA r : ReadOwn(r.c))} :
                IF ~own.ok THEN Fail(own.val)
                ELSE /\ phase' = "common" /\ next' = 1
                     /\ tables' = sorted /\ contents' = bytes.val
                     /\ unit' = own.val
                     /\ UNCHANGED <<blob, script, orig, cursor, left, status, rounds>>

\* A cursor on the bytes of a table: slicing outside the contents panics.
LoadTable(t, entry) ==
    IF t.offset + t.count > Len(contents) THEN Panic
    ELSE IF entry = "address" /\ t.count % AddressLength # 0 THEN Bad("MALFORMED")
    ELSE LoadEntries(entry, Cursor(SubSeq(contents, t.offset + 1, t.offset + t.count), unit.version))

Fill(kinds) ==
    LET t == tables[next]
    IN  \E r \in {LoadTable(t, kinds[t.kind][2])} :
          IF ~r.ok THEN Fail(r.val)
          ELSE /\ unit' = [unit EXCEPT ![kinds[t.kind][1]] = @ \o r.val]
               /\ next' = next + 1
               /\ UNCHANGED <<phase, blob, script, orig, cursor, left, tables, contents, status, rounds>>

Skip ==
    /\ next' = next + 1
    /\ UNCHANGED <<phase, unit, blob, script, orig, cursor, left, tables, contents, status, rounds>>

\* Mutant of BuildCommonTable: friends whatever the version.
BuildCommonTableAny ==
    /\ phase = "common" /\ next <= Len(tables)
    /\ IF tables[next].kind \in DOMAIN CommonKinds THEN Fill(CommonKinds) ELSE Skip

\* build_common_tables, one table.
BuildCommonTable ==
    /\ phase = "common" /\ next <= Len(tables)
    /\ LET kind == tables[next].kind
       IN  IF kind \in DOMAIN CommonKinds THEN Fill(CommonKinds)
           ELSE IF kind = "FRIEND_DECLS" /\ unit.version < 2 THEN Fail("MALFORMED")
           ELSE Skip

CommonBuilt ==
    /\ phase = "common" /\ next > Len(tables)
    /\ phase' = "own" /\ next' = 1
    /\ UNCHANGED <<unit, blob, script, orig, cursor, left, tables, contents, status, rounds>>

\* build_module_tables, one table.
BuildModuleTable ==
    /\ phase = "own" /\ ~script /\ next <= Len(tables)
    /\ IF tables[next].kind \in DOMAIN ModuleKinds THEN Fill(ModuleKinds) ELSE Skip

\* build_script_tables, one table: a script has none of its own.
BuildScriptTable ==
    /\ phase = "own" /\ script /\ next <= Len(tables)
    /\ IF tables[next].kind \in DOMAIN ModuleKinds THEN Fail("MALFORMED") ELSE Skip

Built ==
    /\ phase = "own" /\ next > Len(tables)
    /\ phase' = "held"
    /\ UNCHANGED <<unit, blob, script, orig, cursor, left, tables, contents, next, status, rounds>>

Next ==
    \/ Store \/ Damage \/ Open \/ ReadTable \/ ReadContents
    \/ BuildCommonTable \/ CommonBuilt \/ BuildModuleTable \/ BuildScriptTable \/ Built

Spec == Init /\ [][Next]_vars

(***************************************************************************)
(* Properties                                                              *)
(***************************************************************************)
Loaded == phase = "held" /\ blob # <<>>

\* What was written is read back: the bytes a unit was serialized to load,
\* and give that unit again, at the newest version (serialize and
\* deserialize of CompiledModule and CompiledScript).
RoundTrip ==
    orig # None => phase # "failed" /\ (Loaded => unit = orig)

\* A unit that was loaded, from damaged or old bytes too, can be stored
\* again: no limit of the serializer is tighter than the deserializer's.
LoadedIsWritable == phase = "unwritable" => blob = <<>>

\* No bytes make the loader slice outside the table contents or apply a
\* saturated type (the unreachable! arms of load_signature_token).
NoPanic == status # "PANIC"

\* The tables that are built are of different kinds, do not overlap and
\* leave no byte of the contents out (check_tables).
TablesPartition ==
    phase \in {"common", "own"} =>
        /\ \A i, j \in DOMAIN tables : i # j => tables[i].kind # tables[j].kind
        /\ \A p \in 0..(Len(contents) - 1) :
              Cardinality({i \in DOMAIN tables :
                  tables[i].offset <= p /\ p < tables[i].offset + tables[i].count}) = 1

\* Whatever the bytes, the loader reads each of them for one table only and
\* none outside (check_tables, and the cursors of the tables).
ReaderStaysInside == NoPanic /\ TablesPartition

\* A unit of an old version has nothing that version could not express:
\* friends and script functions (2), phantom parameters (3), vector
\* instructions (4); and its type parameters can be stored, as every
\* argument could be before abilities.
OldVersionsStayOld ==
    phase \in {"own", "held"} /\ ~IsScript(unit) /\ orig = None =>
        /\ unit.version < 2 =>
              /\ unit.friend_decls = <<>>
              /\ \A i \in DOMAIN unit.function_defs :
                    unit.function_defs[i].visibility \in {"private", "public"}
              /\ \A i \in DOMAIN unit.function_handles :
                    \A j \in DOMAIN unit.function_handles[i].type_parameters :
                        "store" \in unit.function_handles[i].type_parameters[j]
        /\ unit.version < 3 =>
              \A i \in DOMAIN unit.struct_handles :
                  \A j \in DOMAIN unit.struct_handles[i].type_parameters :
                      ~unit.struct_handles[i].type_parameters[j].is_phantom
        /\ unit.version < 4 =>
              \A i \in DOMAIN unit.function_defs : ~unit.function_defs[i].code.native =>
                  \A j \in DOMAIN unit.function_defs[i].code.code :
                      unit.function_defs[i].code.code[j].op \notin VectorOpcode
============================================================================
