--------------------------- MODULE BinaryReader ---------------------------
(* Reading the parts of a compiled unit (deserializer.rs and the cursor of  *)
(* file_format_common.rs).  A cursor is the bytes it reads, the place it    *)
(* has reached and the version of the binary; a read either moves on with a *)
(* value or ends the load with a status.                                    *)
EXTENDS FileFormat

CONSTANTS Letter, Digit, Underscore   \* the classes of identifier bytes

Cursor(bytes, version) == [bytes |-> bytes, at |-> 1, version |-> version]
AtEnd(c) == c.at > Len(c.bytes)

Good(v, c) == [ok |-> TRUE, val |-> v, c |-> c]
Bad(status) == [ok |-> FALSE, val |-> status, c |-> Cursor(<<>>, 0)]
\* A condition no input may reach: a failed slice or an unreachable! arm.
Panic == Bad("PANIC")

\* The early return of ?: the next read goes on from the result of the last.
Then(r, Continue(_)) == IF r.ok THEN Continue(r) ELSE r

ReadByte(c) ==
    IF AtEnd(c) THEN Bad("MALFORMED") ELSE Good(c.bytes[c.at], [c EXCEPT !.at = @ + 1])

ReadBytes(c, n) ==
    IF c.at + n - 1 > Len(c.bytes) THEN Bad("MALFORMED")
    ELSE Good(SubSeq(c.bytes, c.at, c.at + n - 1), [c EXCEPT !.at = @ + n])

\* read_uleb128_as_u64: groups are added low first; a group must survive the
\* shift into the word, the last one may not be an empty continuation, and
\* reading stops once the shift is beyond the word.
RECURSIVE UlebFrom(_, _, _)
UlebFrom(c, value, shift) ==
    Then(ReadByte(c), LAMBDA r :
        LET cur == r.val % 2^GroupBits
            more == (r.val \div 2^GroupBits) % 2 = 1
        IN  IF cur * 2^shift >= 2^WordBits THEN Bad("MALFORMED")
            ELSE IF ~more THEN
                IF shift > 0 /\ cur = 0 THEN Bad("MALFORMED")
                ELSE Good(value + cur * 2^shift, r.c)
            ELSE IF shift + GroupBits > WordBits THEN Bad("MALFORMED")
            ELSE UlebFrom(r.c, value + cur * 2^shift, shift + GroupBits))

\* read_uleb_internal: at most max, then narrowed to a type with that limit.
ReadUleb(c, max, limit) ==
    Then(UlebFrom(c, 0, 0), LAMBDA r :
        IF r.val > max THEN Bad("MALFORMED")
        ELSE IF r.val > limit THEN Bad("UNKNOWN_INVARIANT_VIOLATION_ERROR") ELSE r)

ReadIndex(c) == ReadUleb(c, IndexMax, IndexMax)
\* Mutant of ReadCount: the limit of an index.
ReadCountWide(c) == ReadUleb(c, IndexMax, 2^WordBits)

ReadCount(c) == ReadUleb(c, CountMax, 2^WordBits)

\* A size and that many bytes: constant data, and the bytes of a name.
ReadBlob(c) ==
    Then(ReadUleb(c, IndexMax, 2^WordBits), LAMBDA size : ReadBytes(size.c, size.val))

(***************************************************************************)
(* Signature tokens: a stack of partly built types                         *)
(***************************************************************************)
Saturated(t) == [k |-> "saturated", tok |-> t]

TypeFromU8(byte) == {k \in DOMAIN SerializedType : SerializedType[k] = byte}

ReadHead(k, c) ==
    CASE k \in Primitive -> Good(Saturated(Prim(k)), c)
      [] k \in {"vector", "ref", "mut"} -> Good([k |-> k], c)
      [] k = "struct" -> Then(ReadIndex(c), LAMBDA h : Good(Saturated(StructTok(h.val)), h.c))
      [] k = "param" -> Then(ReadUleb(c, TypeParameterIndexMax, IndexMax),
            LAMBDA idx : Good(Saturated(ParamTok(idx.val)), idx.c))
      [] k = "inst" -> Then(ReadIndex(c), LAMBDA h : Then(ReadCount(h.c), LAMBDA arity :
            Good([k |-> "inst", h |-> h.val, arity |-> arity.val, args |-> <<>>], arity.c)))

ReadNext(c) ==
    Then(ReadByte(c), LAMBDA byte :
        IF TypeFromU8(byte.val) = {} THEN Bad("UNKNOWN_SERIALIZED_TYPE")
        ELSE ReadHead(CHOOSE x \in TypeFromU8(byte.val) : TRUE, byte.c))

\* TypeBuilder::apply.
Apply(b, t) ==
    CASE b.k = "vector" -> Saturated(VectorOf(t))
      [] b.k = "ref" -> Saturated(RefTo(t))
      [] b.k = "mut" -> Saturated(MutTo(t))
      [] b.k = "inst" -> LET args == Append(b.args, t)
                         IN  IF Len(args) >= b.arity THEN Saturated(InstTok(b.h, args))
                             ELSE [b EXCEPT !.args = args]
      [] OTHER -> [k |-> "unreachable"]

RECURSIVE BuildToken(_, _)
BuildToken(stack, c) ==
    LET top == Last(stack)
        below == Front(stack)
    IN  IF Len(stack) > DepthMax THEN Bad("MALFORMED")
        ELSE IF top.k = "unreachable" THEN Panic
        ELSE IF top.k # "saturated"
             THEN Then(ReadNext(c), LAMBDA r : BuildToken(Append(stack, r.val), r.c))
        ELSE IF below = <<>> THEN Good(top.tok, c)
        ELSE BuildToken(Append(Front(below), Apply(Last(below), top.tok)), c)

LoadToken(c) ==
    Then(ReadNext(c), LAMBDA first :
        IF first.val.k = "saturated" THEN Good(first.val.tok, first.c)
        ELSE BuildToken(<<first.val>>, first.c))

(***************************************************************************)
(* Abilities: kinds before version 2                                       *)
(***************************************************************************)
OldStructAbilities(byte) ==
    CASE byte = 1 -> {"store", "key"} [] byte = 2 -> {"store", "copy", "drop"}

OldKindAbilities(byte) ==
    CASE byte = 1 -> {} [] byte = 2 -> {"copy", "drop"} [] byte = 3 -> {"key"}

LoadAbilitySet(c, position) ==
    IF c.version >= 2
    THEN Then(ReadUleb(c, IntoU8(Ability), IndexMax), LAMBDA bits : Good(FromU8(bits.val), bits.c))
    ELSE Then(ReadByte(c), LAMBDA byte :
        IF position = "struct" THEN
            IF byte.val \in 1..2 THEN Good(OldStructAbilities(byte.val), byte.c)
            ELSE Bad("UNKNOWN_ABILITY")
        ELSE IF byte.val \in 1..3
             THEN Good(OldKindAbilities(byte.val) \union
                         (IF position = "function_parameter" THEN {"store"} ELSE {}), byte.c)
             ELSE Bad("UNKNOWN_ABILITY"))

LoadPhantom(c) ==
    IF c.version < 3 THEN Good(FALSE, c)
    ELSE Then(ReadUleb(c, 1, IndexMax), LAMBDA bit : Good(bit.val # 0, bit.c))

(***************************************************************************)
(* Identifiers                                                             *)
(***************************************************************************)
ValidIdentifier(s) ==
    /\ s # <<>>
    /\ s[1] = Letter \/ (s[1] = Underscore /\ Len(s) > 1)
    /\ \A i \in 2..Len(s) : s[i] \in {Letter, Digit, Underscore}

LoadIdentifier(c) ==
    Then(ReadBlob(c), LAMBDA name : IF ValidIdentifier(name.val) THEN name ELSE Bad("MALFORMED"))
============================================================================
