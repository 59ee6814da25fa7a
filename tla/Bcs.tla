-------------------------------- MODULE Bcs --------------------------------
(* Binary canonical serialization (bcs/src).  A shape is what a Rust type   *)
(* asks of the format: an integer, an option, a sequence, a tuple, a named  *)
(* struct, an enum or a map; a value carries its kind.  The layouts of Move *)
(* values (value.rs) are shapes: signature tokens without references, whose *)
(* structs are tuples.                                                      *)
EXTENDS FileFormat

CONSTANTS
    LengthBits,         \* width of the integer a length is read into (32)
    MaxSequenceLength,  \* the longest sequence written or read (2^31 - 1)
    MaxContainerDepth   \* how deep structs and enums may nest (500)

ByteBits == GroupBits + 1
ByteBase == 2^ByteBits

\* Bytes of the fixed size kinds.
Width == [u8 |-> 1, u64 |-> U64Bytes, u128 |-> U128Bytes]

AddressKinds == {"address", "signer"}

\* The lexicographic order of byte strings.
Less(a, b) ==
    \/ a # b /\ IsPrefix(a, b)
    \/ \E i \in DOMAIN a \intersect DOMAIN b :
        a[i] < b[i] /\ \A j \in 1..(i - 1) : a[j] = b[j]

(***************************************************************************)
(* Writing, with depth containers left                                     *)
(***************************************************************************)
Written(bytes) == [ok |-> TRUE, bytes |-> bytes]
WriteError == [ok |-> FALSE]

After(bytes, result) == IF result.ok THEN Written(bytes \o result.bytes) ELSE WriteError

ToLE(v, n) == [i \in 1..n |-> (v \div ByteBase^(i - 1)) % ByteBase]

RECURSIVE OutputUleb(_)
OutputUleb(v) ==
    IF v >= 2^GroupBits
    THEN <<(v % 2^GroupBits) + 2^GroupBits>> \o OutputUleb(v \div 2^GroupBits)
    ELSE <<v>>

\* A length, then what it is the length of.
OutputSeqLen(n, result) ==
    IF n > MaxSequenceLength THEN WriteError ELSE After(OutputUleb(n), result)

\* Mutant: entries are written as the map hands them over.
UnsortedEntries(entries) ==
    LET distinct == {i \in DOMAIN entries : \A j \in 1..(i - 1) : entries[j][1] # entries[i][1]}
    IN  [p \in 1..Cardinality(distinct) |->
            entries[CHOOSE i \in distinct : Cardinality({j \in distinct : j < i}) = p - 1]]

\* Entries in the order of the bytes of their keys, the first of each key.
SortedEntries(entries) ==
    LET first(key) == CHOOSE i \in DOMAIN entries :
            entries[i][1] = key /\ \A j \in 1..(i - 1) : entries[j][1] # key
        keys == SetToSortSeq({entries[i][1] : i \in DOMAIN entries}, Less)
    IN  [p \in DOMAIN keys |-> entries[first(keys[p])]]

EntryBytes(entries) == FlattenSeq([p \in DOMAIN entries |-> entries[p][1] \o entries[p][2]])

RECURSIVE Write(_, _), WriteAll(_, _)
Write(value, depth) ==
    CASE value.k = "bool" -> Written(<<IF value.v THEN 1 ELSE 0>>)
      [] value.k \in DOMAIN Width -> Written(ToLE(value.v, Width[value.k]))
      [] value.k \in AddressKinds -> IF depth = 0 THEN WriteError ELSE Written(value.v)
      [] value.k = "bytes" -> OutputSeqLen(Len(value.v), Written(value.v))
      [] value.k = "option" -> After(<<Len(value.v)>>, WriteAll(value.v, depth))
      [] value.k = "vector" -> OutputSeqLen(Len(value.v), WriteAll(value.v, depth))
      [] value.k = "tuple" -> WriteAll(value.v, depth)
      [] value.k = "named" -> IF depth = 0 THEN WriteError ELSE WriteAll(value.v, depth - 1)
      [] value.k = "enum" ->
            \* A variant without data does not enter its container.
            IF value.v = <<>> THEN Written(OutputUleb(value.tag))
            ELSE IF depth = 0 THEN WriteError
            ELSE After(OutputUleb(value.tag), WriteAll(value.v, depth - 1))
      [] value.k = "map" ->
            LET keys == [i \in DOMAIN value.v |-> Write(value.v[i][1], depth)]
                values == [i \in DOMAIN value.v |-> Write(value.v[i][2], depth)]
                entries == SortedEntries(
                    [i \in DOMAIN value.v |-> <<keys[i].bytes, values[i].bytes>>])
            IN  IF \E i \in DOMAIN value.v : ~keys[i].ok \/ ~values[i].ok THEN WriteError
                ELSE OutputSeqLen(Len(entries), Written(EntryBytes(entries)))

WriteAll(values, depth) ==
    IF values = <<>> THEN Written(<<>>)
    ELSE LET first == Write(Head(values), depth)
         IN  IF first.ok THEN After(first.bytes, WriteAll(Tail(values), depth)) ELSE WriteError

ToBytes(value) == Write(value, MaxContainerDepth)

(***************************************************************************)
(* Reading                                                                 *)
(***************************************************************************)
Parsed(v, rest) == [ok |-> TRUE, v |-> v, rest |-> rest]
ParseError == [ok |-> FALSE]

\* What follows a successful read.
Then(r, Continue(_)) == IF r.ok THEN Continue(r) ELSE ParseError

FromLE(bytes) == FoldRight(LAMBDA b, acc : b + ByteBase * acc, bytes, 0)

\* The next n bytes as they stand.
Fill(input, n) ==
    IF Len(input) < n THEN ParseError
    ELSE Parsed(SubSeq(input, 1, n), SubSeq(input, n + 1, Len(input)))

\* One byte that is 0 or 1.
ParseBool(input) ==
    IF input = <<>> \/ Head(input) \notin {0, 1} THEN ParseError
    ELSE Parsed(Head(input) = 1, Tail(input))

ParseInteger(input, n) == Then(Fill(input, n), LAMBDA bytes : Parsed(FromLE(bytes.v), bytes.rest))

\* The last digit is not zero unless it is the only one.
Canonical(digits) == Len(digits) = 1 \/ Last(digits) # 0

UlebValue(digits) ==
    FoldRight(LAMBDA b, acc : (b % 2^GroupBits) + 2^GroupBits * acc, digits, 0)

\* Digits while the shift is below LengthBits, up to the first without the
\* continuation bit.
ParseUleb(input) ==
    LET groups == (LengthBits + GroupBits - 1) \div GroupBits
        last == SelectInSubSeq(input, 1, Min({Len(input), groups}), LAMBDA b : b < 2^GroupBits)
    IN  Then(IF last = 0 THEN ParseError ELSE Fill(input, last), LAMBDA digits :
            IF Canonical(digits.v) /\ UlebValue(digits.v) < 2^LengthBits
            THEN Parsed(UlebValue(digits.v), digits.rest) ELSE ParseError)

ParseLength(input) ==
    Then(ParseUleb(input), LAMBDA length :
        IF length.v <= MaxSequenceLength THEN length ELSE ParseError)

ParseByteString(input) == Then(ParseLength(input), LAMBDA length : Fill(length.rest, length.v))

\* Mutant: a key may come twice.
KeyMayRepeat(previous, key) == previous = <<>> \/ ~Less(key, previous[1])

\* A key has greater bytes than the one before it; previous holds none or one.
KeyInOrder(previous, key) == previous = <<>> \/ Less(previous[1], key)

EnterNamedContainer(depth) == depth > 0

RECURSIVE ParseContent(_, _, _), Parse(_, _, _), ParseItems(_, _, _), ParseEntries(_, _, _, _, _)

\* What a value of the shape holds.
ParseContent(t, input, depth) ==
    CASE t.k = "bool" -> ParseBool(input)
      [] t.k \in DOMAIN Width -> ParseInteger(input, Width[t.k])
      [] t.k \in AddressKinds -> Fill(input, AddressLength)
      [] t.k = "bytes" -> ParseByteString(input)
      [] t.k = "option" -> Then(ParseBool(input), LAMBDA some :
            ParseItems(IF some.v THEN <<t.of>> ELSE <<>>, some.rest, depth))
      [] t.k = "vector" -> Then(ParseLength(input), LAMBDA length :
            ParseItems([i \in 1..length.v |-> t.of], length.rest, depth))
      [] t.k = "map" -> Then(ParseLength(input), LAMBDA length :
            ParseEntries(t, length.v, <<>>, length.rest, depth))
      [] t.k = "tuple" -> ParseItems(t.items, input, depth)
      [] t.k = "named" -> ParseItems(t.items, input, depth - 1)
      [] t.k = "enum" -> Then(ParseUleb(input), LAMBDA variant :
            IF variant.v >= Len(t.variants) THEN ParseError
            ELSE Then(ParseItems(t.variants[variant.v + 1], variant.rest, depth - 1), LAMBDA payload :
                Parsed([tag |-> variant.v, v |-> payload.v], payload.rest)))

Parse(t, input, depth) ==
    IF t.k \in {"named", "enum"} \union AddressKinds /\ ~EnterNamedContainer(depth) THEN ParseError
    ELSE Then(ParseContent(t, input, depth), LAMBDA content :
        Parsed([k |-> t.k] @@ (IF t.k = "enum" THEN content.v ELSE [v |-> content.v]), content.rest))

ParseItems(shapes, input, depth) ==
    IF shapes = <<>> THEN Parsed(<<>>, input)
    ELSE Then(Parse(Head(shapes), input, depth), LAMBDA first :
         Then(ParseItems(Tail(shapes), first.rest, depth), LAMBDA others :
            Parsed(<<first.v>> \o others.v, others.rest)))

ParseEntries(t, n, previous, input, depth) ==
    IF n = 0 THEN Parsed(<<>>, input)
    ELSE Then(Parse(t.key, input, depth), LAMBDA key :
         LET bytes == SubSeq(input, 1, Len(input) - Len(key.rest))
         IN  IF ~KeyInOrder(previous, bytes) THEN ParseError
             ELSE Then(Parse(t.of, key.rest, depth), LAMBDA value :
                  Then(ParseEntries(t, n - 1, <<bytes>>, value.rest, depth), LAMBDA others :
                    Parsed(<< <<key.v, value.v>> >> \o others.v, others.rest))))

\* A value that takes all of the input.
FromBytes(t, input) ==
    Then(Parse(t, input, MaxContainerDepth), LAMBDA r : IF r.rest = <<>> THEN r ELSE ParseError)

(***************************************************************************)
(* Layouts of constants                                                    *)
(***************************************************************************)
\* Types the verifier reads constants with; a signer is one of them.
RECURSIVE SigToTy(_)
SigToTy(t) == t.k \in Primitive \/ (t.k = "vector" /\ SigToTy(t.of))

\* Types the interpreter loads constants with; a signer is not.
RECURSIVE ConstantSigTokenToLayout(_)
ConstantSigTokenToLayout(t) ==
    \/ t.k \in Primitive \ {"signer"}
    \/ t.k = "vector" /\ ConstantSigTokenToLayout(t.of)

\* Mutant: any type that the reader knows is one constants may have.
VerifyConstantData(c) == SigToTy(c.type_) /\ FromBytes(c.type_, c.data).ok

\* constants.rs: the type is one constants may have, the data reads as it.
VerifyConstant(c) ==
    /\ IsValidForConstant(c.type_)
    /\ SigToTy(c.type_)
    /\ FromBytes(c.type_, c.data).ok

ConstantsVerified(u) == \A c \in Range(u.constant_pool) : VerifyConstant(c)

\* LdConst.  The verifier's reader builds MoveValues and this one Values; both walk a
\* layout with the same primitives of bcs and are one FromBytes here, so what is compared
\* is the types that each has a layout for, not the two walks.
DeserializeConstant(c) ==
    IF ConstantSigTokenToLayout(c.type_) THEN FromBytes(c.type_, c.data) ELSE ParseError
============================================================================
