---------------------------- MODULE MCBcsCodec ----------------------------
(* Values of every kind, nested up to and beyond the container limit, and   *)
(* all short byte strings read as each of their types.                      *)
EXTENDS BcsCodec

Kind(k) == [k |-> k]
Of(k, t) == [k |-> k, of |-> t]
Items(k, ts) == [k |-> k, items |-> ts]
Choice(vs) == [k |-> "enum", variants |-> vs]
MapOf(key, t) == [k |-> "map", key |-> key, of |-> t]

Val(k, v) == [k |-> k, v |-> v]
Case(tag, v) == [k |-> "enum", tag |-> tag, v |-> v]
Byte(n) == Val("u8", n)
Word(n) == Val("u64", n)
Bytes == {Byte(n) : n \in {0, 1, ByteBase - 1}}
Words == {Word(n) : n \in {0, 1, ByteBase - 1, ByteBase, ByteBase^2 - 1}}

\* A list cell: an enum that is empty or holds a byte and the rest.
RECURSIVE CellShape(_), CellOf(_)
CellShape(n) ==
    Choice(<< <<>>, <<Kind("u8")>> \o (IF n = 0 THEN <<>> ELSE <<CellShape(n - 1)>>) >>)
CellOf(n) == IF n = 0 THEN Case(0, <<>>) ELSE Case(1, <<Byte(n), CellOf(n - 1)>>)

\* Structs around structs.
RECURSIVE BoxShape(_), BoxOf(_)
BoxShape(n) == Items("named", IF n = 1 THEN <<Kind("bool")>> ELSE <<BoxShape(n - 1), BoxShape(n - 1)>>)
BoxOf(n) == Val("named", IF n = 1 THEN <<Val("bool", TRUE)>> ELSE <<BoxOf(n - 1), BoxOf(n - 1)>>)

Repeat(v, n) == [i \in 1..n |-> v]
Addresses == {Val("address", a) : a \in {<<0, 1>>, <<ByteBase - 1, 0>>}}

MCSamples ==
    { <<Kind("bool"), Val("bool", b)>> : b \in BOOLEAN }
    \union { <<Kind("u8"), v>> : v \in Bytes }
    \union { <<Kind("u64"), v>> : v \in Words }
    \union { <<Of("option", Kind("u8")), Val("option", v)>> : v \in {<<>>, <<Byte(0)>>, <<Byte(1)>>} }
    \union { <<Of("vector", Kind("u8")), Val("vector", Repeat(v, n))>> :
             v \in Bytes, n \in {0, 1, 2, 2^GroupBits, MaxSequenceLength, MaxSequenceLength + 1} }
    \union { <<Kind("bytes"), Val("bytes", Repeat(1, n))>> : n \in {0, 1, 2^GroupBits} }
    \union { <<Of("vector", Of("option", Kind("bool"))),
               Val("vector", <<Val("option", <<>>), Val("option", <<Val("bool", b)>>)>>)>> : b \in BOOLEAN }
    \union { <<Items("tuple", <<Kind("u8"), Kind("address")>>), Val("tuple", <<Byte(1), a>>)>> : a \in Addresses }
    \union { <<Of("vector", BoxShape(n)), Val("vector", <<BoxOf(n), BoxOf(n)>>)>> : n \in 1..(MaxContainerDepth + 1) }
    \union { <<CellShape(MaxContainerDepth + 1), CellOf(n)>> : n \in 0..(MaxContainerDepth + 1) }
    \union { <<MapOf(Kind("u64"), Kind("bool")),
               Val("map", [i \in DOMAIN ks |-> <<ks[i], Val("bool", i = 1)>>])>> :
             ks \in {s \in [1..2 -> Words] : s[1] # s[2]} \union {<<>>} }
    \union { <<MapOf(Of("vector", Kind("bool")), Kind("u8")),
               Val("map", << <<Val("vector", <<Val("bool", a), Val("bool", b)>>), Byte(1)>>,
                             <<Val("vector", <<Val("bool", b)>>), Byte(2)>> >>)>> : a, b \in BOOLEAN }

MCInputs == BoundedSeq(0..(ByteBase - 1), 4)
============================================================================
