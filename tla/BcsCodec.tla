----------------------------- MODULE BcsCodec -----------------------------
(* A value is written by to_bytes, or bytes come from elsewhere; they are   *)
(* read by from_bytes, and what was read is written again.                  *)
EXTENDS Bcs

CONSTANTS
    Samples,    \* pairs of a shape and a value of it
    Inputs,     \* byte strings that come from elsewhere
    None

VARIABLES
    shape,      \* the type that is written and read
    value,      \* what was written, or None
    bytes,      \* the bytes between writer and reader, or None
    outcome     \* what the reader made of them, or None

vars == <<shape, value, bytes, outcome>>

Init ==
    /\ \/ \E s \in Samples : shape = s[1] /\ value = s[2] /\ bytes = None
       \/ value = None /\ shape \in {s[1] : s \in Samples} /\ bytes \in Inputs
    /\ outcome = None

\* to_bytes; nothing comes out of a value that is nested too deep.
Serialize ==
    /\ bytes = None /\ ToBytes(value).ok
    /\ bytes' = ToBytes(value).bytes
    /\ UNCHANGED <<shape, value, outcome>>

\* One byte is changed, lost at the end or added there.
Damage ==
    /\ bytes # None /\ value # None /\ outcome = None
    /\ bytes' \in { [bytes EXCEPT ![i] = b] : i \in DOMAIN bytes, b \in 0..(ByteBase - 1) }
            \union { Front(bytes) : i \in DOMAIN bytes }
            \union { Append(bytes, b) : b \in 0..(ByteBase - 1) }
    /\ value' = None
    /\ UNCHANGED <<shape, outcome>>

\* from_bytes.
Deserialize ==
    /\ bytes # None /\ outcome = None
    /\ outcome' = FromBytes(shape, bytes)
    /\ UNCHANGED <<shape, value, bytes>>

Next == Serialize \/ Damage \/ Deserialize

Spec == Init /\ [][Next]_vars

(***************************************************************************)
(* Properties                                                              *)
(***************************************************************************)
Inside(v) ==
    CASE v.k \in {"option", "vector", "tuple", "named", "enum"} -> Range(v.v)
      [] v.k = "map" -> {e[1] : e \in Range(v.v)} \union {e[2] : e \in Range(v.v)}
      [] OTHER -> {}

\* Structs and enums passed on the way to the innermost value, as the
\* documentation of the format counts them (lib.rs).
RECURSIVE ContainerDepth(_)
ContainerDepth(v) ==
    Max({ContainerDepth(w) : w \in Inside(v)} \union {0}) +
    (IF v.k \in {"named", "enum"} \union AddressKinds THEN 1 ELSE 0)

RECURSIVE LongestSequence(_)
LongestSequence(v) ==
    Max({LongestSequence(w) : w \in Inside(v)} \union
        {IF v.k \in {"vector", "bytes", "map"} THEN Len(v.v) ELSE 0})

WithinLimits(v) ==
    ContainerDepth(v) <= MaxContainerDepth /\ LongestSequence(v) <= MaxSequenceLength

\* The same value, where maps have the same entries in any order.
RECURSIVE Same(_, _)
Same(v, w) ==
    /\ v.k = w.k
    /\ v.k = "enum" => v.tag = w.tag
    /\ CASE v.k = "map" ->
            /\ \A e \in Range(v.v) : \E f \in Range(w.v) : Same(e[1], f[1]) /\ Same(e[2], f[2])
            /\ Len(v.v) = Len(w.v)
         [] v.k \in {"option", "vector", "tuple", "named", "enum"} ->
            Len(v.v) = Len(w.v) /\ \A i \in DOMAIN v.v : Same(v.v[i], w.v[i])
         [] OTHER -> v.v = w.v

\* A value within the limits can be written, and what is written reads
\* back as the value, also when siblings of a container fill the limit again
\* (ser.rs, de.rs: enter and leave_named_container).
WrittenReadsBack ==
    (value # None /\ WithinLimits(value)) =>
        /\ ToBytes(value).ok
        /\ outcome # None => outcome.ok /\ Same(value, outcome.v)

\* Whatever bytes are accepted, they are the only bytes for their value: the
\* reader takes no encoding the writer does not make (lengths without leading
\* zeros, map keys in order and once, booleans and options 0 or 1).
OneEncoding ==
    (outcome # None /\ outcome.ok) => ToBytes(outcome.v) = Written(bytes)

\* No accepted value nests deeper than the limit, so code that walks it with
\* its own recursion is bounded, whatever the bytes were (de.rs:183).
DepthBounded ==
    (outcome # None /\ outcome.ok) => ContainerDepth(outcome.v) <= MaxContainerDepth

\* What the reader accepts is canonical: the one encoding of a value that is
\* not too deep (de.rs).
ReadIsCanonical == OneEncoding /\ DepthBounded
============================================================================
