---------------------------- MODULE MCDataCache ----------------------------
(* Two accounts for DataCache.  References of every kind, two at a time,    *)
(* are explored where one account alone is in use: what two references to   *)
(* one resource may do to each other, and what resources of two accounts    *)
(* may do, are different questions.                                         *)
EXTENDS DataCache, TLC

Sym == Permutations(Addr)

Idle(a) == \A t \in Ty : slot[<<a, t>>] = Unloaded /\ remote[<<a, t>>] = Absent

Narrow ==
    \/ \E a \in Addr : (\A b \in Addr \ {a} : Idle(b)) /\ Cardinality(FlagsHeld(slot, refs)) <= 1
    \/ Cardinality(refs) + Cardinality(locals) <= 1 /\ \A r \in refs : IsOuter(r.cell)
=============================================================================
