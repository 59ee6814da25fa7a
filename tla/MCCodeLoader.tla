--------------------------- MODULE MCCodeLoader ---------------------------
EXTENDS CodeLoader, TLC

CONSTANTS A, B, C, D

Mod(i, deps, friends, vis) ==
    [id |-> i, deps |-> deps, friends |-> friends, ok |-> TRUE, vis |-> vis]

Pub(i, deps) == Mod(i, deps, {}, "public")

\* Friends that do depend on the module that declares them.
ModulesBack ==
    {Pub(A, {}), Mod(A, {}, {B}, "friend"), Mod(A, {}, {B, C}, "friend"), Mod(A, {}, {}, "none"),
     Pub(A, {B}),
     Pub(B, {A}), Mod(B, {A}, {C}, "friend"), [Pub(B, {A}) EXCEPT !.ok = FALSE],
     Mod(B, {A}, {A}, "public"),
     Pub(C, {A, B}), Pub(D, {A, C}), Pub(D, {A})}

\* No two modules of a bundle have the same id.
Distinct(b) == \A i, j \in DOMAIN b : i # j => b[i].id # b[j].id

BundlesUpTo(S, k) == UNION {[1..n -> S] : n \in 1..k}

BundlesBack ==
    {b \in BundlesUpTo(ModulesBack, 3) : Distinct(b)}

\* Two versions of A, the second without the function that B calls.
ModulesTwice == {Pub(A, {}), Mod(A, {}, {}, "none"), Pub(B, {A})}
BundlesTwice == BundlesUpTo(ModulesTwice, 3)
=============================================================================
