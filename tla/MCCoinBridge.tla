--------------------------- MODULE MCCoinBridge ---------------------------
EXTENDS CoinBridge, TLC

\* Each coin has the path of the same index.
CONSTANTS c1, c2, p1, p2
MCPathOf == [c \in Coin |-> IF c = c1 THEN p1 ELSE p2]

Sym == Permutations(Acc)

\* Bound: two coins and one account, or two accounts and one coin.
Used == {k \in Key : base[k] # Unknown \/ stored[k] # Nil \/ bank[<<k[1], PathOf[k[2]]>>] # Nil}
Asleep(c) ==
    /\ mapper[c] = Unknown /\ c \notin native \cup reg
    /\ pot[c] + potCur[c] + purse[c] = 0
    /\ \A k \in Used : k[2] # c
Narrow == Cardinality({k[1] : k \in Used}) <= 1 \/ \E c \in Coin : Asleep(c)
=============================================================================
