CONSTANTS
    c1 = c1
    c2 = c2
    p1 = p1
    p2 = p2
    Acc = {a1, a2}
    Coin = {c1, c2}
    Path = {p1, p2}
    PathOf <- MCPathOf
    MaxAmt = 2
    Nil = Nil
    Unknown = Unknown
SPECIFICATION Spec
CONSTRAINT Narrow
INVARIANTS Conserved BankNeverShort
PROPERTIES CommitKeepsBalances NoTrace
SYMMETRY Sym
