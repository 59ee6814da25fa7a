SPECIFICATION Spec
CONSTANTS
    MaxCode = 5
    Alphabet <- MCAlphabet
INVARIANTS
    LoopsStructured
    NeverUnwrapsEmpty
CHECK_DEADLOCK FALSE
