CONSTANTS
    Scale = 3
    Word = 32
    Costs = {1, 4}
    Sizes = {0, 1, 3}
    MinFee = 5
    Cutoff = 1
    PerByte = 2
    WriteCost = 4
    MaxModules = 3
    MaxAccounts = 2
SPECIFICATION FairSpec
INVARIANTS Bill EffectsPaid
PROPERTY TransactionsEnd
