SPECIFICATION Spec
CONSTANTS
    GroupBits = 2
    WordBits = 10
    IndexMax = 63
    CountMax = 15
    OffsetMax = 255
    DepthMax = 3
    AddressLength = 2
    U64Bytes = 2
    U128Bytes = 3
    LengthBits = 5
    MaxSequenceLength = 15
    MaxContainerDepth = 2
    Samples <- MCSamples
    Inputs <- MCInputs
    None = None
INVARIANTS
    WrittenReadsBack
    ReadIsCanonical
CHECK_DEADLOCK FALSE
