SPECIFICATION Spec
CONSTANTS
    GroupBits = 3
    WordBits = 10
    IndexMax = 63
    CountMax = 15
    OffsetMax = 255
    DepthMax = 3
    AddressLength = 2
    U64Bytes = 2
    U128Bytes = 3
    Letter = 1
    Digit = 2
    Underscore = 3
    Units <- MCUnits
    OldBlobs <- MCOldBlobs
    Damages <- MCDamages
    MaxRounds = 1
    None = None
INVARIANTS
    RoundTrip
    LoadedIsWritable
    ReaderStaysInside
    OldVersionsStayOld
CHECK_DEADLOCK FALSE
