SPECIFICATION Spec
CONSTANTS
    GroupBits = 3
    WordBits = 10
    IndexMax = 63
    CountMax = 15
    OffsetMax = 255
    DepthMax = 3
    AddressLength = 2
    U64Bytes = 2
    U128Bytes = 3
    LengthBits = 8
    MaxSequenceLength = 127
    MaxContainerDepth = 2
    Families <- FunctionFamilies
    Library <- MCLibrary
    SenderLists <- MCSenderLists
    ArgumentLists <- MCArgumentLists
    Ground <- MCGround
    Fuel = 6
    None = None
INVARIANT
    InstancesAreFinite
CHECK_DEADLOCK FALSE
