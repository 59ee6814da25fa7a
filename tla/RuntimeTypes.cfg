SPECIFICATION Spec
CONSTANTS
    GroupBits = 3
    WordBits = 10
    IndexMax = 63
    CountMax = 15
    OffsetMax = 255
    DepthMax = 3
    AddressLength = 2
    U64Bytes = 2
    U128Bytes = 3
    Library <- MCLibrary
    Scripts <- MCScripts
    Tags <- MCTags
    LayoutTags <- MCLayoutTags
    TypeDepthMax = 3
    ValueDepthMax = 5
    CallLimit = 2
INVARIANTS
    IndexesMeanNames
    TypeCacheSound
    FramesSatisfyConstraints
