SPECIFICATION ReadSpec
CONSTANTS
    SegSizes   <- MCSegSizes
    Rooms      <- MCRooms
    Writes     <- MCWrites
    MaxEntry   = 9
    MaxEntries = 3
    IdxRoom    = 2
    SinkBytes  = 8
    BlockBytes = 8
    HdrBytes   = 4
    TagBytes   = 2
    FrameBytes = 2
    IdxeBytes  = 3
    TailBytes  = 4
    NonceBase  = 100
    RawBytes   = 4
INVARIANTS
    TypeOK
    NonceOnce
    SuccessListsAll
    ListedReadsBack
    ExtentIsItsSegments
