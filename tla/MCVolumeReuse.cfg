SPECIFICATION ReuseSpec
CONSTANTS
    Bases      = {"a"}
    Limits     <- MCLimits
    Calls      <- MCCalls
    MaxStream  = 2
    MaxRuns    = 3
    MaxParts   = 1
    MaxRefs    = 1
    ShiftChunk = 1
    Handles    = {1, 2}
    Procs      = {"app"}
    App        = "app"
INVARIANTS
    EditBytesReachItsTemp
CHECK_DEADLOCK FALSE
