SPECIFICATION Spec
CONSTANTS
    Bases      = {"a", "b"}
    Limits     <- MCLimits
    Calls      <- MCCalls
    MaxStream  = 5
    MaxRuns    = 2
    MaxParts   = 3
    MaxRefs    = 1
    ShiftChunk = 2
    Handles    = {1}
    Procs      = {"app"}
    App        = "app"
PROPERTIES
    DiscardStaysOnItsBase
CHECK_DEADLOCK FALSE
