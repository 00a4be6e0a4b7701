SPECIFICATION Spec
CONSTANTS
    Bases      = {a, b}
    Limits     <- MCLimits
    Calls      <- MCCalls
    MaxStream  = 7
    MaxRuns    = 2
    MaxParts   = 3
    MaxRefs    = 2
    ShiftChunk = 1
    Handles    = {h1, h2}
    Procs      = {"app", "other"}
    App        = "app"
INVARIANTS
    TypeOK
    OpenSetIsOneContainer
    SuccessIsReadable
    FailureLeavesNothing
    VolGetIsTheContainer
    UsersHoldTheirSet
PROPERTIES
    PlainChangesOnlyToWhole
CHECK_DEADLOCK FALSE
SYMMETRY MCSymmetry
