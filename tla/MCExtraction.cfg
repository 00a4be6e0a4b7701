SPECIFICATION Spec
CONSTANTS
    Order      <- MCOrder
    Chunks     <- MCChunks
    Suffixes   = {"s", "t"}
    MaxRuns    = 2
    MaxCrashes = 1
INVARIANTS
    TypeOK
    NothingOfOursLeft
    ShortSetIsSaid
PROPERTIES
    NamesGoFromOldToWhole
CHECK_DEADLOCK FALSE
