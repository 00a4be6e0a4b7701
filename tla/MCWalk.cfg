SPECIFICATION Spec
CONSTANTS
    Folders    = {"a", "b"}
    MaxInputs  = 2
    Scanners   = {1, 2}
    MaxBoxes   = 2
    Starts     = {"empty"}
    SpawnFails = FALSE
CHECK_DEADLOCK FALSE
INVARIANT
    PacksWhatItNames
