SPECIFICATION Spec
CONSTANTS
    Folders    = {"a"}
    MaxInputs  = 2
    Scanners   = {1, 2}
    MaxBoxes   = 2
    Starts     = {"archive"}
    SpawnFails = TRUE
CHECK_DEADLOCK FALSE
INVARIANT
    JobIsTheOneAsked
