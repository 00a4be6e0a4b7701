\* two folders would only rename: which input is which matters in MCWalk alone
SPECIFICATION Spec
CONSTANTS
    Folders    = {"a"}
    MaxInputs  = 2
    Scanners   = {1, 2}
    MaxBoxes   = 2
    Starts     = {"empty", "files", "drag", "unpack", "archive"}
    SpawnFails = FALSE
CHECK_DEADLOCK FALSE
INVARIANTS
    TypeOK
    JobIsTheOneAsked
    CancelKept
    KeyOnlyInUse
    ArchiveUsable
    NoExitUnderWorker
PROPERTIES
    InputsStandStill
    JobEnds
