SPECIFICATION Spec
CONSTANTS
    Procs    = {"p", "q"}
    Entries  = {"a", "b"}
    Starts   <- MCStarts
    Packed   <- MCPacked
    Adds     <- MCAdds
    Removes  <- MCRemoves
    MaxFiles = 3
INVARIANTS
    TypeOK
    NonceOnce
    KeptSurvives
PROPERTIES
    EditsAreAtomic
    CommandsEnd
