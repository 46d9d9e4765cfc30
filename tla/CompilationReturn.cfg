CONSTANTS
    Names <- ReturningNames
    Identifiers <- ReturningIdentifiers
    Hash <- ReturningHash
    BLOCKSIZE = 4
    NULL = NULL
    MaxVariables = 9
    MaxParams = 0
    MaxLoops = 1
    MaxDepth = 1
SPECIFICATION Spec
INVARIANTS
    EveryAcceptedProgramIsBound
CHECK_DEADLOCK FALSE
