CONSTANTS
    Names <- MCNames
    Identifiers <- FarIdentifiers
    Hash <- GrowingHash
    BLOCKSIZE = 10
    NULL = NULL
    MaxVariables = 9
    MaxParams = 0
    MaxLoops = 2
    MaxDepth = 1
SPECIFICATION Spec
INVARIANTS
    TableStaysWithinLoad
    AcceptedProgramIsBound
    DanglingCounterIsExact
    LoopsBindDistinctVariables
CHECK_DEADLOCK FALSE
