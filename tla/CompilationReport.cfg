CONSTANTS
    Names <- MCNames
    Identifiers <- TwoIdentifiers
    Hash <- DistinctHash
    BLOCKSIZE = 16
    NULL = NULL
    MaxVariables = 8
    MaxParams = 1
    MaxLoops = 1
    MaxDepth = 1
SPECIFICATION Spec
INVARIANTS
    DanglingResultIsReported
CHECK_DEADLOCK FALSE
