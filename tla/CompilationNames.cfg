CONSTANTS
    Names <- MCNames
    Identifiers <- TwoIdentifiers
    Hash <- CollidingHash
    BLOCKSIZE = 16
    NULL = NULL
    MaxVariables = 8
    MaxParams = 1
    MaxLoops = 2
    MaxDepth = 2
SPECIFICATION Spec
INVARIANTS
    TypeOK
    AcceptedProgramIsBound
    DanglingCounterIsExact
    LoopVariableIsLocal
    OneNodePerNameAndScope
PROPERTIES
    ImplementsNameResolution
    LoopReductionIsLocal
CHECK_DEADLOCK FALSE
