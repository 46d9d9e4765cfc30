CONSTANTS
    InputNames = {"input"}
    OutputNames = {"output"}
    OtherNames = {"x"}
    LoopNames = {"line"}
    Chains <- MCChains
    Scales <- MCScales
SPECIFICATION Spec
INVARIANTS
    TypeOK
    
    BracesAreCounted
CHECK_DEADLOCK FALSE
