CONSTANTS
    InputNames = {"input"}
    OutputNames = {"output"}
    OtherNames = {"x"}
    LoopNames = {"line"}
    Chains <- MCChains
    Scales <- Declarations
SPECIFICATION Spec
INVARIANTS
    PushesFit
CHECK_DEADLOCK FALSE
