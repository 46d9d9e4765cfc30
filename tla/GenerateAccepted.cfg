CONSTANTS
    InputNames = {"input"}
    OutputNames = {"output"}
    OtherNames = {"x"}
    LoopNames = {"line"}
    Chains <- MCChains
    Scales <- Statements
SPECIFICATION Spec
INVARIANTS
    AcceptedProgramCompiles
CHECK_DEADLOCK FALSE
