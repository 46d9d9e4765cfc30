CONSTANTS
    Addresses <- TenAddresses
    InitialLen = 2
    Growth = 2
    Identifiers = {"x"}
    Function = "lines"
    Scales <- AllScales
SPECIFICATION Spec
INVARIANTS
    TypeOK
    OnlyLiveMemoryIsTouched
    
    RecordsFit
PROPERTY ReleaseEnds
CHECK_DEADLOCK FALSE
