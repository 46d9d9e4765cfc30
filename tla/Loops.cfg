CONSTANTS
    Contents <- RegularContents
    MaxFiles = 2
    Numbers = {0, 1, 3}
    MaxStatements = 3
    MaxDepth = 2
SPECIFICATION FairSpec
INVARIANTS
    TypeOK
    ForwardAccessIsExact
    
    ColumnsAreVisited
    CopyLosesNothing
    FilesOpenedInOrder
PROPERTIES
    PositionOnlyAdvances
    
CHECK_DEADLOCK FALSE
