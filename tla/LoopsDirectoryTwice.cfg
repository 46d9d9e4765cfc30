CONSTANTS
    Contents <- DirectoryContents
    MaxFiles = 2
    Numbers = {0, 1}
    MaxStatements = 2
    MaxDepth = 2
SPECIFICATION FairSpec
INVARIANTS
    LoopsStayInDirectory
CHECK_DEADLOCK FALSE
