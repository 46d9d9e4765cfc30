CONSTANTS
    Contents <- RegularContents
    MaxFiles = 0
    Numbers = {0, 1, 2, 3}
    MaxStatements = 2
    MaxDepth = 1
SPECIFICATION FairSpec
PROPERTIES
    ByIndexReadsLineN
CHECK_DEADLOCK FALSE
