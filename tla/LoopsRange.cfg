CONSTANTS
    Contents <- RegularContents
    MaxFiles = 0
    Numbers = {0, 1, 2, 3}
    MaxStatements = 1
    MaxDepth = 1
SPECIFICATION FairSpec
PROPERTIES
    RangeStartsAtFirst
CHECK_DEADLOCK FALSE
