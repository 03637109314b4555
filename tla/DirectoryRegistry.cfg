CONSTANTS
    Path <- MCPath
    Depth <- MCDepth
    MaxInt <- MCMaxInt
SPECIFICATION Spec
INVARIANTS
    TypeOK
    AcceptMatchesMaxDepth
    AcceptedIsReachable
PROPERTIES
    AddNeverNarrows
CHECK_DEADLOCK FALSE
