CONSTANTS
    Path <- MCPath
    Depth <- MCDepth
    MaxInt <- MCMaxInt
    User = {u1}
    MaxChanges = 2
    MaxRegister = 2
    MaxUnregister = 1
SPECIFICATION FairSpec
INVARIANTS
    NothingMissed
PROPERTIES
    CatchesUp
CHECK_DEADLOCK FALSE
