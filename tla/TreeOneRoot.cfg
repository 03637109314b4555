CONSTANTS
    Path <- Chain
    MaxInt <- MCMaxInt
    Content <- TwoContents
    Depth <- DirDepth
    User = {u1}
    RescanOnDirectoryUpdate = FALSE
    Watcher = {w1}
    MaxChanges = 5
    MaxRegister = 1
    MaxUnregister = 0
    SwapsKinds = FALSE
SPECIFICATION FairSpec
INVARIANTS
    TypeOK
    RegisteredIsCached
    ObserversInStep
PROPERTIES
    Settles
CHECK_DEADLOCK FALSE
