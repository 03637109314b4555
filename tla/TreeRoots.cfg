CONSTANTS
    Path <- Chain
    MaxInt <- MCMaxInt
    Content <- TwoContents
    Depth <- DirDepth
    User = {u1}
    RescanOnDirectoryUpdate = TRUE
    Watcher = {w1, w2}
    MaxChanges = 3
    MaxRegister = 2
    MaxUnregister = 1
    SwapsKinds = FALSE
SPECIFICATION Spec
SYMMETRY
    Watchers
INVARIANTS
    FoundExists
    EntriesMatch
    RootsAreWanted
    CachedUnlessPending
CHECK_DEADLOCK FALSE
