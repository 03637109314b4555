CONSTANTS
    Path <- Flat
    Dir <- FlatDir
    Permanent <- Top
    Content = {"file"}
    Depth = {0}
    MaxInt <- MCMaxInt
    MaxEvents <- Tight
    DeletesWhatIsScanned = TRUE
    MaxChanges = 3
    MaxRegister = 2
    MaxUnregister = 2
SPECIFICATION Spec
INVARIANTS
    TreesHoldOpenKeys
CHECK_DEADLOCK FALSE
