CONSTANTS
    Path <- Deep
    Dir <- DeepDir
    Permanent <- Top
    Content = {"file", "edited"}
    Depth = {5}
    MaxInt <- MCMaxInt
    MaxEvents <- Roomy
    DeletesWhatIsScanned = FALSE
    MaxChanges = 4
    MaxRegister = 1
    MaxUnregister = 0
SPECIFICATION FairSpec
INVARIANTS
    TypeOK
    NothingMissed
    NoKeyLeaks
PROPERTY
    CatchesUp
CHECK_DEADLOCK FALSE
