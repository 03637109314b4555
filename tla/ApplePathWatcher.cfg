CONSTANTS
    SameStart <- NoPairs
    MaxFailures = 1
    Dir <- Nested
    File <- InB
    Content = {"file"}
    Depth <- MCDepth
    MaxInt <- MCMaxInt
    User = {u1}
    MaxRegister = 2
    MaxUnregister = 1
    MaxChanges = 2
SPECIFICATION Spec
INVARIANTS
    LastEventIsTrue
    StreamsMatch
    SilentAfterUnregister
CHECK_DEADLOCK FALSE
