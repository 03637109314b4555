SPECIFICATION Spec
CONSTANTS
    Path <- Changing
    Dir <- Dirs3
    SameStart <- Siblings
    MaxFailures = 1
    QueueSize = 2
    MaxRegister = 2
    MaxChanges = 3
INVARIANTS TypeOK NothingMissed StreamsCover
PROPERTIES EveryChangeIsTold
CHECK_DEADLOCK FALSE
