CONSTANTS
    Task = {1, 2, 3}
    Stop = Stop
    NoTask = NoTask
    Thread = {w1, w2}
    Handle = {h1}
    PerEvent = 2
SPECIFICATION CallbacksSpec
INVARIANTS
    TypeOK
    AtMostOneLate
    ToldOnce
    RemovedIsSilent
    InOrderUnlessCrowded
PROPERTIES
    ImplementsPool
    EveryEventIsTold
CHECK_DEADLOCK FALSE
