CONSTANTS
    MainLoop = main
    InnerLoop = inner
    Worker = worker
    User = {user}
    CallbackCalls = {"list"}
    MaxSteps = 4
SPECIFICATION Spec
INVARIANTS
    TypeOK
    OnlyLinksDeadlock
PROPERTIES
    CallsReturn
