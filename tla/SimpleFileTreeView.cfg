SPECIFICATION Spec
CONSTANTS
    Node <- Nodes
    Root = "r"
    FileSystems <- Systems
    MaxDepths <- Depths
    MaxInt = 9
    MaxLinks = 2
    MaxDeletions = 1
INVARIANTS Complete LoopsAreCut
CHECK_DEADLOCK FALSE
