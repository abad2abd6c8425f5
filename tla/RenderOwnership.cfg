SPECIFICATION Spec
CONSTANTS
    Requests = {r1, r2, r3}
    Main = main
    Nobody = nobody
    small = small
    large = large
    huge = huge
    Docs = {large}
    NoDoc = nodoc
    Pages = {0}
    Size <- MCSize
    MaxDocument = 1
    Restarts = 1
    RestartWindow = 1
    Memory = 1
    PerByte = 1
    MaxHeld = 3
    MaxTime = 2
    Misbehaves = FALSE
SYMMETRY Symmetry
INVARIANTS
    NoStray
    NothingLeftRunning
    ClosingAsksNothing
    StrikesEarned
    RestartBudget
PROPERTIES
    GreedyExactly
