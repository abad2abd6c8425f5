SPECIFICATION Spec
CONSTANTS
    Requests = {r1}
    Main = main
    Nobody = nobody
    small = small
    large = large
    huge = huge
    Docs = {large}
    NoDoc = nodoc
    Pages = {0}
    Size <- MCSize
    MaxDocument = 1
    Restarts = 1
    RestartWindow = 1
    Memory = 1
    PerByte = 1
    MaxHeld = 2
    MaxTime = 0
    Misbehaves = FALSE
SYMMETRY Symmetry
PROPERTIES
    GuardStopsOnlyAbove
