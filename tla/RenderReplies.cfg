SPECIFICATION Spec
CONSTANTS
    Requests = {r1, r2}
    Main = main
    Nobody = nobody
    small = small
    large = large
    huge = huge
    Docs = {small, large, huge}
    NoDoc = nodoc
    Pages = {0, 1}
    Size <- MCSize
    MaxDocument = 1
    Restarts = 1
    RestartWindow = 1
    Memory = 1
    PerByte = 1
    MaxHeld = 1
    MaxTime = 0
    Misbehaves = TRUE
SYMMETRY Symmetry
INVARIANTS
    CeilingCovers
    DrawnFromItsDocument
    RightImage
PROPERTIES
    KeepsContract
