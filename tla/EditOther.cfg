SPECIFICATION Spec
CONSTANTS
    Paths <- MCOne
    Protected <- MCNone
    Turns <- MCRight
    Closes = FALSE
    Modal = TRUE
    NoPath = NoPath
    Pages = 1
    MaxRequests = 2
    MaxEdits = 0
    Appended = 0
    MaxPages = 1
    MaxWrites = 1
INVARIANTS
    SavesItsOwnDocument
CHECK_DEADLOCK FALSE
