SPECIFICATION Spec
CONSTANTS
    Paths <- MCOne
    Protected <- MCNone
    Turns <- MCRight
    Closes = FALSE
    Modal = TRUE
    NoPath = NoPath
    Pages = 2
    MaxRequests = 1
    MaxEdits = 1
    Appended = 1
    MaxPages = 3
    MaxWrites = 1
INVARIANTS
    ExtractsThePagesMeant
CHECK_DEADLOCK FALSE
