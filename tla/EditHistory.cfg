SPECIFICATION Spec
CONSTANTS
    Paths <- MCOne
    Protected <- MCNone
    Turns <- MCRight
    Closes = FALSE
    Modal = FALSE
    NoPath = NoPath
    Pages = 2
    MaxRequests = 1
    MaxEdits = 4
    Appended = 1
    MaxPages = 3
    MaxWrites = 0
INVARIANTS
    PagesAgree
    OrdersStand
PROPERTIES
    UndoIsExact
CHECK_DEADLOCK FALSE
