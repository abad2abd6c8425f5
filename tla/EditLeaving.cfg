SPECIFICATION Spec
CONSTANTS
    Paths <- MCTwo
    Protected <- MCLocked
    Turns <- MCRight
    Closes = TRUE
    Modal = FALSE
    NoPath = NoPath
    Pages = 1
    MaxRequests = 2
    MaxEdits = 2
    Appended = 0
    MaxPages = 1
    MaxWrites = 1
INVARIANTS
    LostOnlyAfterDeciding
    HoldsWhatMustBeHeld
CHECK_DEADLOCK FALSE
