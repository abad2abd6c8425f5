SPECIFICATION FairSpec
CONSTANTS
    Paths <- MCOne
    Protected <- MCNone
    Turns <- MCBoth
    Closes = FALSE
    Modal = FALSE
    NoPath = NoPath
    Pages = 2
    MaxRequests = 1
    MaxEdits = 2
    Appended = 1
    MaxPages = 3
    MaxWrites = 1
INVARIANTS
    SavedWasWritten
PROPERTIES
    RoundTripsEnd
    WritesEnd
CHECK_DEADLOCK FALSE
