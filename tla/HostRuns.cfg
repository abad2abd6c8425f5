SPECIFICATION Spec
CONSTANTS
    Calls = {c1, c2, c3}
    Modules <- MCBoth
    Timeout <- MCTimeout
    MemoryLimit <- MCMemory
    OutputLimit <- MCOutput
    Grants <- MCGrants
    MaxTimeout = 1
    MaxMemory = 4
    MaxOutput = 2
    MaxRuns = 2
    Budget = 4
    Overhead = 1
    Factor = 2
    Chunk = 1
SYMMETRY Symmetry
INVARIANTS
    HeldIsTheSum
    SlotsAreCounted
    PaidFor
PROPERTIES
    NeverEarly
CHECK_DEADLOCK FALSE
