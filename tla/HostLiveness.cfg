SPECIFICATION FairSpec
CONSTANTS
    Calls = {c1, c2}
    Modules <- MCMerge
    Timeout <- MCTimeout
    MemoryLimit <- MCMemory
    OutputLimit <- MCOutput
    Grants <- MCGrants
    MaxTimeout = 1
    MaxMemory = 4
    MaxOutput = 2
    MaxRuns = 1
    Budget = 2
    Overhead = 1
    Factor = 2
    Chunk = 1
PROPERTIES
    CallsReturn
CHECK_DEADLOCK FALSE
