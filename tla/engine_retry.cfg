\* The same engine, asked about turns that end with an error.
SPECIFICATION FairSpec
CONSTANTS
    Capacity = 1
    MaxTasks = 1
    MaxAsks = 1
    MaxConcurrent = 1
    HardMax = 2
    MaxRateLimits = 2
    MaxStalls = 1
    MaxMessages = 2
INVARIANT AbortedIsKept
CHECK_DEADLOCK FALSE
