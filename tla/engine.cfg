\* A channel of one directive, one message of the user, one background task,
\* two requests for approval; the report of the task begins a second turn.
SPECIFICATION FairSpec
CONSTANTS
    Capacity = 1
    MaxTasks = 1
    MaxAsks = 2
    MaxConcurrent = 1
    HardMax = 2
    MaxRateLimits = 2
    MaxStalls = 1
    MaxMessages = 1
INVARIANTS
    ToldOnceAndTrue
    AnnouncedIsAnswerable
    ActsOnceAfterInterrupt
    CallsBounded
    CompletedIsKept
CHECK_DEADLOCK FALSE
PROPERTIES
    TurnsSettle
    TasksAreTold
