\* Two tasks and two subprocesses.
SPECIFICATION FairSpec
CONSTANTS
    Tasks = {t1, t2}
    MaxConns = 2
    MaxChats = 1
    MaxDeaths = 1
    MaxOps = 3
    MaxDrops = 1
INVARIANTS
    OwnAnswer
    CallsAreSpared
    BoundIsAlive
PROPERTY
    OperationsEnd
CHECK_DEADLOCK FALSE
