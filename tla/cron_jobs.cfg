\* Two jobs, the ticker and one caller at a time beside it, one crash.
SPECIFICATION FairSpec
CONSTANTS
    Jobs = {j1, j2}
    Fires <- MCFires
    Ticker = ticker
    Callers = {c1}
    Files = {f1, f2, f3}
    Stored = {j1}
    Horizon = 2
    MaxCalls = 1
    MaxCrashes = 1
    MaxErrors = 1
INVARIANTS
    ArmedAheadOfTaken
    DeliveredIsDurable
    RemovedNeverFires
PROPERTIES
    DueIsTaken
CHECK_DEADLOCK FALSE
