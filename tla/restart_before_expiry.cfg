\* A replica dies in the middle of a create; another boots while the lease
\* of the dead one is still live.
SPECIFICATION FairSpec
CONSTANTS
    Procs = {p1, p2}
    Sessions = {s1}
    Posts = {c1}
    Visits = {v1}
    Deletes = {}
    Leasing = TRUE
    Sweepers = {p2}
    DeepArchive = FALSE
    Prompt = TRUE
    MaxConcurrent = 1
    Mortal = {p1}
    Impatient = {}
    MaxKills = 0
    MaxWrites = 0
PROPERTIES
    PendingSettles
CHECK_DEADLOCK FALSE
