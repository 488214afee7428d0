\* The file backend: one replica, restarted after a crash, two sessions
\* under a quota of one, nobody hangs up.
SPECIFICATION FairSpec
CONSTANTS
    Procs = {p1, p2}
    Sessions = {s1, s2}
    Posts = {c1, c2}
    Visits = {v1}
    Deletes = {d1}
    Leasing = FALSE
    Sweepers = {}
    DeepArchive = FALSE
    Prompt = TRUE
    MaxConcurrent = 1
    Mortal = {p1}
    Impatient = {}
    MaxKills = 0
    MaxWrites = 0
INVARIANTS
    QuotaIsKept
PROPERTIES
    KeepsContract
    PendingSettles
CHECK_DEADLOCK FALSE
