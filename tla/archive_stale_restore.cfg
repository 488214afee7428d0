\* One replica that never crashes: a resume races a deep-archive pass.
SPECIFICATION Spec
CONSTANTS
    Procs = {p1, p2}
    Sessions = {s1}
    Posts = {c1}
    Visits = {v1, v2}
    Deletes = {}
    Leasing = FALSE
    Sweepers = {p1}
    DeepArchive = TRUE
    Prompt = TRUE
    MaxConcurrent = 1
    Mortal = {}
    Impatient = {}
    MaxKills = 0
    MaxWrites = 1
INVARIANTS
    ArchiveIsTruth
CHECK_DEADLOCK FALSE
