\* Deep archive on the file backend, with a crash and a restart.
SPECIFICATION Spec
CONSTANTS
    Procs = {p1, p2}
    Sessions = {s1}
    Posts = {c1}
    Visits = {v1, v2}
    Deletes = {}
    Leasing = FALSE
    Sweepers = {p1, p2}
    DeepArchive = TRUE
    Prompt = TRUE
    MaxConcurrent = 1
    Mortal = {p1}
    Impatient = {}
    MaxKills = 1
    MaxWrites = 1
SYMMETRY RequestSymmetry
INVARIANTS
    RunningNamesNewest
PROPERTIES
    RedLineAsleep
CHECK_DEADLOCK FALSE
