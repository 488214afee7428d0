\* A DELETE that loses two races against other transitions.
SPECIFICATION Spec
CONSTANTS
    Procs = {p1, p2}
    Sessions = {s1}
    Posts = {c1}
    Visits = {v1}
    Deletes = {d1}
    Leasing = FALSE
    Sweepers = {p1}
    DeepArchive = FALSE
    Prompt = TRUE
    MaxConcurrent = 1
    Mortal = {}
    Impatient = {}
    MaxKills = 0
    MaxWrites = 0
PROPERTIES
    TombstoneFirst
CHECK_DEADLOCK FALSE
