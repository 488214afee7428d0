\* One replica with two visits of the same session.
SPECIFICATION Spec
CONSTANTS
    Procs = {p1, p2}
    Sessions = {s1}
    Posts = {c1}
    Visits = {v1, v2}
    Deletes = {}
    Leasing = TRUE
    Sweepers = {p1}
    DeepArchive = TRUE
    Prompt = TRUE
    MaxConcurrent = 1
    Mortal = {}
    Impatient = {}
    MaxKills = 0
    MaxWrites = 0
PROPERTIES
    LeaseOutlivesGuards
CHECK_DEADLOCK FALSE
