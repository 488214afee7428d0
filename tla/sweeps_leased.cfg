\* Two replicas on a shared store, one of them sweeping; the other may crash
\* or be shut down.
SPECIFICATION Spec
CONSTANTS
    Procs = {p1, p2}
    Sessions = {s1}
    Posts = {c1}
    Visits = {v1}
    Deletes = {}
    Leasing = TRUE
    Sweepers = {p2}
    DeepArchive = TRUE
    Prompt = TRUE
    MaxConcurrent = 1
    Mortal = {p1}
    Impatient = {c1}
    MaxKills = 0
    MaxWrites = 0
INVARIANTS
    TypeOK
    SoleOperator
CHECK_DEADLOCK FALSE
