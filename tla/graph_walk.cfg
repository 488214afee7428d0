\* A graph with a fork, a join and an interrupt point; two crashes, two
\* Errs of actions, saves or deletes, and two refusals.
SPECIFICATION FairSpec
CONSTANTS
    Nodes = {1, 2, 3, 4, 5, 6}
    Entry = 1
    Terminals = {6}
    Interrupts = {5}
    Llm = {1}
    Edges <- MCEdges
    MaxIterations = 7
    MaxCrashes = 2
    MaxFailures = 2
    MaxDenials = 2
INVARIANTS
    MergedInOrder
    BudgetHolds
    InterruptedIsKept
PROPERTIES
    GatedActsAfterGrant
    NothingSkipped
    WalkStops
CHECK_DEADLOCK FALSE
