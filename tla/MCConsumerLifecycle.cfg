\* Two nodes, two calls of close(), three failures.
SPECIFICATION FairSpec
CONSTANTS
    Nodes = {n1, n2}
    Closers = {c1, c2}
    MaxErrors = 3
INVARIANTS
    TypeOK
    RestartWaitsForBatches
PROPERTIES
    ClosedForGood
    Recovers
    ReachedCloseResolves
CHECK_DEADLOCK FALSE
