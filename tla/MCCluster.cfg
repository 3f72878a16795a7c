\* Three overlapping calls after or during the first connect.
SPECIFICATION FairSpec
CONSTANTS
    Calls = {c1, c2, c3}
    Nodes = {n1}
    MaxBrokers = 4
    MaxFaults = 1
INVARIANTS
    TypeOK
    LeakExplained
    UndefinedExplained
PROPERTIES
    RequestsFollowHandshake
    CallSettles
CHECK_DEADLOCK FALSE
