\* A lost call, a leader change and a lock timer, with up to three sends.
SPECIFICATION FairSpec
CONSTANTS
    s1 = s1
    s2 = s2
    s3 = s3
    p1 = p1
    p2 = p2
    Sends = {s1, s2, s3}
    Partitions = {p1, p2}
    Nodes = {n1, n2}
    NoNode = NoNode
    LastSequence = 2
    Scenarios <- Disturbed
INVARIANTS
    TypeOK
    GapExplained
    LossExplained
    RejectionExplained
PROPERTIES
    SendSettlesUnlessStranded
CHECK_DEADLOCK FALSE
