\* One lost response is enough to lose the next acknowledged batch.
SPECIFICATION Spec
CONSTANTS
    s1 = s1
    s2 = s2
    s3 = s3
    p1 = p1
    p2 = p2
    Sends = {s1, s2, s3}
    Partitions = {p1, p2}
    Nodes = {n1}
    NoNode = NoNode
    LastSequence = 1
    Scenarios <- LostResponse
INVARIANTS
    AckedLogged
CHECK_DEADLOCK FALSE
