\* Two requests, two reconnects.
SPECIFICATION FairSpec
CONSTANTS
    Requests = {r1, r2}
    MaxId = 2
    MaxSockets = 3
INVARIANTS
    TypeOK
    StreamInSync
    ClosedSocketRejects
PROPERTIES
    ImplementsRpc
    ConnectSettles
CHECK_DEADLOCK FALSE
