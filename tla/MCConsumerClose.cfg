\* close() with one failure: a batch outlives it.  Without any failure
\* (MaxErrors = 0) the same run shows a close() that never resolves.
SPECIFICATION FairSpec
CONSTANTS
    Nodes = {n1, n2}
    Closers = {c1}
    MaxErrors = 1
PROPERTIES
    CloseKeepsItsWord
CHECK_DEADLOCK FALSE
