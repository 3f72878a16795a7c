\* Three calls over two keys, with fairness.
SPECIFICATION FairSpec
CONSTANTS
    Calls = {c1, c2, c3}
    Keys = {k1, k2}
INVARIANTS
    TypeOK
    NoLostWakeup
    NoOrphanLock
    MutexUnlessExpired
PROPERTIES
    AcquireCompletes
CHECK_DEADLOCK FALSE
