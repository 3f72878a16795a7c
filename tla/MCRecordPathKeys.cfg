\* The partition of a key against the Java client's.
CONSTANTS
    Null = Null
    NumPartitions = 2
    Now = 7
    PositiveRange = 5
    Scenarios <- Keys
SPECIFICATION Spec
INVARIANT KeyedPartitionIsJavas
