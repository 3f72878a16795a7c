\* A batch that failed is skipped by the restart.
SPECIFICATION Spec
CONSTANTS
    Partitions = {p1}
    Starts = {FALSE}
    Groups = {FALSE}
    MaxOffset = 2
    MaxErrors = 1
    MaxRebalances = 0
INVARIANTS
    FailedBatchIsNotSkipped
CHECK_DEADLOCK FALSE
