\* Either start option, alone or with other members: failures and a rebalance.
SPECIFICATION FairSpec
CONSTANTS
    Partitions = {p1}
    Starts = {TRUE, FALSE}
    Groups = {TRUE, FALSE}
    MaxOffset = 3
    MaxErrors = 2
    MaxRebalances = 2
INVARIANTS
    TypeOK
    CommittedIsProcessed
    CommittedIsNotRedelivered
PROPERTIES
    ImplementsDelivery
    EveryMessageProcessed
CHECK_DEADLOCK FALSE
