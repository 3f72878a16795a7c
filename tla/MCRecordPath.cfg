\* The way of the records: fields, cut batches, cleaning, other producers.
CONSTANTS
    Null = Null
    NumPartitions = 2
    Now = 7
    PositiveRange = 5
    Scenarios <- All
SPECIFICATION Spec
INVARIANTS TypeOK DeliveredAsSent NothingSkipped KeylessSpread
PROPERTY Progress
