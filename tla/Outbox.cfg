SPECIFICATION OutboxFairSpec
CONSTANTS
    Aggregates = {u1, u2}
    Relays = {r1, r2}
    Batch = 2
    MaxId = 3
    MaxCrashes = 1
    MaxExpiries = 1
INVARIANTS
    PublishedIsStored
    AggregateOrder
    DuplicatesNeedExpiry
PROPERTIES
    ImplementsLog
    ImplementsFairLog
CHECK_DEADLOCK FALSE
