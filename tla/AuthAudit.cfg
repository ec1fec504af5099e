SPECIFICATION FairSpec
CONSTANTS
    Instances = {p1, p2}
    Subscribers = {s1}
    Capacity = 1
    MaxMessages = 2
INVARIANTS
    StoredOnce
    AckedIsStored
    FramesSeenOnce
PROPERTIES
    EveryEventStored
CHECK_DEADLOCK FALSE
