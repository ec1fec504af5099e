SPECIFICATION FairSpec
CONSTANTS
    Users = {u1}
    Workers = {w1}
    Prefetch = 2
    MaxAttempts = 1
    Published = {"user.created", "user.updated", "user.deleted", "profile.updated", "other"}
    MaxSeq = 2
    MaxLog = 3
    MaxRepeats = 1
    MaxLosses = 1
    MaxEarly = 1
    MaxRestarts = 1
INVARIANTS
    OrderedIndexAgrees
    AckedIsProjected
PROPERTIES
    NeverBackwards
    EveryMessageAcked
CHECK_DEADLOCK FALSE
