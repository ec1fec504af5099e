SPECIFICATION Spec
CONSTANTS
    Users = {u1}
    Workers = {w1}
    Prefetch = 2
    MaxAttempts = 1
    Published = {"user.created", "user.updated", "user.deleted", "profile.updated"}
    MaxSeq = 2
    MaxLog = 2
    MaxRepeats = 0
    MaxLosses = 0
    MaxEarly = 0
    MaxRestarts = 1
INVARIANTS
    DrainedIndexAgrees
CHECK_DEADLOCK FALSE
