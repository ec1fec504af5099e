SPECIFICATION Spec
CONSTANTS
    Users = {u1}
    Browsers = {b1}
    Handlers = {h1, h2}
    Ttl = 1
    Leeway = 0
    MaxSessions = 2
    MaxAccepted = 4
    MaxTime = 2
SYMMETRY HandlerSymmetry
VIEW View
INVARIANTS
    TypeOK
    DeniedLeavesNothing
    AuditTruthful
    RevocationBites
CHECK_DEADLOCK FALSE
