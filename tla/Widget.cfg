SPECIFICATION Spec
CONSTANTS
    Perms <- MCPerms
    Implies <- MCImplies
    Grants <- MCGrants
    Tokens <- MCTokens
    Seeded <- MCSeeded
    Names = {1, 2, 3, 4}
    Handlers = {h1, h2}
    Clients = {c1}
    Capacity = 1
    PageSize = 1
    MaxAccepted = 2
SYMMETRY HandlerSymmetry
INVARIANTS
    TypeOK
    FramesTruthful
    SameReach
    ScanComplete
CHECK_DEADLOCK FALSE
