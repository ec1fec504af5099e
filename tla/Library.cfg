SPECIFICATION Spec
CONSTANTS
    Perms <- MCPerms
    Implies <- MCImplies
    Grants <- MCGrants
    Tokens <- MCTokens
    Seeded <- MCSeeded
    Handlers = {h1, h2}
    MaxContents = 2
    MaxAccepted = 3
SYMMETRY HandlerSymmetry
INVARIANTS
    TypeOK
    InlineSafe
    BytesReach
    PicturesAccounted
PROPERTIES
    MimeKept
CHECK_DEADLOCK FALSE
