SPECIFICATION FairSpec
CONSTANTS
    c1 = c1
    c2 = c2
    p1 = p1
    p2 = p2
    s1 = s1
    read = read
    write = write
    NoClient = NoClient
    Client = {c1}
    Scope = {read, write}
    Secret = {s1}
    Proc = {p1}
    Registrations <- TwoRegs
    AccessTTL = 1
    RefreshTTL = 1
    RefreshMaxLife = 1
    TouchWindow = 2
    MaxTokens = 2
    MaxTime = 2
INVARIANT RefreshStaysInGrant
INVARIANT GrantWithinRegistration
INVARIANT IInv
PROPERTY RevokedIsRemoved
