SPECIFICATION Spec
CONSTANTS
    c1 = c1
    c2 = c2
    p1 = p1
    p2 = p2
    s1 = s1
    read = read
    write = write
    NoClient = NoClient
    Client = {c1, c2}
    Scope = {read}
    Secret = {s1}
    Proc = {p1, p2}
    Registrations <- ReadOnly
    AccessTTL = 1
    RefreshTTL = 1
    RefreshMaxLife = 1
    TouchWindow = 1
    MaxTokens = 3
    MaxTime = 0
SYMMETRY ClientProcSymmetry
INVARIANT RotatedAtMostOnce
INVARIANT FamilyCoversTokens
PROPERTY ReuseRevokesFamily
PROPERTY RevocationIsPermanent
PROPERTY RefreshIsOneTime
