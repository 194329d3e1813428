SPECIFICATION Spec
CONSTANTS
    Client = {c1, c2}
    Uri = {u1, u2}
    Registered <- OneUri
    Verifier = {v1, v2}
    Secret = {s1}
    Known <- C1Only
    Empty = Empty
    Proc = {p1, p2}
    TTL = 1
    MaxGrants = 1
    MaxTime = 1
    c1 = c1
    c2 = c2
    u1 = u1
    u2 = u2
    s1 = s1
INVARIANT DeviceCodeIsOneTime
CHECK_DEADLOCK FALSE
