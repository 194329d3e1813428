SPECIFICATION Spec
CONSTANTS
    Proc = {p1, p2}
    NoProc = NoProc
    Absent = Absent
    Corrupt = Corrupt
    Meta = {read}
    MaxSecrets = 3
    MaxRestarts = 0
    MaxFailures = 0
    MaxCorruptions = 0
    StoreKey = {k}
    MaxStoreFaults = 0
    Urls <- TwoUrls
    QueueSize = 1
    MaxEvents = 0
    Tag = {a, b}
    RingSize = 2
    MaxEntries = 0
    MaxExports = 0
    MaxRenewals = 0
    CredLife = 4
    CredBuffer = 2
    TokenLife = 3
    Margin = 1
    MaxIssues = 2
    MaxUpkeepTime = 0
INVARIANT RotatedSecretHolds
CHECK_DEADLOCK FALSE
