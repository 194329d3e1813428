SPECIFICATION Spec
CONSTANTS
    Proc = {p1, p2}
    NoProc = NoProc
    Absent = Absent
    Corrupt = Corrupt
    Meta = {read}
    MaxSecrets = 2
    MaxRestarts = 1
    MaxFailures = 1
    MaxCorruptions = 1
    StoreKey = {k, l}
    MaxStoreFaults = 2
    Urls <- TwoUrls
    QueueSize = 1
    MaxEvents = 3
    Tag = {a, b}
    RingSize = 2
    MaxEntries = 3
    MaxExports = 1
    MaxRenewals = 2
    CredLife = 4
    CredBuffer = 2
    TokenLife = 3
    Margin = 1
    MaxIssues = 2
    MaxUpkeepTime = 4
INVARIANT TypeOK
 
INVARIANT AnsweredIsOnDisk
INVARIANT HandedOverOnce
 
PROPERTY StopDrains
PROPERTY RenewalServed
CHECK_DEADLOCK FALSE
