SPECIFICATION Spec
CONSTANTS
    Proc = {p1, p2}
    Caller = {c1}
    Rotator = {ticker, admin}
    Scheduled = ticker
    Signer = {s1}
    Interval = 2
    Lifetime = 1
    MaxForced = 1
    MaxKeys = 5
    MaxKeyTime = 7
    NoKid = NoKid
    FreshAge = 1
    StaleAge = 2
    MaxPublished = 2
    MaxJWKSTime = 3
    Glob <- LogsGlob
    Substring <- ReadInRead
    Request <- TwoRequests
    Config <- TwoConfigs
    Default <- BuiltIn
    Extra <- ThreeExtras
    Input <- OneInput
    Declared <- OneDeclared
    MaxEdits = 2
    Client = {c}
    Limits <- TwoLimits
    ScopeLists <- TwoLists
    DefaultRPM = 2
    Minute = 2
    MaxReloads = 1
    MaxLimiterTime = 2
    Item = {a, b}
    CacheTTL = 2
    CacheSize = 1
    MaxAnswers = 2
    MaxCacheTime = 4
    Provider <- FourProviders
    NoProvider = "none"
    Configured <- ThreeProviders
    Discovered = {"B"}
    SpareCells = 1
    Backups <- OneBackup
    MaxProviderEdits = 2
    MaxAPIKeys = 2
    MaxKeyUses = 2
    Forwarded = {w1}
    Clusters <- ThreeClusters
    EngineURL = "e"
    Matching <- Globs
    Index <- Indices
    NoIndex = "none"
    MaxRetries = 3
INVARIANT DeclaredPolicyInForce
CHECK_DEADLOCK FALSE
