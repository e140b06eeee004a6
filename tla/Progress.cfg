SPECIFICATION ProgressSpec
CONSTANTS
    p1 = p1
    q1 = q1
    q2 = q2
    s1 = s1
    r1 = r1
    r2 = r2
    m1 = m1
    None = None
    MaxRound = 3
    MaxList = 2
    maxBlocks = 1
    PruneEvery = 1
    MaxCrashes = 1
    MaxPeerCrashes = 1
    MaxLosses = 1
    MaxFailures = 0
    Block <- ChainBlock
    Own = {s1}
    Prev <- ChainPrev
    Deps <- ChainDeps
    KeyOrder <- ChainKeys
    RefLimit = 2
    CacheLimit = 1
    MaxIn = 2
    MaxStops = 2
    Creating = {2}
    MaxDelivered = 3
    MaxRestarts = 2
    Caller = {"a", "b", "d", "huge"}
    Size <- MixedSize
    TxSizeLimit = 300
    InitialRate = 1
    RateIncrease = 1
    RateDecrease = 80
    MaxRate = 2
    Requests = {r1, r2}
    Dest <- MCDest
    Payload <- MCPayload
    Earlier <- MCEarlier
    MaxEarly = 0
    MaxTimeouts = 1
    MaxErrors = 1
    Nodes = {"n1"}
    Registries <- TwoRegistries
    MDNS = TRUE
    Static <- NoStatic
    MaxStarts = 3
    MaxOutages = 1
PROPERTIES GapsFilled EventuallyIncluded EventuallyHanded CallsReturn EventuallyCalled Found
CHECK_DEADLOCK FALSE
