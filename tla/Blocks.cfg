SPECIFICATION BlocksSpec
CONSTANTS
    p1 = p1
    p2 = p2
    q1 = q1
    q2 = q2
    s1 = s1
    None = None
    Block <- LadderBlock
    Own = {s1}
    Prev <- LadderPrev
    Deps <- LadderDeps
    KeyOrder <- LadderKeys
    RefLimit = 2
    CacheLimit = 2
    MaxIn = 3
    MaxCrashes = 1
    Byte = 8
    MaxNumber = 10000
    Caller = {"a", "b", "c", "d", "huge"}
    Size <- MixedSize
    TxSizeLimit = 300
    InitialRate = 1
    RateIncrease = 1
    RateDecrease = 80
    MaxRate = 2
    BatchSize = 2
    MaxBlocks = 5
    MaxLag = 2
INVARIANTS WaitersKept KeysOrdered AcceptedOnceInOrder NothingForgotten
PROPERTY ImplementsCausalLog
CHECK_DEADLOCK FALSE
