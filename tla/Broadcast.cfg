SPECIFICATION Spec
CONSTANTS
    MaxRound = 4
    MaxList = 2
    maxBlocks = 2
    PruneEvery = 2
    MaxCrashes = 1
    MaxPeerCrashes = 1
    MaxLosses = 1
    MaxFailures = 1
INVARIANTS NoEquivocation SentHeld SequenceSound
CHECK_DEADLOCK FALSE
