SPECIFICATION FairSpec
CONSTANTS
    Shard = {"A", "B", "C"}
    ShardSize = 1
    Tx = {"t1", "t2", "t3"}
    Label = {"l"}
    None = None
    Node <- MCNode
    Object <- SoloObject
    ShardForNode <- MCShardForNode
    ShardForVersionID <- MCShardForVersionID
    Inputs <- SoloInputs
    References <- SoloReferences
    Outputs <- SoloOutputs
    Labels <- NoLabels
    Evidences <- AllEndorse
    Initiator <- MCInitiator
    Genesis <- MCGenesis
PROPERTY UncontendedCommits
CHECK_DEADLOCK FALSE
