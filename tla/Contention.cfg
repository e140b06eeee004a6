SPECIFICATION Spec
CONSTANTS
    Shard = {"A", "B"}
    ShardSize = 1
    Tx = {"t1", "t2", "t3"}
    Label = {"l"}
    None = None
    Node <- MCNode
    Object <- ContentionObject
    ShardForNode <- MCShardForNode
    ShardForVersionID <- MCShardForVersionID
    Inputs <- ContentionInputs
    References <- ContentionReferences
    Outputs <- ContentionOutputs
    Labels <- ContentionLabels
    Evidences <- AllEndorse
    Initiator <- MCInitiator
    Genesis <- MCGenesis
INVARIANT
    NoDoubleSpend
PROPERTIES
    InactiveForever
    ImplementsAtomicCommit
CHECK_DEADLOCK FALSE
