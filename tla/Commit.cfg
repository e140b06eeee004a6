SPECIFICATION CommitSpec
CONSTANTS
    transfer = transfer
    pair = pair
    twin1 = twin1
    twin2 = twin2
    Shard = {"A", "B", "C"}
    ShardSize = 2
    Tx <- CommitTx
    Label = {"l"}
    None = None
    Node <- MCNode
    Object <- CommitObject
    ShardForNode <- MCShardForNode
    ShardForVersionID <- MCShardForVersionID
    Inputs <- CommitInputs
    References <- NoReferences
    Outputs <- CommitOutputs
    Labels <- CommitLabels
    Evidences <- CommitEvidences
    Initiator <- MCInitiator
    Genesis <- MCGenesis
INVARIANTS
    CreatedAfterSpent
    Atomicity
    CreationUndisputed
CHECK_DEADLOCK FALSE
