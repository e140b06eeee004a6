SPECIFICATION RequestsSpec
CONSTANTS
    None = None
    Shard <- MCShard
    NodesInShard <- MCNodesInShard
    Procedures <- MCProcedures
    Transactions <- MCTransactions
    NoName = "none"
    Self = 1
    SelfShard = 1
    MaxLost = 1
    Content <- MCContent
    RefLimit = 2
    maxBlocks = 1
    MaxMade = 2
    MaxInterpreted = 2
    MaxCrashes = 1
    Docker <- MCDocker
    External <- MCExternal
    Images <- MCImages
    Kind <- MCKind
    Answers <- MCAnswers
    MaxFailures = 1
    MaxExits = 1
INVARIANTS TracesChecked AddedAccepted StoreSound UpServed
PROPERTY RedeliveredSame
CHECK_DEADLOCK FALSE
