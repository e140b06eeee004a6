SPECIFICATION Spec
CONSTANTS
    Nodes = {1, 2, 3, 4}
    Observers = {1, 2}
    DelayFactor = 2
    NewViewSlack = 1
    Scenario <- SlowNode
    MaxLag = 8
INVARIANTS ConsensusWithSlowNode
CHECK_DEADLOCK FALSE
