SPECIFICATION Spec
CONSTANTS
    Nodes = {1, 2, 3, 4}
    Observers = {1, 2}
    DelayFactor = 2
    NewViewSlack = 0
    Scenario <- Schedules
    MaxLag = 8
INVARIANTS  ResumeCovers Prompt
CHECK_DEADLOCK FALSE
