SPECIFICATION Spec
CONSTANTS
    Creating = {1}
    MaxRound = 2
    MaxRestarts = 3
INVARIANTS ReplayTaken
