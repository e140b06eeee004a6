SPECIFICATION NetSpec
CONSTANTS
    r1 = r1
    r2 = r2
    m1 = m1
    Requests = {r1, r2}
    Dest <- MCDest
    Message <- MCMessage
    Earlier <- MCEarlier
    MaxEarly = 1
    MaxTimeouts = 1
    MaxErrors = 1
    Creating = {2}
    MaxRound = 6
    MaxRestarts = 3
    Sizes <- MCSizes
    Limit = 3
    Listeners = {"l1"}
    Sockets = {"s1", "s2"}
    Flaky = {"s1"}
    Cap = 2
    MaxPublish = 2
    Nodes = {"n1", "n2"}
    Ports = {"p1", "p2"}
    Modes <- MCModes
    Hellos <- MCHellos
    Incoming = {"c1"}
    MaxOthers = 1
    N = 2
    Inits = {"i1", "i2"}
    MaxCrashes = 1
    MaxCount = 5
    MaxSize = 13
INVARIANTS NeverForgotten Intact DeliveredOnce AnnouncedListens SameNetwork QuorumsOverlap
PROPERTY ImplementsRoundLog
CHECK_DEADLOCK FALSE
