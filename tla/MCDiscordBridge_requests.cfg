SPECIFICATION MCSpec
CONSTANTS
    p1 = p1
    p2 = p2
    g = g
    h = h
    o = o
    None = None
    Messages = {g, h, o}
    Owners = {o}
    Processes = {p1, p2}
    Allows <- MCLessLater
    MaxPending = 2
    MaxRequests = 2
    KeepDone = 1
    MaxDrains = 1
CHECK_DEADLOCK FALSE
INVARIANTS
    NeverRunTwice
    QueueInOrder
    ReportSentOnce
    RestartInterruptsNothing
    NeverEndsInSilence
PROPERTIES
    EveryRequestConcluded
