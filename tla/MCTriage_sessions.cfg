SPECIFICATION FairSpec
CONSTANTS
    Consumers = 1
    MaxRequests = 2
    MaxAsked = 3
    MaxDisorder = 1
    MaxEdits = 1
INVARIANTS
    OneAtTheModel
    AcceptedIsServed
PROPERTIES
    EveryRunEnds
CHECK_DEADLOCK FALSE
