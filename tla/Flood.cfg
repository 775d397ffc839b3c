SPECIFICATION FairSpec
CONSTANTS
    Daemon = {1, 2, 3}
    Link <- Chord
    Limit <- Limits
    Sizes <- Mixed
    NoMsg = NoMsg
    SeenCap = 1
    QueueDepth = 1
    WireDepth = 1
    MaxMsgs = 2
    MaxFailures = 1
INVARIANTS
    TypeOK
    AtMostOnce
    EveryoneGets
PROPERTIES
    FloodEnds
CHECK_DEADLOCK FALSE
