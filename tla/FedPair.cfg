SPECIFICATION FairSpec
CONSTANTS
    Daemon = {1, 2}
    Type = {t1}
    Key = {k1}
    NoReg = NoReg
    Link <- Pair
    QueueDepth = 1
    WireDepth = 1
    RestartGap = 1
    MaxTs = 1
    MaxBreaks = 1
    MaxCrashes = 1
INVARIANTS
    TypeOK
    NothingWithheld
    Agreement
PROPERTIES
    ImplementsOwnership
    Converges
CHECK_DEADLOCK FALSE
