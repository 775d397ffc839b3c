SPECIFICATION FairSpec
CONSTANTS
    Daemon = {1, 2, 3}
    Type = {t1}
    Key = {k1, k2}
    NoReg = NoReg
    Link <- Ring
    QueueDepth = 1
    WireDepth = 1
    RestartGap = 1
    MaxTs = 0
    MaxBreaks = 0
    MaxCrashes = 0
INVARIANTS
    OneKeyPerClaim
    Agreement
PROPERTIES
    Converges
CHECK_DEADLOCK FALSE
