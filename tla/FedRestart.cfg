SPECIFICATION Spec
CONSTANTS
    Daemon = {1, 2}
    Type = {t1}
    Key = {k1}
    NoReg = NoReg
    Link <- Pair
    QueueDepth = 4
    WireDepth = 1
    RestartGap = 1
    MaxTs = 2
    MaxBreaks = 0
    MaxCrashes = 1
INVARIANTS
    UnconditionalAgreement
CHECK_DEADLOCK FALSE
