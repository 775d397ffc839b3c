SPECIFICATION Spec
CONSTANTS
    Conn = {c1, c2}
    Type = {t1}
    Key = {k1, k2}
    Peer = Peer
    NoKey = NoKey
    NoFan = NoFan
    QueueDepth = 2
    MaxBatch = 2
    MaxLines = 2
    MaxMsgs = 3
    MaxOverrides = 1
INVARIANTS
    TypeOK
    SubscriptionsAgree
    NoSendToClosed
    NoLostWakeup
PROPERTIES
    AuthorizedAtPublish
    ImplementsBus
SYMMETRY ConnSymmetry
CHECK_DEADLOCK FALSE
