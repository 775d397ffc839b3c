SPECIFICATION FairSpec
CONSTANTS
    Conn = {c1}
    Type = {t1, t2}
    Key = {k1}
    Peer = Peer
    NoKey = NoKey
    NoFan = NoFan
    QueueDepth = 1
    MaxBatch = 1
    MaxLines = 3
    MaxMsgs = 3
    MaxOverrides = 0
PROPERTIES
    DropsReported
    QueueDrained
CHECK_DEADLOCK FALSE
