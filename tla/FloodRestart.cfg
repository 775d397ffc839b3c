SPECIFICATION Spec
CONSTANTS
    Daemon = {1, 2, 3}
    Link <- Ring
    Limit <- One
    Sizes <- Equal
    NoMsg = NoMsg
    SeenCap = 2
    QueueDepth = 1
    WireDepth = 1
    MaxMsgs = 2
    MaxFailures = 1
PROPERTIES
    OwnIdIsNew
CHECK_DEADLOCK FALSE
