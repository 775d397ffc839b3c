SPECIFICATION Spec
CONSTANTS
    Body <- Bodies
    PushBody <- Pushed
    MaxCommand = 2
    MaxBodyLine = 3
    MaxMessage = 3
    UpDepth = 1
    DownDepth = 1
    MaxCalls = 2
    MaxPushes = 2
PROPERTIES
    OneReplyEach
CHECK_DEADLOCK FALSE
