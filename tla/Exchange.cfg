SPECIFICATION FairSpec
CONSTANTS
    Body <- Bodies
    PushBody <- Pushed
    MaxCommand = 2
    MaxBodyLine = 3
    MaxMessage = 3
    UpDepth = 1
    DownDepth = 1
    MaxCalls = 3
    MaxPushes = 2
INVARIANTS
    TypeOK
    
    
    BodyIntact
    
PROPERTIES
    CallsReturn
CHECK_DEADLOCK FALSE
