SPECIFICATION Spec
CONSTANTS
    fed1 = fed1
    fed2 = fed2
    alone1 = alone1
    alone2 = alone2
    x = x
    y = y
    port = port
    Proc = {fed1, fed2, alone1, alone2}
    Path = {x, y}
    SocketPath <- Paths
    Port <- Ports
    NoPort = NoPort
    Client = {c1, c2}
    NoFile = NoFile
    Other = Other
    None = None
    MaxStarts = 4
INVARIANTS
    TypeOK
    Reachable
    OneBus
    
CHECK_DEADLOCK FALSE
