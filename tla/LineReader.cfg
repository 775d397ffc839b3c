SPECIFICATION Spec
CONSTANTS
    MaxCommand = 2
    MaxBodyLine = 3
    Skipped = Skipped
    MaxRead = 3
    MaxInput = 7
INVARIANTS
    TypeOK
    LinesFaithful
    RefusedAtLimit
PROPERTIES
    EveryLineTaken
CHECK_DEADLOCK FALSE
