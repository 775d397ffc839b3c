SPECIFICATION FairSpec
CONSTANTS
    twin1 = twin1
    twin2 = twin2
    other = other
    i1 = i1
    i2 = i2
    Entry = {twin1, twin2, other}
    Id = {i1, i2}
    IdOf <- Ids
    NoEntry = NoEntry
    Base = 1
    Ceiling = 3
    MaxChanges = 2
INVARIANTS
    TypeOK
    SenderHasLink
    LinkHasSender
PROPERTIES
    OnlyTwinsReset
    DisplacedEnds
    Settles
CHECK_DEADLOCK FALSE
