CONSTANTS
    Keys = {k1}
    Clients = {c1, c2, c3}
    NoClient = NoClient
    KeyLists <- OneKey
    Timeouts = {TRUE, FALSE}
    RPushSizes = {1, 2}
    LPushSizes = {1}
    PopCounts = {1}
    MaxVals = 3
    MaxChans = 2
SPECIFICATION FairSpec
INVARIANTS
    NothingLost
    SendNeverBlocks
PROPERTIES
    BlockedCallReturns
CHECK_DEADLOCK FALSE
