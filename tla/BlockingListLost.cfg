CONSTANTS
    Keys = {k1, k2}
    Clients = {c1, c2}
    NoClient = NoClient
    KeyLists <- UpToTwoKeys
    Timeouts = {TRUE, FALSE}
    RPushSizes = {1}
    LPushSizes = {}
    PopCounts = {}
    MaxVals = 3
    MaxChans = 2
SPECIFICATION Spec
INVARIANT NothingLost
CHECK_DEADLOCK FALSE
