CONSTANTS
    Keys = {k1, k2}
    Clients = {c1, c2, c3}
    NoClient = NoClient
    KeyLists <- UpToTwoKeys
    Timeouts = {TRUE, FALSE}
    RPushSizes = {1, 2}
    LPushSizes = {1}
    PopCounts = {1}
    MaxVals = 3
    MaxChans = 2
SYMMETRY Symmetry
SPECIFICATION Spec
INVARIANT AtMostOnce
PROPERTIES OnlyLPushPassesBy FirstComeFirstServed
CHECK_DEADLOCK FALSE
