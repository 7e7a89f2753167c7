CONSTANTS
    k1 = k1
    k2 = k2
    Keys = {k1, k2}
    Clients = {c1}
    MaxHalf = 2
    AddRequests <- Adds
    ReadCalls <- Calls
    Timeouts = {TRUE, FALSE}
    SetKeys = {k1}
    MaxAdds = 3
SPECIFICATION FairSpec
INVARIANTS
    IdsIncrease
    NoMissedWakeup
    ReadsAreExact
    DollarIsNow
PROPERTY ReaderReturns
CHECK_DEADLOCK FALSE
