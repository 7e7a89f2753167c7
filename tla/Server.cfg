CONSTANTS
    c1 = c1
    c2 = c2
    Sends <- Peers
    Conns = {c1, c2}
    Readers = {c1}
    Passwords = {"p"}
    Attempts = {"p", "x"}
    IsReplica = TRUE
    MaxQueue = 1
    MaxPipelined = 1
SPECIFICATION FairSpec
INVARIANTS
    AuthHolds
    SubscriberSilent
    CleanExit
 
CHECK_DEADLOCK FALSE
