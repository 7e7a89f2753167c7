CONSTANTS
    r1 = r1
    r2 = r2
    Replicas <- TwoReplicas
    Clients = {c1}
    WriteSize = 2
    GetAckSize = 1
    Needs = {1, 2}
    Timeouts = {TRUE, FALSE}
    Breakable <- Second
    MaxOffset = 5
SPECIFICATION FairSpec
INVARIANTS
    OffsetsTrack
PROPERTIES
    
    WaitReturns
CHECK_DEADLOCK FALSE
