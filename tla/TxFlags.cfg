CONSTANTS
    c1 = c1
    c2 = c2
    k1 = k1
    k2 = k2
    Clients = {c1, c2}
    Keys = {k1, k2}
    WatchKeys <- OwnKeys
    Ops = {"SET", "SETPX", "SETBIT"}
    Discarders = {c1}
    MaxQueue = 1
SPECIFICATION Spec
INVARIANTS
    
    NoSpuriousAbort
 
CHECK_DEADLOCK FALSE
