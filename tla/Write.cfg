CONSTANTS
    Clients = {c1, c2}
    Kinds <- AllKinds
    LinkCap = 1
    MaxCmds = 3
    MaxStops = 1
SPECIFICATION FairSpec
INVARIANTS   WindowOnly
  
CHECK_DEADLOCK FALSE
