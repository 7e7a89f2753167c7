CONSTANTS
    c1 = c1
    c2 = c2
    c3 = c3
    a = a
    Nobody = Nobody
    NoChannel = NoChannel
    Conns <- ThreeConns
    Channels <- OneChannel
    Readers <- AllButOne
    Breakable <- Second
    NilUnsub = TRUE
    SocketCap = 1
    MaxMsgs = 2
    MaxSubs = 2
SPECIFICATION FairSpec
INVARIANTS
    OncePerMessage
PROPERTIES
    RegistryAvailable
    OwedArrives
CHECK_DEADLOCK FALSE
