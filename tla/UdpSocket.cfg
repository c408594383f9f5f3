SPECIFICATION Spec
CONSTANTS
    p = p
    q = q
    Source = {p, q}
    Peer = p
    Modes <- MCBlocking
    StartMode = "nonblocking"
    SendCapacity = 2
    RecvCapacity = 1
    PoolSize = 2
    MaxSends = 2
    MaxRecvs = 1
    MaxControls = 1
CHECK_DEADLOCK FALSE
INVARIANTS
    TypeOK
    NobodySleepsOnWork
    BuffersAreConserved
    BlockingResultIsOwn
PROPERTIES
    DatagramsGoOnceInOrder
    CallsTakeEffect
