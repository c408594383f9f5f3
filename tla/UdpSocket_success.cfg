SPECIFICATION SafeSpec
CONSTANTS
    p = p
    q = q
    Source = {p, q}
    Peer = p
    Modes <- MCEither
    StartMode = "blocking"
    SendCapacity = 3
    RecvCapacity = 1
    PoolSize = 2
    MaxSends = 3
    MaxRecvs = 2
    MaxControls = 1
CHECK_DEADLOCK FALSE
INVARIANTS
    SuccessMeansSent
