SPECIFICATION Spec
CONSTANTS
    s1 = s1
    Socket = {s1}
    Nobody = Nobody
    Thread = Thread
    Calls <- MCCalls
    WordBits = 1
    SendCapacity = 2
    RecvCapacity = 1
    PoolSize = 1
    MaxTokens = 2
    MaxPackets = 2
    MaxSends = 1
CHECK_DEADLOCK FALSE
INVARIANTS
    TypeOK
    SlotsAreOwn
    PollerSleepsOnNothing
PROPERTIES
    RegisteredIsServed
