SPECIFICATION Spec
CONSTANTS
    m1 = m1
    m2 = m2
    all = all
    Mac = {m1, m2}
    Broadcast = all
    Slots = 2
    RecvCapacity = 1
    SendCapacity = 1
    MaxPackets = 1
    MaxFrames = 2
INVARIANTS
    TypeOK
    FramesFindTheLiving
PROPERTIES
    StoppedInterfacesGo
