SPECIFICATION SafeSpec
CONSTANTS
    x = x
    y = y
    a1 = a1
    a2 = a2
    Ip = {x, y}
    Add = {a1, a2}
    MaxRetry = 1
    Lifetime = 1
    StaleLifetime = 2
    MaxBuffer = 2
    MaxPackets = 3
    MaxArps = 2
SYMMETRY MCSymmetry
INVARIANTS
    TypeOK
    WaitersHaveAReason
    PacketsKeepTheirPlace
    AskersAgree
    WaitersAreRegistered
PROPERTIES
    AddVerdictIsSound
