SPECIFICATION Spec
CONSTANTS
    a = a
    b = b
    c = c
    any4 = any4
    any6 = any6
    p = p
    q = q
    V4 = {a, b}
    V6 = {c}
    Unspecified4 = any4
    Unspecified6 = any6
    Port = {p}
    Requested = {a, b, c, any4}
    Slots = 3
    WordSize = 2
    SendCapacity = 2
    MaxData = 2
INVARIANTS
    TypeOK
    ListenersAreUnique
    BoundSocketsAreServed
PROPERTIES
    DropsUnbindTheirOwn
    SpecificInUseMeansInUse
