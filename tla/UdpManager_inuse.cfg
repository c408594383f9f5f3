SPECIFICATION SafeSpec
CONSTANTS
    a = a
    b = b
    c = c
    any4 = any4
    any6 = any6
    p = p
    q = q
    V4 = {a, b}
    V6 = {c}
    Unspecified4 = any4
    Unspecified6 = any6
    Port = {p}
    Requested = {a, any4}
    Slots = 2
    WordSize = 2
    SendCapacity = 2
    MaxData = 1
PROPERTIES
    InUseMeansInUse
