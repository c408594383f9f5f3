SPECIFICATION Spec
CONSTANTS
    Interface <- MCInterface
    WordBits = 2
    NumWords = 2
    Capacity = 2
    MaxPackets = 3
    MaxFrames = 1
INVARIANTS
    IInv
    NoLostWakeup
PROPERTIES
    ImplementsService
CHECK_DEADLOCK FALSE
