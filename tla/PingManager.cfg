SPECIFICATION Spec
CONSTANTS
    NoCount = NoCount
    t = t
    Target = {t}
    one = one
    other = other
    Identifier = {one, other}
    SequenceSize = 4
    CounterSize = 16
    Timeout = 1
    DefaultPark = 1
    Calls <- MCCalls
    MaxSent = 5
    MaxErrors = 1
INVARIANTS
    TypeOK
    PingsAreAccounted
    OverdueIsBounded
    EndedSessionsAreComplete
PROPERTIES
    SessionsEnd
