SPECIFICATION SessionsSpec
CONSTANTS
    Uuids = {u1, u2, u3}
    Principals = {p1, p2}
    DefaultPrincipal = p1
    MaxConnections = 2
    Conns = {c1, c2, c3}
    None = None
SYMMETRY MCSymmetry
CHECK_DEADLOCK FALSE
INVARIANTS
    SessionsTypeOK
    OneSessionPerUuid
    WithinMaxConnections
    RegisteredIsWatched
    SessionsAreIndexed
    NeverUndercounted
PROPERTIES
    TimedOutIsFinal
