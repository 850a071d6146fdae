SPECIFICATION SessionsSpec
CONSTANTS
    Uuids = {u1}
    Principals = {p1, p2}
    DefaultPrincipal = p1
    MaxConnections = 0
    Conns = {c1, c2, c3}
    None = None
SYMMETRY MCSymmetry
CHECK_DEADLOCK FALSE
INVARIANTS
    PrincipalIsolated
