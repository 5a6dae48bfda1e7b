SPECIFICATION Spec
CONSTANTS
    Identity = {i1, i2}
    Pair = {p1, p2}
    Request = {r1, r2}
    NoIdentity = NoIdentity
    NoToken = NoToken
    NoRequest = NoRequest
    i1 = i1
    i2 = i2
    i3 = i3
    p1 = p1
    p2 = p2
    p3 = p3
    r1 = r1
    r2 = r2
SYMMETRY Symmetry
INVARIANTS SuspendedIsDenied
CHECK_DEADLOCK FALSE
