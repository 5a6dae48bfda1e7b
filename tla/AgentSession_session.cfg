SPECIFICATION FairSpec
CONSTANTS
    Pair = {p1, p2, p3, p4}
    Caller = {c1, c2}
    Request = {r1, r2}
    NoPair = NoPair
    None = None
    p1 = p1
    p2 = p2
    p3 = p3
    p4 = p4
    c1 = c1
    c2 = c2
    r1 = r1
    r2 = r2
    AccessTTL = 1
    RefreshTTL = 2
    Window = 0
    MaxTime = 2
    MaxLosses = 1
INVARIANTS TypeOK LossesPayForReplays InStep OneUsableSession
PROPERTIES CallersAnswered
CHECK_DEADLOCK FALSE
