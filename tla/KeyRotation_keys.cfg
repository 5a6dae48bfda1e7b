SPECIFICATION Spec
CONSTANTS
    Key = {k1, k2}
    Call = {c1, c2}
    First = k1
    NoKey = NoKey
    k1 = k1
    k2 = k2
    k3 = k3
    c1 = c1
    c2 = c2
    Lifetime = {1}
    Longest = 1
    CacheTTL = 2
    Timeout = 1
    Wait = 2
    Skew = 1
    MaxTime = 4
    Forever = 99
INVARIANTS TypeOK RetiredKeysDieOut RotationRefusesNobody StagedAhead
SYMMETRY Symmetry
CHECK_DEADLOCK FALSE
