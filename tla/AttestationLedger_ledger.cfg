SPECIFICATION Spec
CONSTANTS
    Org = {o1, o2}
    Identity = {i1, i2}
    Grant = {g1, g2}
    Name = {n1}
    Request = {r1, r2}
    Commits = {2}
    MaxTries = 2
    TTL = 1
    MaxTime = 1
    NoOrg = NoOrg
    NoIdentity = NoIdentity
    NoGrant = NoGrant
    NoName = NoName
    o1 = o1
    o2 = o2
    i1 = i1
    i2 = i2
    g1 = g1
    g2 = g2
    n1 = n1
    r1 = r1
    r2 = r2
SYMMETRY Symmetry
INVARIANTS TypeOK ChainIntact WriteIsNotRepeated
PROPERTIES RedeemedInTime TakenNamesRefused EvidenceSpec
CHECK_DEADLOCK FALSE
