SPECIFICATION FairSpec
CONSTANTS
    Pair = {p1, p2, p3}
    Session = {s1}
    Subject = {i1}
    StoredSubject = {i1}
    WorkspaceToken = {}
    Request = {r1, r2}
    Class = {"plain"}
    Offered = {"issue", "refresh"}
    Horizon = {}
    AccessTTL = 1
    DurableTTL = 3
    RefreshTTL = 2
    Skew = 0
    Grace = 0
    MaxTime = 2
    Forever = 99
    TurnBased = TRUE
    NoPair = NoPair
    NoWorkspace = NoWorkspace
    NoRequest = NoRequest
    NoToken = NoToken
    NoClaims = NoClaims
    p1 = p1
    p2 = p2
    p3 = p3
    s1 = s1
    s2 = s2
    i1 = i1
    i2 = i2
    w1 = w1
    r1 = r1
    r2 = r2
INVARIANTS SingleUse
PROPERTIES RequestsAnswered ReplayEventuallyKills
CHECK_DEADLOCK FALSE
