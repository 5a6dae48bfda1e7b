SPECIFICATION Spec
CONSTANTS
    Pair = {p1, p2}
    Session = {s1}
    Subject = {i1}
    StoredSubject = {}
    WorkspaceToken = {}
    Request = {r1}
    Class = {"path"}
    Offered = {"issue", "refresh"}
    Horizon = {3}
    AccessTTL = 1
    DurableTTL = 3
    RefreshTTL = 2
    Skew = 1
    Grace = 1
    MaxTime = 4
    Forever = 99
    TurnBased = TRUE
    NoPair = NoPair
    NoWorkspace = NoWorkspace
    NoRequest = NoRequest
    NoToken = NoToken
    NoClaims = NoClaims
    p1 = p1
    p2 = p2
    p3 = p3
    s1 = s1
    s2 = s2
    i1 = i1
    i2 = i2
    w1 = w1
    r1 = r1
    r2 = r2
SYMMETRY Symmetry
PROPERTIES EveryReplayKillsSession
CHECK_DEADLOCK FALSE
