SPECIFICATION Spec
CONSTANTS
    Pair = {p1, p2}
    Session = {s1}
    Subject = {i1, i2}
    StoredSubject = {i1}
    WorkspaceToken = {w1}
    Request = {r1, r2}
    Class = {"agent", "durable", "path"}
    Offered = {"issue", "refresh", "revoke", "bearer", "introspect", "public"}
    Horizon = {2}
    AccessTTL = 1
    DurableTTL = 3
    RefreshTTL = 2
    Skew = 1
    Grace = 1
    MaxTime = 2
    Forever = 99
    TurnBased = TRUE
    NoPair = NoPair
    NoWorkspace = NoWorkspace
    NoRequest = NoRequest
    NoToken = NoToken
    NoClaims = NoClaims
    p1 = p1
    p2 = p2
    p3 = p3
    s1 = s1
    s2 = s2
    i1 = i1
    i2 = i2
    w1 = w1
    r1 = r1
    r2 = r2
SYMMETRY Symmetry
INVARIANTS TypeOK Inductive OneLiveRefresh RevocationIsFinal KilledSessionStaysDead DelegationBound
PROPERTIES NoLateSuccess ReplayKillsSession ChainSpec
CHECK_DEADLOCK FALSE
