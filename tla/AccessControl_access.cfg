SPECIFICATION Spec
CONSTANTS
    Plane = {"relayfile", "cloud"}
    Resource = {"fs", "run"}
    Action = {"read", "write", "create", "delete"}
    Segment = {"a", "x", "y"}
    Absent = Absent
    Nowhere = Nowhere
    RoleId = {r1, r2}
    PolicyId = {p1, p2}
    Name = {"one", "two"}
    Workspace = {w1, w2}
    Home = w1
    Unborn = Unborn
    Gone = Gone
    RoleBody <- MCRoleBody
    PolicyBody <- MCPolicyBody
    GrantBody <- MCGrantBody
    OrgScopes <- MCOrgScopes
    OrgRoles = {r2}
    WorkspaceScopes <- MCWorkspaceScopes
    WorkspaceRoles = {}
    Request <- MCRequest
    Context <- MCContext
    r1 = r1
    r2 = r2
    p1 = p1
    p2 = p2
    p3 = p3
    w1 = w1
    w2 = w2
INVARIANTS TypeOK AllowedOnlyByGrant DenyBinds AllowOnlyGives GrantedUnlessDenied InheritanceNarrows
SYMMETRY Symmetry
CHECK_DEADLOCK FALSE
