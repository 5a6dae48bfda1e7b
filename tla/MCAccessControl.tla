--------------------------- MODULE MCAccessControl ---------------------------
(* AccessControl with model values and small sets of bodies for TLC. *)
EXTENDS AccessControl, TLC

CONSTANTS r1, r2, p1, p2, p3, w1, w2

File(action, path) == [plane |-> FilePlane, resource |-> FileResource,
                       action |-> action, path |-> path]

Tree == Below(<<"a">>)
Leaf == Exact(<<"a", "x">>)

ReadAll == File("read", AnyPath)
ReadTree == File("read", Tree)
ReadLeaf == File("read", Leaf)
ReadSide == File("read", Exact(<<"a", "y">>))
ManageTree == File("manage", Tree)
WriteLeaf == File("write", Leaf)

MCRoleBody == {[name |-> "one", scopes |-> {ReadTree}],
               [name |-> "two", scopes |-> {ReadLeaf, WriteLeaf}],
               [name |-> "two", scopes |-> {}]}

MCGrantBody == {{}, {ManageTree}, {ReadLeaf}}

MCRequest == {ReadLeaf, ReadSide, WriteLeaf}

Ctx(ip, workspace) == [x \in {"identity", "workspace", "ip", "time"} |->
    CASE x = "ip" -> ip [] x = "workspace" -> workspace
      [] x = "identity" -> "agent" [] OTHER -> 1]

MCContext == {Ctx(Absent, Absent), Ctx("office", w1), Ctx("office", w2)}

Pol(name, effect, scopes, conditions, priority, workspace) ==
    [name |-> name, effect |-> effect, scopes |-> scopes, conditions |-> conditions,
     priority |-> priority, workspace |-> workspace]

FromOffice == [type |-> "ip", operator |-> "in", value |-> {"office"}]
NotOffice == [type |-> "ip", operator |-> "not_in", value |-> {"office"}]

MCPolicyBody ==
    {Pol("one", "allow", {ReadTree}, {}, 2, Nowhere),
     Pol("two", "allow", {ReadLeaf}, {}, 2, w1),
     Pol("one", "deny", {ReadAll}, {}, 1, Nowhere),
     Pol("one", "deny", {ReadLeaf}, {FromOffice}, 1, w1),
     Pol("two", "deny", {ReadTree}, {NotOffice}, 1, w2),
     Pol("two", "deny", {ReadSide}, {}, 3, Nowhere),
     Pol("one", "allow", {ReadAll}, {}, 1, Nowhere),
     Pol("two", "allow", {ReadTree}, {}, 1001, w1)}

MCOrgScopes == {ReadAll}
MCWorkspaceScopes == {ReadTree, WriteLeaf}

Symmetry == Permutations(PolicyId)
=============================================================================
