---------------------------- MODULE AccessControl ----------------------------
(***************************************************************************)
(* The roles, the policies and one agent of an organisation, as the routes *)
(* of packages/server keep them, and what the policy engine decides from   *)
(* them.  A handler reads and writes without giving up the event loop in   *)
(* between (the SQLite build answers every storage call at once), so each  *)
(* is one step.  The decisions read everything afresh: they are functions  *)
(* of the state, of a request and of the context it comes with.            *)
(***************************************************************************)
EXTENDS PolicyEvaluation

CONSTANTS
    RoleId, PolicyId,   \* identifiers; each is drawn once and never again
    Name,               \* names of roles and policies
    Workspace,          \* workspaces of the organisation
    Home,               \* the agent's workspace, or Nowhere
    Unborn, Gone,       \* the record of an identifier before and after its life
    RoleBody,           \* the roles that are offered to create and update
    PolicyBody,         \* the policies that are offered
    GrantBody,          \* the scopes an administrator gives the agent
    OrgScopes, OrgRoles,              \* the row of the organisation
    WorkspaceScopes, WorkspaceRoles,  \* the row of the agent's workspace
    Request, Context    \* the requests and contexts that are decided upon

Condition == [type : {"identity", "workspace", "ip", "time"},
              operator : {"eq", "neq", "in", "not_in", "gt", "lt", "matches"},
              value : SUBSET STRING \cup SUBSET Nat]

\* What the validation of a body lets into the tables.
Role == [name : Name, scopes : SUBSET Scope \ {{}}]
Policy == [name : Name, effect : {"allow", "deny"}, scopes : SUBSET Scope \ {{}},
           conditions : SUBSET Condition, priority : 0..1000,
           workspace : Workspace \cup {Nowhere}]

Status == {"active", "suspended", "retired"}
Usage == {"ok", "alert", "exceeded"}

ASSUME BodyAssumption ==
    /\ GrantBody \subseteq SUBSET Scope
    /\ OrgScopes \subseteq Scope /\ WorkspaceScopes \subseteq Scope
    /\ {Unborn, Gone} \cap (Role \cup Policy) = {}
    /\ Unborn # Gone

VARIABLES
    role,       \* role[r]: the record of a role, Unborn or Gone
    policy,     \* policy[p]: the record of a policy, Unborn or Gone
    agent       \* the agent's row: direct scopes, role ids, status, budget

vars == <<role, policy, agent>>

TypeOK ==
    /\ role \in [RoleId -> Role \cup {Unborn, Gone}]
    /\ policy \in [PolicyId -> Policy \cup {Unborn, Gone}]
    /\ agent \in [scopes : SUBSET Scope, roles : SUBSET RoleId,
                  status : Status, usage : Usage]

LiveRoles == {r \in RoleId : role[r] \notin {Unborn, Gone}}
LivePolicies == {p \in PolicyId : policy[p] \notin {Unborn, Gone}}
Policies == {policy[p] : p \in LivePolicies}

Init ==
    /\ role = [r \in RoleId |-> Unborn]
    /\ policy = [p \in PolicyId |-> Unborn]
    /\ agent \in [scopes : GrantBody, roles : {{}}, status : {"active"}, usage : {"ok"}]

-----------------------------------------------------------------------------
(* Roles *)

ValidRole(body) == body \in Role

\* The name is free in the whole organisation, whatever the workspace.
RoleNameFree(name, self) ==
    \A r \in LiveRoles \ {self} : role[r].name # name

CreateRole(r, body) ==
    /\ role[r] = Unborn
    /\ ValidRole(body)
    /\ RoleNameFree(body.name, r)
    /\ role' = [role EXCEPT ![r] = body]
    /\ UNCHANGED <<policy, agent>>

\* A patch of name or scopes; a name that does not change is not looked up.
UpdateRole(r, body) ==
    /\ r \in LiveRoles
    /\ ValidRole(body)
    /\ body.name # role[r].name => RoleNameFree(body.name, r)
    /\ role' = [role EXCEPT ![r] = body]
    /\ UNCHANGED <<policy, agent>>

\* The agents that have the role keep its identifier in their lists.
DeleteRole(r) ==
    /\ r \in LiveRoles
    /\ role' = [role EXCEPT ![r] = Gone]
    /\ UNCHANGED <<policy, agent>>

AssignRole(r) ==
    /\ r \notin agent.roles
    /\ r \in LiveRoles
    /\ agent' = [agent EXCEPT !.roles = @ \cup {r}]
    /\ UNCHANGED <<role, policy>>

\* Also the identifier of a role that is gone can be taken off the list.
UnassignRole(r) ==
    /\ r \in agent.roles
    /\ agent' = [agent EXCEPT !.roles = @ \ {r}]
    /\ UNCHANGED <<role, policy>>

-----------------------------------------------------------------------------
(* Policies *)

\* Mutant: the scopes and the priority are not looked at.
ValidPolicy_NameAndEffect(body) == body.name \in Name /\ body.effect \in {"allow", "deny"}

ValidPolicy(body) == body \in Policy

\* The name is free among the policies of the same workspace, or among those
\* that bind the whole organisation.
PolicyNameFree(name, workspace, self) ==
    \A p \in LivePolicies \ {self} :
        ~(policy[p].name = name /\ policy[p].workspace = workspace)

CreatePolicy(p, body) ==
    /\ policy[p] = Unborn
    /\ ValidPolicy(body)
    /\ PolicyNameFree(body.name, body.workspace, p)
    /\ policy' = [policy EXCEPT ![p] = body]
    /\ UNCHANGED <<role, agent>>

\* A patch of anything but the workspace.
UpdatePolicy(p, body) ==
    /\ p \in LivePolicies
    /\ ValidPolicy(body)
    /\ body.workspace = policy[p].workspace
    /\ body.name # policy[p].name => PolicyNameFree(body.name, body.workspace, p)
    /\ policy' = [policy EXCEPT ![p] = body]
    /\ UNCHANGED <<role, agent>>

DeletePolicy(p) ==
    /\ p \in LivePolicies
    /\ policy' = [policy EXCEPT ![p] = Gone]
    /\ UNCHANGED <<role, agent>>

-----------------------------------------------------------------------------
(* The agent *)

\* applyBudgetPolicy: a patch that leaves the agent over its budget suspends it
\* as well, where the budget says so (autoSuspend).
StatusWithin(usage) ==
    {agent.status} \cup
        IF usage = "exceeded" /\ agent.status # "retired" THEN {"suspended"} ELSE {}

\* PATCH /v1/identities/:id sets scopes and roles as they are sent, without a
\* look at the roles.
PatchGrants(scopes, roles) ==
    /\ \E status \in StatusWithin(agent.usage) :
        agent' = [agent EXCEPT !.scopes = scopes, !.roles = roles, !.status = status]
    /\ UNCHANGED <<role, policy>>

\* Suspension, retirement and reactivation; what is retired remains so.
SetStatus(status) ==
    /\ agent.status \notin {status, "retired"}
    /\ agent' = [agent EXCEPT !.status = status]
    /\ UNCHANGED <<role, policy>>

\* The same patch sets the budget or its usage: what is spent is reported, or a
\* period ends.
Spend(usage) ==
    /\ agent.usage # usage
    /\ \E status \in StatusWithin(usage) :
        agent' = [agent EXCEPT !.usage = usage, !.status = status]
    /\ UNCHANGED <<role, policy>>

Next ==
    \/ \E r \in RoleId :
        \/ \E body \in RoleBody : CreateRole(r, body) \/ UpdateRole(r, body)
        \/ DeleteRole(r) \/ AssignRole(r) \/ UnassignRole(r)
    \/ \E p \in PolicyId :
        \/ \E body \in PolicyBody : CreatePolicy(p, body) \/ UpdatePolicy(p, body)
        \/ DeletePolicy(p)
    \/ \E scopes \in GrantBody, roles \in SUBSET RoleId : PatchGrants(scopes, roles)
    \/ \E status \in Status : SetStatus(status)
    \/ \E usage \in Usage : Spend(usage)

Spec == Init /\ [][Next]_vars

-----------------------------------------------------------------------------
(* Decisions *)

RoleScopes(roles) == UNION {role[r].scopes : r \in roles \cap LiveRoles}

Held == agent.scopes \cup RoleScopes(agent.roles)

\* The agent's own workspace, unless the context names another.
Subject(context) ==
    IF context["workspace"] = Absent THEN [context EXCEPT !["workspace"] = Home]
    ELSE context

Relevant(policies, context) ==
    LET c == Subject(context)
    IN  Applicable(InForce(policies, c["workspace"]), c)

\* checkAccess: the agent is active and within its budget, and its scopes and
\* the policies permit the request.
Allowed(requested, context, policies) ==
    /\ agent.status = "active"
    /\ agent.usage # "exceeded"
    /\ Permits(requested, Held, Relevant(policies, context))

\* getInheritanceChain, which knows no address of the caller.
Inherited(context) ==
    LET c == [context EXCEPT !["ip"] = Absent, !["workspace"] = Absent]
    IN  IF agent.status # "active"
        THEN [org |-> {}, workspace |-> {}, agent |-> {}, effective |-> {}]
        ELSE InheritanceChain(OrgScopes \cup RoleScopes(OrgRoles),
                              WorkspaceScopes \cup RoleScopes(WorkspaceRoles),
                              Held, Home, Relevant(Policies, c))

-----------------------------------------------------------------------------
(* Properties *)

\* Two live roles never share a name in the organisation, and two live
\* policies never share one where both bind (roles.ts:54 and policies.ts:91
\* promise it; nothing in the schema enforces it).
NamesStayUnique ==
    /\ \A r, s \in LiveRoles : role[r].name = role[s].name => r = s
    /\ \A p, q \in LivePolicies :
        policy[p].name = policy[q].name /\ policy[p].workspace = policy[q].workspace
            => p = q

\* Denial is the default: whatever is let through is covered by a scope the
\* agent holds, or that a policy in force allows.  The engine also decides
\* about scopes that only denials name (policy-evaluation.ts:220), and what
\* comes out of that must not let anybody in.
AllowedOnlyByGrant ==
    \A q \in Request, c \in Context : Allowed(q, c, Policies) =>
        \E s \in Held \cup UNION {p.scopes : p \in
                {a \in Relevant(Policies, c) : a.effect = "allow"}} :
            ScopeMatches(q, s)

\* A denial that matches a request gives way to a matching allowance of
\* higher priority and to nothing else: not to a tie, a scope or a role
\* (policy-evaluation.ts:300).  The documents ask for more, that no priority
\* outranks a denial (docs/rbac-design.md:195).
DenyBinds ==
    \A q \in Request, c \in Context : Allowed(q, c, Policies) =>
        LET matching == {p \in Relevant(Policies, c) :
                            \E t \in p.scopes : ScopeMatches(q, t)}
        IN  \A d \in {p \in matching : p.effect = "deny"} :
                \E a \in matching : a.effect = "allow" /\ a.priority > d.priority

\* Nobody loses anything by one more allowance, whatever its priority and
\* whatever other scopes it overlaps.
AllowOnlyGives ==
    \A body \in PolicyBody : ValidPolicy(body) /\ body.effect = "allow" =>
        \A q \in Request, c \in Context :
            Allowed(q, c, Policies) => Allowed(q, c, Policies \cup {body})

\* A scope that is held can be used by an active agent within its budget as
\* long as no denial in force overlaps it or matches the request.
GrantedUnlessDenied ==
    \A q \in Request, c \in Context, s \in Held :
        /\ agent.status = "active" /\ agent.usage # "exceeded"
        /\ ScopeMatches(q, s)
        /\ ~Allowed(q, c, Policies)
        => \E d \in Relevant(Policies, c) :
                /\ d.effect = "deny"
                /\ \E t \in d.scopes : ScopesOverlap(s, t) \/ ScopeMatches(q, t)

\* Along organisation, workspace and agent every level is covered by the one
\* above, and by what is held there; nothing that is left at any level
\* overlaps a denial that binds it (scope-inheritance.ts:67).
InheritanceNarrows ==
    \A c \in Context :
        LET chain == Inherited(c)
            Within(scopes, parents) ==
                \A s \in scopes : \E p \in parents : ScopeMatches(s, p)
            org == OrgScopes \cup RoleScopes(OrgRoles)
            workspace == WorkspaceScopes \cup RoleScopes(WorkspaceRoles)
            here == [c EXCEPT !["ip"] = Absent, !["workspace"] = Absent]
            denials == {p \in Relevant(Policies, here) :
                            p.effect = "deny" /\ p.workspace \in {Nowhere, Home}}
        IN  /\ Within(chain.effective, org)
            /\ Home # Nowhere => Within(chain.agent, workspace)
            /\ Within(chain.agent, org) /\ Within(chain.agent, Held)
            /\ \A s \in chain.effective \cup chain.agent, d \in denials :
                    \A t \in d.scopes : ~ScopesOverlap(s, t)

\* A denial blocks and never grants: with one more of them, nothing is let
\* through that was refused (specs/rbac.md:234).  The code does not keep this.
DenyOnlyTakes ==
    \A body \in PolicyBody : ValidPolicy(body) /\ body.effect = "deny" =>
        \A q \in Request, c \in Context :
            Allowed(q, c, Policies \cup {body}) => Allowed(q, c, Policies)
=============================================================================
