-------------------------- MODULE PolicyEvaluation --------------------------
(***************************************************************************)
(* The decisions of the policy engine, as functions of what it has read:   *)
(* the scopes an identity holds, directly and through its roles, and the   *)
(* policies of its organisation.  One algorithm decides about a request,   *)
(* one about every scope that is held or named by a policy, and one        *)
(* narrows scopes along organisation, workspace and agent.                 *)
(***************************************************************************)
EXTENDS Scopes

CONSTANTS
    Absent,     \* an attribute the request does not carry
    Nowhere     \* the workspace of a policy that binds the whole organisation

\* A condition compares one attribute of the request with the values written
\* in it: eq, in and matches ask for one of them, neq and not_in for none of
\* them, gt and lt order times.  An attribute that is absent satisfies no
\* condition, not even a negative one.
ConditionHolds(c, context) ==
    LET actual == context[c.type]
    IN  /\ actual # Absent
        /\ \/ c.operator \in {"eq", "in", "matches"} /\ actual \in c.value
           \/ c.operator \in {"neq", "not_in"} /\ actual \notin c.value
           \/ c.operator = "gt" /\ c.type = "time" /\ \A v \in c.value : actual > v
           \/ c.operator = "lt" /\ c.type = "time" /\ \A v \in c.value : actual < v

Applicable(policies, context) ==
    {p \in policies : \A c \in p.conditions : ConditionHolds(c, context)}

\* The policies a request in a workspace is subject to; a request that names
\* no workspace gets those of all of them.
InForce(policies, workspace) ==
    IF workspace = Nowhere THEN policies
    ELSE {p \in policies : p.workspace \in {Nowhere, workspace}}

TopPriority(policies) ==
    {p \in policies : \A q \in policies : q.priority <= p.priority}

\* Mutant: an allowance wins a tie.
Decision_AllowWinsTies(policies) ==
    IF policies = {} THEN "none"
    ELSE IF \A p \in TopPriority(policies) : p.effect = "deny" THEN "deny"
         ELSE "allow"

\* The highest priority decides, and among equals a denial.
Decision(policies) ==
    IF policies = {} THEN "none"
    ELSE IF \E p \in TopPriority(policies) : p.effect = "deny" THEN "deny"
         ELSE "allow"

\* The decision about a scope as a whole, by the policies that overlap it.
ResolveScopeDecision(scope, policies) ==
    Decision({p \in policies : \E t \in p.scopes : ScopesOverlap(scope, t)})

\* The decision about a request, by the policies that match it.
RequestDecision(requested, policies) ==
    Decision({p \in policies : \E t \in p.scopes : ScopeMatches(requested, t)})

\* Mutant: as soon as any policy applies, only what policies allow is left.
EffectiveScopes_PoliciesOnly(held, policies) ==
    {s \in held \cup UNION {p.scopes : p \in policies} :
        LET d == ResolveScopeDecision(s, policies)
        IN  d = "allow" \/ (policies = {} /\ s \in held)}

\* The scopes that are left to a holder, or added, when the policies have
\* spoken: every scope held or named by a policy is decided by itself.
EffectiveScopes(held, policies) ==
    {s \in held \cup UNION {p.scopes : p \in policies} :
        LET d == ResolveScopeDecision(s, policies)
        IN  d = "allow" \/ (d = "none" /\ s \in held)}

\* Mutant: the effective scopes alone are asked.
Permits_ScopesAlone(requested, held, policies) ==
    \E s \in EffectiveScopes(held, policies) : ScopeMatches(requested, s)

\* A request is let through when no policy denies it and an effective scope
\* covers it.
Permits(requested, held, policies) ==
    /\ RequestDecision(requested, policies) # "deny"
    /\ \E s \in EffectiveScopes(held, policies) : ScopeMatches(requested, s)

-----------------------------------------------------------------------------
(* Inheritance *)

\* Mutant: the child's side of every meeting, be it the wider one.
IntersectScopes_Child(parent, child) ==
    {c \in child : \E p \in parent : ScopesOverlap(c, p)}

\* The narrower of every two scopes of a parent and a child that meet.
IntersectScopes(parent, child) ==
    {c \in child : \E p \in parent : ScopeMatches(c, p)}
        \cup {p \in parent : \E c \in child : ~ScopeMatches(c, p) /\ ScopeMatches(p, c)}

\* What the denials among some policies leave of a set of scopes.
ApplyDenyPolicies(scopes, policies) ==
    LET denials == {p \in policies : p.effect = "deny"}
    IN  IF denials = {} THEN scopes ELSE EffectiveScopes(scopes, denials)

\* What is held at each level, cut to the level above and freed of what is
\* denied there, and the union of the three.  Policies that bind the whole
\* organisation apply at every level, those of the workspace from it on down.
InheritanceChain(org, workspace, agent, home, policies) ==
    LET orgPolicies == {p \in policies : p.workspace = Nowhere}
        allPolicies == orgPolicies \cup {p \in policies : p.workspace = home}
        boundary    == IF home = Nowhere THEN org ELSE IntersectScopes(org, workspace)
        orgLeft       == ApplyDenyPolicies(org, orgPolicies)
        workspaceLeft == IF home = Nowhere THEN {}
                         ELSE ApplyDenyPolicies(boundary, allPolicies)
        agentLeft     == ApplyDenyPolicies(IntersectScopes(boundary, agent), allPolicies)
    IN  [org |-> orgLeft, workspace |-> workspaceLeft, agent |-> agentLeft,
         effective |-> ApplyDenyPolicies(orgLeft \cup workspaceLeft \cup agentLeft,
                                         allPolicies)]
=============================================================================
