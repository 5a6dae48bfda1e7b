------------------------ MODULE AccessControl_proofs ------------------------
(***************************************************************************)
(* Proofs about matching, policies and access.  They hold for any planes,  *)
(* resources, actions and segments, any number of roles and policies, any  *)
(* bodies that pass validation, any requests and any contexts.             *)
(***************************************************************************)
EXTENDS AccessControl, WellFoundedInduction, TLAPS

-----------------------------------------------------------------------------
(* Matching *)

\* Starting with a path is transitive: the segments of the shortest begin
\* both longer ones.
LEMMA BeginsIsTransitive ==
    ASSUME NEW a, NEW b, NEW c, Begins(a, b), Begins(b, c)
    PROVE  Begins(a, c) /\ (DOMAIN a = DOMAIN c => DOMAIN a = DOMAIN b /\ DOMAIN b = DOMAIN c)
BY DEF Begins

\* What a manager may do, and what everybody may do, is closed.
LEMMA ActionsAreTransitive ==
    ASSUME NEW a, NEW b, NEW c, ActionCovers(b, a), ActionCovers(c, b)
    PROVE  ActionCovers(c, a)
BY DEF ActionCovers, ManageImplies, Manage, Wild

LEMMA AdmittingIsTransitive ==
    ASSUME NEW r, NEW s, NEW t, Admits(s, r), Admits(t, s)
    PROVE  Admits(t, r)
BY ActionsAreTransitive DEF Admits, Wild

LEMMA PathsAreTransitive ==
    ASSUME NEW r \in Path, NEW s \in Path, NEW t \in Path,
           SameOrAny(r, s) \/ StartsWith(r, s),
           SameOrAny(s, t) \/ StartsWith(s, t)
    PROVE  SameOrAny(r, t) \/ StartsWith(r, t)
<1>1. CASE SameOrAny(s, t) /\ SameOrAny(r, s)
  BY <1>1 DEF SameOrAny
<1>2. CASE SameOrAny(s, t) /\ StartsWith(r, s)
  BY <1>2 DEF SameOrAny
<1>3. CASE StartsWith(s, t) /\ SameOrAny(r, s)
  BY <1>3 DEF SameOrAny, StartsWith, AnyPath
<1>4. CASE StartsWith(s, t) /\ StartsWith(r, s)
  <2>1. Begins(t.at, s.at) /\ Begins(s.at, r.at) /\ t.kind = "below" /\ s.kind = "below"
    BY <1>4 DEF StartsWith
  <2>2. Begins(t.at, r.at) /\ (DOMAIN t.at = DOMAIN r.at => DOMAIN s.at = DOMAIN r.at)
    BY <2>1, BeginsIsTransitive
  <2> QED BY <1>4, <2>1, <2>2 DEF StartsWith
<1> QED BY <1>1, <1>2, <1>3, <1>4

\* Matching is transitive, in the engine ...
THEOREM EngineMatchIsTransitive ==
    ASSUME NEW r \in Scope, NEW s \in Scope, NEW t \in Scope,
           ScopeMatches(r, s), ScopeMatches(s, t)
    PROVE  ScopeMatches(r, t)
<1>1. r.path \in Path /\ s.path \in Path /\ t.path \in Path
  BY DEF Scope
<1> QED BY <1>1, AdmittingIsTransitive, PathsAreTransitive DEF ScopeMatches

\* ... and in the SDK, though a wildcard counts on files alone there: whoever
\* is matched by a scope that is a file's is a file's.
THEOREM MatchIsTransitive ==
    ASSUME NEW r \in Scope, NEW s \in Scope, NEW t \in Scope,
           MatchScope(r, s), MatchScope(s, t)
    PROVE  MatchScope(r, t)
<1>1. r.path \in Path /\ s.path \in Path /\ t.path \in Path
  BY DEF Scope
<1>2. Admits(t, r)
  BY AdmittingIsTransitive DEF MatchScope
<1>3. IsFile(s) => IsFile(r)
  BY DEF MatchScope, Admits, IsFile, Wild, FilePlane, FileResource
<1>4. SameOrAny(r.path, t.path) \/ StartsWith(r.path, t.path)
  BY <1>1, PathsAreTransitive DEF MatchScope
<1>5. CASE StartsWith(r.path, s.path)
  <2>1. CASE SameOrAny(r.path, s.path)
    BY <1>1, <1>2, <1>3, <1>5, <2>1 DEF MatchScope, SameOrAny, StartsWith, AnyPath
  <2> QED BY <1>2, <1>4, <2>1 DEF MatchScope
<1>6. CASE SameOrAny(r.path, s.path)
  BY <1>1, <1>2, <1>3, <1>6 DEF MatchScope, SameOrAny, StartsWith, AnyPath
<1> QED BY <1>5, <1>6 DEF MatchScope

\* Delegation narrows: what is delegated from what was delegated stays within
\* the first grant, over any number of hops.
THEOREM DelegationNarrows ==
    ASSUME NEW a \in SUBSET Scope, NEW b \in SUBSET Scope, NEW c \in SUBSET Scope,
           IsSubsetOf(a, b), IsSubsetOf(b, c)
    PROVE  IsSubsetOf(a, c)
<1> SUFFICES ASSUME NEW s \in a PROVE \E g \in c : MatchScope(s, g)
  BY DEF IsSubsetOf, MatchesAny
<1>1. PICK p \in b : MatchScope(s, p)
  BY DEF IsSubsetOf, MatchesAny
<1>2. PICK g \in c : MatchScope(p, g)
  BY DEF IsSubsetOf, MatchesAny
<1>3. MatchScope(s, g)
  BY <1>1, <1>2, MatchIsTransitive
<1> QED BY <1>3

-----------------------------------------------------------------------------
(* Policies *)

\* An order that is < has a least element in every set of numbers.
LEMMA LeastOfOrder ==
    ASSUME NEW R, IsWellFoundedOn(R, Nat), \A x, y \in Nat : <<y, x>> \in R <=> y < x,
           NEW T \in SUBSET Nat, T # {}
    PROVE  \E x \in T : \A y \in T : x <= y
<1>1. \E x \in T : \A y \in T : ~ (<<y, x>> \in R)
  BY WFMin
<1>2. PICK x \in T : \A y \in T : ~ (<<y, x>> \in R)
  BY <1>1
<1>3. \A y \in T : x <= y
  <2> TAKE y \in T
  <2>1. x \in Nat /\ y \in Nat
    OBVIOUS
  <2>2. ~ (<<y, x>> \in R)
    BY <1>2
  <2>3. ~ (y < x)
    BY <2>1, <2>2
  <2> QED BY <2>1, <2>3
<1> QED BY <1>3

LEMMA LessIsLess ==
    \A x, y \in Nat : <<y, x>> \in OpToRel(<, Nat) <=> y < x
BY Zenon DEF OpToRel

LEMMA LeastNatural ==
    ASSUME NEW T \in SUBSET Nat, T # {}
    PROVE  \E x \in T : \A y \in T : x <= y
BY LeastOfOrder, LessIsLess, NatLessThanWellFounded, Zenon

LEMMA BoundedMaximum ==
    ASSUME NEW S \in SUBSET (0..1000), S # {}
    PROVE  \E m \in S : \A n \in S : n <= m
<1>0. \A n \in S : n \in Int /\ 0 <= n /\ n <= 1000 /\ 1000 - n \in Nat
  <2> TAKE n \in S
  <2>1. n \in 0..1000
    OBVIOUS
  <2> QED BY <2>1
<1> DEFINE T == {1000 - n : n \in S}
<1>1. T \subseteq Nat /\ T # {}
  <2>1. ASSUME NEW t \in T PROVE t \in Nat
    <3>1. PICK n \in S : t = 1000 - n
      OBVIOUS
    <3> QED BY <1>0, <3>1
  <2>2. PICK n \in S : TRUE
    OBVIOUS
  <2>3. 1000 - n \in T
    OBVIOUS
  <2> QED BY <2>1, <2>3
<1> HIDE DEF T
<1>2. PICK x \in T : \A y \in T : x <= y
  BY <1>1, LeastNatural
<1>6. PICK m \in S : x = 1000 - m
  BY DEF T
<1>7. \A n \in S : n <= m
  <2> TAKE n \in S
  <2>1. 1000 - n \in T
    BY DEF T
  <2>2. 1000 - m <= 1000 - n
    BY <1>2, <1>6, <2>1
  <2> QED BY <1>0, <2>2
<1> QED BY <1>7

LEMMA TopExists ==
    ASSUME NEW ps, ps # {}, \A p \in ps : p.priority \in 0..1000
    PROVE  TopPriority(ps) # {}
<1> DEFINE S == {p.priority : p \in ps}
<1>1. S \in SUBSET (0..1000) /\ S # {}
  OBVIOUS
<1> HIDE DEF S
<1>2. PICK m \in S : \A n \in S : n <= m
  BY <1>1, BoundedMaximum
<1>3. PICK p \in ps : m = p.priority
  BY DEF S
<1>4. \A q \in ps : q.priority <= p.priority
  BY <1>2, <1>3 DEF S
<1> QED BY <1>4 DEF TopPriority

\* What the tables hold of a policy, as far as the decisions go.
Sound(ps) == \A p \in ps : p.priority \in 0..1000 /\ p.effect \in {"allow", "deny"}

\* A decision that is no denial rests on an allowance nothing outranks.
LEMMA AllowanceOnTop ==
    ASSUME NEW ps, ps # {}, Sound(ps), Decision(ps) # "deny"
    PROVE  \E a \in ps : /\ a.effect = "allow"
                         /\ \A d \in ps : d.effect = "deny" => a.priority > d.priority
<1>1. PICK a \in TopPriority(ps) : TRUE
  BY TopExists DEF Sound
<1>2. a \in ps /\ \A q \in ps : q.priority <= a.priority
  BY <1>1 DEF TopPriority
<1>3. \A p \in TopPriority(ps) : p.effect # "deny"
  BY DEF Decision
<1>4. a.effect = "allow"
  BY <1>1, <1>2, <1>3 DEF Sound
<1>5. ASSUME NEW d \in ps, d.effect = "deny" PROVE a.priority > d.priority
  <2>0. a.priority \in 0..1000 /\ d.priority \in 0..1000
    BY <1>2 DEF Sound
  <2>n. \A n \in 0..1000 : n \in Int
    OBVIOUS
  <2>1. a.priority \in Int /\ d.priority \in Int
    BY <2>0, <2>n, Zenon
  <2>p. d.priority <= a.priority
    BY <1>2, Zenon
  <2>2. d.priority # a.priority
    BY <1>2, <1>3, <1>5 DEF TopPriority
  <2> QED BY <2>1, <2>p, <2>2
<1> QED BY <1>2, <1>4, <1>5

\* Whatever is permitted is covered by what is held or by what is allowed.
LEMMA PermitsOnlyByGrant ==
    ASSUME NEW q, NEW held, NEW ps, Sound(ps), Permits(q, held, ps)
    PROVE  \E s \in held \cup UNION {p.scopes : p \in {a \in ps : a.effect = "allow"}} :
               ScopeMatches(q, s)
<1> DEFINE matching == {p \in ps : \E t \in p.scopes : ScopeMatches(q, t)}
<1>1. Decision(matching) # "deny"
  BY DEF Permits, RequestDecision
<1>2. PICK s \in held \cup UNION {p.scopes : p \in ps} : ScopeMatches(q, s)
  BY DEF Permits, EffectiveScopes
<1>3. CASE s \in held
  BY <1>2, <1>3
<1>4. CASE s \notin held
  <2>1. matching # {}
    BY <1>2, <1>4
  <2>2. Sound(matching)
    BY DEF Sound
  <2> HIDE DEF matching
  <2>3. PICK a \in matching : a.effect = "allow"
    BY <1>1, <2>1, <2>2, AllowanceOnTop
  <2>4. a \in ps /\ \E t \in a.scopes : ScopeMatches(q, t)
    BY DEF matching
  <2> QED BY <2>3, <2>4
<1> QED BY <1>3, <1>4

\* A denial that matches what is permitted is outranked by an allowance.
LEMMA PermitsAgainstDenial ==
    ASSUME NEW q, NEW held, NEW ps, Sound(ps), Permits(q, held, ps),
           NEW d \in {p \in ps : \E t \in p.scopes : ScopeMatches(q, t)}, d.effect = "deny"
    PROVE  \E a \in {p \in ps : \E t \in p.scopes : ScopeMatches(q, t)} :
               a.effect = "allow" /\ a.priority > d.priority
<1> DEFINE matching == {p \in ps : \E t \in p.scopes : ScopeMatches(q, t)}
<1>1. Decision(matching) # "deny"
  BY DEF Permits, RequestDecision
<1>2. Sound(matching) /\ d \in matching
  BY DEF Sound
<1> HIDE DEF matching
<1>3. \E a \in matching : a.effect = "allow" /\ a.priority > d.priority
  BY <1>1, <1>2, AllowanceOnTop
<1> QED BY <1>3 DEF matching

\* What is held and not overlapped or matched by a denial is permitted.
LEMMA HeldIsPermitted ==
    ASSUME NEW q, NEW held, NEW ps, NEW s \in held, ScopeMatches(q, s),
           \A d \in ps : d.effect = "deny" =>
               \A t \in d.scopes : ~ScopesOverlap(s, t) /\ ~ScopeMatches(q, t)
    PROVE  Permits(q, held, ps)
<1>1. RequestDecision(q, ps) # "deny"
  BY DEF RequestDecision, Decision, TopPriority
<1>2. ResolveScopeDecision(s, ps) \in {"allow", "none"}
  BY DEF ResolveScopeDecision, Decision, TopPriority
<1>3. s \in EffectiveScopes(held, ps)
  BY <1>2 DEF EffectiveScopes
<1> QED BY <1>1, <1>3 DEF Permits

\* One more allowance turns no decision into a denial, and no allowance
\* into anything else.
LEMMA AllowanceKeeps ==
    ASSUME NEW ps, NEW qs, NEW a, a.effect = "allow", ps \subseteq qs, qs \subseteq ps \cup {a},
           Decision(ps) # "deny"
    PROVE  /\ Decision(qs) # "deny"
           /\ Decision(ps) = "allow" => Decision(qs) = "allow"
<1>1. ASSUME NEW p \in TopPriority(qs), p.effect = "deny" PROVE FALSE
  <2>1. p \in ps /\ p \in TopPriority(ps)
    BY <1>1 DEF TopPriority
  <2> QED BY <1>1, <2>1 DEF Decision
<1>2. Decision(ps) = "allow" => ps # {}
  BY DEF Decision
<1> QED BY <1>1, <1>2 DEF Decision

LEMMA PermitsIsMonotonic ==
    ASSUME NEW q, NEW held, NEW ps, NEW qs, NEW a, a.effect = "allow",
           ps \subseteq qs, qs \subseteq ps \cup {a}, Permits(q, held, ps)
    PROVE  Permits(q, held, qs)
<1>1. RequestDecision(q, qs) # "deny"
  <2> DEFINE M(x) == {p \in x : \E t \in p.scopes : ScopeMatches(q, t)}
  <2>1. M(ps) \subseteq M(qs) /\ M(qs) \subseteq M(ps) \cup {a}
    OBVIOUS
  <2>2. Decision(M(ps)) # "deny"
    BY DEF Permits, RequestDecision
  <2> HIDE DEF M
  <2>3. Decision(M(qs)) # "deny"
    BY <2>1, <2>2, AllowanceKeeps
  <2> QED BY <2>3 DEF M, RequestDecision
<1>2. PICK s \in EffectiveScopes(held, ps) : ScopeMatches(q, s)
  BY DEF Permits
<1>3. s \in EffectiveScopes(held, qs)
  <2> DEFINE M(x) == {p \in x : \E t \in p.scopes : ScopesOverlap(s, t)}
  <2>1. M(ps) \subseteq M(qs) /\ M(qs) \subseteq M(ps) \cup {a}
    OBVIOUS
  <2>2. s \in held \cup UNION {p.scopes : p \in qs}
    BY DEF EffectiveScopes
  <2>3. Decision(M(ps)) = "allow" \/ (Decision(M(ps)) = "none" /\ s \in held)
    BY DEF EffectiveScopes, ResolveScopeDecision
  <2> HIDE DEF M
  <2>4. Decision(M(qs)) # "deny" /\ (Decision(M(ps)) = "allow" => Decision(M(qs)) = "allow")
    BY <2>1, <2>3, AllowanceKeeps
  <2>5. Decision(M(qs)) = "allow" \/ (Decision(M(qs)) = "none" /\ s \in held)
    BY <2>3, <2>4 DEF Decision
  <2> QED BY <2>2, <2>5 DEF M, EffectiveScopes, ResolveScopeDecision
<1> QED BY <1>1, <1>2, <1>3 DEF Permits

-----------------------------------------------------------------------------
(* The state *)

LEMMA TypeStep == TypeOK /\ [Next]_vars => TypeOK'
<1> SUFFICES ASSUME TypeOK, [Next]_vars PROVE TypeOK'
  OBVIOUS
<1> USE DEF TypeOK
<1>1. ASSUME NEW r \in RoleId, NEW body \in RoleBody, CreateRole(r, body) \/ UpdateRole(r, body)
      PROVE  TypeOK'
  BY <1>1 DEF CreateRole, UpdateRole, ValidRole
<1>2. ASSUME NEW r \in RoleId, DeleteRole(r) PROVE TypeOK'
  BY <1>2 DEF DeleteRole
<1>3. ASSUME NEW r \in RoleId, AssignRole(r) \/ UnassignRole(r) PROVE TypeOK'
  BY <1>3 DEF AssignRole, UnassignRole
<1>4. ASSUME NEW p \in PolicyId, NEW body \in PolicyBody,
             CreatePolicy(p, body) \/ UpdatePolicy(p, body)
      PROVE  TypeOK'
  BY <1>4 DEF CreatePolicy, UpdatePolicy, ValidPolicy
<1>5. ASSUME NEW p \in PolicyId, DeletePolicy(p) PROVE TypeOK'
  BY <1>5 DEF DeletePolicy
<1>6. ASSUME NEW scopes \in GrantBody, NEW roles \in SUBSET RoleId, PatchGrants(scopes, roles)
      PROVE  TypeOK'
  <2>1. PICK status \in StatusWithin(agent.usage) :
            agent' = [agent EXCEPT !.scopes = scopes, !.roles = roles, !.status = status]
    BY <1>6 DEF PatchGrants
  <2>2. status \in Status
    BY DEF StatusWithin, TypeOK, Status
  <2>3. scopes \in SUBSET Scope
    BY BodyAssumption
  <2>4. UNCHANGED <<role, policy>>
    BY <1>6 DEF PatchGrants
  <2> QED BY <2>1, <2>2, <2>3, <2>4 DEF TypeOK
<1>7. ASSUME NEW status \in Status, SetStatus(status) PROVE TypeOK'
  BY <1>7 DEF SetStatus
<1>8. ASSUME NEW usage \in Usage, Spend(usage) PROVE TypeOK'
  BY <1>8 DEF Spend, StatusWithin, TypeOK, Status
<1>9. CASE UNCHANGED vars
  BY <1>9 DEF vars
<1> QED BY <1>1, <1>2, <1>3, <1>4, <1>5, <1>6, <1>7, <1>8, <1>9 DEF Next

\* The tables hold only what the validation of a body lets in, and the agent
\* only scopes and identifiers of roles.
THEOREM TypeCorrect == Spec => []TypeOK
<1>1. Init => TypeOK
  BY BodyAssumption DEF Init, TypeOK, Status, Usage
<1> QED BY <1>1, TypeStep, PTL DEF Spec

\* Roles: a step leaves the policies alone, and the other roles.
LEMMA RoleNamesStep ==
    ASSUME TypeOK, NamesStayUnique, NEW r \in RoleId,
           (\E body \in RoleBody : CreateRole(r, body) \/ UpdateRole(r, body)) \/ DeleteRole(r)
    PROVE  NamesStayUnique'
<1>1. \A p, q \in LivePolicies' :
          policy'[p].name = policy'[q].name /\ policy'[p].workspace = policy'[q].workspace
              => p = q
  BY DEF NamesStayUnique, LivePolicies, CreateRole, UpdateRole, DeleteRole
<1>2. CASE DeleteRole(r)
  <2>1. LiveRoles' \subseteq LiveRoles /\ \A x \in LiveRoles' : role'[x] = role[x]
    BY <1>2 DEF DeleteRole, LiveRoles, TypeOK
  <2> QED BY <1>1, <2>1 DEF NamesStayUnique
<1>3. ASSUME NEW body \in RoleBody, CreateRole(r, body) \/ UpdateRole(r, body)
      PROVE  \A x, y \in LiveRoles' : role'[x].name = role'[y].name => x = y
  <2>1. \A x \in LiveRoles' : x # r => x \in LiveRoles /\ role'[x] = role[x]
    BY <1>3 DEF CreateRole, UpdateRole, LiveRoles, TypeOK
  <2>2. role'[r] = body
    BY <1>3 DEF CreateRole, UpdateRole, TypeOK
  <2>3. \A x \in LiveRoles : x # r => role[x].name # body.name
    <3>1. CASE RoleNameFree(body.name, r)
      BY <3>1 DEF RoleNameFree
    <3>2. CASE r \in LiveRoles /\ body.name = role[r].name
      BY <3>2 DEF NamesStayUnique
    <3> QED BY <1>3, <3>1, <3>2 DEF CreateRole, UpdateRole
  <2> QED BY <2>1, <2>2, <2>3 DEF NamesStayUnique
<1> QED BY <1>1, <1>2, <1>3 DEF NamesStayUnique

LEMMA PolicyNamesStep ==
    ASSUME TypeOK, NamesStayUnique, NEW p \in PolicyId,
           \/ \E body \in PolicyBody : CreatePolicy(p, body) \/ UpdatePolicy(p, body)
           \/ DeletePolicy(p)
    PROVE  NamesStayUnique'
<1>1. \A x, y \in LiveRoles' : role'[x].name = role'[y].name => x = y
  BY DEF NamesStayUnique, LiveRoles, CreatePolicy, UpdatePolicy, DeletePolicy
<1>2. CASE DeletePolicy(p)
  <2>1. LivePolicies' \subseteq LivePolicies /\ \A x \in LivePolicies' : policy'[x] = policy[x]
    BY <1>2 DEF DeletePolicy, LivePolicies, TypeOK
  <2> QED BY <1>1, <2>1 DEF NamesStayUnique
<1>3. ASSUME NEW body \in PolicyBody, CreatePolicy(p, body) \/ UpdatePolicy(p, body)
      PROVE  \A x, y \in LivePolicies' :
                 policy'[x].name = policy'[y].name /\ policy'[x].workspace = policy'[y].workspace
                     => x = y
  <2>1. \A x \in LivePolicies' : x # p => x \in LivePolicies /\ policy'[x] = policy[x]
    BY <1>3 DEF CreatePolicy, UpdatePolicy, LivePolicies, TypeOK
  <2>2. policy'[p] = body
    BY <1>3 DEF CreatePolicy, UpdatePolicy, TypeOK
  <2>3. \A x \in LivePolicies : x # p =>
            ~(policy[x].name = body.name /\ policy[x].workspace = body.workspace)
    <3>1. CASE PolicyNameFree(body.name, body.workspace, p)
      BY <3>1 DEF PolicyNameFree
    <3>2. CASE /\ p \in LivePolicies /\ body.name = policy[p].name
               /\ body.workspace = policy[p].workspace
      BY <3>2 DEF NamesStayUnique
    <3> QED BY <1>3, <3>1, <3>2 DEF CreatePolicy, UpdatePolicy
  <2> QED BY <2>1, <2>2, <2>3 DEF NamesStayUnique
<1> QED BY <1>1, <1>2, <1>3 DEF NamesStayUnique

\* Names stay unique though no index enforces it: the lookup and the write
\* are one step, and a patch cannot carry a policy to a workspace where the
\* name is taken.
THEOREM NamesAreUnique == Spec => []NamesStayUnique
<1>1. Init => NamesStayUnique
  BY DEF Init, NamesStayUnique, LiveRoles, LivePolicies
<1>2. TypeOK /\ NamesStayUnique /\ [Next]_vars => NamesStayUnique'
  <2> SUFFICES ASSUME TypeOK, NamesStayUnique, [Next]_vars PROVE NamesStayUnique'
    OBVIOUS
  <2>1. ASSUME UNCHANGED <<role, policy>> PROVE NamesStayUnique'
    BY <2>1 DEF NamesStayUnique, LiveRoles, LivePolicies
  <2>2. CASE \E r \in RoleId :
                (\E body \in RoleBody : CreateRole(r, body) \/ UpdateRole(r, body)) \/ DeleteRole(r)
    BY <2>2, RoleNamesStep
  <2>3. CASE \E p \in PolicyId :
                \/ \E body \in PolicyBody : CreatePolicy(p, body) \/ UpdatePolicy(p, body)
                \/ DeletePolicy(p)
    BY <2>3, PolicyNamesStep
  <2>4. CASE \E r \in RoleId : AssignRole(r) \/ UnassignRole(r)
    BY <2>1, <2>4 DEF AssignRole, UnassignRole
  <2>5. CASE \/ \E scopes \in GrantBody, roles \in SUBSET RoleId : PatchGrants(scopes, roles)
             \/ \E status \in Status : SetStatus(status)
             \/ \E usage \in Usage : Spend(usage)
    BY <2>1, <2>5 DEF PatchGrants, SetStatus, Spend
  <2>6. CASE UNCHANGED vars
    BY <2>1, <2>6 DEF vars
  <2> QED BY <2>2, <2>3, <2>4, <2>5, <2>6 DEF Next
<1> QED BY <1>1, <1>2, TypeCorrect, PTL DEF Spec

-----------------------------------------------------------------------------
(* Decisions *)

LEMMA RelevantIsSound ==
    ASSUME TypeOK, NEW c
    PROVE  Sound(Relevant(Policies, c)) /\ Relevant(Policies, c) \subseteq Policies
<1>1. Sound(Policies)
  BY DEF Sound, Policies, LivePolicies, TypeOK, Policy
<1>2. Relevant(Policies, c) \subseteq Policies
  BY DEF Relevant, Applicable, InForce
<1> QED BY <1>1, <1>2 DEF Sound

LEMMA RelevantGrowsByOne ==
    ASSUME NEW ps, NEW a, NEW c
    PROVE  /\ Relevant(ps, c) \subseteq Relevant(ps \cup {a}, c)
           /\ Relevant(ps \cup {a}, c) \subseteq Relevant(ps, c) \cup {a}
BY DEF Relevant, Applicable, InForce

\* Whatever is let through is covered by a scope that is held or allowed:
\* what the decision about denied scopes leaves over lets nobody in.
THEOREM AccessIsGranted == Spec => []AllowedOnlyByGrant
<1>1. TypeOK => AllowedOnlyByGrant
  <2> SUFFICES ASSUME TypeOK, NEW q \in Request, NEW c \in Context, Allowed(q, c, Policies)
               PROVE  \E s \in Held \cup UNION {p.scopes : p \in
                              {a \in Relevant(Policies, c) : a.effect = "allow"}} :
                          ScopeMatches(q, s)
    BY DEF AllowedOnlyByGrant
  <2>1. Permits(q, Held, Relevant(Policies, c))
    BY DEF Allowed
  <2> QED BY <2>1, RelevantIsSound, PermitsOnlyByGrant
<1> QED BY <1>1, TypeCorrect, PTL

\* Nothing but an allowance of higher priority lets through what a denial
\* matches.
THEOREM DenialsBind == Spec => []DenyBinds
<1>1. TypeOK => DenyBinds
  <2> SUFFICES ASSUME TypeOK, NEW q \in Request, NEW c \in Context, Allowed(q, c, Policies),
                      NEW d \in {p \in Relevant(Policies, c) :
                                    \E t \in p.scopes : ScopeMatches(q, t)},
                      d.effect = "deny"
               PROVE  \E a \in {p \in Relevant(Policies, c) :
                                    \E t \in p.scopes : ScopeMatches(q, t)} :
                          a.effect = "allow" /\ a.priority > d.priority
    BY DEF DenyBinds
  <2>1. Permits(q, Held, Relevant(Policies, c))
    BY DEF Allowed
  <2> QED BY <2>1, RelevantIsSound, PermitsAgainstDenial
<1> QED BY <1>1, TypeCorrect, PTL

\* One more allowance takes nothing from anybody, whatever it overlaps.
THEOREM AllowancesOnlyGive == Spec => []AllowOnlyGives
<1>1. AllowOnlyGives
  <2> SUFFICES ASSUME NEW body \in PolicyBody, body.effect = "allow",
                      NEW q \in Request, NEW c \in Context, Allowed(q, c, Policies)
               PROVE  Allowed(q, c, Policies \cup {body})
    BY DEF AllowOnlyGives
  <2>1. Permits(q, Held, Relevant(Policies, c))
    BY DEF Allowed
  <2>2. Permits(q, Held, Relevant(Policies \cup {body}, c))
    BY <2>1, RelevantGrowsByOne, PermitsIsMonotonic
  <2> QED BY <2>2 DEF Allowed
<1> QED BY <1>1, PTL

\* Only a denial that overlaps the scope, or matches the request, takes a
\* held scope from an active agent.
THEOREM GrantsHold == Spec => []GrantedUnlessDenied
<1>1. GrantedUnlessDenied
  <2> SUFFICES ASSUME NEW q \in Request, NEW c \in Context, NEW s \in Held,
                      agent.status = "active", agent.usage # "exceeded",
                      ScopeMatches(q, s), ~Allowed(q, c, Policies)
               PROVE  \E d \in Relevant(Policies, c) :
                          /\ d.effect = "deny"
                          /\ \E t \in d.scopes : ScopesOverlap(s, t) \/ ScopeMatches(q, t)
    BY DEF GrantedUnlessDenied
  <2>1. ~Permits(q, Held, Relevant(Policies, c))
    BY DEF Allowed
  <2> QED BY <2>1, HeldIsPermitted
<1> QED BY <1>1, PTL

-----------------------------------------------------------------------------
(* Inheritance *)

LEMMA EngineMatchIsReflexive ==
    ASSUME NEW s PROVE ScopeMatches(s, s)
BY DEF ScopeMatches, Admits, ActionCovers, SameOrAny, Wild

\* Denials add no scope, and what they leave overlaps none of them.
LEMMA DenialsLeave ==
    ASSUME NEW scopes, NEW ps, Sound(ps), NEW s \in ApplyDenyPolicies(scopes, ps)
    PROVE  /\ s \in scopes
           /\ \A d \in ps : d.effect = "deny" => \A t \in d.scopes : ~ScopesOverlap(s, t)
<1> DEFINE denials == {p \in ps : p.effect = "deny"}
<1> DEFINE met == {p \in denials : \E t \in p.scopes : ScopesOverlap(s, t)}
<1>1. CASE denials = {}
  BY <1>1 DEF ApplyDenyPolicies
<1>2. CASE denials # {}
  <2>1. s \in EffectiveScopes(scopes, denials)
    BY <1>2 DEF ApplyDenyPolicies
  <2>2. Decision(met) = "allow" \/ (Decision(met) = "none" /\ s \in scopes)
    BY <2>1 DEF EffectiveScopes, ResolveScopeDecision
  <2>3. Sound(met) /\ \A p \in met : p.effect = "deny"
    BY DEF Sound
  <2>4. met = {}
    <3> SUFFICES ASSUME met # {} PROVE FALSE
      OBVIOUS
    <3> HIDE DEF met
    <3>1. Decision(met) # "deny"
      BY <2>2
    <3>2. PICK a \in met : a.effect = "allow"
      BY <2>3, <3>1, AllowanceOnTop
    <3> QED BY <2>3, <3>2
  <2>5. s \in scopes
    BY <2>2, <2>4 DEF Decision
  <2> QED BY <2>4, <2>5
<1> QED BY <1>1, <1>2

Within(scopes, parents) == \A s \in scopes : \E p \in parents : ScopeMatches(s, p)

LEMMA WithinIsTransitive ==
    ASSUME NEW a \in SUBSET Scope, NEW b \in SUBSET Scope, NEW c \in SUBSET Scope,
           Within(a, b), Within(b, c)
    PROVE  Within(a, c)
<1> SUFFICES ASSUME NEW s \in a PROVE \E g \in c : ScopeMatches(s, g)
  BY DEF Within
<1>1. PICK p \in b : ScopeMatches(s, p)
  BY DEF Within
<1>2. PICK g \in c : ScopeMatches(p, g)
  BY DEF Within
<1>3. ScopeMatches(s, g)
  BY <1>1, <1>2, EngineMatchIsTransitive
<1> QED BY <1>3

\* The meeting of a parent and a child is within both.
LEMMA MeetingNarrows ==
    ASSUME NEW parent \in SUBSET Scope, NEW child \in SUBSET Scope
    PROVE  /\ IntersectScopes(parent, child) \in SUBSET Scope
           /\ Within(IntersectScopes(parent, child), parent)
           /\ Within(IntersectScopes(parent, child), child)
<1>1. IntersectScopes(parent, child) \in SUBSET Scope
  BY DEF IntersectScopes
<1>2. ASSUME NEW s \in IntersectScopes(parent, child)
      PROVE  (\E p \in parent : ScopeMatches(s, p)) /\ (\E c \in child : ScopeMatches(s, c))
  BY EngineMatchIsReflexive DEF IntersectScopes
<1> QED BY <1>1, <1>2 DEF Within

\* Each level of a chain is within the ones above, and free of denied scopes.
Narrows(chain, org, workspace, held, home, ps) ==
    /\ Within(chain.effective, org)
    /\ home # Nowhere => Within(chain.agent, workspace)
    /\ Within(chain.agent, org) /\ Within(chain.agent, held)
    /\ \A s \in chain.effective \cup chain.agent, d \in ps :
           d.effect = "deny" /\ d.workspace \in {Nowhere, home} =>
               \A t \in d.scopes : ~ScopesOverlap(s, t)

LEMMA ChainNarrows ==
    ASSUME NEW org \in SUBSET Scope, NEW workspace \in SUBSET Scope,
           NEW held \in SUBSET Scope, NEW home, NEW ps, Sound(ps)
    PROVE  Narrows(InheritanceChain(org, workspace, held, home, ps),
                   org, workspace, held, home, ps)
<1> DEFINE chain == InheritanceChain(org, workspace, held, home, ps)
<1> DEFINE orgPolicies == {p \in ps : p.workspace = Nowhere}
<1> DEFINE allPolicies == orgPolicies \cup {p \in ps : p.workspace = home}
<1> DEFINE boundary == IF home = Nowhere THEN org ELSE IntersectScopes(org, workspace)
<1> DEFINE meeting == IntersectScopes(boundary, held)
<1>1. /\ chain.agent = ApplyDenyPolicies(meeting, allPolicies)
      /\ chain.org = ApplyDenyPolicies(org, orgPolicies)
      /\ chain.workspace = (IF home = Nowhere THEN {}
                            ELSE ApplyDenyPolicies(boundary, allPolicies))
      /\ chain.effective = ApplyDenyPolicies(chain.org \cup chain.workspace \cup chain.agent,
                                             allPolicies)
  BY DEF InheritanceChain
<1> HIDE DEF chain
<1>2. Sound(orgPolicies) /\ Sound(allPolicies)
  BY DEF Sound
<1>3. \A d \in ps : d.workspace \in {Nowhere, home} => d \in allPolicies
  OBVIOUS
<1>4. boundary \in SUBSET Scope /\ Within(boundary, org)
  BY MeetingNarrows, EngineMatchIsReflexive DEF Within
<1>5. home # Nowhere => Within(boundary, workspace)
  BY MeetingNarrows
<1> HIDE DEF boundary, orgPolicies, allPolicies
<1>6. meeting \in SUBSET Scope /\ Within(meeting, boundary) /\ Within(meeting, held)
  BY <1>4, MeetingNarrows
<1> HIDE DEF meeting
<1>7. Within(meeting, org) /\ (home # Nowhere => Within(meeting, workspace))
  BY <1>4, <1>5, <1>6, WithinIsTransitive
<1>8. \A s \in chain.agent : /\ s \in meeting
                             /\ \A d \in allPolicies : d.effect = "deny" =>
                                    \A t \in d.scopes : ~ScopesOverlap(s, t)
  BY <1>1, <1>2, DenialsLeave
<1>9. \A s \in chain.effective : /\ s \in chain.org \cup chain.workspace \cup chain.agent
                                 /\ \A d \in allPolicies : d.effect = "deny" =>
                                        \A t \in d.scopes : ~ScopesOverlap(s, t)
  BY <1>1, <1>2, DenialsLeave
<1>10. Within(chain.org, org)
  BY <1>1, <1>2, DenialsLeave, EngineMatchIsReflexive DEF Within
<1>11. Within(chain.workspace, org)
  <2>1. CASE home = Nowhere
    BY <1>1, <2>1 DEF Within
  <2>2. CASE home # Nowhere
    BY <1>1, <1>2, <1>4, <2>2, DenialsLeave DEF Within
  <2> QED BY <2>1, <2>2
<1>12. /\ Within(chain.agent, org) /\ Within(chain.agent, held)
       /\ home # Nowhere => Within(chain.agent, workspace)
  BY <1>6, <1>7, <1>8 DEF Within
<1>13. Within(chain.effective, org)
  BY <1>9, <1>10, <1>11, <1>12 DEF Within
<1>14. Narrows(chain, org, workspace, held, home, ps)
  BY <1>3, <1>8, <1>9, <1>12, <1>13 DEF Narrows
<1> QED BY <1>14 DEF chain

\* Along organisation, workspace and agent scopes only narrow, and what is
\* denied anywhere above is gone: for any rows, roles and policies.
THEOREM ScopesNarrow == Spec => []InheritanceNarrows
<1>1. TypeOK => InheritanceNarrows
  <2> SUFFICES ASSUME TypeOK PROVE InheritanceNarrows
    OBVIOUS
  <2> DEFINE org == OrgScopes \cup RoleScopes(OrgRoles)
  <2> DEFINE workspace == WorkspaceScopes \cup RoleScopes(WorkspaceRoles)
  <2> DEFINE none == [org |-> {}, workspace |-> {}, agent |-> {}, effective |-> {}]
  <2>1. \A roles : RoleScopes(roles) \in SUBSET Scope
    <3> SUFFICES ASSUME NEW roles, NEW r \in roles \cap LiveRoles
                 PROVE  role[r].scopes \in SUBSET Scope
      BY DEF RoleScopes
    <3>1. role[r] \in Role
      BY DEF LiveRoles, TypeOK
    <3> QED BY <3>1 DEF Role
  <2>2. agent.scopes \in SUBSET Scope
    BY DEF TypeOK
  <2>3. org \in SUBSET Scope /\ workspace \in SUBSET Scope /\ Held \in SUBSET Scope
    BY <2>1, <2>2, BodyAssumption DEF Held
  <2> SUFFICES ASSUME NEW c \in Context
               PROVE  LET here == [c EXCEPT !["ip"] = Absent, !["workspace"] = Absent]
                          chain == Inherited(c)
                          denials == {p \in Relevant(Policies, here) :
                                        p.effect = "deny" /\ p.workspace \in {Nowhere, Home}}
                      IN  /\ Within(chain.effective, org)
                          /\ Home # Nowhere => Within(chain.agent, workspace)
                          /\ Within(chain.agent, org) /\ Within(chain.agent, Held)
                          /\ \A s \in chain.effective \cup chain.agent, d \in denials :
                                 \A t \in d.scopes : ~ScopesOverlap(s, t)
    BY DEF InheritanceNarrows, Within
  <2> DEFINE here == [c EXCEPT !["ip"] = Absent, !["workspace"] = Absent]
  <2>4. Sound(Relevant(Policies, here))
    BY RelevantIsSound
  <2>5. Inherited(c) = IF agent.status # "active" THEN none
                       ELSE InheritanceChain(org, workspace, Held, Home, Relevant(Policies, here))
    BY DEF Inherited
  <2> HIDE DEF org, workspace, here
  <2>6. CASE agent.status # "active"
    BY <2>5, <2>6 DEF Within
  <2>7. CASE agent.status = "active"
    <3>1. Inherited(c) = InheritanceChain(org, workspace, Held, Home, Relevant(Policies, here))
      BY <2>5, <2>7
    <3>2. Narrows(Inherited(c), org, workspace, Held, Home, Relevant(Policies, here))
      BY <2>3, <2>4, <3>1, ChainNarrows
    <3> QED BY <3>2 DEF here, Narrows
  <2> QED BY <2>6, <2>7
<1> QED BY <1>1, TypeCorrect, PTL
=============================================================================
