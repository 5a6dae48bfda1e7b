------------------------------- MODULE Scopes -------------------------------
(***************************************************************************)
(* Scopes and their matching.  A scope plane:resource:action:path names    *)
(* what may be done; a granted scope covers the requests it matches.  Two  *)
(* matchers are in use: the one of the SDK (packages/core), which guards   *)
(* the routes, narrows delegated tokens and runs in verifiers, and the one *)
(* of the policy engine.  They differ in one point, whether a trailing     *)
(* wildcard of a path counts outside the file system plane.                *)
(*                                                                         *)
(* A path is a sequence of segments: "exact" is /a/b, "dir" is /a/b/ (the  *)
(* root / among them), "below" is /a/b/* and "any" is the bare *.          *)
(***************************************************************************)
EXTENDS Naturals, Sequences

CONSTANTS
    Plane,      \* the planes of the suite, without the wildcard
    Resource,   \* resources, without the wildcard
    Action,     \* actions, without manage and the wildcard
    Segment     \* segments of paths

Wild == "*"
Manage == "manage"
FilePlane == "relayfile"
FileResource == "fs"

\* What manage on a resource stands for.
ManageImplies == {"read", "write", "create", "delete"}

AnyPath == [kind |-> "any", at |-> <<>>]
Exact(s) == [kind |-> "exact", at |-> s]
Below(s) == [kind |-> "below", at |-> s]

Path == {AnyPath} \cup [kind : {"dir", "below"}, at : Seq(Segment)]
                  \cup [kind : {"exact"}, at : Seq(Segment) \ {<<>>}]

\* A scope that parseScope accepts.
Scope == [plane : Plane \cup {Wild}, resource : Resource \cup {Wild},
          action : Action \cup {Manage, Wild}, path : Path]

IsFile(s) == s.plane = FilePlane /\ s.resource = FileResource

\* The path s is t or begins t.
Begins(s, t) ==
    /\ DOMAIN s \subseteq DOMAIN t
    /\ \A i \in DOMAIN s : t[i] = s[i]

ActionCovers(granted, requested) ==
    \/ granted \in {Wild, requested}
    \/ granted = Manage /\ requested \in ManageImplies

\* The text of the requested path starts with the text of the granted one up
\* to its wildcard: /a/* is the start of /a/, of /a/b and of /a/*, not of /a;
\* /* is the start of /.
StartsWith(requested, granted) ==
    /\ granted.kind = "below" /\ requested.kind # "any"
    /\ Begins(granted.at, requested.at)
    /\ requested.kind = "exact" => DOMAIN granted.at # DOMAIN requested.at

SameOrAny(requested, granted) == granted \in {AnyPath, requested}

\* Plane, resource and action of a granted scope admit those of a request.
Admits(granted, requested) ==
    /\ granted.plane \in {Wild, requested.plane}
    /\ granted.resource \in {Wild, requested.resource}
    /\ ActionCovers(granted.action, requested.action)

\* The matcher of the SDK: a trailing wildcard counts on files alone.
MatchScope(requested, granted) ==
    /\ Admits(granted, requested)
    /\ \/ SameOrAny(requested.path, granted.path)
       \/ IsFile(requested) /\ StartsWith(requested.path, granted.path)

\* The matcher of the policy engine: a trailing wildcard counts everywhere.
ScopeMatches(requested, granted) ==
    /\ Admits(granted, requested)
    /\ \/ SameOrAny(requested.path, granted.path)
       \/ StartsWith(requested.path, granted.path)

\* Two scopes meet, as far as the engine looks: one matches the other.
ScopesOverlap(s, t) == ScopeMatches(s, t) \/ ScopeMatches(t, s)

\* What a bearer's scopes let through, and what may be delegated from them.
MatchesAny(requested, granted) == \E g \in granted : MatchScope(requested, g)
IsSubsetOf(scopes, parents) == \A s \in scopes : MatchesAny(s, parents)
=============================================================================
