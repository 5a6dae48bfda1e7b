--------------------------- MODULE TokenLifecycle ---------------------------
(***************************************************************************)
(* Issuance, single-use refresh, revocation and checking of tokens         *)
(* (packages/server/src/routes/tokens.ts, lib/auth.ts, and the token and   *)
(* revocation stores of storage/sqlite.ts).                                *)
(*                                                                         *)
(* An HTTP request is a process.  One action is what its handler does with *)
(* one call of the storage interface; a storage transaction is one action. *)
(* The handler may lose the processor between two actions.  How often it   *)
(* does is the constant TurnBased:                                         *)
(*   TRUE   the shipped build: one Node process over synchronous SQLite.   *)
(*          Awaiting a storage call does not yield to another request;     *)
(*          a request yields where it reads a body or signs a token.       *)
(*   FALSE  what the asynchronous AuthStorage interface allows any         *)
(*          adapter: every await yields.                                   *)
(***************************************************************************)
EXTENDS Integers, FiniteSets

CONSTANTS
    Pair,            \* token pairs: one per issuance and one per rotation
    Session,         \* values of the `sid` claim
    Subject,         \* values of the `sub` claim
    StoredSubject,   \* the subjects that have a row in `identities`
    WorkspaceToken,  \* ids of workspace tokens (rows of `api_keys`)
    Request,         \* HTTP requests that may be in flight at once
    Class,           \* the token classes this instance issues
    Offered,         \* the operations this instance's clients call
    Horizon,         \* delegationNotAfter values a caller may ask for
    AccessTTL, DurableTTL, RefreshTTL,   \* lifetimes, in ticks
    Skew,            \* clock skew the verifier tolerates
    Grace,           \* how long token GC waits after expiry
    MaxTime,         \* bound on the clock
    Forever,         \* MAX_REVOCATION_EXPIRY, beyond every time reached
    TurnBased,
    NoPair, NoWorkspace, NoRequest, NoToken, NoClaims

ASSUME TimesAssumption ==
    /\ {AccessTTL, DurableTTL, RefreshTTL} \subseteq Nat \ {0}
    /\ {Skew, Grace, MaxTime, Forever} \subseteq Nat
    /\ Skew <= Grace
    /\ Horizon \subseteq Nat
    /\ MaxTime < Forever

ASSUME NamesAssumption ==
    /\ NoPair \notin Pair
    /\ NoWorkspace \notin WorkspaceToken
    /\ NoRequest \notin Request
    /\ StoredSubject \subseteq Subject
    /\ Class \subseteq {"plain", "agent", "durable", "path"}
    /\ Offered \subseteq {"issue", "refresh", "revoke",
                          "bearer", "introspect", "public"}
    /\ TurnBased \in BOOLEAN

Token == Pair \X {"access", "refresh"}

ASSUME NoTokenAssumption == NoToken \notin Token

(* What a signed pair says of itself.  `prev` is the pair whose refresh    *)
(* token it was exchanged for; a horizon of Forever means there is none.   *)
Claims == [sid : Session, sub : Subject, class : Class,
           ws : WorkspaceToken \cup {NoWorkspace}, horizon : Nat,
           prev : Pair \cup {NoPair}, aexp : Nat, rexp : Nat]

ASSUME NoClaimsAssumption == NoClaims \notin Claims

VARIABLES
    now,       \* Unix seconds, in ticks
    claims,    \* claims[p]: the claims of pair p, NoClaims before its issuance
    row,       \* row[t]: status of t in the `tokens` table
    denied,    \* denied[t]: expires_at of t in `revoked_tokens`, 0 if absent
    parent,    \* parent[w]: the workspace token w
    pc,        \* pc[r]: the step request r is about to take
    arg,       \* arg[r]: the token r was called with
    draft,     \* draft[r]: the claims r is signing
    targets,   \* targets[r]: the tokens r is about to revoke
    closing,   \* closing[r]: the sessions r undertook to revoke
    loop,      \* the request that holds the event loop
    answer,    \* the response the last step sent
    acked,     \* tokens whose revocation was answered with success
    killed,    \* sessions revoked as a whole, by reuse or by request
    late       \* late[r]: r arrived after its token had been revoked

store == <<claims, row, denied, parent>>
ghost == <<acked, killed>>
local == <<pc, arg, draft, targets, closing, late>>
vars  == <<now, store, local, loop, answer, ghost>>

Issued    == {p \in Pair : claims[p] # NoClaims}
\* A durable token is issued alone: its pair has no refresh token.
IsIssued(t) ==
    /\ t[1] \in Issued
    /\ t[2] = "refresh" => claims[t[1]].class # "durable"
ClaimsOf(t) == claims[t[1]]
Exp(t)    == IF t[2] = "access" THEN ClaimsOf(t).aexp ELSE ClaimsOf(t).rexp
PeerSet(s) == {t \in Token : IsIssued(t) /\ ClaimsOf(t).sid = s}
ActiveIn(S) == {t \in S : row[t] = "active"}

\* The exp check of the verifier: rejected once exp <= now - skew.
Unexpired(t) == now < Exp(t) + Skew

\* DELETE FROM revoked_tokens WHERE expires_at <= now, before every use.
Prune == [t \in Token |-> IF denied[t] <= now THEN 0 ELSE denied[t]]

\* isRevoked: a row that has not expired.
IsRevoked(t) == denied[t] > now

\* routes/tokens.ts isWorkspaceTokenRevoked: a path token outlives a parent
\* whose row is gone, every other derived token does not.
ParentRevoked(c) ==
    /\ c.ws # NoWorkspace
    /\ \/ parent[c.ws] = "revoked"
       \/ parent[c.ws] = "gone" /\ c.class # "path"

\* Mutant: only a missing parent stops a derived token.
LineageRevoked_RowOnly(c) == c.ws # NoWorkspace /\ parent[c.ws] = "gone"

\* lib/auth.ts isWorkspaceLineageRevoked: no exception for path tokens.
LineageRevoked(c) == c.ws # NoWorkspace /\ parent[c.ws] # "active"

\* Ghost: an explicit revocation of t was answered before this moment.
RevokedBefore(t) ==
    \/ t \in acked
    \/ ClaimsOf(t).ws # NoWorkspace /\ parent[ClaimsOf(t).ws] = "revoked"

-----------------------------------------------------------------------------
(***************************************************************************)
(* Requests and the event loop.                                            *)
(***************************************************************************)

RefreshSteps == {"denylist", "row", "resolve", "rotate", "list", "apply"}
RevokeSteps  == {"revoke"}
CheckSteps   == {"bearer", "lineage", "introspect", "stored", "public"}
Steps == {"idle", "persist"} \cup RefreshSteps \cup RevokeSteps \cup CheckSteps

Verdict == {"none", "issued", "rotated", "reused", "refused", "revoked",
            "active", "error"}

Silent == answer' = [to |-> NoRequest, says |-> "none"]

(* r may run: nobody else is in the middle of a turn. *)
Turn(r) == loop \in {NoRequest, r}

(* r goes on to step s without, or after, giving up the event loop. *)
Goto(r, s, keeps) ==
    /\ pc' = [pc EXCEPT ![r] = s]
    /\ loop' = IF keeps /\ TurnBased THEN r ELSE NoRequest
    /\ Silent

(* r sends its response and is forgotten. *)
Respond(r, v) ==
    /\ pc' = [pc EXCEPT ![r] = "idle"]
    /\ arg' = [arg EXCEPT ![r] = NoToken]
    /\ draft' = [draft EXCEPT ![r] = NoClaims]
    /\ targets' = [targets EXCEPT ![r] = {}]
    /\ closing' = [closing EXCEPT ![r] = {}]
    /\ late' = [late EXCEPT ![r] = FALSE]
    /\ loop' = NoRequest
    /\ answer' = [to |-> r, says |-> v]

(* A request that presents token t arrives and its signature and expiry    *)
(* have been verified; it continues with step s.                           *)
Present(r, t, s) ==
    /\ pc[r] = "idle" /\ Turn(r)
    /\ IsIssued(t) /\ Unexpired(t)
    /\ Goto(r, s, TRUE)
    /\ arg' = [arg EXCEPT ![r] = t]
    /\ late' = [late EXCEPT ![r] = RevokedBefore(t)]
    /\ UNCHANGED <<now, store, draft, targets, closing, ghost>>

Init ==
    /\ now = 0
    /\ claims = [p \in Pair |-> NoClaims]
    /\ row = [t \in Token |-> "absent"]
    /\ denied = [t \in Token |-> 0]
    /\ parent = [w \in WorkspaceToken |-> "none"]
    /\ pc = [r \in Request |-> "idle"]
    /\ arg = [r \in Request |-> NoToken]
    /\ draft = [r \in Request |-> NoClaims]
    /\ targets = [r \in Request |-> {}]
    /\ closing = [r \in Request |-> {}]
    /\ late = [r \in Request |-> FALSE]
    /\ loop = NoRequest
    /\ answer = [to |-> NoRequest, says |-> "none"]
    /\ acked = {}
    /\ killed = {}

-----------------------------------------------------------------------------
(***************************************************************************)
(* Issuance.                                                               *)
(***************************************************************************)

Earlier(a, b) == IF a <= b THEN a ELSE b

(* Mutant of NewClaims: the refresh token is not capped by the horizon. *)
NewClaims_RefreshUncapped(s, i, c, w, h, p) ==
    [sid |-> s, sub |-> i, class |-> c, ws |-> w, horizon |-> h, prev |-> p,
     aexp |-> Earlier(now + (IF c = "durable" THEN DurableTTL ELSE AccessTTL), h),
     rexp |-> now + RefreshTTL]

(* The claims of a pair made now: the lifetimes, capped by the horizon. *)
NewClaims(s, i, c, w, h, p) ==
    [sid |-> s, sub |-> i, class |-> c, ws |-> w, horizon |-> h, prev |-> p,
     aexp |-> Earlier(now + (IF c = "durable" THEN DurableTTL ELSE AccessTTL), h),
     rexp |-> Earlier(now + RefreshTTL, h)]

(* POST /v1/tokens: a login of a stored identity. *)
MayLogin(i, c, w, h) ==
    c = "plain" /\ i \in StoredSubject /\ w = NoWorkspace /\ h = Forever

(* POST /v1/tokens/agent, on the authority of a workspace token that is    *)
(* not revoked; a durable token is one the client never refreshes.         *)
MayIssueAgent(i, c, w, h) ==
    /\ c \in {"agent", "durable"} /\ h = Forever
    /\ w \in WorkspaceToken /\ parent[w] = "active"
    /\ i \in StoredSubject

(* POST /v1/tokens/path: the subject is synthesised from the request. *)
MayIssuePath(i, c, w, h) ==
    /\ c = "path" /\ h > now
    /\ w \in WorkspaceToken /\ parent[w] = "active"

(* POST /v1/tokens/workspace-path: on the authority of an org API key. *)
MayIssueWorkspacePath(i, c, w, h) ==
    c = "path" /\ h > now /\ w = NoWorkspace

SessionsInUse ==
    {claims[p].sid : p \in Issued}
        \cup {draft[r].sid : r \in {q \in Request : draft[q] # NoClaims}}

(* The issuing handlers and issueTokenPair, up to the signature. *)
PrepareIssue(r) ==
    /\ "issue" \in Offered
    /\ pc[r] = "idle" /\ Turn(r)
    /\ \E s \in Session \ SessionsInUse, i \in Subject, c \in Class,
          w \in WorkspaceToken \cup {NoWorkspace}, h \in Horizon \cup {Forever} :
        /\ \/ MayLogin(i, c, w, h)
           \/ MayIssueAgent(i, c, w, h)
           \/ MayIssuePath(i, c, w, h)
           \/ MayIssueWorkspacePath(i, c, w, h)
        /\ draft' = [draft EXCEPT ![r] = NewClaims(s, i, c, w, h, NoPair)]
    /\ Goto(r, "persist", FALSE)
    /\ UNCHANGED <<now, store, arg, targets, closing, late, ghost>>

(* Rows a pair with claims c gets: a durable token has no refresh token. *)
InsertRows(p, c) ==
    [t \in Token |->
        IF t = <<p, "access">> \/ (t = <<p, "refresh">> /\ c.class # "durable")
        THEN "active" ELSE row[t]]

(* persistIssuedPairWithAudit, persistIssuedWithAudit *)
PersistIssue(r) ==
    /\ pc[r] = "persist" /\ Turn(r)
    /\ \E p \in Pair \ Issued :
        /\ claims' = [claims EXCEPT ![p] = draft[r]]
        /\ row' = InsertRows(p, draft[r])
    /\ Respond(r, "issued")
    /\ UNCHANGED <<now, denied, parent, ghost>>

-----------------------------------------------------------------------------
(***************************************************************************)
(* POST /v1/tokens/refresh.                                                *)
(***************************************************************************)

(* verifyToken and the token type and class checks. *)
BeginRefresh(r) ==
    /\ "refresh" \in Offered
    /\ \E p \in Issued :
        /\ claims[p].class # "durable"
        /\ Present(r, <<p, "refresh">>, "denylist")

(* Reuse detection.  The cascade needs the identity's stored row. *)
CheckDenylist(r) ==
    /\ pc[r] = "denylist" /\ Turn(r)
    /\ denied' = Prune
    /\ \/ /\ ~IsRevoked(arg[r])
          /\ Goto(r, "row", TRUE)
          /\ UNCHANGED <<arg, draft, targets, closing, late>>
       \/ /\ IsRevoked(arg[r])
          /\ ClaimsOf(arg[r]).sub \in StoredSubject
          /\ Goto(r, "list", TRUE)
          /\ UNCHANGED <<arg, draft, targets, closing, late>>
       \/ /\ IsRevoked(arg[r])
          /\ ClaimsOf(arg[r]).sub \notin StoredSubject
          /\ Respond(r, "reused")
    /\ UNCHANGED <<now, claims, row, parent, ghost>>

(* The stored row must exist and be active. *)
CheckRow(r) ==
    /\ pc[r] = "row" /\ Turn(r)
    /\ \/ /\ row[arg[r]] = "active"
          /\ Goto(r, "resolve", TRUE)
          /\ UNCHANGED <<arg, draft, targets, closing, late>>
       \/ /\ row[arg[r]] # "active"
          /\ Respond(r, "refused")
    /\ UNCHANGED <<now, store, ghost>>

(* Workspace lineage, delegation horizon, then the claims of the next pair *)
(* are fixed and signing gives up the event loop.                          *)
ResolveRefresh(r) ==
    LET c == ClaimsOf(arg[r]) IN
    /\ pc[r] = "resolve" /\ Turn(r)
    /\ \/ /\ ParentRevoked(c) \/ now >= c.horizon
          /\ Respond(r, "refused")
       \/ /\ ~ParentRevoked(c) /\ now < c.horizon
          /\ draft' = [draft EXCEPT ![r] =
                NewClaims(c.sid, c.sub, c.class, c.ws, c.horizon, arg[r][1])]
          /\ Goto(r, "rotate", FALSE)
          /\ UNCHANGED <<arg, targets, closing, late>>
    /\ UNCHANGED <<now, store, ghost>>

(* Mutant of Rotate: no compare-and-set on the presented token's row. *)
Rotate_Unconditional(r) ==
    /\ pc[r] = "rotate" /\ Turn(r)
    /\ \E p \in Pair \ Issued :
        /\ claims' = [claims EXCEPT ![p] = draft[r]]
        /\ row' = [InsertRows(p, draft[r]) EXCEPT ![arg[r]] = "revoked"]
    /\ denied' = [denied EXCEPT ![arg[r]] = Exp(arg[r])]
    /\ Respond(r, "rotated")
    /\ UNCHANGED <<now, parent, ghost>>

(* Mutant of Rotate: the presented token is denylisted, its row not flipped. *)
Rotate_NoFlip(r) ==
    /\ pc[r] = "rotate" /\ Turn(r)
    /\ row[arg[r]] = "active"
    /\ \E p \in Pair \ Issued :
        /\ claims' = [claims EXCEPT ![p] = draft[r]]
        /\ row' = InsertRows(p, draft[r])
    /\ denied' = [denied EXCEPT ![arg[r]] = Exp(arg[r])]
    /\ Respond(r, "rotated")
    /\ UNCHANGED <<now, parent, ghost>>

(* Mutant of Rotate: the row is flipped, the token not denylisted. *)
Rotate_NoDenylist(r) ==
    /\ pc[r] = "rotate" /\ Turn(r)
    /\ row[arg[r]] = "active"
    /\ \E p \in Pair \ Issued :
        /\ claims' = [claims EXCEPT ![p] = draft[r]]
        /\ row' = [InsertRows(p, draft[r]) EXCEPT ![arg[r]] = "revoked"]
    /\ Respond(r, "rotated")
    /\ UNCHANGED <<now, denied, parent, ghost>>

(* rotateIssuedPairWithAudit: insert the pair, flip the presented token    *)
(* from active to revoked, denylist it until its own expiry; all or none.  *)
Rotate(r) ==
    /\ pc[r] = "rotate" /\ Turn(r)
    /\ row[arg[r]] = "active"
    /\ \E p \in Pair \ Issued :
        /\ claims' = [claims EXCEPT ![p] = draft[r]]
        /\ row' = [InsertRows(p, draft[r]) EXCEPT ![arg[r]] = "revoked"]
    /\ denied' = [denied EXCEPT ![arg[r]] = Exp(arg[r])]
    /\ Respond(r, "rotated")
    /\ UNCHANGED <<now, parent, ghost>>

(* Mutant of RotateConflict: the flip is tried again.                      *)
RotateConflict_Retries(r) ==
    /\ pc[r] = "rotate" /\ Turn(r)
    /\ row[arg[r]] # "active"
    /\ Goto(r, "rotate", TRUE)
    /\ UNCHANGED <<now, store, arg, draft, targets, closing, late, ghost>>

(* The flip changed no row: refresh_token_not_active, treated as reuse. *)
RotateConflict(r) ==
    /\ pc[r] = "rotate" /\ Turn(r)
    /\ row[arg[r]] # "active"
    /\ Goto(r, "list", TRUE)
    /\ UNCHANGED <<now, store, arg, draft, targets, closing, late, ghost>>

(* Mutant of CascadeList: only the presented token is revoked. *)
CascadeList_PresentedOnly(r) ==
    /\ pc[r] = "list" /\ Turn(r)
    /\ targets' = [targets EXCEPT ![r] = {arg[r]}]
    /\ closing' = [closing EXCEPT ![r] = {ClaimsOf(arg[r]).sid}]
    /\ Goto(r, "apply", TRUE)
    /\ UNCHANGED <<now, store, arg, draft, late, ghost>>

(* cascadeRevokeSession, the read: the session's active tokens. *)
CascadeList(r) ==
    LET s == ClaimsOf(arg[r]).sid IN
    /\ pc[r] = "list" /\ Turn(r)
    /\ targets' = [targets EXCEPT ![r] = ActiveIn(PeerSet(s)) \cup {arg[r]}]
    /\ closing' = [closing EXCEPT ![r] = {s}]
    /\ Goto(r, "apply", TRUE)
    /\ UNCHANGED <<now, store, arg, draft, late, ghost>>

-----------------------------------------------------------------------------
(***************************************************************************)
(* Revocation.                                                             *)
(***************************************************************************)

\* Mutants: a sentinel that is no time at all; the token's own expiry.
DenyForever_Sentinel(S) ==
    [t \in Token |-> IF t \in S THEN -1 ELSE Prune[t]]
DenyForever_OwnExpiry(S) ==
    [t \in Token |-> IF t \in S THEN Exp(t) ELSE Prune[t]]

\* INSERT ... ON CONFLICT DO UPDATE expires_at = MAX_REVOCATION_EXPIRY
DenyForever(S) ==
    [t \in Token |-> IF t \in S THEN Forever ELSE Prune[t]]

FlipRows(S) ==
    [t \in Token |-> IF t \in S /\ row[t] = "active" THEN "revoked" ELSE row[t]]

(* revokeIdentityTokensWithAudit, the write of the cascade. *)
CascadeApply(r) ==
    /\ pc[r] = "apply" /\ Turn(r)
    /\ denied' = DenyForever(targets[r])
    /\ row' = FlipRows(targets[r])
    /\ killed' = killed \cup closing[r]
    /\ Respond(r, "reused")
    /\ UNCHANGED <<now, claims, parent, acked>>

OwnedBy(i) == {t \in Token : IsIssued(t) /\ ClaimsOf(t).sub = i}
SessionsOf(S) == {ClaimsOf(t).sid : t \in S}

(* r found the tokens S to revoke; with them end the sessions C. *)
Aim(r, S, C) ==
    /\ S # {}
    /\ targets' = [targets EXCEPT ![r] = S]
    /\ closing' = [closing EXCEPT ![r] = C]

(* POST /v1/tokens/revoke up to the write.  A caller names one token, in   *)
(* whatever state; a session; an identity; or a workspace and agent name.  *)
(* The first three are answered 404 when the owner has no identity row;    *)
(* the last one synthesises the owner.                                     *)
BeginRevoke(r) ==
    /\ "revoke" \in Offered
    /\ pc[r] = "idle" /\ Turn(r)
    /\ \/ \E t \in Token : /\ row[t] # "absent"
                           /\ ClaimsOf(t).sub \in StoredSubject
                           /\ Aim(r, {t}, {})
       \/ \E s \in Session : LET S == ActiveIn(PeerSet(s)) IN
                           /\ \A t \in S : ClaimsOf(t).sub \in StoredSubject
                           /\ Aim(r, S, {s})
       \/ \E i \in Subject : LET S == ActiveIn(OwnedBy(i)) IN
                           Aim(r, S, SessionsOf(S))
    /\ Goto(r, "revoke", TRUE)
    /\ UNCHANGED <<now, store, arg, draft, late, ghost>>

(* revokeIdentityTokenGroupsWithAudit, then 204. *)
ApplyRevoke(r) ==
    /\ pc[r] = "revoke" /\ Turn(r)
    /\ denied' = DenyForever(targets[r])
    /\ row' = FlipRows(targets[r])
    /\ acked' = acked \cup targets[r]
    /\ killed' = killed \cup closing[r]
    /\ Respond(r, "revoked")
    /\ UNCHANGED <<now, claims, parent>>

-----------------------------------------------------------------------------
(***************************************************************************)
(* Workspace tokens.                                                       *)
(***************************************************************************)

MoveParent(w, from, to) ==
    /\ loop = NoRequest
    /\ parent[w] = from
    /\ parent' = [parent EXCEPT ![w] = to]
    /\ Silent
    /\ UNCHANGED <<now, claims, row, denied, local, loop, ghost>>

(* POST /v1/tokens/workspace *)
CreateWorkspaceToken(w) == MoveParent(w, "none", "active")

(* POST /v1/api-keys/:id/revoke: the row stays, with revokedAt. *)
RevokeWorkspaceToken(w) == MoveParent(w, "active", "revoked")

(* The row of an unrevoked token disappears.  Nothing under src/ deletes   *)
(* one; the handlers that read it allow for its absence, and count on a    *)
(* revoked row being kept.                                                 *)
LoseWorkspaceToken(w) == MoveParent(w, "active", "gone")

-----------------------------------------------------------------------------
(***************************************************************************)
(* Checks of a token: bearer authentication, GET /introspect and the       *)
(* public GET /revocation.                                                 *)
(***************************************************************************)

BeginCheck(r) ==
    \E t \in Token, s \in {"bearer", "introspect", "public"} \cap Offered :
        Present(r, t, s)

(* The denylist is read first: a denylisted token gets verdict v at once,  *)
(* any other one goes on to the next step, or is found active.             *)
ReadDenylist(r, next) ==
    /\ denied' = Prune
    /\ \/ /\ IsRevoked(arg[r])
          /\ Respond(r, "refused")
       \/ /\ ~IsRevoked(arg[r])
          /\ next
    /\ UNCHANGED <<now, claims, row, parent, ghost>>

(* isBearerTokenInactive *)
CheckBearer(r) ==
    /\ pc[r] = "bearer" /\ Turn(r)
    /\ ReadDenylist(r, /\ Goto(r, "lineage", TRUE)
                      /\ UNCHANGED <<arg, draft, targets, closing, late>>)

(* isWorkspaceLineageRevoked *)
CheckLineage(r) ==
    /\ pc[r] = "lineage" /\ Turn(r)
    /\ Respond(r, IF LineageRevoked(ClaimsOf(arg[r])) THEN "refused" ELSE "active")
    /\ UNCHANGED <<now, store, ghost>>

(* GET /v1/tokens/introspect: denylist, then workspace token and row. *)
Introspect(r) ==
    /\ pc[r] = "introspect" /\ Turn(r)
    /\ ReadDenylist(r, /\ Goto(r, "stored", TRUE)
                      /\ UNCHANGED <<arg, draft, targets, closing, late>>)

IntrospectRow(r) ==
    /\ pc[r] = "stored" /\ Turn(r)
    /\ Respond(r, IF ParentRevoked(ClaimsOf(arg[r])) \/ row[arg[r]] # "active"
                  THEN "refused" ELSE "active")
    /\ UNCHANGED <<now, store, ghost>>

(* GET /v1/tokens/revocation answers from the denylist alone. *)
PublicCheck(r) ==
    /\ pc[r] = "public" /\ Turn(r)
    /\ ReadDenylist(r, Respond(r, "active"))

-----------------------------------------------------------------------------
(***************************************************************************)
(* Time, garbage collection, failures.                                     *)
(***************************************************************************)

Tick ==
    /\ now < MaxTime
    /\ now' = now + 1
    /\ Silent
    /\ UNCHANGED <<store, local, loop, ghost>>

(* engine/retention-gc.ts deletes a row some time after its expiry. *)
CollectRow(t) ==
    /\ loop = NoRequest
    /\ row[t] # "absent"
    /\ Exp(t) + Grace < now
    /\ row' = [row EXCEPT ![t] = "absent"]
    /\ Silent
    /\ UNCHANGED <<now, claims, denied, parent, local, loop, ghost>>

(* A storage call or the signature fails: the transaction is rolled back   *)
(* and the error handler answers.                                          *)
Fail(r) ==
    /\ pc[r] # "idle" /\ Turn(r)
    /\ Respond(r, "error")
    /\ UNCHANGED <<now, store, ghost>>

(* The process stops and starts again: every request in flight is lost,    *)
(* what was committed is not.                                              *)
Restart ==
    /\ \E r \in Request : pc[r] # "idle"
    /\ pc' = [r \in Request |-> "idle"]
    /\ arg' = [r \in Request |-> NoToken]
    /\ draft' = [r \in Request |-> NoClaims]
    /\ targets' = [r \in Request |-> {}]
    /\ closing' = [r \in Request |-> {}]
    /\ late' = [r \in Request |-> FALSE]
    /\ loop' = NoRequest
    /\ Silent
    /\ UNCHANGED <<now, store, ghost>>

(* What the event loop does for a request it has accepted. *)
Serve(r) ==
    \/ PersistIssue(r)
    \/ CheckDenylist(r) \/ CheckRow(r) \/ ResolveRefresh(r)
    \/ Rotate(r) \/ RotateConflict(r) \/ CascadeList(r) \/ CascadeApply(r)
    \/ ApplyRevoke(r)
    \/ CheckBearer(r) \/ CheckLineage(r)
    \/ Introspect(r) \/ IntrospectRow(r) \/ PublicCheck(r)

Arrive(r) == PrepareIssue(r) \/ BeginRefresh(r) \/ BeginRevoke(r) \/ BeginCheck(r)

Undisturbed ==
    \/ \E r \in Request : Arrive(r) \/ Serve(r)
    \/ \E w \in WorkspaceToken :
            CreateWorkspaceToken(w) \/ RevokeWorkspaceToken(w) \/ LoseWorkspaceToken(w)
    \/ \E t \in Token : CollectRow(t)
    \/ Tick

Next == Undisturbed \/ (\E r \in Request : Fail(r)) \/ Restart

Spec == Init /\ [][Next]_vars

(* Without failures, every request the server accepted is served.  Strong  *)
(* fairness: a request waits for the event loop, which others take and     *)
(* give back; the loop runs its callbacks in the order they became ready.  *)
(* A signed pair for which this instance has no pair left ends in Fail.    *)
ServeFairly(r) ==
    \/ Serve(r)
    \/ /\ Issued = Pair
       /\ pc[r] = "persist" \/ (pc[r] = "rotate" /\ row[arg[r]] = "active")
       /\ Fail(r)

FairSpec ==
    /\ Init
    /\ [][Undisturbed \/ \E r \in Request : ServeFairly(r)]_vars
    /\ \A r \in Request : SF_vars(ServeFairly(r))

-----------------------------------------------------------------------------
(***************************************************************************)
(* Properties.                                                             *)
(***************************************************************************)

TypeOK ==
    /\ now \in 0..MaxTime
    /\ claims \in [Pair -> Claims \cup {NoClaims}]
    /\ row \in [Token -> {"absent", "active", "revoked"}]
    /\ denied \in [Token -> Nat]
    /\ parent \in [WorkspaceToken -> {"none", "active", "revoked", "gone"}]
    /\ pc \in [Request -> Steps]
    /\ arg \in [Request -> Token \cup {NoToken}]
    /\ draft \in [Request -> Claims \cup {NoClaims}]
    /\ targets \in [Request -> SUBSET Token]
    /\ closing \in [Request -> SUBSET Session]
    /\ loop \in Request \cup {NoRequest}
    /\ answer \in [to : Request \cup {NoRequest}, says : Verdict]
    /\ acked \subseteq Token
    /\ killed \subseteq Session
    /\ late \in [Request -> BOOLEAN]

(* Two requests that present the same refresh token, in any interleaving   *)
(* and across restarts, never both get a new pair for it.                  *)
SingleUse ==
    \A p, q \in Issued :
        claims[p].prev = claims[q].prev /\ claims[p].prev # NoPair => p = q

(* A session never has two refresh tokens that could both be exchanged:    *)
(* rotation retires the old one in the step that creates the new one.      *)
OneLiveRefresh ==
    \A p, q \in Issued :
        /\ claims[p].sid = claims[q].sid
        /\ row[<<p, "refresh">>] = "active"
        /\ row[<<q, "refresh">>] = "active"
        => p = q

(* A token whose revocation was answered with 204 stays on the denylist    *)
(* and inactive, whatever rotation, pruning or collection does afterwards. *)
RevocationIsFinal ==
    \A t \in acked : denied[t] = Forever /\ row[t] # "active"

(* A session revoked as a whole stays dead: a rotation that was signing    *)
(* its next pair meanwhile does not revive it, and every access token the  *)
(* verifier would still accept is on the denylist for good.                *)
KilledSessionStaysDead ==
    \A t \in Token : IsIssued(t) /\ ClaimsOf(t).sid \in killed =>
        /\ row[t] # "active"
        /\ t[2] = "access" /\ Unexpired(t) => denied[t] = Forever

(* The lifetime of a delegated pair never reaches past the horizon its     *)
(* first pair was given, however often it is refreshed.                    *)
DelegationBound ==
    \A p \in Issued :
        /\ claims[p].aexp <= claims[p].horizon
        /\ claims[p].rexp <= claims[p].horizon
        /\ claims[p].prev # NoPair =>
                claims[p].horizon = claims[claims[p].prev].horizon

Used(t) == t[2] = "refresh" /\ \E q \in Issued : claims[q].prev = t[1]

(* A request that arrives after its token was revoked, itself or through   *)
(* its workspace token, is neither let in, nor reported active, nor given  *)
(* a new pair; the revocation endpoint, which knows nothing of workspace   *)
(* tokens, at least reports a token that was revoked itself.               *)
NoLateSuccess ==
    [][ answer'.says \in {"active", "rotated"} =>
            LET r == answer'.to IN
            late[r] => pc[r] = "public" /\ ClaimsOf(arg[r]).ws # NoWorkspace ]_vars

(* Whoever presents a refresh token that was exchanged before, while it is *)
(* unexpired and its owner is a stored identity, gets no pair, and the     *)
(* session is dead by the time the answer is sent.                         *)
ReplayKillsSession ==
    [][ \A r \in Request :
            /\ answer'.to = r /\ answer'.says # "error"
            /\ pc[r] \in RefreshSteps
            /\ Used(arg[r]) /\ now < Exp(arg[r])
            /\ ClaimsOf(arg[r]).sub \in StoredSubject
            => answer'.says = "reused" /\ ClaimsOf(arg[r]).sid \in killed' ]_vars

(* The refresh chain of each session, as RefreshChain promises it. *)
LiveRefresh(s) == {p \in Issued : claims[p].sid = s /\ row[<<p, "refresh">>] = "active"}
Refreshable == {p \in Issued : claims[p].class # "durable"}

TheOne(S) == IF S = {} THEN NoPair ELSE CHOOSE p \in S : TRUE
ChainLive == [s \in Session |-> TheOne(LiveRefresh(s))]
ChainOpened == {claims[p].sid : p \in Refreshable}

Chain == INSTANCE RefreshChain WITH
    live <- ChainLive, opened <- ChainOpened, spent <- Refreshable

ChainSpec == Chain!Spec

(* Every accepted request is answered: nobody keeps the event loop. *)
RequestsAnswered ==
    \A r \in Request : pc[r] # "idle" ~> pc[r] = "idle"

(* A replayed refresh token ends its session, unless it expires first. *)
ReplayEventuallyKills ==
    \A r \in Request, p \in Pair :
        /\ pc[r] \in RefreshSteps /\ arg[r] = <<p, "refresh">>
        /\ Used(arg[r]) /\ ClaimsOf(arg[r]).sub \in StoredSubject
        ~> /\ p \in Issued
           /\ claims[p].sid \in killed \/ now >= claims[p].rexp

-----------------------------------------------------------------------------
(***************************************************************************)
(* What makes the safety properties inductive: the store's invariants.     *)
(***************************************************************************)

(* A row, a denylist entry and an acknowledged revocation are of an issued *)
(* pair.                                                                   *)
RecordsAreIssued ==
    /\ \A t \in Token : ~IsIssued(t) => row[t] = "absent"
    /\ \A t \in acked : IsIssued(t)
    /\ \A r \in Request : \A t \in targets[r] : IsIssued(t)

(* A pair got by rotation continues the session and the delegation of a    *)
(* pair whose refresh token is retired.                                    *)
Lineage ==
    \A p \in Issued : claims[p].prev # NoPair =>
        /\ claims[p].prev \in Issued
        /\ row[<<claims[p].prev, "refresh">>] # "active"

(* What a request knows of its token and of the pair it signs. *)
RequestKnows(r) ==
    /\ pc[r] \in RefreshSteps \cup CheckSteps =>
            arg[r] \in Token /\ IsIssued(arg[r])
    /\ pc[r] \in RefreshSteps =>
            arg[r][2] = "refresh" /\ ClaimsOf(arg[r]).class # "durable"
    /\ pc[r] \in {"persist", "rotate"} =>
            /\ draft[r] # NoClaims
            /\ draft[r].aexp <= draft[r].horizon
            /\ draft[r].rexp <= draft[r].horizon
    /\ pc[r] = "persist" => draft[r].prev = NoPair
    /\ pc[r] = "rotate" =>
            /\ draft[r].prev = arg[r][1]
            /\ draft[r].sid = ClaimsOf(arg[r]).sid
            /\ draft[r].class = ClaimsOf(arg[r]).class
            /\ draft[r].horizon = ClaimsOf(arg[r]).horizon

RequestsKnow == \A r \in Request : RequestKnows(r)

(* A login under way has a session id of its own. *)
FreshSession ==
    \A r \in Request : pc[r] = "persist" =>
        /\ \A p \in Issued : claims[p].sid # draft[r].sid
        /\ \A q \in Request \ {r} : pc[q] = "persist" => draft[q].sid # draft[r].sid

StoreInductive ==
    /\ RecordsAreIssued
    /\ Lineage
    /\ RequestsKnow
    /\ FreshSession
    /\ SingleUse
    /\ OneLiveRefresh
    /\ RevocationIsFinal
    /\ DelegationBound

(***************************************************************************)
(* What the properties of revocation and reuse need beyond it.  The parts  *)
(* that begin with TurnBased hold because a turn is not interrupted.       *)
(***************************************************************************)

(* Whoever has begun a turn holds the event loop until it is over. *)
TurnIsKept ==
    TurnBased => \A r \in Request :
        pc[r] \notin {"idle", "persist", "rotate"} => loop = r

(* A request whose token was revoked before it arrived stops at the        *)
(* denylist, or, when only the workspace token was revoked, at the check   *)
(* of the workspace token.                                                 *)
LateIsStopped ==
    \A r \in Request : late[r] =>
        /\ pc[r] \in (RefreshSteps \ {"rotate"}) \cup CheckSteps
        /\ RevokedBefore(arg[r])
        /\ pc[r] \in {"row", "resolve", "lineage", "stored"} =>
                /\ ClaimsOf(arg[r]).ws # NoWorkspace
                /\ parent[ClaimsOf(arg[r]).ws] = "revoked"

(* An access token whose row is no longer active was revoked for good, or  *)
(* was collected too late for the verifier's clock skew to matter.         *)
RetiredAccessIsDenied ==
    \A t \in Token :
        IsIssued(t) /\ t[2] = "access" /\ row[t] # "active" /\ Unexpired(t)
            => denied[t] = Forever

(* All pairs of a session are its owner's, the one being signed too. *)
SessionHasOneOwner ==
    /\ \A p, q \in Issued :
            claims[p].sid = claims[q].sid => claims[p].sub = claims[q].sub
    /\ \A r \in Request :
            pc[r] = "rotate" => draft[r].sub = ClaimsOf(arg[r]).sub

(* Only sessions that have begun are revoked as a whole. *)
ClosedSessionsBegan ==
    /\ killed \subseteq {claims[p].sid : p \in Issued}
    /\ \A r \in Request : closing[r] \subseteq {claims[p].sid : p \in Issued}

(* What a request is about to revoke covers the sessions it closes, and a  *)
(* cascade closes the session of the token that was reused.                *)
TargetsCoverClosing ==
    /\ TurnBased => \A r \in Request, t \in Token :
            IsIssued(t) /\ ClaimsOf(t).sid \in closing[r] /\ row[t] = "active"
                => t \in targets[r]
    /\ \A r \in Request :
            /\ closing[r] # {} => pc[r] \in {"apply", "revoke"}
            /\ pc[r] = "apply" => ClaimsOf(arg[r]).sid \in closing[r]

(* Reuse is noticed: an exchanged token is denied until it expires, and    *)
(* nobody exchanges it between the look at the denylist and the signature. *)
ReuseIsNoticed ==
    /\ \A t \in Token : Used(t) =>
            denied[t] >= Exp(t) \/ denied[t] = Forever \/ now >= Exp(t)
    /\ TurnBased => \A r \in Request :
            pc[r] \in {"row", "resolve"} /\ Used(arg[r]) => now >= Exp(arg[r])

RevocationInductive ==
    /\ TurnIsKept
    /\ LateIsStopped
    /\ RetiredAccessIsDenied
    /\ SessionHasOneOwner
    /\ ClosedSessionsBegan
    /\ TargetsCoverClosing
    /\ ReuseIsNoticed
    /\ TurnBased => KilledSessionStaysDead

(* The inductive invariant behind the safety properties, of the store and  *)
(* of revocation.                                                          *)
Inductive == StoreInductive /\ RevocationInductive

-----------------------------------------------------------------------------
(***************************************************************************)
(* What the repository's documents and comments say, and the code does not *)
(* do.                                                                     *)
(***************************************************************************)

(* Reuse of a revoked refresh token ends its session, whoever owns it and  *)
(* however close the token is to its expiry (the comment at                *)
(* routes/tokens.ts:1018 and specs/token-format.md make no exception).     *)
EveryReplayKillsSession ==
    [][ \A r \in Request :
            /\ answer'.to = r /\ answer'.says # "error"
            /\ pc[r] \in RefreshSteps
            /\ Used(arg[r])
            => ClaimsOf(arg[r]).sid \in killed' ]_vars

=============================================================================
