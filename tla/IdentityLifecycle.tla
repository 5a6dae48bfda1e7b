-------------------------- MODULE IdentityLifecycle --------------------------
(***************************************************************************)
(* The status of identities and what becomes of their tokens               *)
(* (packages/server/src/routes/identities.ts and the identity, token and   *)
(* revocation stores of storage/sqlite.ts).                                *)
(*                                                                         *)
(* Suspending, retiring and deleting write the status, or remove the row,  *)
(* and then revoke the identity's tokens one statement at a time; each     *)
(* statement commits on its own, so an error or a restart may separate any *)
(* two of them.  A suspension goes on to the identities sponsored by the   *)
(* suspended one.  Tokens are issued and refreshed meanwhile.              *)
(*                                                                         *)
(* As in TokenLifecycle a request is a process, one action is one storage  *)
(* call, and `loop` holds the request in the middle of a turn of the event *)
(* loop; a request gives it up where it reads a body or signs.  Time is    *)
(* left out: no token expires.                                             *)
(***************************************************************************)
EXTENDS Naturals, FiniteSets

CONSTANTS
    Identity,    \* ids of rows of `identities`
    Pair,        \* token pairs: one per issuance and one per rotation
    Request,     \* HTTP requests that may be in flight at once
    NoIdentity,  \* a sponsor that is no identity: a person
    NoToken, NoRequest

Token == Pair \X {"access", "refresh"}

ASSUME NamesAssumption ==
    NoIdentity \notin Identity /\ NoToken \notin Token /\ NoRequest \notin Request

VARIABLES
    status,    \* status[i]: `absent` before creation, `deleted` after deletion
    sponsor,   \* sponsor[i]: sponsor_id of i
    owner,     \* owner[p]: identity_id of the pair p, NoIdentity before issuance
    session,   \* session[p]: the pair that opened the session of p
    row,       \* row[t]: status of t in `tokens`
    denied,    \* the tokens in `revoked_tokens`
    pc,        \* pc[r]: the step request r is about to take
    op,        \* op[r]: the operation r asks for
    root,      \* root[r]: the identity r was called with
    who,       \* who[r]: the identity r is at
    at,        \* at[r]: the token r presents or is revoking
    targets,   \* targets[r]: the listed tokens r has yet to revoke
    todo,      \* todo[r]: the listed children r has yet to suspend
    loop,      \* the request that holds the event loop
    answer,    \* the response the last step sent
    covered,   \* covered[r]: the identities whose status r has changed
    doomed     \* tokens that an answered suspension, retirement or deletion
               \* should have ended, and all that is got from them

tokens == <<owner, session, row, denied>>
store  == <<status, sponsor, tokens>>
memory == <<op, root, who, at, targets, todo, covered>>
vars   == <<store, pc, memory, loop, answer, doomed>>

Stored(i) == status[i] \in {"active", "suspended", "retired"}
Issued    == {p \in Pair : owner[p] # NoIdentity}
TokensOf(p) == {<<p, "access">>, <<p, "refresh">>}

\* listActiveIds
ActiveOf(i) == {t \in Token : owner[t[1]] = i /\ row[t] = "active"}

\* Mutants: sponsors in place of ids; the sponsor of i, not whom i sponsors.
ChildrenOf_Sponsors(i) == {sponsor[c] : c \in {d \in Identity : Stored(d)}}
ChildrenOf_Swapped(i) == {c \in Identity : Stored(c) /\ sponsor[i] = c}

\* listChildIds
ChildrenOf(i) == {c \in Identity : Stored(c) /\ sponsor[c] = i}

-----------------------------------------------------------------------------
Turn(r) == loop \in {NoRequest, r}
Silent  == answer' = [to |-> NoRequest, says |-> "none"]

Goto(r, s, keeps) ==
    /\ pc' = [pc EXCEPT ![r] = s]
    /\ loop' = IF keeps THEN r ELSE NoRequest
    /\ Silent

(* r sends its response and is forgotten. *)
Respond(r, v) ==
    /\ pc' = [pc EXCEPT ![r] = "idle"]
    /\ op' = [op EXCEPT ![r] = "none"]
    /\ root' = [root EXCEPT ![r] = NoIdentity]
    /\ who' = [who EXCEPT ![r] = NoIdentity]
    /\ at' = [at EXCEPT ![r] = NoToken]
    /\ targets' = [targets EXCEPT ![r] = {}]
    /\ todo' = [todo EXCEPT ![r] = {}]
    /\ covered' = [covered EXCEPT ![r] = {}]
    /\ loop' = NoRequest
    /\ answer' = [to |-> r, says |-> v]

Init ==
    /\ status = [i \in Identity |-> "absent"]
    /\ sponsor = [i \in Identity |-> NoIdentity]
    /\ owner = [p \in Pair |-> NoIdentity]
    /\ session = [p \in Pair |-> p]
    /\ row = [t \in Token |-> "absent"]
    /\ denied = {}
    /\ pc = [r \in Request |-> "idle"]
    /\ op = [r \in Request |-> "none"]
    /\ root = [r \in Request |-> NoIdentity]
    /\ who = [r \in Request |-> NoIdentity]
    /\ at = [r \in Request |-> NoToken]
    /\ targets = [r \in Request |-> {}]
    /\ todo = [r \in Request |-> {}]
    /\ covered = [r \in Request |-> {}]
    /\ loop = NoRequest
    /\ answer = [to |-> NoRequest, says |-> "none"]
    /\ doomed = {}

-----------------------------------------------------------------------------
(***************************************************************************)
(* Operations of one turn.                                                 *)
(***************************************************************************)

(* POST /v1/identities.  Nothing is asked of the sponsor's status. *)
Create(i, s) ==
    /\ loop = NoRequest
    /\ status[i] = "absent"
    /\ s \in {NoIdentity} \cup {j \in Identity \ {i} : status[j] # "absent"}
    /\ status' = [status EXCEPT ![i] = "active"]
    /\ sponsor' = [sponsor EXCEPT ![i] = s]
    /\ Silent
    /\ UNCHANGED <<tokens, pc, memory, loop, doomed>>

(* PATCH /v1/identities/:id with a usage over the budget and autoSuspend:  *)
(* applyBudgetPolicy sets the status.  No token is revoked.                *)
ExceedBudget(i) ==
    /\ loop = NoRequest
    /\ status[i] = "active"
    /\ status' = [status EXCEPT ![i] = "suspended"]
    /\ Silent
    /\ UNCHANGED <<sponsor, tokens, pc, memory, loop, doomed>>

(* POST /v1/identities/:id/reactivate *)
Reactivate(i) ==
    /\ loop = NoRequest
    /\ status[i] = "suspended"
    /\ status' = [status EXCEPT ![i] = "active"]
    /\ Silent
    /\ UNCHANGED <<sponsor, tokens, pc, memory, loop, doomed>>

-----------------------------------------------------------------------------
(***************************************************************************)
(* Suspend, retire, delete.                                                *)
(***************************************************************************)

Begin(r, o, i) ==
    /\ pc[r] = "idle" /\ loop = NoRequest
    /\ Stored(i)
    /\ op' = [op EXCEPT ![r] = o]
    /\ root' = [root EXCEPT ![r] = i]
    /\ who' = [who EXCEPT ![r] = i]
    /\ UNCHANGED <<store, at, todo, covered, doomed>>

(* POST /v1/identities/:id/suspend and /retire: the row exists; reading    *)
(* the body gives up the event loop.                                       *)
BeginChange(r) ==
    /\ \E i \in Identity, o \in {"suspend", "retire"} : Begin(r, o, i)
    /\ Goto(r, "write", FALSE)
    /\ UNCHANGED targets

(* DELETE /v1/identities/:id: the row exists; its tokens are listed before *)
(* it is deleted.                                                          *)
BeginDelete(r) ==
    \E i \in Identity :
        /\ Begin(r, "delete", i)
        /\ targets' = [targets EXCEPT ![r] = ActiveOf(i)]
        /\ Goto(r, "erase", TRUE)

Erase(r) ==
    /\ pc[r] = "erase" /\ Turn(r)
    /\ status' = [status EXCEPT ![who[r]] = "deleted"]
    /\ covered' = [covered EXCEPT ![r] = @ \cup {who[r]}]
    /\ Goto(r, "revoke", TRUE)
    /\ UNCHANGED <<sponsor, tokens, op, root, who, at, targets, todo, doomed>>

\* storage.identities.suspend and retire: what they accept, what they write.
Accepts(o, i) ==
    \/ o = "suspend" /\ status[i] = "active"
    \/ o = "retire" /\ status[i] \in {"active", "suspended"}
Written(o) == IF o = "suspend" THEN "suspended" ELSE "retired"

(* suspendIdentity, retireIdentity *)
WriteStatus(r) ==
    /\ pc[r] = "write" /\ Turn(r)
    /\ Accepts(op[r], who[r])
    /\ status' = [status EXCEPT ![who[r]] = Written(op[r])]
    /\ covered' = [covered EXCEPT ![r] = @ \cup {who[r]}]
    /\ Goto(r, "list", TRUE)
    /\ UNCHANGED <<sponsor, tokens, op, root, who, at, targets, todo, doomed>>

(* The identity itself is answered 404 or 409; a child is skipped. *)
RefuseStatus(r) ==
    /\ pc[r] = "write" /\ Turn(r)
    /\ ~Accepts(op[r], who[r])
    /\ \/ who[r] = root[r] /\ Respond(r, "refused")
       \/ /\ who[r] # root[r]
          /\ Goto(r, "next", TRUE)
          /\ UNCHANGED memory
    /\ UNCHANGED <<store, doomed>>

(* Lists the identity's active tokens. *)
ListTokens(r) ==
    /\ pc[r] = "list" /\ Turn(r)
    /\ targets' = [targets EXCEPT ![r] = ActiveOf(who[r])]
    /\ Goto(r, "revoke", TRUE)
    /\ UNCHANGED <<store, op, root, who, at, todo, covered, doomed>>

(* revokeIdentityTokens, for each listed token: it enters the denylist, ... *)
Deny(r) ==
    /\ pc[r] = "revoke" /\ Turn(r)
    /\ \E t \in targets[r] :
        /\ denied' = denied \cup {t}
        /\ at' = [at EXCEPT ![r] = t]
    /\ Goto(r, "flip", TRUE)
    /\ UNCHANGED <<status, sponsor, owner, session, row,
                   op, root, who, targets, todo, covered, doomed>>

(* ... and then its row is revoked. *)
Flip(r) ==
    /\ pc[r] = "flip" /\ Turn(r)
    /\ row' = [row EXCEPT ![at[r]] = "revoked"]
    /\ targets' = [targets EXCEPT ![r] = @ \ {at[r]}]
    /\ Goto(r, "revoke", TRUE)
    /\ UNCHANGED <<status, sponsor, owner, session, denied,
                   op, root, who, at, todo, covered, doomed>>

(* No token is left.  A suspension lists the children of the identity it   *)
(* was asked for; a child's tokens lead to the next child.                 *)
Revoked(r) ==
    /\ pc[r] = "revoke" /\ Turn(r)
    /\ targets[r] = {} /\ op[r] = "suspend"
    /\ todo' = IF who[r] = root[r] THEN [todo EXCEPT ![r] = ChildrenOf(root[r])]
                                  ELSE todo
    /\ Goto(r, "next", TRUE)
    /\ UNCHANGED <<store, op, root, who, at, targets, covered, doomed>>

NextChild(r) ==
    /\ pc[r] = "next" /\ Turn(r)
    /\ \E c \in todo[r] :
        /\ who' = [who EXCEPT ![r] = c]
        /\ todo' = [todo EXCEPT ![r] = @ \ {c}]
    /\ Goto(r, "write", TRUE)
    /\ UNCHANGED <<store, op, root, at, targets, covered, doomed>>

(* 200, or 204: what was written is done. *)
Done(r) ==
    /\ Turn(r)
    /\ \/ pc[r] = "next" /\ todo[r] = {}
       \/ pc[r] = "revoke" /\ targets[r] = {} /\ op[r] # "suspend"
    /\ doomed' = doomed \cup {t \in Token : owner[t[1]] \in covered[r]}
    /\ Respond(r, "done")
    /\ UNCHANGED store

-----------------------------------------------------------------------------
(***************************************************************************)
(* Issuance and refresh, as far as an identity's status goes.              *)
(***************************************************************************)

(* POST /v1/tokens and /agent: the row exists, whatever its status. *)
BeginIssue(r) ==
    /\ pc[r] = "idle" /\ loop = NoRequest
    /\ \E i \in Identity : Stored(i) /\ who' = [who EXCEPT ![r] = i]
    /\ Goto(r, "persist", FALSE)
    /\ UNCHANGED <<store, op, root, at, targets, todo, covered, doomed>>

(* The pair p becomes a pair of identity i in the session that s opened. *)
Insert(p, i, s) ==
    /\ owner' = [owner EXCEPT ![p] = i]
    /\ session' = [session EXCEPT ![p] = s]

PersistIssue(r) ==
    /\ pc[r] = "persist" /\ Turn(r)
    /\ \E p \in Pair \ Issued :
        /\ Insert(p, who[r], p)
        /\ row' = [t \in Token |-> IF t[1] = p THEN "active" ELSE row[t]]
    /\ Respond(r, "issued")
    /\ UNCHANGED <<status, sponsor, denied, doomed>>

(* cascadeRevokeSession: one transaction. *)
Cascade(r, t) ==
    LET S == {u \in Token : /\ u[1] \in Issued /\ row[u] = "active"
                            /\ session[u[1]] = session[t[1]]} \cup {t} IN
    /\ denied' = denied \cup S
    /\ row' = [u \in Token |-> IF u \in S THEN "revoked" ELSE row[u]]
    /\ Respond(r, "reused")
    /\ UNCHANGED <<status, sponsor, owner, session, doomed>>

(* POST /v1/tokens/refresh up to the signature. *)
BeginRefresh(r) ==
    \E p \in Issued : LET t == <<p, "refresh">> IN
        /\ pc[r] = "idle" /\ loop = NoRequest
        /\ \/ t \in denied /\ Stored(owner[p]) /\ Cascade(r, t)
           \/ /\ t \notin denied /\ row[t] = "active"
              /\ status[owner[p]] = "active"
              /\ at' = [at EXCEPT ![r] = t]
              /\ Goto(r, "rotate", FALSE)
              /\ UNCHANGED <<store, op, root, who, targets, todo, covered, doomed>>

(* Mutant of Rotate: no compare-and-set on the presented token's row. *)
Rotate_Unconditional(r) ==
    /\ pc[r] = "rotate" /\ Turn(r)
    /\ \E p \in Pair \ Issued :
        /\ Insert(p, owner[at[r][1]], session[at[r][1]])
        /\ row' = [t \in Token |-> IF t[1] = p THEN "active"
                                  ELSE IF t = at[r] THEN "revoked" ELSE row[t]]
        /\ doomed' = IF at[r] \in doomed THEN doomed \cup TokensOf(p) ELSE doomed
    /\ denied' = denied \cup {at[r]}
    /\ Respond(r, "rotated")
    /\ UNCHANGED <<status, sponsor>>

(* rotateIssuedPairWithAudit, while the presented row is still active. *)
Rotate(r) ==
    /\ pc[r] = "rotate" /\ Turn(r)
    /\ row[at[r]] = "active"
    /\ \E p \in Pair \ Issued :
        /\ Insert(p, owner[at[r][1]], session[at[r][1]])
        /\ row' = [t \in Token |-> IF t[1] = p THEN "active"
                                  ELSE IF t = at[r] THEN "revoked" ELSE row[t]]
        /\ doomed' = IF at[r] \in doomed THEN doomed \cup TokensOf(p) ELSE doomed
    /\ denied' = denied \cup {at[r]}
    /\ Respond(r, "rotated")
    /\ UNCHANGED <<status, sponsor>>

(* It is not: refresh_token_not_active. *)
RotateConflict(r) ==
    /\ pc[r] = "rotate" /\ Turn(r)
    /\ row[at[r]] # "active"
    /\ Cascade(r, at[r])

-----------------------------------------------------------------------------
(* A storage call or the signature fails: what was committed stays. *)
Fail(r) ==
    /\ pc[r] # "idle" /\ Turn(r)
    /\ Respond(r, "error")
    /\ UNCHANGED <<store, doomed>>

(* The process stops and starts again between two statements. *)
Restart ==
    /\ \E r \in Request : pc[r] # "idle"
    /\ pc' = [r \in Request |-> "idle"]
    /\ op' = [r \in Request |-> "none"]
    /\ root' = [r \in Request |-> NoIdentity]
    /\ who' = [r \in Request |-> NoIdentity]
    /\ at' = [r \in Request |-> NoToken]
    /\ targets' = [r \in Request |-> {}]
    /\ todo' = [r \in Request |-> {}]
    /\ covered' = [r \in Request |-> {}]
    /\ loop' = NoRequest
    /\ Silent
    /\ UNCHANGED <<store, doomed>>

Change(r) ==
    \/ BeginChange(r) \/ BeginDelete(r) \/ Erase(r)
    \/ WriteStatus(r) \/ RefuseStatus(r) \/ ListTokens(r)
    \/ Deny(r) \/ Flip(r) \/ Revoked(r) \/ NextChild(r) \/ Done(r)

Use(r) ==
    \/ BeginIssue(r) \/ PersistIssue(r)
    \/ BeginRefresh(r) \/ Rotate(r) \/ RotateConflict(r)

Next ==
    \/ \E r \in Request : Change(r) \/ Use(r) \/ Fail(r)
    \/ \E i \in Identity, s \in Identity \cup {NoIdentity} : Create(i, s)
    \/ \E i \in Identity : ExceedBudget(i) \/ Reactivate(i)
    \/ Restart

Spec == Init /\ [][Next]_vars

-----------------------------------------------------------------------------
(***************************************************************************)
(* Properties.                                                             *)
(***************************************************************************)

Steps == {"idle", "write", "erase", "list", "revoke", "flip", "next",
          "persist", "rotate"}

TypeOK ==
    /\ status \in [Identity -> {"absent", "active", "suspended", "retired", "deleted"}]
    /\ sponsor \in [Identity -> Identity \cup {NoIdentity}]
    /\ owner \in [Pair -> Identity \cup {NoIdentity}]
    /\ session \in [Pair -> Pair]
    /\ row \in [Token -> {"absent", "active", "revoked"}]
    /\ denied \subseteq Token
    /\ pc \in [Request -> Steps]
    /\ op \in [Request -> {"none", "suspend", "retire", "delete"}]
    /\ root \in [Request -> Identity \cup {NoIdentity}]
    /\ who \in [Request -> Identity \cup {NoIdentity}]
    /\ at \in [Request -> Token \cup {NoToken}]
    /\ targets \in [Request -> SUBSET Token]
    /\ todo \in [Request -> SUBSET Identity]
    /\ covered \in [Request -> SUBSET Identity]
    /\ loop \in Request \cup {NoRequest}
    /\ answer \in [to : Request \cup {NoRequest},
                   says : {"none", "refused", "done", "issued", "rotated", "reused", "error"}]
    /\ doomed \subseteq Token

(* What an answered suspension, retirement or deletion ended stays ended:  *)
(* no token the identity, or a child suspended with it, had by then is     *)
(* accepted again, not by a refresh that was signing meanwhile, not after  *)
(* reactivation, and nothing is ever got from such a token by refreshing.  *)
OldTokensStayDead == \A t \in doomed : t \in denied /\ row[t] = "revoked"

(* When a suspension is answered with 200, no identity sponsored by the    *)
(* suspended one is active, whichever of them were changed or deleted by   *)
(* others while the request was on its way.                                *)
ChildrenFollow ==
    [][ \A r \in Request :
            answer' = [to |-> r, says |-> "done"] /\ op[r] = "suspend"
            => \A c \in Identity : sponsor[c] = root[r] => status[c] # "active" ]_vars

(* Suspended identities are always denied (docs/rbac-design.md:203):       *)
(* between turns no access token of one passes bearer authentication.      *)
SuspendedIsDenied ==
    loop = NoRequest =>
        \A p \in Issued : status[owner[p]] = "suspended" => <<p, "access">> \in denied

-----------------------------------------------------------------------------
(***************************************************************************)
(* The inductive invariant behind OldTokensStayDead.                       *)
(***************************************************************************)

Idle(t) == row[t] # "active"

(* Rows and pairs agree, and a revoked row is on the denylist. *)
RowsAgree ==
    /\ \A t \in Token : row[t] = "absent" <=> t[1] \notin Issued
    /\ \A t \in Token : row[t] = "revoked" => t \in denied

DoomedAreRevoked == \A t \in doomed : row[t] = "revoked"

(* Who is past the status write has the event loop, and so has a           *)
(* suspension that has come to a child.                                    *)
HoldsLoop(r) ==
    \/ pc[r] \in {"idle", "persist", "rotate"} /\ covered[r] = {}
    \/ pc[r] = "write" /\ covered[r] = {}
    \/ pc[r] = "erase" /\ covered[r] = {} /\ loop = r
    \/ pc[r] \in {"write", "list", "revoke", "flip", "next"} /\ loop = r

(* The active tokens of the identities r has changed are those r has yet   *)
(* to list or to revoke.                                                   *)
Remaining(r) ==
    /\ pc[r] \in {"write", "next"} =>
        \A t \in Token : owner[t[1]] \in covered[r] => Idle(t)
    /\ pc[r] = "list" =>
        \A t \in Token : owner[t[1]] \in covered[r] => Idle(t) \/ owner[t[1]] = who[r]
    /\ pc[r] = "erase" =>
        \A t \in Token : owner[t[1]] = who[r] => Idle(t) \/ t \in targets[r]
    /\ pc[r] \in {"revoke", "flip"} =>
        \A t \in Token : owner[t[1]] \in covered[r] => Idle(t) \/ t \in targets[r]

(* The tokens a request is about to change have rows. *)
Points(r) ==
    /\ pc[r] \in {"erase", "revoke", "flip"} => \A t \in targets[r] : row[t] # "absent"
    /\ pc[r] = "flip" => at[r] \in targets[r] /\ at[r] \in denied
    /\ pc[r] = "rotate" => at[r] \in Token /\ row[at[r]] # "absent"
    /\ pc[r] \in {"write", "erase", "list", "persist"} => who[r] \in Identity

Inductive ==
    /\ RowsAgree
    /\ DoomedAreRevoked
    /\ \A r \in Request : HoldsLoop(r) /\ Remaining(r) /\ Points(r)

-----------------------------------------------------------------------------
(***************************************************************************)
(* The inductive invariant behind ChildrenFollow.                          *)
(***************************************************************************)

(* r has listed the children of the identity it was called with. *)
HasListed(r) ==
    \/ pc[r] = "next"
    \/ pc[r] \in {"write", "list", "revoke", "flip"} /\ who[r] # root[r]

(* A deletion stays at its identity.  From the listing to its answer a     *)
(* suspension keeps the event loop, and the children still active are      *)
(* those it has yet to come to.                                            *)
Following(r) ==
    /\ pc[r] = "erase" => who[r] = root[r]
    /\ HasListed(r) => loop = r
    /\ HasListed(r) /\ op[r] = "suspend" =>
        \A c \in Identity :
            sponsor[c] = root[r] /\ status[c] = "active"
            => c \in todo[r] \/ (pc[r] = "write" /\ c = who[r])

ChildrenListed == \A r \in Request : Following(r)

-----------------------------------------------------------------------------
(***************************************************************************)
(* How long a request may take.                                            *)
(***************************************************************************)

(* Two steps revoke a token; a child is come to, written, listed, left.    *)
TokenSteps == 2 * Cardinality(Token)
ChildSteps == TokenSteps + 4

(* The steps r may take for the identity it is at, ... *)
StepsHere(r) ==
    CASE pc[r] = "write"  -> TokenSteps + 3
      [] pc[r] = "list"   -> TokenSteps + 2
      [] pc[r] = "erase"  -> 2 * Cardinality(targets[r]) + 2
      [] pc[r] = "revoke" -> 2 * Cardinality(targets[r]) + 1
      [] pc[r] = "flip"   -> 2 * Cardinality(targets[r])
      [] OTHER            -> 0

(* ... for the children after it, ... *)
StepsAhead(r) ==
    IF HasListed(r) THEN ChildSteps * Cardinality(todo[r]) + 1
    ELSE IF op[r] = "suspend" THEN ChildSteps * Cardinality(Identity) + 1
    ELSE 0

(* ... and until it is answered. *)
StepsLeft(r) ==
    IF pc[r] = "idle" THEN 0
    ELSE IF pc[r] \in {"persist", "rotate"} THEN 1
    ELSE StepsHere(r) + StepsAhead(r)

(* The walk over tokens and children ends: while a request keeps the event *)
(* loop each step there is brings it closer to its answer, and nobody ever *)
(* takes a request further from it.                                        *)
WalksEnd ==
    [][ \A r \in Request :
            /\ loop = r => StepsLeft(r)' < StepsLeft(r)
            /\ pc[r] # "idle" => StepsLeft(r)' <= StepsLeft(r) ]_vars

(* Nobody sponsors itself, so that a walk does not come back to where it   *)
(* began; a request keeps the event loop only in a walk, and starts with   *)
(* an empty list.                                                          *)
WalkIsStraight ==
    /\ \A i \in Identity : sponsor[i] # i
    /\ \A r \in Request :
        /\ pc[r] = "idle" => todo[r] = {}
        /\ pc[r] \in {"idle", "persist", "rotate"} => loop # r
        /\ root[r] \notin todo[r]

=============================================================================
