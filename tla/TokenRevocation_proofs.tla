----------------------- MODULE TokenRevocation_proofs -----------------------
(***************************************************************************)
(* Proofs, for every value of the constants, about revocation and reuse:   *)
(* what TokenLifecycle promises beyond the store's own invariants depends  *)
(* on what a request has already looked at, and on the event loop.         *)
(***************************************************************************)
EXTENDS TokenLifecycle_proofs

(***************************************************************************)
(* What a step does to the requests and to the event loop.                 *)
(***************************************************************************)

(* A request that has its answer to come goes on with what it knows. *)
Proceeds(r) ==
    /\ pc[r] \in {"denylist", "row", "rotate", "bearer", "introspect"}
    /\ \E s \in {"row", "resolve", "list", "lineage", "stored"} :
        /\ Goto(r, s, TRUE)
        /\ UNCHANGED <<arg, draft, targets, closing, late>>

(* A request signs the next pair, and gives up the event loop for it. *)
GoesSigning(r) ==
    /\ pc[r] = "resolve"
    /\ \E d : /\ draft' = [draft EXCEPT ![r] = d]
              /\ d.sub = ClaimsOf(arg[r]).sub
    /\ Goto(r, "rotate", FALSE)
    /\ UNCHANGED <<arg, targets, closing, late>>

LEMMA ActionShapes ==
    ASSUME NEW r \in Request, Acts(r)
    PROVE  /\ Turn(r)
           /\ \/ PrepareIssue(r) \/ BeginRefresh(r) \/ BeginRevoke(r) \/ BeginCheck(r)
              \/ CascadeList(r)
              \/ Proceeds(r) \/ GoesSigning(r)
              \/ \E v \in Verdict : Respond(r, v)
<1>1. CASE Arrive(r)
    BY <1>1 DEF Arrive, PrepareIssue, BeginRefresh, BeginRevoke, BeginCheck, Present
<1>2. CASE \/ PersistIssue(r) \/ Rotate(r) \/ CascadeApply(r) \/ ApplyRevoke(r)
           \/ Fail(r) \/ CheckLineage(r) \/ IntrospectRow(r) \/ PublicCheck(r)
    BY <1>2 DEF PersistIssue, Rotate, CascadeApply, ApplyRevoke, Fail,
        CheckLineage, IntrospectRow, PublicCheck, ReadDenylist, Verdict
<1>3. CASE \/ CheckDenylist(r) \/ CheckRow(r) \/ CheckBearer(r) \/ Introspect(r)
    BY <1>3 DEF CheckDenylist, CheckRow, CheckBearer, Introspect, ReadDenylist,
        Proceeds, Verdict
<1>4. CASE RotateConflict(r) \/ CascadeList(r)
    BY <1>4 DEF RotateConflict, CascadeList, Proceeds
<1>5. CASE ResolveRefresh(r)
    <2>1. CASE Respond(r, "refused")
        BY <1>5, <2>1 DEF ResolveRefresh, Verdict
    <2>2. CASE ~Respond(r, "refused")
        <3> DEFINE c == ClaimsOf(arg[r])
                   d == NewClaims(c.sid, c.sub, c.class, c.ws, c.horizon, arg[r][1])
        <3>1. d.sub = c.sub
            BY DEF NewClaims
        <3>2. /\ pc[r] = "resolve" /\ Turn(r)
              /\ draft' = [draft EXCEPT ![r] = d]
              /\ Goto(r, "rotate", FALSE)
              /\ UNCHANGED <<arg, targets, closing, late>>
            BY <1>5, <2>2 DEF ResolveRefresh
        <3> HIDE DEF d
        <3> QED
            BY <3>1, <3>2 DEF GoesSigning
    <2> QED
        BY <2>1, <2>2
<1> QED
    BY <1>1, <1>2, <1>3, <1>4, <1>5 DEF Acts, Serve

(* Every other step leaves the requests and the loop alone, or restarts. *)
LEMMA LoopSteps ==
    ASSUME TypeOK, [Next]_vars
    PROVE  \/ UNCHANGED <<local, loop>>
           \/ Restart
           \/ \E r \in Request : Acts(r) /\ OthersKept(r)
<1>1. CASE UNCHANGED vars
    BY <1>1 DEF vars
<1>2. ASSUME NEW r \in Request, Arrive(r) \/ Serve(r) \/ Fail(r)
      PROVE  Acts(r) /\ OthersKept(r)
    BY <1>2, ActsAlone DEF Acts
<1>3. CASE \/ Tick
           \/ \E t \in Token : CollectRow(t)
           \/ \E w \in WorkspaceToken : \/ CreateWorkspaceToken(w)
                                        \/ RevokeWorkspaceToken(w)
                                        \/ LoseWorkspaceToken(w)
    BY <1>3 DEF Tick, CollectRow, CreateWorkspaceToken, RevokeWorkspaceToken,
        LoseWorkspaceToken, MoveParent
<1> QED
    BY <1>1, <1>2, <1>3 DEF Next, Undisturbed

(* Where a request is after its step. *)
LEMMA RespondLeaves ==
    ASSUME TypeOK, NEW r \in Request, NEW v, Respond(r, v)
    PROVE  /\ pc'[r] = "idle" /\ arg'[r] = NoToken
           /\ targets'[r] = {} /\ closing'[r] = {} /\ late'[r] = FALSE
           /\ loop' = NoRequest
           /\ answer' = [to |-> r, says |-> v]
BY DEF Respond, TypeOK

LEMMA GotoLeads ==
    ASSUME TypeOK, NEW r \in Request, NEW s, Goto(r, s, TRUE)
    PROVE  /\ pc'[r] = s
           /\ TurnBased => loop' = r
           /\ answer'.to = NoRequest
BY DEF Goto, Silent, TypeOK

-----------------------------------------------------------------------------
(***************************************************************************)
(* Turns.                                                                  *)
(***************************************************************************)

Between == {"idle", "persist", "rotate"}

(* While one request runs, the others are between two turns. *)
LEMMA TurnIsExclusive ==
    ASSUME TurnBased, TurnIsKept, NEW r \in Request, Turn(r),
           NEW q \in Request \ {r}
    PROVE  pc[q] \in Between
BY NamesAssumption DEF TurnIsKept, Turn, Between

LEMMA NextTurnIsKept ==
    ASSUME TypeOK, TurnIsKept, [Next]_vars
    PROVE  TurnIsKept'
<1> SUFFICES ASSUME TurnBased, NEW q \in Request, pc'[q] \notin Between
             PROVE  loop' = q
    BY DEF TurnIsKept, Between
<1>1. CASE UNCHANGED <<local, loop>>
    BY <1>1 DEF local, TurnIsKept, Between
<1>2. CASE Restart
    BY <1>2 DEF Restart, Between
<1>3. ASSUME NEW r \in Request, Acts(r), OthersKept(r)
      PROVE  loop' = q
    <2>1. CASE q # r
        BY <1>3, <2>1, ActionShapes, TurnIsExclusive DEF OthersKept
    <2>2. CASE q = r
        <3>1. CASE BeginRefresh(r) \/ BeginRevoke(r) \/ BeginCheck(r)
                   \/ CascadeList(r) \/ Proceeds(r)
            <4>1. \E s : Goto(r, s, TRUE)
                BY <3>1 DEF BeginRefresh, BeginRevoke, BeginCheck, Present,
                    CascadeList, Proceeds
            <4> QED
                BY <2>2, <4>1, GotoLeads
        <3>2. CASE PrepareIssue(r) \/ GoesSigning(r)
            BY <2>2, <3>2, GotoKeeps DEF PrepareIssue, GoesSigning, Between
        <3>3. CASE \E v \in Verdict : Respond(r, v)
            BY <2>2, <3>3, RespondKeeps DEF Between
        <3> QED
            BY <1>3, <3>1, <3>2, <3>3, ActionShapes
    <2> QED
        BY <2>1, <2>2
<1> QED
    BY <1>1, <1>2, <1>3, LoopSteps

-----------------------------------------------------------------------------
(***************************************************************************)
(* Requests that arrive after the revocation.                              *)
(***************************************************************************)

(* What has been revoked stays revoked. *)
LEMMA RevokedStays ==
    ASSUME TypeOK, RecordsAreIssued, [Next]_vars,
           NEW t \in Token, IsIssued(t)
    PROVE  /\ ClaimsOf(t)' = ClaimsOf(t) /\ IsIssued(t)'
           /\ ClaimsOf(t).ws # NoWorkspace /\ parent[ClaimsOf(t).ws] = "revoked"
                => parent'[ClaimsOf(t).ws] = "revoked"
           /\ t \in acked => t \in acked'
<1>1. ClaimsOf(t)' = ClaimsOf(t) /\ IsIssued(t)'
    BY NextClaimsKept DEF ClaimsKept, IsIssued, ClaimsOf
<1>2. acked \subseteq acked'
    BY AckedSteps DEF ApplyRevoke
<1>3. ClaimsOf(t).ws \in WorkspaceToken \cup {NoWorkspace}
    BY ExpType DEF Claims
<1>4. ASSUME NEW w \in WorkspaceToken, parent[w] = "revoked"
      PROVE  parent'[w] = "revoked"
    <2>1. CASE UNCHANGED parent
        BY <1>4, <2>1
    <2>2. ASSUME NEW u \in WorkspaceToken,
                 \/ CreateWorkspaceToken(u) \/ RevokeWorkspaceToken(u)
                 \/ LoseWorkspaceToken(u)
          PROVE  parent'[w] = "revoked"
        BY <1>4, <2>2 DEF CreateWorkspaceToken, RevokeWorkspaceToken,
            LoseWorkspaceToken, MoveParent, TypeOK
    <2>3. ASSUME NEW r \in Request, Arrive(r) \/ Serve(r) \/ Fail(r)
          PROVE  UNCHANGED parent
        BY <2>3 DEF Arrive, Serve, Fail, PrepareIssue, BeginRefresh, BeginRevoke,
            BeginCheck, Present, PersistIssue, CheckDenylist, CheckRow,
            ResolveRefresh, Rotate, RotateConflict, CascadeList, CascadeApply,
            ApplyRevoke, CheckBearer, CheckLineage, Introspect, IntrospectRow,
            PublicCheck, ReadDenylist, store
    <2>4. CASE UNCHANGED vars \/ Tick \/ Restart \/ \E u \in Token : CollectRow(u)
        BY <2>1, <2>4 DEF vars, store, Tick, Restart, CollectRow
    <2> QED
        BY <2>1, <2>2, <2>3, <2>4 DEF Next, Undisturbed
<1> QED
    BY <1>1, <1>2, <1>3, <1>4

(* A late request that does not pass a check it has not passed before      *)
(* stays stopped.                                                          *)
LEMMA LateGoesOn ==
    ASSUME TypeOK, RequestsKnow, RecordsAreIssued, LateIsStopped, [Next]_vars,
           NEW q \in Request, late[q], arg'[q] = arg[q],
           pc'[q] \in (RefreshSteps \ {"rotate"}) \cup CheckSteps,
           pc'[q] \in {"row", "resolve", "lineage", "stored"} =>
                /\ ClaimsOf(arg[q]).ws # NoWorkspace
                /\ parent[ClaimsOf(arg[q]).ws] = "revoked"
    PROVE  /\ pc'[q] \in (RefreshSteps \ {"rotate"}) \cup CheckSteps
           /\ RevokedBefore(arg[q])'
           /\ pc'[q] \in {"row", "resolve", "lineage", "stored"} =>
                /\ ClaimsOf(arg[q])'.ws # NoWorkspace
                /\ parent'[ClaimsOf(arg[q])'.ws] = "revoked"
<1>1. RevokedBefore(arg[q]) /\ pc[q] \in RefreshSteps \cup CheckSteps
    BY DEF LateIsStopped
<1>2. arg[q] \in Token /\ IsIssued(arg[q])
    BY <1>1, KnownToken
<1>3. ClaimsOf(arg[q])' = ClaimsOf(arg[q])
    BY <1>2, RevokedStays DEF ClaimsOf
<1>4. ClaimsOf(arg[q]).ws # NoWorkspace /\ parent[ClaimsOf(arg[q]).ws] = "revoked"
        => parent'[ClaimsOf(arg[q]).ws] = "revoked"
    BY <1>2, RevokedStays
<1>5. arg[q] \in acked => arg'[q] \in acked'
    BY <1>2, RevokedStays
<1> QED
    BY <1>1, <1>3, <1>4, <1>5 DEF RevokedBefore

(* A token on the way past the denylist has not been revoked itself. *)
LEMMA UndeniedIsNotAcked ==
    ASSUME TypeOK, RevocationIsFinal, NEW t \in Token, ~IsRevoked(t)
    PROVE  t \notin acked
BY TimesAssumption DEF RevocationIsFinal, IsRevoked, TypeOK

LEMMA NextLateIsStopped ==
    ASSUME TypeOK, RequestsKnow, RecordsAreIssued, RevocationIsFinal,
           LateIsStopped, [Next]_vars
    PROVE  LateIsStopped'
<1> DEFINE Revoked(q) == /\ ClaimsOf(arg[q]).ws # NoWorkspace
                         /\ parent[ClaimsOf(arg[q]).ws] = "revoked"
           Past == {"row", "resolve", "lineage", "stored"}
           Stop == (RefreshSteps \ {"rotate"}) \cup CheckSteps
<1> SUFFICES ASSUME NEW q \in Request, late'[q]
             PROVE  /\ pc'[q] \in Stop
                    /\ RevokedBefore(arg[q])'
                    /\ pc'[q] \in Past => Revoked(q)'
    BY DEF LateIsStopped
<1>0. late[q] => pc[q] \in Stop /\ RevokedBefore(arg[q]) /\ (pc[q] \in Past => Revoked(q))
    BY DEF LateIsStopped
<1>a. ASSUME late[q], arg'[q] = arg[q], pc'[q] \in Stop, pc'[q] \in Past => Revoked(q)
      PROVE  /\ pc'[q] \in Stop
             /\ RevokedBefore(arg[q])'
             /\ pc'[q] \in Past => Revoked(q)'
    BY <1>a, LateGoesOn DEF ClaimsOf
<1>1. CASE UNCHANGED <<local, loop>>
    <2>1. UNCHANGED <<pc, arg, late>>
        BY <1>1 DEF local
    <2> QED
        BY <1>0, <1>a, <2>1
<1>2. CASE Restart
    BY <1>2 DEF Restart
<1>3. ASSUME NEW r \in Request, Acts(r), OthersKept(r), r # q
      PROVE  /\ pc'[q] \in Stop
             /\ RevokedBefore(arg[q])'
             /\ pc'[q] \in Past => Revoked(q)'
    BY <1>0, <1>3, <1>a DEF OthersKept
<1>4. CASE Acts(q)
    <2>1. CASE BeginRefresh(q) \/ BeginCheck(q)
        <3>1. PICK t \in Token, s \in {"denylist", "bearer", "introspect", "public"} :
                Present(q, t, s)
            BY <2>1 DEF BeginRefresh, BeginCheck, Token, Issued
        <3>2. pc'[q] = s /\ arg'[q] = t /\ late'[q] = RevokedBefore(t)
            BY <3>1, GotoLeads DEF Present, TypeOK
        <3>3. UNCHANGED <<claims, parent, acked>>
            BY <3>1 DEF Present, store, ghost
        <3>4. RevokedBefore(arg[q])'
            BY <3>2, <3>3 DEF RevokedBefore, ClaimsOf
        <3> QED
            BY <3>2, <3>4 DEF RefreshSteps, CheckSteps
    <2>2. CASE PrepareIssue(q) \/ BeginRevoke(q)
        BY <1>0, <2>2 DEF PrepareIssue, BeginRevoke, RefreshSteps, CheckSteps
    <2>3. CASE CascadeList(q) \/ RotateConflict(q)
        <3>1. late[q] /\ arg' = arg
            BY <2>3 DEF CascadeList, RotateConflict
        <3>2. pc'[q] \in {"apply", "list"}
            BY <2>3, GotoLeads DEF CascadeList, RotateConflict
        <3> QED
            BY <1>a, <3>1, <3>2 DEF RefreshSteps
    <2>4. CASE \E v : Respond(q, v)
        BY <2>4, RespondLeaves
    <2>5. ASSUME NEW s \in {"row", "list", "lineage", "stored"},
                 Goto(q, s, TRUE), UNCHANGED <<arg, draft, targets, closing, late>>,
                 s # "list" => ~IsRevoked(arg[q])
          PROVE  /\ pc'[q] \in Stop
                 /\ RevokedBefore(arg[q])'
                 /\ pc'[q] \in Past => Revoked(q)'
        <3>1. pc'[q] = s /\ arg' = arg /\ late' = late
            BY <2>5, GotoLeads
        <3>2. s # "list" => Revoked(q)
            <4>1. arg[q] \in Token
                BY <1>0, <3>1, KnownToken
            <4> QED
                BY <1>0, <2>5, <3>1, <4>1, UndeniedIsNotAcked DEF RevokedBefore
        <3>3. s \in Stop
            BY DEF RefreshSteps, CheckSteps
        <3> QED
            BY <1>a, <3>1, <3>2, <3>3
    <2>6. CASE CheckDenylist(q) \/ CheckBearer(q) \/ Introspect(q)
        <3>1. \/ \E v : Respond(q, v)
              \/ \E s \in {"row", "list", "lineage", "stored"} :
                    /\ Goto(q, s, TRUE)
                    /\ UNCHANGED <<arg, draft, targets, closing, late>>
                    /\ s # "list" => ~IsRevoked(arg[q])
            BY <2>6 DEF CheckDenylist, CheckBearer, Introspect, ReadDenylist
        <3> QED
            BY <2>4, <2>5, <3>1
    <2>7. CASE CheckRow(q)
        <3>1. CASE Respond(q, "refused")
            BY <2>4, <3>1
        <3>2. CASE Goto(q, "resolve", TRUE) /\ UNCHANGED <<arg, draft, targets, closing, late>>
            <4>1. pc'[q] = "resolve" /\ arg' = arg /\ late' = late
                BY <3>2, GotoLeads
            <4>2. Revoked(q)
                BY <1>0, <2>7, <4>1 DEF CheckRow
            <4> QED
                BY <1>a, <4>1, <4>2 DEF RefreshSteps
        <3> QED
            BY <2>7, <3>1, <3>2 DEF CheckRow
    <2>8. CASE ResolveRefresh(q)
        <3>1. CASE Respond(q, "refused")
            BY <2>4, <3>1
        <3>2. CASE ~Respond(q, "refused")
            <4>1. late' = late /\ ~ParentRevoked(ClaimsOf(arg[q])) /\ pc[q] = "resolve"
                BY <2>8, <3>2 DEF ResolveRefresh
            <4> QED
                BY <1>0, <4>1 DEF ParentRevoked
        <3> QED
            BY <3>1, <3>2
    <2>9. CASE \/ PersistIssue(q) \/ Rotate(q) \/ CascadeApply(q) \/ ApplyRevoke(q)
               \/ Fail(q) \/ CheckLineage(q) \/ IntrospectRow(q) \/ PublicCheck(q)
        BY <2>4, <2>9 DEF PersistIssue, Rotate, CascadeApply, ApplyRevoke, Fail,
            CheckLineage, IntrospectRow, PublicCheck, ReadDenylist
    <2> QED
        BY <1>4, <2>1, <2>2, <2>3, <2>6, <2>7, <2>8, <2>9 DEF Acts, Arrive, Serve
<1> QED
    BY <1>1, <1>2, <1>3, <1>4, LoopSteps

-----------------------------------------------------------------------------
(***************************************************************************)
(* Access tokens and the sessions they belong to.                          *)
(***************************************************************************)

(* What a step does to the denylist and the row of an issued access token. *)
AccessKept(t) ==
    /\ row'[t] = row[t]
    /\ denied'[t] \in {denied[t], Prune[t]}

LEMMA AccessSteps ==
    ASSUME TypeOK, RequestsKnow, [Next]_vars,
           NEW t \in Token, IsIssued(t), t[2] = "access"
    PROVE  \/ AccessKept(t)
           \/ \E r \in Request :
                /\ CascadeApply(r) \/ ApplyRevoke(r)
                /\ t \in targets[r] => denied'[t] = Forever
                /\ t \notin targets[r] => AccessKept(t)
           \/ CollectRow(t)
<1>1. CASE UNCHANGED <<row, denied>>
    BY <1>1 DEF AccessKept
<1>2. ASSUME NEW r \in Request, Reads(r)
      PROVE  AccessKept(t)
    BY <1>2, ReadsStore DEF AccessKept
<1>3. ASSUME NEW r \in Request, CascadeApply(r) \/ ApplyRevoke(r)
      PROVE  /\ t \in targets[r] => denied'[t] = Forever
             /\ t \notin targets[r] => AccessKept(t)
    BY <1>3 DEF CascadeApply, ApplyRevoke, DenyForever, FlipRows, AccessKept
<1>4. ASSUME NEW r \in Request, PersistIssue(r) \/ Rotate(r)
      PROVE  AccessKept(t)
    <2>1. PICK p \in Pair :
            /\ Issues(r, p)
            /\ \/ row' = InsertRows(p, draft[r])
               \/ /\ row' = [InsertRows(p, draft[r]) EXCEPT ![arg[r]] = "revoked"]
                  /\ Rotate(r)
        BY <1>4, IssuingSteps
    <2>2. t[1] # p
        BY <2>1 DEF Issues, IsIssued
    <2>3. Rotate(r) => t # arg[r]
        BY DEF Rotate, RequestsKnow, RequestKnows, RefreshSteps
    <2>4. InsertRows(p, draft[r])[t] = row[t]
        BY <2>2 DEF InsertRows
    <2>5. row'[t] = row[t]
        BY <2>1, <2>3, <2>4 DEF InsertRows
    <2>6. denied'[t] = denied[t]
        BY <1>4, <2>3 DEF PersistIssue, Rotate, TypeOK
    <2> QED
        BY <2>5, <2>6 DEF AccessKept
<1>5. ASSUME NEW u \in Token, CollectRow(u), u # t
      PROVE  AccessKept(t)
    BY <1>5 DEF CollectRow, AccessKept, TypeOK
<1>6. CASE UNCHANGED vars \/ Tick \/ Restart \/ \E r \in Request : Fail(r)
    BY <1>1, <1>6 DEF vars, store, Tick, Restart, Fail
<1>7. CASE \E w \in WorkspaceToken : \/ CreateWorkspaceToken(w)
                                     \/ RevokeWorkspaceToken(w)
                                     \/ LoseWorkspaceToken(w)
    BY <1>1, <1>7 DEF CreateWorkspaceToken, RevokeWorkspaceToken,
        LoseWorkspaceToken, MoveParent
<1> QED
    BY <1>2, <1>3, <1>4, <1>5, <1>6, <1>7 DEF Next, Undisturbed, Arrive, Serve, Reads

(* The clock of a step. *)
LEMMA TimePasses ==
    ASSUME TypeOK, RequestsKnow, [Next]_vars
    PROVE  now' \in Nat /\ now <= now'
<1>1. now \in Nat /\ now' \in Nat
    BY NextTypeOK, TimesAssumption DEF TypeOK
<1>2. ASSUME NEW r \in Request, Arrive(r) \/ Serve(r) \/ Fail(r)
      PROVE  now' = now
    BY <1>2 DEF Arrive, Serve, Fail, PrepareIssue, BeginRefresh, BeginRevoke,
        BeginCheck, Present, PersistIssue, CheckDenylist, CheckRow,
        ResolveRefresh, Rotate, RotateConflict, CascadeList, CascadeApply,
        ApplyRevoke, CheckBearer, CheckLineage, Introspect, IntrospectRow,
        PublicCheck, ReadDenylist
<1>3. now' = now \/ now' = now + 1
    BY <1>2 DEF Next, Undisturbed, vars, Tick, Restart, CollectRow, MoveParent,
        CreateWorkspaceToken, RevokeWorkspaceToken, LoseWorkspaceToken
<1> QED
    BY <1>1, <1>3

LEMMA NextRetiredAccessIsDenied ==
    ASSUME TypeOK, RequestsKnow, RecordsAreIssued, RetiredAccessIsDenied,
           [Next]_vars
    PROVE  RetiredAccessIsDenied'
<1> SUFFICES ASSUME NEW t \in Token, IsIssued(t)', t[2] = "access",
                    row'[t] # "active", Unexpired(t)'
             PROVE  denied'[t] = Forever
    BY DEF RetiredAccessIsDenied
<1>1. CASE IsIssued(t)
    <2>1. Exp(t)' = Exp(t) /\ Exp(t) \in Nat
        BY <1>1, RevokedStays, ExpType DEF Exp
    <2>2. Unexpired(t)
        BY <2>1, TimePasses, TimesAssumption DEF Unexpired, TypeOK
    <2>3. row[t] # "active" => denied[t] = Forever
        BY <1>1, <2>2 DEF RetiredAccessIsDenied
    <2>4. row[t] # "active" => Prune[t] = Forever
        BY <2>3, TimesAssumption DEF Prune, TypeOK
    <2>5. AccessKept(t) => denied'[t] = Forever
        BY <2>3, <2>4 DEF AccessKept
    <2>6. ~CollectRow(t)
        BY <2>1, <2>2, TimesAssumption DEF CollectRow, Unexpired, TypeOK
    <2> QED
        BY <1>1, <2>5, <2>6, AccessSteps
<1>2. CASE ~IsIssued(t)
    <2>1. ~OnlyRetires
        BY <1>2 DEF OnlyRetires, IsIssued, Issued
    <2>2. PICK r \in Request : PersistIssue(r) \/ Rotate(r)
        BY <2>1, StoreSteps
    <2>3. PICK p \in Pair :
            /\ Issues(r, p)
            /\ \/ row' = InsertRows(p, draft[r])
               \/ /\ row' = [InsertRows(p, draft[r]) EXCEPT ![arg[r]] = "revoked"]
                  /\ Rotate(r)
        BY <2>2, IssuingSteps
    <2>4. t[1] = p
        BY <1>2, <2>3, IssuedGrows DEF IsIssued
    <2>5. Rotate(r) => t # arg[r]
        BY DEF Rotate, RequestsKnow, RequestKnows, RefreshSteps
    <2>6. t = <<p, "access">>
        BY <2>4 DEF Token
    <2>7. row'[t] = "active"
        BY <2>3, <2>5, <2>6 DEF InsertRows
    <2> QED
        BY <2>7
<1> QED
    BY <1>1, <1>2

LEMMA NextSessionHasOneOwner ==
    ASSUME TypeOK, RequestsKnow, FreshSession, SessionHasOneOwner, [Next]_vars
    PROVE  SessionHasOneOwner'
<1>1. ASSUME NEW p \in Issued', NEW q \in Issued', claims'[p].sid = claims'[q].sid
      PROVE  claims'[p].sub = claims'[q].sub
    <2>1. CASE OnlyRetires
        BY <1>1, <2>1 DEF OnlyRetires, Issued, SessionHasOneOwner
    <2>2. ASSUME NEW r \in Request, PersistIssue(r) \/ Rotate(r)
          PROVE  claims'[p].sub = claims'[q].sub
        <3>1. PICK n \in Pair : Issues(r, n)
            BY <2>2, IssuingSteps
        <3>2. /\ Issued' = Issued \cup {n} /\ claims'[n] = draft[r]
              /\ \A o \in Issued : claims'[o] = claims[o]
            BY <3>1, IssuedGrows
        <3>3. ASSUME NEW o \in Issued, claims[o].sid = draft[r].sid
              PROVE  claims[o].sub = draft[r].sub
            <4>1. CASE PersistIssue(r)
                BY <3>3, <4>1 DEF PersistIssue, FreshSession
            <4>2. CASE Rotate(r)
                <5>1. /\ arg[r][1] \in Issued
                      /\ draft[r].sid = claims[arg[r][1]].sid
                      /\ draft[r].sub = claims[arg[r][1]].sub
                    BY <4>2, KnownToken DEF Rotate, RefreshSteps, RequestsKnow,
                        RequestKnows, ClaimsOf, SessionHasOneOwner
                <5> QED
                    BY <3>3, <5>1 DEF SessionHasOneOwner
            <4> QED
                BY <2>2, <4>1, <4>2
        <3> QED
            BY <1>1, <3>2, <3>3 DEF SessionHasOneOwner
    <2> QED
        BY <2>1, <2>2, StoreSteps
<1>2. ASSUME NEW q \in Request, pc'[q] = "rotate"
      PROVE  draft'[q].sub = ClaimsOf(arg[q])'.sub
    <2>1. CASE pc[q] = "rotate" /\ draft'[q] = draft[q] /\ arg'[q] = arg[q]
        <3>1. arg[q][1] \in Issued
            BY <2>1, KnownToken DEF RefreshSteps
        <3>2. claims'[arg[q][1]] = claims[arg[q][1]]
            BY <3>1, NextClaimsKept DEF ClaimsKept
        <3> QED
            BY <2>1, <3>2 DEF SessionHasOneOwner, ClaimsOf
    <2>2. CASE UNCHANGED <<local, loop>>
        BY <1>2, <2>1, <2>2 DEF local
    <2>3. CASE Restart
        BY <1>2, <2>3 DEF Restart
    <2>4. ASSUME NEW r \in Request, Acts(r), OthersKept(r), r # q
          PROVE  pc[q] = "rotate" /\ draft'[q] = draft[q] /\ arg'[q] = arg[q]
        BY <1>2, <2>4 DEF OthersKept
    <2>5. CASE Acts(q)
        <3>1. CASE GoesSigning(q)
            <4>1. arg'[q] = arg[q] /\ draft'[q].sub = ClaimsOf(arg[q]).sub
                BY <3>1 DEF GoesSigning, TypeOK
            <4>2. arg[q][1] \in Issued
                BY <3>1, KnownToken DEF GoesSigning, RefreshSteps
            <4>3. claims'[arg[q][1]] = claims[arg[q][1]]
                BY <4>2, NextClaimsKept DEF ClaimsKept
            <4> QED
                BY <4>1, <4>3 DEF ClaimsOf
        <3>2. CASE PrepareIssue(q)
            <4>1. Goto(q, "persist", FALSE)
                BY <3>2 DEF PrepareIssue
            <4>2. pc'[q] = "persist"
                BY <4>1, GotoKeeps
            <4> QED
                BY <1>2, <4>2
        <3>3. CASE BeginRefresh(q) \/ BeginRevoke(q) \/ BeginCheck(q) \/ CascadeList(q)
                   \/ Proceeds(q)
            <4>1. \E s \in {"denylist", "revoke", "bearer", "introspect", "public",
                            "apply", "row", "resolve", "list", "lineage", "stored"} :
                        Goto(q, s, TRUE)
                BY <3>3 DEF BeginRefresh, BeginRevoke, BeginCheck, Present,
                    CascadeList, Proceeds
            <4> QED
                BY <1>2, <4>1, GotoLeads
        <3>4. CASE \E v \in Verdict : Respond(q, v)
            BY <1>2, <3>4, RespondKeeps
        <3> QED
            BY <2>5, <3>1, <3>2, <3>3, <3>4, ActionShapes
    <2> QED
        BY <2>1, <2>2, <2>3, <2>4, <2>5, LoopSteps
<1> QED
    BY <1>1, <1>2 DEF SessionHasOneOwner

(* What a step does to the sessions a request is about to close. *)
LEMMA ClosingSteps ==
    ASSUME TypeOK, [Next]_vars, NEW q \in Request
    PROVE  \/ closing'[q] = {} /\ pc'[q] # "apply"
           \/ /\ UNCHANGED <<pc[q], arg[q], targets[q], closing[q]>>
           \/ /\ closing'[q] = closing[q] /\ pc'[q] # "apply"
              /\ pc[q] \notin {"apply", "revoke"}
           \/ BeginRevoke(q)
           \/ CascadeList(q)
<1>1. CASE UNCHANGED <<local, loop>>
    BY <1>1 DEF local
<1>2. CASE Restart
    BY <1>2 DEF Restart
<1>3. ASSUME NEW r \in Request, Acts(r), OthersKept(r), r # q
      PROVE  UNCHANGED <<pc[q], arg[q], targets[q], closing[q]>>
    BY <1>3 DEF OthersKept
<1>4. CASE Acts(q)
    <2>1. CASE PrepareIssue(q)
        <3>1. closing' = closing /\ pc[q] = "idle" /\ Goto(q, "persist", FALSE)
            BY <2>1 DEF PrepareIssue
        <3>2. pc'[q] = "persist"
            BY <3>1, GotoKeeps
        <3> QED
            BY <3>1, <3>2
    <2>2. CASE GoesSigning(q)
        <3>1. closing' = closing /\ pc[q] = "resolve" /\ Goto(q, "rotate", FALSE)
            BY <2>2 DEF GoesSigning
        <3>2. pc'[q] = "rotate"
            BY <3>1, GotoKeeps
        <3> QED
            BY <3>1, <3>2
    <2>3. CASE BeginRefresh(q) \/ BeginCheck(q) \/ Proceeds(q)
        <3>1. PICK s \in {"denylist", "bearer", "introspect", "public",
                          "row", "resolve", "list", "lineage", "stored"} :
                    Goto(q, s, TRUE)
            BY <2>3 DEF BeginRefresh, BeginCheck, Present, Proceeds
        <3>2. closing' = closing /\ pc[q] \notin {"apply", "revoke"}
            BY <2>3 DEF BeginRefresh, BeginCheck, Present, Proceeds
        <3> QED
            BY <3>1, <3>2, GotoLeads
    <2>4. CASE \E v \in Verdict : Respond(q, v)
        BY <2>4, RespondLeaves
    <2> QED
        BY <1>4, <2>1, <2>2, <2>3, <2>4, ActionShapes
<1> QED
    BY <1>1, <1>2, <1>3, <1>4, LoopSteps

LEMMA KilledSteps ==
    ASSUME TypeOK, [Next]_vars
    PROVE  \/ UNCHANGED killed
           \/ \E r \in Request :
                /\ CascadeApply(r) \/ ApplyRevoke(r)
                /\ killed' = killed \cup closing[r]
<1>1. ASSUME NEW r \in Request, Arrive(r) \/ Serve(r) \/ Fail(r),
             ~CascadeApply(r), ~ApplyRevoke(r)
      PROVE  UNCHANGED killed
    BY <1>1 DEF Arrive, Serve, Fail, PrepareIssue, BeginRefresh, BeginRevoke,
        BeginCheck, Present, PersistIssue, CheckDenylist, CheckRow,
        ResolveRefresh, Rotate, RotateConflict, CascadeList, CheckBearer,
        CheckLineage, Introspect, IntrospectRow, PublicCheck, ReadDenylist, ghost
<1>2. ASSUME NEW r \in Request, CascadeApply(r) \/ ApplyRevoke(r)
      PROVE  killed' = killed \cup closing[r]
    BY <1>2 DEF CascadeApply, ApplyRevoke
<1>3. CASE UNCHANGED vars \/ Tick \/ Restart \/ \E t \in Token : CollectRow(t)
    BY <1>3 DEF vars, Tick, Restart, CollectRow, ghost
<1>4. CASE \E w \in WorkspaceToken : \/ CreateWorkspaceToken(w)
                                     \/ RevokeWorkspaceToken(w)
                                     \/ LoseWorkspaceToken(w)
    BY <1>4 DEF CreateWorkspaceToken, RevokeWorkspaceToken,
        LoseWorkspaceToken, MoveParent, ghost
<1> QED
    BY <1>1, <1>2, <1>3, <1>4 DEF Next, Undisturbed

LEMMA NextClosedSessionsBegan ==
    ASSUME TypeOK, RequestsKnow, ClosedSessionsBegan, [Next]_vars
    PROVE  ClosedSessionsBegan'
<1> DEFINE Begun == {claims[p].sid : p \in Issued}
<1>1. Begun \subseteq Begun'
    BY NextClaimsKept DEF ClaimsKept
<1>2. killed' \subseteq Begun'
    BY <1>1, KilledSteps DEF ClosedSessionsBegan
<1>3. ASSUME NEW q \in Request
      PROVE  closing'[q] \subseteq Begun
    <2>1. CASE BeginRevoke(q)
        <3>1. PICK S, C : Aim(q, S, C) /\ C \subseteq Begun
            <4>1. CASE \E t \in Token : Aim(q, {t}, {})
                BY <4>1
            <4>2. CASE \E s \in Session : Aim(q, ActiveIn(PeerSet(s)), {s})
                <5>1. PICK s \in Session : Aim(q, ActiveIn(PeerSet(s)), {s})
                    BY <4>2
                <5>2. \E t \in Token : IsIssued(t) /\ ClaimsOf(t).sid = s
                    BY <5>1 DEF Aim, ActiveIn, PeerSet
                <5>3. s \in Begun
                    BY <5>2 DEF IsIssued, ClaimsOf
                <5> QED
                    BY <5>1, <5>3
            <4>3. CASE \E i \in Subject :
                        Aim(q, ActiveIn(OwnedBy(i)), SessionsOf(ActiveIn(OwnedBy(i))))
                BY <4>3 DEF SessionsOf, ActiveIn, OwnedBy, IsIssued, ClaimsOf
            <4> QED
                BY <2>1, <4>1, <4>2, <4>3 DEF BeginRevoke
        <3> QED
            BY <3>1 DEF Aim, TypeOK
    <2>2. CASE CascadeList(q)
        <3>1. arg[q][1] \in Issued
            BY <2>2, KnownToken DEF CascadeList, RefreshSteps
        <3> QED
            BY <2>2, <3>1 DEF CascadeList, ClaimsOf, TypeOK
    <2>3. CASE closing'[q] \in {{}, closing[q]}
        BY <2>3 DEF ClosedSessionsBegan
    <2> QED
        BY <2>1, <2>2, <2>3, ClosingSteps
<1> QED
    BY <1>1, <1>2, <1>3 DEF ClosedSessionsBegan

(* In a turn, nobody else gives a session a new token. *)
LEMMA NoNewTokens ==
    ASSUME TypeOK, TurnBased, TurnIsKept, [Next]_vars,
           NEW q \in Request, pc[q] \notin Between
    PROVE  OnlyRetires
<1>1. ASSUME NEW r \in Request, PersistIssue(r) \/ Rotate(r)
      PROVE  FALSE
    <2>1. Turn(r) /\ pc[r] \in {"persist", "rotate"}
        BY <1>1 DEF PersistIssue, Rotate
    <2> QED
        BY <2>1, TurnIsExclusive DEF Between
<1> QED
    BY <1>1, StoreSteps

LEMMA NextTargetsCoverClosing ==
    ASSUME TypeOK, RequestsKnow, SessionHasOneOwner, TurnIsKept,
           TargetsCoverClosing, [Next]_vars
    PROVE  TargetsCoverClosing'
<1>1. ASSUME TurnBased, NEW q \in Request, NEW t \in Token,
             IsIssued(t)', ClaimsOf(t)'.sid \in closing'[q], row'[t] = "active"
      PROVE  t \in targets'[q]
    <2>1. CASE UNCHANGED <<pc[q], arg[q], targets[q], closing[q]>>
        <3>1. OnlyRetires
            BY <1>1, <2>1, NoNewTokens DEF TargetsCoverClosing, Between
        <3>2. IsIssued(t) /\ ClaimsOf(t)' = ClaimsOf(t)
            BY <1>1, <3>1 DEF OnlyRetires, IsIssued, ClaimsOf, Issued
        <3>3. row[t] = "active"
            BY <1>1, <3>1 DEF OnlyRetires
        <3> QED
            BY <1>1, <2>1, <3>2, <3>3 DEF TargetsCoverClosing
    <2>2. CASE closing'[q] = closing[q] /\ pc[q] \notin {"apply", "revoke"}
        BY <1>1, <2>2 DEF TargetsCoverClosing
    <2>3. CASE BeginRevoke(q) \/ CascadeList(q)
        <3>1. UNCHANGED <<claims, row>>
            BY <2>3 DEF BeginRevoke, CascadeList, store
        <3>2. /\ IsIssued(t) /\ ClaimsOf(t)' = ClaimsOf(t)
              /\ row[t] = "active"
            BY <1>1, <3>1 DEF IsIssued, ClaimsOf, Issued
        <3>3. CASE CascadeList(q)
            <4>1. closing'[q] = {ClaimsOf(arg[q]).sid}
                BY <3>3 DEF CascadeList, TypeOK
            <4>2. ActiveIn(PeerSet(ClaimsOf(arg[q]).sid)) \subseteq targets'[q]
                BY <3>3 DEF CascadeList, TypeOK, ActiveIn, PeerSet
            <4> QED
                BY <1>1, <3>2, <4>1, <4>2 DEF ActiveIn, PeerSet
        <3>4. CASE BeginRevoke(q)
            <4>1. ASSUME NEW S, NEW C, Aim(q, S, C)
                  PROVE  targets'[q] = S /\ closing'[q] = C
                BY <4>1 DEF Aim, TypeOK
            <4>2. CASE \E u \in Token : Aim(q, {u}, {})
                BY <1>1, <4>1, <4>2
            <4>3. CASE \E s \in Session : Aim(q, ActiveIn(PeerSet(s)), {s})
                <5>1. PICK s \in Session : /\ targets'[q] = ActiveIn(PeerSet(s))
                                           /\ closing'[q] = {s}
                    BY <4>1, <4>3
                <5> QED
                    BY <1>1, <3>2, <5>1 DEF ActiveIn, PeerSet
            <4>4. CASE \E i \in Subject :
                        Aim(q, ActiveIn(OwnedBy(i)), SessionsOf(ActiveIn(OwnedBy(i))))
                <5>1. PICK i \in Subject :
                        /\ targets'[q] = ActiveIn(OwnedBy(i))
                        /\ closing'[q] = SessionsOf(ActiveIn(OwnedBy(i)))
                    BY <4>1, <4>4
                <5>2. PICK u \in Token : /\ IsIssued(u) /\ ClaimsOf(u).sub = i
                                         /\ ClaimsOf(u).sid = ClaimsOf(t).sid
                    BY <1>1, <3>2, <5>1 DEF SessionsOf, ActiveIn, OwnedBy
                <5>3. ClaimsOf(t).sub = i
                    BY <3>2, <5>2 DEF SessionHasOneOwner, IsIssued, ClaimsOf
                <5> QED
                    BY <3>2, <5>1, <5>3 DEF ActiveIn, OwnedBy
            <4> QED
                BY <3>4, <4>2, <4>3, <4>4 DEF BeginRevoke
        <3> QED
            BY <2>3, <3>3, <3>4
    <2> QED
        BY <1>1, <2>1, <2>2, <2>3, ClosingSteps
<1>2. ASSUME NEW q \in Request
      PROVE  /\ closing'[q] # {} => pc'[q] \in {"apply", "revoke"}
             /\ pc'[q] = "apply" => ClaimsOf(arg[q])'.sid \in closing'[q]
    <2>1. CASE UNCHANGED <<pc[q], arg[q], targets[q], closing[q]>>
        <3>1. pc[q] = "apply" => ClaimsOf(arg[q])' = ClaimsOf(arg[q])
            <4>1. pc[q] = "apply" => arg[q][1] \in Issued
                BY KnownToken DEF RefreshSteps
            <4> QED
                BY <2>1, <4>1, NextClaimsKept DEF ClaimsKept, ClaimsOf
        <3> QED
            BY <2>1, <3>1 DEF TargetsCoverClosing
    <2>2. CASE closing'[q] = closing[q] /\ pc'[q] # "apply"
               /\ pc[q] \notin {"apply", "revoke"}
        BY <2>2 DEF TargetsCoverClosing
    <2>3. CASE BeginRevoke(q)
        <3>1. Goto(q, "revoke", TRUE)
            BY <2>3 DEF BeginRevoke
        <3>2. pc'[q] = "revoke"
            BY <3>1, GotoLeads
        <3> QED
            BY <3>2
    <2>4. CASE CascadeList(q)
        <3>1. /\ Goto(q, "apply", TRUE) /\ UNCHANGED <<claims, arg>>
              /\ closing'[q] = {ClaimsOf(arg[q]).sid}
            BY <2>4 DEF CascadeList, store, TypeOK
        <3>2. pc'[q] = "apply" /\ ClaimsOf(arg[q])' = ClaimsOf(arg[q])
            BY <3>1, GotoLeads DEF ClaimsOf
        <3> QED
            BY <3>1, <3>2
    <2> QED
        BY <2>1, <2>2, <2>3, <2>4, ClosingSteps
<1> QED
    BY <1>1, <1>2 DEF TargetsCoverClosing

LEMMA NextKilledSessionStaysDead ==
    ASSUME TurnBased, IInv, RetiredAccessIsDenied', ClosedSessionsBegan,
           TargetsCoverClosing, KilledSessionStaysDead, [Next]_vars
    PROVE  KilledSessionStaysDead'
<1> USE DEF IInv, StoreInductive
<1> SUFFICES ASSUME NEW t \in Token, IsIssued(t)', ClaimsOf(t)'.sid \in killed',
                    row'[t] = "active"
             PROVE  FALSE
    BY DEF KilledSessionStaysDead, RetiredAccessIsDenied
<1>1. CASE OnlyRetires
    <2>1. IsIssued(t) /\ ClaimsOf(t)' = ClaimsOf(t) /\ row[t] = "active"
        BY <1>1 DEF OnlyRetires, IsIssued, ClaimsOf, Issued
    <2>2. ClaimsOf(t).sid \notin killed
        BY <2>1 DEF KilledSessionStaysDead
    <2>3. PICK r \in Request : /\ CascadeApply(r) \/ ApplyRevoke(r)
                               /\ ClaimsOf(t).sid \in closing[r]
        BY <2>1, <2>2, KilledSteps
    <2>4. t \in targets[r]
        BY <2>1, <2>3 DEF TargetsCoverClosing
    <2> QED
        BY <2>3, <2>4 DEF CascadeApply, ApplyRevoke, FlipRows
<1>2. ASSUME NEW r \in Request, PersistIssue(r) \/ Rotate(r)
      PROVE  FALSE
    <2>1. PICK p \in Pair : Issues(r, p)
        BY <1>2, IssuingSteps
    <2>2. /\ Issued' = Issued \cup {p} /\ claims'[p] = draft[r]
          /\ \A o \in Issued : claims'[o] = claims[o]
        BY <2>1, IssuedGrows
    <2>3. killed' = killed
        BY <1>2 DEF PersistIssue, Rotate, ghost
    <2>4. CASE t[1] = p
        <3>1. draft[r].sid \in killed
            BY <2>2, <2>3, <2>4 DEF ClaimsOf
        <3>2. CASE PersistIssue(r)
            BY <3>1, <3>2 DEF PersistIssue, FreshSession, ClosedSessionsBegan
        <3>3. CASE Rotate(r)
            <4>1. /\ arg[r] \in Token /\ IsIssued(arg[r])
                  /\ draft[r].sid = ClaimsOf(arg[r]).sid
                BY <3>3, KnownToken
                DEF Rotate, RefreshSteps, RequestsKnow, RequestKnows
            <4> QED
                BY <3>1, <3>3, <4>1 DEF Rotate, KilledSessionStaysDead
        <3> QED
            BY <1>2, <3>2, <3>3
    <2>5. CASE t[1] # p
        <3>1. IsIssued(t) /\ ClaimsOf(t)' = ClaimsOf(t)
            BY <2>2, <2>5 DEF IsIssued, ClaimsOf
        <3>2. row[t] = "active"
            BY <2>1, <2>5 DEF Issues
        <3> QED
            BY <2>3, <3>1, <3>2 DEF KilledSessionStaysDead
    <2> QED
        BY <2>4, <2>5
<1> QED
    BY <1>1, <1>2, StoreSteps

-----------------------------------------------------------------------------
(***************************************************************************)
(* Reuse of a refresh token.                                               *)
(***************************************************************************)

LEMMA DeniedSteps ==
    ASSUME TypeOK, RequestsKnow, [Next]_vars, NEW t \in Token
    PROVE  \/ denied'[t] \in {denied[t], Prune[t], Forever}
           \/ \E r \in Request : Rotate(r) /\ t = arg[r] /\ denied'[t] = Exp(t)
<1>1. CASE UNCHANGED denied
    BY <1>1
<1>2. ASSUME NEW r \in Request, Reads(r)
      PROVE  denied'[t] \in {denied[t], Prune[t]}
    BY <1>2, ReadsStore
<1>3. ASSUME NEW r \in Request, CascadeApply(r) \/ ApplyRevoke(r)
      PROVE  denied'[t] \in {Prune[t], Forever}
    BY <1>3 DEF CascadeApply, ApplyRevoke, DenyForever
<1>4. ASSUME NEW r \in Request, Rotate(r)
      PROVE  denied'[t] = IF t = arg[r] THEN Exp(t) ELSE denied[t]
    BY <1>4 DEF Rotate, TypeOK
<1>5. CASE \/ UNCHANGED vars \/ Tick \/ Restart
           \/ \E u \in Token : CollectRow(u)
           \/ \E r \in Request : Fail(r) \/ PersistIssue(r)
    BY <1>1, <1>5 DEF vars, store, Tick, Restart, CollectRow, Fail, PersistIssue
<1>6. CASE \E w \in WorkspaceToken : \/ CreateWorkspaceToken(w)
                                     \/ RevokeWorkspaceToken(w)
                                     \/ LoseWorkspaceToken(w)
    BY <1>1, <1>6 DEF CreateWorkspaceToken, RevokeWorkspaceToken,
        LoseWorkspaceToken, MoveParent
<1> QED
    BY <1>2, <1>3, <1>4, <1>5, <1>6 DEF Next, Undisturbed, Arrive, Serve, Reads

(* Only the denylist lets a refresh on. *)
LEMMA ClearedSteps ==
    ASSUME TypeOK, [Next]_vars, NEW q \in Request, pc'[q] \in {"row", "resolve"}
    PROVE  /\ arg'[q] = arg[q]
           /\ \/ pc[q] \in {"row", "resolve"}
              \/ CheckDenylist(q) /\ ~IsRevoked(arg[q])
<1>1. CASE UNCHANGED <<local, loop>>
    BY <1>1 DEF local
<1>2. CASE Restart
    BY <1>2 DEF Restart
<1>3. ASSUME NEW r \in Request, Acts(r), OthersKept(r), r # q
      PROVE  pc[q] \in {"row", "resolve"} /\ arg'[q] = arg[q]
    BY <1>3 DEF OthersKept
<1>4. CASE Acts(q)
    <2>1. ASSUME NEW s \in {"denylist", "revoke", "bearer", "introspect", "public",
                            "apply", "list", "lineage", "stored"},
                 Goto(q, s, TRUE)
          PROVE  FALSE
        BY <2>1, GotoLeads
    <2>2. ASSUME NEW s \in {"persist", "rotate"}, Goto(q, s, FALSE)
          PROVE  FALSE
        BY <2>2, GotoKeeps
    <2>3. ASSUME NEW v, Respond(q, v)
          PROVE  FALSE
        BY <2>3, RespondKeeps
    <2>4. CASE Arrive(q)
        BY <2>1, <2>2, <2>4 DEF Arrive, PrepareIssue, BeginRefresh, BeginRevoke,
            BeginCheck, Present
    <2>5. CASE CheckDenylist(q)
        BY <2>1, <2>3, <2>5 DEF CheckDenylist
    <2>6. CASE CheckRow(q)
        BY <2>3, <2>6 DEF CheckRow
    <2>7. CASE ResolveRefresh(q)
        BY <2>2, <2>3, <2>7 DEF ResolveRefresh
    <2>8. CASE RotateConflict(q) \/ CascadeList(q) \/ CheckBearer(q) \/ Introspect(q)
        BY <2>1, <2>3, <2>8 DEF RotateConflict, CascadeList, CheckBearer,
            Introspect, ReadDenylist
    <2>9. CASE \/ PersistIssue(q) \/ Rotate(q) \/ CascadeApply(q) \/ ApplyRevoke(q)
               \/ Fail(q) \/ CheckLineage(q) \/ IntrospectRow(q) \/ PublicCheck(q)
        BY <2>3, <2>9 DEF PersistIssue, Rotate, CascadeApply, ApplyRevoke, Fail,
            CheckLineage, IntrospectRow, PublicCheck, ReadDenylist
    <2> QED
        BY <1>4, <2>4, <2>5, <2>6, <2>7, <2>8, <2>9 DEF Acts, Serve
<1> QED
    BY <1>1, <1>2, <1>3, <1>4, LoopSteps

LEMMA NextReuseIsNoticed ==
    ASSUME IInv, TurnIsKept, ReuseIsNoticed, [Next]_vars
    PROVE  ReuseIsNoticed'
<1> USE DEF IInv, StoreInductive
<1>0. now \in Nat /\ now' \in Nat /\ now <= now' /\ now < Forever /\ Forever \in Nat
    BY TimePasses, TimesAssumption DEF TypeOK
<1>1. ASSUME NEW t \in Token, Used(t)
      PROVE  Exp(t) \in Nat /\ Exp(t)' = Exp(t)
    <2>1. t[1] \in Issued
        BY <1>1, NamesAssumption DEF Used, Lineage, Token
    <2>2. claims'[t[1]] = claims[t[1]] /\ claims[t[1]] \in Claims
        BY <2>1, NextClaimsKept, IssuedType DEF ClaimsKept
    <2> QED
        BY <2>2 DEF Exp, ClaimsOf, Claims
<1>2. ASSUME NEW t \in Token, Used(t)', ~Used(t)
      PROVE  \E r \in Request : Rotate(r) /\ t = arg[r]
    <2>1. ~OnlyRetires
        BY <1>2 DEF OnlyRetires, Used, Issued
    <2>2. PICK r \in Request : PersistIssue(r) \/ Rotate(r)
        BY <2>1, StoreSteps
    <2>3. PICK p \in Pair : Issues(r, p)
        BY <2>2, IssuingSteps
    <2>4. draft[r].prev = t[1] /\ t[2] = "refresh"
        BY <1>2, <2>3, IssuedGrows DEF Used
    <2>5. t[1] \in Pair /\ t[1] # NoPair
        BY NamesAssumption DEF Token
    <2>6. Rotate(r)
        BY <2>2, <2>4, <2>5 DEF PersistIssue, RequestsKnow, RequestKnows
    <2>7. arg[r] \in Token /\ arg[r][2] = "refresh" /\ arg[r][1] = t[1]
        BY <2>4, <2>6, KnownToken DEF Rotate, RefreshSteps, RequestsKnow, RequestKnows
    <2>8. t = arg[r]
        BY <2>4, <2>7 DEF Token
    <2> QED
        BY <2>6, <2>8
<1>3. ASSUME NEW t \in Token, Used(t)'
      PROVE  denied'[t] >= Exp(t)' \/ denied'[t] = Forever \/ now' >= Exp(t)'
    <2>1. CASE Used(t) /\ denied'[t] \in {denied[t], Prune[t], Forever}
        <3>1. Exp(t) \in Nat /\ Exp(t)' = Exp(t) /\ denied[t] \in Nat
            BY <1>1, <2>1 DEF TypeOK
        <3>2. denied[t] >= Exp(t) \/ denied[t] = Forever \/ now >= Exp(t)
            BY <2>1 DEF ReuseIsNoticed
        <3>3. Prune[t] = IF denied[t] <= now THEN 0 ELSE denied[t]
            BY DEF Prune
        <3> QED
            BY <1>0, <2>1, <3>1, <3>2, <3>3
    <2>2. ASSUME NEW r \in Request, Rotate(r), t = arg[r]
          PROVE  denied'[t] = Exp(t) /\ Exp(t)' = Exp(t) /\ Exp(t) \in Nat
        <3>1. denied'[t] = Exp(t)
            BY <2>2 DEF Rotate, TypeOK
        <3>2. t[1] \in Issued /\ Exp(t) \in Nat
            BY <2>2, KnownToken DEF Rotate, RefreshSteps
        <3>3. claims'[t[1]] = claims[t[1]]
            BY <3>2, NextClaimsKept DEF ClaimsKept
        <3> QED
            BY <3>1, <3>2, <3>3 DEF Exp, ClaimsOf
    <2>3. CASE \E r \in Request : Rotate(r) /\ t = arg[r]
        BY <2>2, <2>3
    <2> QED
        BY <1>2, <1>3, <2>1, <2>3, DeniedSteps
<1>4. ASSUME TurnBased, NEW q \in Request, pc'[q] \in {"row", "resolve"},
             Used(arg[q])'
      PROVE  now' >= Exp(arg[q])'
    <2>1. /\ arg'[q] = arg[q]
          /\ \/ pc[q] \in {"row", "resolve"}
             \/ CheckDenylist(q) /\ ~IsRevoked(arg[q])
        BY <1>4, ClearedSteps
    <2>2. pc[q] \in {"row", "resolve", "denylist"}
        BY <2>1 DEF CheckDenylist
    <2>3. arg[q] \in Token
        BY <2>2, KnownToken DEF RefreshSteps
    <2>4. OnlyRetires
        BY <1>4, <2>2, NoNewTokens DEF Between
    <2>5. Used(arg[q])
        BY <1>4, <2>1, <2>4 DEF OnlyRetires, Used, Issued
    <2>6. Exp(arg[q]) \in Nat /\ Exp(arg[q])' = Exp(arg[q])
        BY <2>1, <2>3, <2>5, <1>1 DEF Exp, ClaimsOf
    <2>7. now >= Exp(arg[q])
        <3>1. CASE pc[q] \in {"row", "resolve"}
            BY <1>4, <2>5, <3>1 DEF ReuseIsNoticed
        <3>2. CASE ~IsRevoked(arg[q])
            <4>1. denied[arg[q]] \in Nat /\ denied[arg[q]] <= now
                BY <1>0, <2>3, <3>2 DEF IsRevoked, TypeOK
            <4>2. denied[arg[q]] >= Exp(arg[q]) \/ denied[arg[q]] = Forever
                    \/ now >= Exp(arg[q])
                BY <2>3, <2>5 DEF ReuseIsNoticed
            <4> QED
                BY <1>0, <2>6, <4>1, <4>2
        <3> QED
            BY <2>1, <3>1, <3>2
    <2> QED
        BY <1>0, <2>6, <2>7
<1> QED
    BY <1>3, <1>4 DEF ReuseIsNoticed

-----------------------------------------------------------------------------
(***************************************************************************)
(* The theorems.                                                           *)
(***************************************************************************)

RInv == IInv /\ RevocationInductive

LEMMA InitRevocation ==
    Init => RInv
<1> SUFFICES ASSUME Init PROVE RevocationInductive
    BY InitInductive DEF RInv
<1>1. Issued = {}
    BY DEF Init, Issued
<1>2. \A t : ~IsIssued(t) /\ ~Used(t)
    BY <1>1 DEF IsIssued, Used
<1>3. \A r \in Request : pc[r] = "idle" /\ closing[r] = {} /\ ~late[r]
    BY DEF Init
<1>4. killed = {}
    BY DEF Init
<1> QED
    BY <1>1, <1>2, <1>3, <1>4
    DEF RevocationInductive, TurnIsKept, LateIsStopped, RetiredAccessIsDenied,
        SessionHasOneOwner, ClosedSessionsBegan, TargetsCoverClosing,
        ReuseIsNoticed, KilledSessionStaysDead

LEMMA NextRevocation ==
    RInv /\ [Next]_vars => RInv'
<1> SUFFICES ASSUME RInv, [Next]_vars PROVE RInv'
    OBVIOUS
<1> USE DEF RInv, IInv, StoreInductive, RevocationInductive
<1>1. IInv'
    BY NextInductive
<1>2. TurnIsKept' /\ LateIsStopped' /\ RetiredAccessIsDenied' /\ SessionHasOneOwner'
      /\ ClosedSessionsBegan' /\ TargetsCoverClosing' /\ ReuseIsNoticed'
    BY NextTurnIsKept, NextLateIsStopped, NextRetiredAccessIsDenied,
        NextSessionHasOneOwner, NextClosedSessionsBegan,
        NextTargetsCoverClosing, NextReuseIsNoticed
<1>3. TurnBased => KilledSessionStaysDead'
    BY <1>2, NextKilledSessionStaysDead
<1> QED
    BY <1>1, <1>2, <1>3

LEMMA RevocationInvariantHolds == Spec => []RInv
<1>1. Init => RInv
    BY InitRevocation
<1>2. RInv /\ [Next]_vars => RInv'
    BY NextRevocation
<1> QED
    BY <1>1, <1>2, PTL DEF Spec

(* The whole inductive invariant holds in every reachable state of         *)
(* tokens.ts: lineage and single use of pairs, who has been looked at,     *)
(* what has been denied, which tokens a revocation under way covers.       *)
THEOREM InductiveInvariant == Spec => []Inductive
<1>1. RInv => Inductive
    BY DEF RInv, IInv, Inductive
<1> QED
    BY <1>1, RevocationInvariantHolds, PTL

(* In the shipped build, where a turn of the event loop is not             *)
(* interrupted, a session revoked as a whole has no usable token again,    *)
(* whatever was being signed for it (revokeIdentityTokensWithAudit).       *)
THEOREM KilledSessionsStayDead ==
    ASSUME TurnBased
    PROVE  Spec => []KilledSessionStaysDead
<1>1. RInv => KilledSessionStaysDead
    BY DEF RInv, RevocationInductive
<1> QED
    BY <1>1, RevocationInvariantHolds, PTL

(* An answer is the response of the request that has just acted. *)
LEMMA Answers ==
    ASSUME TypeOK, Next
    PROVE  \/ answer' = [to |-> NoRequest, says |-> "none"]
           \/ \E r \in Request : Acts(r) /\ answer'.to = r
<1>1. ASSUME NEW r \in Request, Acts(r)
      PROVE  answer' = [to |-> NoRequest, says |-> "none"] \/ answer'.to = r
    <2>1. CASE PrepareIssue(r) \/ BeginRefresh(r) \/ BeginRevoke(r) \/ BeginCheck(r)
               \/ CascadeList(r) \/ Proceeds(r) \/ GoesSigning(r)
        BY <2>1 DEF PrepareIssue, BeginRefresh, BeginRevoke, BeginCheck, Present,
            CascadeList, Proceeds, GoesSigning, Goto, Silent
    <2>2. CASE \E v \in Verdict : Respond(r, v)
        BY <2>2 DEF Respond
    <2> QED
        BY <1>1, <2>1, <2>2, ActionShapes
<1>2. CASE \/ Tick \/ Restart
           \/ \E t \in Token : CollectRow(t)
           \/ \E w \in WorkspaceToken : \/ CreateWorkspaceToken(w)
                                        \/ RevokeWorkspaceToken(w)
                                        \/ LoseWorkspaceToken(w)
    BY <1>2 DEF Tick, Restart, CollectRow, CreateWorkspaceToken,
        RevokeWorkspaceToken, LoseWorkspaceToken, MoveParent, Silent
<1> QED
    BY <1>1, <1>2 DEF Next, Undisturbed, Acts

(* Which action gave the answer. *)
LEMMA AnsweringActions ==
    ASSUME TypeOK, NEW r \in Request, Acts(r), answer'.to = r
    PROVE  \/ PersistIssue(r) /\ answer'.says = "issued"
           \/ /\ CheckDenylist(r) /\ answer'.says = "reused"
              /\ ClaimsOf(arg[r]).sub \notin StoredSubject
           \/ (CheckRow(r) \/ ResolveRefresh(r)) /\ answer'.says = "refused"
           \/ Rotate(r) /\ answer'.says = "rotated"
           \/ CascadeApply(r) /\ answer'.says = "reused"
           \/ ApplyRevoke(r) /\ answer'.says = "revoked"
           \/ (CheckBearer(r) \/ Introspect(r)) /\ answer'.says = "refused"
           \/ CheckLineage(r) \/ IntrospectRow(r) \/ PublicCheck(r)
           \/ Fail(r) /\ answer'.says = "error"
<1>1. ASSUME NEW s, Goto(r, s, TRUE) \/ Goto(r, s, FALSE)
      PROVE  FALSE
    BY <1>1, NamesAssumption DEF Goto, Silent
<1>2. ASSUME NEW v, Respond(r, v)
      PROVE  answer'.says = v
    BY <1>2 DEF Respond
<1>3. CASE Arrive(r) \/ RotateConflict(r) \/ CascadeList(r)
    BY <1>1, <1>3 DEF Arrive, PrepareIssue, BeginRefresh, BeginRevoke, BeginCheck,
        Present, RotateConflict, CascadeList
<1>4. CASE CheckDenylist(r) \/ CheckBearer(r) \/ Introspect(r)
    BY <1>1, <1>2, <1>4 DEF CheckDenylist, CheckBearer, Introspect, ReadDenylist
<1>5. CASE CheckRow(r)
    BY <1>1, <1>2, <1>5 DEF CheckRow
<1>6. CASE ResolveRefresh(r)
    <2>1. CASE Respond(r, "refused")
        BY <1>2, <1>6, <2>1
    <2>2. CASE Goto(r, "rotate", FALSE)
        BY <1>1, <2>2
    <2> QED
        BY <1>6, <2>1, <2>2 DEF ResolveRefresh
<1>7. CASE PersistIssue(r) \/ Rotate(r) \/ CascadeApply(r) \/ ApplyRevoke(r) \/ Fail(r)
    BY <1>2, <1>7 DEF PersistIssue, Rotate, CascadeApply, ApplyRevoke, Fail
<1> QED
    BY <1>3, <1>4, <1>5, <1>6, <1>7 DEF Acts, Serve

LEMMA LateAnswer ==
    ASSUME RInv, NEW r \in Request, Acts(r), answer'.to = r, late[r],
           answer'.says \in {"active", "rotated"}
    PROVE  pc[r] = "public" /\ ClaimsOf(arg[r]).ws # NoWorkspace
<1> USE DEF RInv, IInv, StoreInductive, RevocationInductive
<1>1. /\ pc[r] # "rotate"
      /\ RevokedBefore(arg[r])
      /\ pc[r] \in {"lineage", "stored"} =>
            /\ ClaimsOf(arg[r]).ws # NoWorkspace
            /\ parent[ClaimsOf(arg[r]).ws] = "revoked"
    BY DEF LateIsStopped, RefreshSteps, CheckSteps
<1>2. ~Rotate(r)
    BY <1>1 DEF Rotate
<1>3. CASE CheckLineage(r)
    <2>1. Respond(r, "refused")
        BY <1>1, <1>3 DEF CheckLineage, LineageRevoked
    <2> QED
        BY <2>1 DEF Respond
<1>4. CASE IntrospectRow(r)
    <2>1. Respond(r, "refused")
        BY <1>1, <1>4 DEF IntrospectRow, ParentRevoked
    <2> QED
        BY <2>1 DEF Respond
<1>5. CASE PublicCheck(r)
    <2>1. pc[r] = "public"
        BY <1>5 DEF PublicCheck
    <2>2. arg[r] \in Token
        BY <2>1, KnownToken DEF CheckSteps
    <2>3. ~IsRevoked(arg[r])
        <3>1. ~Respond(r, "refused")
            BY DEF Respond
        <3> QED
            BY <1>5, <3>1 DEF PublicCheck, ReadDenylist
    <2> QED
        BY <1>1, <2>1, <2>2, <2>3, UndeniedIsNotAcked DEF RevokedBefore
<1> QED
    BY <1>2, <1>3, <1>4, <1>5, AnsweringActions

LEMMA ReplayAnswer ==
    ASSUME TurnBased, RInv, NEW r \in Request, Acts(r), answer'.to = r,
           answer'.says # "error",
           pc[r] \in RefreshSteps, Used(arg[r]), now < Exp(arg[r]),
           ClaimsOf(arg[r]).sub \in StoredSubject
    PROVE  answer'.says = "reused" /\ ClaimsOf(arg[r]).sid \in killed'
<1> USE DEF RInv, IInv, StoreInductive, RevocationInductive
<1>1. arg[r] \in Token /\ Exp(arg[r]) \in Nat /\ now \in Nat
    BY KnownToken, TimesAssumption DEF TypeOK
<1>2. pc[r] \notin {"row", "resolve"}
    BY <1>1 DEF ReuseIsNoticed
<1>3. ~CheckRow(r) /\ ~ResolveRefresh(r)
    BY <1>2 DEF CheckRow, ResolveRefresh
<1>4. ~Rotate(r)
    <2>1. PICK q \in Issued : claims[q].prev = arg[r][1] /\ arg[r][2] = "refresh"
        BY DEF Used
    <2>2. arg[r] = <<claims[q].prev, "refresh">> /\ claims[q].prev # NoPair
        BY <1>1, <2>1, NamesAssumption DEF Token
    <2> QED
        BY <2>2 DEF Lineage, Rotate
<1>5. CASE CascadeApply(r) /\ answer'.says = "reused"
    BY <1>5 DEF CascadeApply, TargetsCoverClosing
<1>6. ~ \/ PersistIssue(r) \/ ApplyRevoke(r) \/ CheckBearer(r) \/ Introspect(r)
        \/ CheckLineage(r) \/ IntrospectRow(r) \/ PublicCheck(r)
    BY DEF PersistIssue, ApplyRevoke, CheckBearer, Introspect, CheckLineage,
        IntrospectRow, PublicCheck, RefreshSteps
<1> QED
    BY <1>3, <1>4, <1>5, <1>6, AnsweringActions

(* However requests interleave, one that arrives after its token was       *)
(* revoked is neither let in, nor reported active, nor given a new pair    *)
(* (isBearerTokenInactive, GET introspect, POST refresh).                  *)
THEOREM LateRequestsFail == Spec => NoLateSuccess
<1> DEFINE Late == answer'.says \in {"active", "rotated"} =>
                        LET r == answer'.to IN
                        late[r] => pc[r] = "public" /\ ClaimsOf(arg[r]).ws # NoWorkspace
<1>1. RInv /\ [Next]_vars => [Late]_vars
    <2> SUFFICES ASSUME RInv, Next PROVE Late
        OBVIOUS
    <2> QED
        BY Answers, LateAnswer DEF RInv, IInv
<1> QED
    BY <1>1, RevocationInvariantHolds, PTL DEF Spec, NoLateSuccess

(* In the shipped build, whoever presents an exchanged refresh token of a  *)
(* stored identity before it expires gets no pair, and the session is dead *)
(* when the answer is sent (refresh_token_not_active, cascadeRevokeSession). *)
THEOREM ReplayIsFatal ==
    ASSUME TurnBased
    PROVE  Spec => ReplayKillsSession
<1> DEFINE Replay == \A r \in Request :
            /\ answer'.to = r /\ answer'.says # "error"
            /\ pc[r] \in RefreshSteps
            /\ Used(arg[r]) /\ now < Exp(arg[r])
            /\ ClaimsOf(arg[r]).sub \in StoredSubject
            => answer'.says = "reused" /\ ClaimsOf(arg[r]).sid \in killed'
<1>1. RInv /\ [Next]_vars => [Replay]_vars
    <2> SUFFICES ASSUME RInv, Next PROVE Replay
        OBVIOUS
    <2> QED
        BY Answers, ReplayAnswer, NamesAssumption DEF RInv, IInv
<1> QED
    BY <1>1, RevocationInvariantHolds, PTL DEF Spec, ReplayKillsSession

=============================================================================
