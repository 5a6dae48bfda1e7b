----------------------- MODULE TokenLifecycle_proofs -----------------------
(***************************************************************************)
(* Proofs, for every value of the constants, about TokenLifecycle.         *)
(***************************************************************************)
EXTENDS TokenLifecycle, TLAPS

(* What the definitions of the claims of a new pair and of the pruned      *)
(* denylist yield.                                                         *)
LEMMA NewClaimsType ==
    ASSUME TypeOK, NEW s \in Session, NEW i \in Subject, NEW c \in Class,
           NEW w \in WorkspaceToken \cup {NoWorkspace}, NEW h \in Nat,
           NEW p \in Pair \cup {NoPair}
    PROVE  /\ NewClaims(s, i, c, w, h, p) \in Claims
           /\ NewClaims(s, i, c, w, h, p).aexp <= h
           /\ NewClaims(s, i, c, w, h, p).rexp <= h
<1>1. now \in Nat
    BY TimesAssumption DEF TypeOK
<1>2. \A a \in Nat : Earlier(a, h) \in Nat /\ Earlier(a, h) <= h
    BY DEF Earlier
<1>3. now + (IF c = "durable" THEN DurableTTL ELSE AccessTTL) \in Nat
      /\ now + RefreshTTL \in Nat
    BY <1>1, TimesAssumption
<1> QED
    BY <1>2, <1>3 DEF NewClaims, Claims

LEMMA PruneType ==
    ASSUME TypeOK
    PROVE  Prune \in [Token -> Nat]
BY DEF Prune, TypeOK

LEMMA IssuedType ==
    ASSUME TypeOK, NEW p \in Issued
    PROVE  p \in Pair /\ claims[p] \in Claims
BY DEF Issued, TypeOK

LEMMA ExpType ==
    ASSUME TypeOK, NEW t \in Token, IsIssued(t)
    PROVE  ClaimsOf(t) \in Claims /\ Exp(t) \in Nat
BY IssuedType DEF IsIssued, ClaimsOf, Exp, Claims

(* The clerical part of every action: where a request goes, or its answer. *)
LEMMA GotoType ==
    ASSUME TypeOK, NEW r \in Request, NEW s \in Steps, NEW k \in BOOLEAN,
           Goto(r, s, k)
    PROVE  /\ pc' \in [Request -> Steps]
           /\ loop' \in Request \cup {NoRequest}
           /\ answer' \in [to : Request \cup {NoRequest}, says : Verdict]
BY DEF TypeOK, Goto, Silent, Verdict

LEMMA RespondType ==
    ASSUME TypeOK, NEW r \in Request, NEW v \in Verdict, Respond(r, v)
    PROVE  /\ pc' \in [Request -> Steps]
           /\ arg' \in [Request -> Token \cup {NoToken}]
           /\ draft' \in [Request -> Claims \cup {NoClaims}]
           /\ targets' \in [Request -> SUBSET Token]
           /\ closing' \in [Request -> SUBSET Session]
           /\ late' \in [Request -> BOOLEAN]
           /\ loop' \in Request \cup {NoRequest}
           /\ answer' \in [to : Request \cup {NoRequest}, says : Verdict]
BY DEF TypeOK, Respond, Steps

LEMMA PresentType ==
    ASSUME TypeOK, NEW r \in Request, NEW t \in Token, NEW s \in Steps,
           Present(r, t, s)
    PROVE  TypeOK'
<1>1. RevokedBefore(t) \in BOOLEAN
    BY DEF RevokedBefore
<1>2. TRUE \in BOOLEAN /\ Goto(r, s, TRUE)
    BY DEF Present
<1>3. /\ pc' \in [Request -> Steps]
      /\ loop' \in Request \cup {NoRequest}
      /\ answer' \in [to : Request \cup {NoRequest}, says : Verdict]
    BY <1>2, GotoType
<1> QED
    BY <1>1, <1>3 DEF TypeOK, Present, store, ghost

-----------------------------------------------------------------------------
(***************************************************************************)
(* Type correctness.                                                       *)
(***************************************************************************)

LEMMA InitTypeOK ==
    Init => TypeOK
<1> SUFFICES ASSUME Init PROVE TypeOK
    OBVIOUS
<1>1. 0 \in 0..MaxTime /\ 0 \in Nat
    BY TimesAssumption
<1>2. "idle" \in Steps /\ "none" \in Verdict
    BY DEF Steps, Verdict
<1> QED
    BY <1>1, <1>2 DEF Init, TypeOK

LEMMA IssueTypeOK ==
    ASSUME TypeOK, NEW r \in Request, PrepareIssue(r) \/ PersistIssue(r)
    PROVE  TypeOK'
<1>1. CASE PrepareIssue(r)
    <2>1. Goto(r, "persist", FALSE) /\ "persist" \in Steps
        BY <1>1 DEF PrepareIssue, Steps
    <2>2. PICK s \in Session \ SessionsInUse, i \in Subject, c \in Class,
               w \in WorkspaceToken \cup {NoWorkspace}, h \in Horizon \cup {Forever} :
            draft' = [draft EXCEPT ![r] = NewClaims(s, i, c, w, h, NoPair)]
        BY <1>1 DEF PrepareIssue
    <2>3. h \in Nat
        BY TimesAssumption
    <2>4. NewClaims(s, i, c, w, h, NoPair) \in Claims
        BY <2>3, NewClaimsType
    <2>5. draft' \in [Request -> Claims \cup {NoClaims}]
        BY <2>2, <2>4 DEF TypeOK
    <2> QED
        BY <1>1, <2>1, <2>5, GotoType DEF PrepareIssue, TypeOK, store, ghost
<1>2. CASE PersistIssue(r)
    <2>1. Respond(r, "issued") /\ "issued" \in Verdict
        BY <1>2 DEF PersistIssue, Verdict
    <2>2. PICK p \in Pair \ Issued : /\ claims' = [claims EXCEPT ![p] = draft[r]]
                                     /\ row' = InsertRows(p, draft[r])
        BY <1>2 DEF PersistIssue
    <2>3. claims' \in [Pair -> Claims \cup {NoClaims}]
        BY <2>2 DEF TypeOK
    <2>4. row' \in [Token -> {"absent", "active", "revoked"}]
        BY <2>2 DEF TypeOK, InsertRows
    <2> QED
        BY <1>2, <2>1, <2>3, <2>4, RespondType DEF PersistIssue, TypeOK, ghost
<1> QED
    BY <1>1, <1>2

LEMMA KnownToken ==
    ASSUME TypeOK, RequestsKnow, NEW r \in Request,
           pc[r] \in RefreshSteps \cup CheckSteps
    PROVE  /\ arg[r] \in Token
           /\ IsIssued(arg[r])
           /\ arg[r][1] \in Issued
           /\ ClaimsOf(arg[r]) \in Claims
           /\ Exp(arg[r]) \in Nat
<1>1. arg[r] \in Token /\ IsIssued(arg[r])
    BY DEF RequestsKnow, RequestKnows
<1> QED
    BY <1>1, ExpType DEF IsIssued

LEMMA RefreshTypeOK ==
    ASSUME TypeOK, RequestsKnow, NEW r \in Request,
           \/ BeginRefresh(r) \/ CheckDenylist(r) \/ CheckRow(r)
           \/ ResolveRefresh(r)
    PROVE  TypeOK'
<1>1. CASE BeginRefresh(r)
    <2>1. PICK p \in Issued : Present(r, <<p, "refresh">>, "denylist")
        BY <1>1 DEF BeginRefresh
    <2>2. <<p, "refresh">> \in Token /\ "denylist" \in Steps
        BY DEF Issued, Token, Steps, RefreshSteps
    <2> QED
        BY <2>1, <2>2, PresentType
<1>2. CASE CheckDenylist(r)
    <2>1. denied' \in [Token -> Nat]
        BY <1>2, PruneType DEF CheckDenylist
    <2>2. CASE Goto(r, "row", TRUE) /\ UNCHANGED <<arg, draft, targets, closing, late>>
        <3>1. "row" \in Steps /\ TRUE \in BOOLEAN
            BY DEF Steps, RefreshSteps
        <3> QED
            BY <1>2, <2>1, <2>2, <3>1, GotoType DEF CheckDenylist, TypeOK, ghost
    <2>3. CASE Goto(r, "list", TRUE) /\ UNCHANGED <<arg, draft, targets, closing, late>>
        <3>1. "list" \in Steps /\ TRUE \in BOOLEAN
            BY DEF Steps, RefreshSteps
        <3> QED
            BY <1>2, <2>1, <2>3, <3>1, GotoType DEF CheckDenylist, TypeOK, ghost
    <2>4. CASE Respond(r, "reused")
        <3>1. "reused" \in Verdict
            BY DEF Verdict
        <3> QED
            BY <1>2, <2>1, <2>4, <3>1, RespondType DEF CheckDenylist, TypeOK, ghost
    <2> QED
        BY <1>2, <2>2, <2>3, <2>4 DEF CheckDenylist
<1>3. CASE CheckRow(r)
    <2>1. "resolve" \in Steps /\ "refused" \in Verdict /\ TRUE \in BOOLEAN
        BY DEF Steps, RefreshSteps, Verdict
    <2>2. CASE Goto(r, "resolve", TRUE) /\ UNCHANGED <<arg, draft, targets, closing, late>>
        BY <1>3, <2>1, <2>2, GotoType DEF CheckRow, TypeOK, store, ghost
    <2>3. CASE Respond(r, "refused")
        BY <1>3, <2>1, <2>3, RespondType DEF CheckRow, TypeOK, store, ghost
    <2> QED
        BY <1>3, <2>2, <2>3 DEF CheckRow
<1>4. CASE ResolveRefresh(r)
    <2>1. "rotate" \in Steps /\ "refused" \in Verdict /\ FALSE \in BOOLEAN
        BY DEF Steps, RefreshSteps, Verdict
    <2>2. CASE Respond(r, "refused")
        BY <1>4, <2>1, <2>2, RespondType DEF ResolveRefresh, TypeOK, store, ghost
    <2>3. CASE ~Respond(r, "refused")
        <3> DEFINE c == ClaimsOf(arg[r])
        <3>1. /\ draft' = [draft EXCEPT ![r] =
                    NewClaims(c.sid, c.sub, c.class, c.ws, c.horizon, arg[r][1])]
              /\ Goto(r, "rotate", FALSE)
              /\ UNCHANGED <<arg, targets, closing, late>>
            BY <1>4, <2>3 DEF ResolveRefresh
        <3>2. pc[r] \in RefreshSteps
            BY <1>4 DEF ResolveRefresh, RefreshSteps
        <3>3. c \in Claims /\ arg[r][1] \in Pair
            BY <3>2, KnownToken DEF Issued
        <3>4. NewClaims(c.sid, c.sub, c.class, c.ws, c.horizon, arg[r][1]) \in Claims
            BY <3>3, NewClaimsType DEF Claims
        <3>5. draft' \in [Request -> Claims \cup {NoClaims}]
            BY <3>1, <3>4 DEF TypeOK
        <3> HIDE DEF c
        <3> QED
            BY <1>4, <2>1, <3>1, <3>5, GotoType DEF ResolveRefresh, TypeOK, store, ghost
    <2> QED
        BY <2>2, <2>3
<1> QED
    BY <1>1, <1>2, <1>3, <1>4

LEMMA RotateTypeOK ==
    ASSUME TypeOK, RequestsKnow, NEW r \in Request,
           \/ Rotate(r) \/ RotateConflict(r)
           \/ CascadeList(r) \/ CascadeApply(r)
    PROVE  TypeOK'
<1>1. CASE Rotate(r)
    <2>1. Respond(r, "rotated") /\ "rotated" \in Verdict
        BY <1>1 DEF Rotate, Verdict
    <2>2. PICK p \in Pair \ Issued :
            /\ claims' = [claims EXCEPT ![p] = draft[r]]
            /\ row' = [InsertRows(p, draft[r]) EXCEPT ![arg[r]] = "revoked"]
        BY <1>1 DEF Rotate
    <2>3. claims' \in [Pair -> Claims \cup {NoClaims}]
        BY <2>2 DEF TypeOK
    <2>4. row' \in [Token -> {"absent", "active", "revoked"}]
        BY <2>2 DEF TypeOK, InsertRows
    <2>5. pc[r] \in RefreshSteps
        BY <1>1 DEF Rotate, RefreshSteps
    <2>6. denied' \in [Token -> Nat]
        BY <1>1, <2>5, KnownToken DEF Rotate, TypeOK
    <2> QED
        BY <1>1, <2>1, <2>3, <2>4, <2>6, RespondType DEF Rotate, TypeOK, ghost
<1>2. CASE RotateConflict(r)
    <2>1. Goto(r, "list", TRUE) /\ "list" \in Steps /\ TRUE \in BOOLEAN
        BY <1>2 DEF RotateConflict, Steps, RefreshSteps
    <2> QED
        BY <1>2, <2>1, GotoType DEF RotateConflict, TypeOK, store, ghost
<1>3. CASE CascadeList(r)
    <2>1. Goto(r, "apply", TRUE) /\ "apply" \in Steps /\ TRUE \in BOOLEAN
        BY <1>3 DEF CascadeList, Steps, RefreshSteps
    <2>2. pc[r] \in RefreshSteps
        BY <1>3 DEF CascadeList, RefreshSteps
    <2>3. arg[r] \in Token /\ ClaimsOf(arg[r]).sid \in Session
        BY <2>2, KnownToken DEF Claims
    <2>4. targets' \in [Request -> SUBSET Token]
        BY <1>3, <2>3 DEF CascadeList, TypeOK, ActiveIn, PeerSet
    <2>5. closing' \in [Request -> SUBSET Session]
        BY <1>3, <2>3 DEF CascadeList, TypeOK
    <2> QED
        BY <1>3, <2>1, <2>4, <2>5, GotoType DEF CascadeList, TypeOK, store, ghost
<1>4. CASE CascadeApply(r)
    <2>1. Respond(r, "reused") /\ "reused" \in Verdict
        BY <1>4 DEF CascadeApply, Verdict
    <2>2. denied' \in [Token -> Nat]
        BY <1>4, PruneType, TimesAssumption DEF CascadeApply, DenyForever
    <2>3. row' \in [Token -> {"absent", "active", "revoked"}]
        BY <1>4 DEF CascadeApply, FlipRows, TypeOK
    <2>4. killed' \subseteq Session
        BY <1>4 DEF CascadeApply, TypeOK
    <2> QED
        BY <1>4, <2>1, <2>2, <2>3, <2>4, RespondType DEF CascadeApply, TypeOK
<1> QED
    BY <1>1, <1>2, <1>3, <1>4

LEMMA RevokeTypeOK ==
    ASSUME TypeOK, NEW r \in Request, BeginRevoke(r) \/ ApplyRevoke(r)
    PROVE  TypeOK'
<1>1. CASE BeginRevoke(r)
    <2>1. Goto(r, "revoke", TRUE) /\ "revoke" \in Steps /\ TRUE \in BOOLEAN
        BY <1>1 DEF BeginRevoke, Steps, RevokeSteps
    <2>2. PICK S \in SUBSET Token, C \in SUBSET Session : Aim(r, S, C)
        <3>1. CASE \E t \in Token : Aim(r, {t}, {})
            BY <3>1
        <3>2. CASE \E s \in Session : Aim(r, ActiveIn(PeerSet(s)), {s})
            BY <3>2 DEF ActiveIn, PeerSet
        <3>3. CASE \E i \in Subject :
                    Aim(r, ActiveIn(OwnedBy(i)), SessionsOf(ActiveIn(OwnedBy(i))))
            <4>1. PICK i \in Subject :
                    Aim(r, ActiveIn(OwnedBy(i)), SessionsOf(ActiveIn(OwnedBy(i))))
                BY <3>3
            <4>2. ActiveIn(OwnedBy(i)) \subseteq Token
                BY DEF ActiveIn, OwnedBy
            <4>3. \A t \in ActiveIn(OwnedBy(i)) : ClaimsOf(t).sid \in Session
                BY ExpType DEF ActiveIn, OwnedBy, Claims
            <4>4. SessionsOf(ActiveIn(OwnedBy(i))) \subseteq Session
                BY <4>3 DEF SessionsOf
            <4> QED
                BY <4>1, <4>2, <4>4
        <3> QED
            BY <1>1, <3>1, <3>2, <3>3 DEF BeginRevoke
    <2>3. targets' \in [Request -> SUBSET Token] /\ closing' \in [Request -> SUBSET Session]
        BY <2>2 DEF Aim, TypeOK
    <2> QED
        BY <1>1, <2>1, <2>3, GotoType DEF BeginRevoke, TypeOK, store, ghost
<1>2. CASE ApplyRevoke(r)
    <2>1. Respond(r, "revoked") /\ "revoked" \in Verdict
        BY <1>2 DEF ApplyRevoke, Verdict
    <2>2. denied' \in [Token -> Nat]
        BY <1>2, PruneType, TimesAssumption DEF ApplyRevoke, DenyForever
    <2>3. row' \in [Token -> {"absent", "active", "revoked"}]
        BY <1>2 DEF ApplyRevoke, FlipRows, TypeOK
    <2>4. killed' \subseteq Session /\ acked' \subseteq Token
        BY <1>2 DEF ApplyRevoke, TypeOK
    <2> QED
        BY <1>2, <2>1, <2>2, <2>3, <2>4, RespondType DEF ApplyRevoke, TypeOK
<1> QED
    BY <1>1, <1>2

LEMMA CheckTypeOK ==
    ASSUME TypeOK, NEW r \in Request,
           \/ BeginCheck(r) \/ CheckBearer(r) \/ CheckLineage(r)
           \/ Introspect(r) \/ IntrospectRow(r) \/ PublicCheck(r)
    PROVE  TypeOK'
<1> USE DEF ReadDenylist
<1>1. {"bearer", "introspect", "public", "lineage", "stored"} \subseteq Steps
      /\ {"refused", "active"} \subseteq Verdict /\ TRUE \in BOOLEAN
    BY DEF Steps, CheckSteps, Verdict
<1>2. CASE BeginCheck(r)
    <2>1. PICK t \in Token, s \in {"bearer", "introspect", "public"} : Present(r, t, s)
        BY <1>2 DEF BeginCheck
    <2> QED
        BY <1>1, <2>1, PresentType
<1>3. CASE CheckBearer(r) \/ Introspect(r) \/ PublicCheck(r)
    <2>1. denied' \in [Token -> Nat] /\ UNCHANGED <<now, claims, row, parent, ghost>>
        BY <1>3, PruneType DEF CheckBearer, Introspect, PublicCheck
    <2>2. \/ Respond(r, "refused") \/ Respond(r, "active")
          \/ /\ Goto(r, "lineage", TRUE) \/ Goto(r, "stored", TRUE)
             /\ UNCHANGED <<arg, draft, targets, closing, late>>
        BY <1>3 DEF CheckBearer, Introspect, PublicCheck
    <2>3. CASE Respond(r, "refused") \/ Respond(r, "active")
        BY <1>1, <2>1, <2>3, RespondType DEF TypeOK, ghost
    <2>4. CASE /\ Goto(r, "lineage", TRUE) \/ Goto(r, "stored", TRUE)
               /\ UNCHANGED <<arg, draft, targets, closing, late>>
        BY <1>1, <2>1, <2>4, GotoType DEF TypeOK, ghost
    <2> QED
        BY <2>2, <2>3, <2>4
<1>4. CASE CheckLineage(r) \/ IntrospectRow(r)
    <2>1. Respond(r, "refused") \/ Respond(r, "active")
        BY <1>4 DEF CheckLineage, IntrospectRow
    <2>2. UNCHANGED <<now, store, ghost>>
        BY <1>4 DEF CheckLineage, IntrospectRow
    <2> QED
        BY <1>1, <2>1, <2>2, RespondType DEF TypeOK, store, ghost
<1> QED
    BY <1>2, <1>3, <1>4

LEMMA EnvironmentTypeOK ==
    ASSUME TypeOK,
           \/ \E w \in WorkspaceToken : \/ CreateWorkspaceToken(w)
                                        \/ RevokeWorkspaceToken(w)
                                        \/ LoseWorkspaceToken(w)
           \/ \E t \in Token : CollectRow(t)
           \/ Tick
           \/ \E r \in Request : Fail(r)
           \/ Restart
    PROVE  TypeOK'
<1> USE DEF TypeOK, store, ghost, local, Silent
<1>0. "none" \in Verdict /\ "error" \in Verdict /\ "idle" \in Steps
    BY DEF Verdict, Steps
<1>1. ASSUME NEW w \in WorkspaceToken, NEW from,
             NEW to \in {"active", "revoked", "gone"}, MoveParent(w, from, to)
      PROVE  TypeOK'
    BY <1>0, <1>1 DEF MoveParent
<1>2. CASE \E w \in WorkspaceToken : \/ CreateWorkspaceToken(w)
                                     \/ RevokeWorkspaceToken(w)
                                     \/ LoseWorkspaceToken(w)
    BY <1>1, <1>2 DEF CreateWorkspaceToken, RevokeWorkspaceToken, LoseWorkspaceToken
<1>3. CASE \E t \in Token : CollectRow(t)
    BY <1>0, <1>3 DEF CollectRow
<1>4. CASE Tick
    BY <1>0, <1>4, TimesAssumption DEF Tick
<1>5. CASE \E r \in Request : Fail(r)
    BY <1>0, <1>5, RespondType DEF Fail
<1>6. CASE Restart
    BY <1>0, <1>6 DEF Restart
<1> QED
    BY <1>2, <1>3, <1>4, <1>5, <1>6

LEMMA NextTypeOK ==
    ASSUME TypeOK, RequestsKnow, [Next]_vars
    PROVE  TypeOK'
<1>1. CASE UNCHANGED vars
    BY <1>1 DEF TypeOK, vars, store, local, ghost
<1>2. ASSUME NEW r \in Request, Arrive(r) \/ Serve(r)
      PROVE  TypeOK'
    BY <1>2, IssueTypeOK, RefreshTypeOK, RotateTypeOK, RevokeTypeOK, CheckTypeOK
    DEF Arrive, Serve
<1> QED
    BY <1>1, <1>2, EnvironmentTypeOK DEF Next, Undisturbed

-----------------------------------------------------------------------------
(***************************************************************************)
(* What a step does to the store, and what to the requests: the two views  *)
(* of Next that the invariance proofs are split along.                     *)
(***************************************************************************)

OnlyRetires ==
    /\ UNCHANGED claims
    /\ \A t \in Token : \/ row'[t] = row[t]
                        \/ row[t] # "absent" /\ row'[t] # "active"

(* The actions of a request that write neither claims nor rows, and prune  *)
(* the denylist at most.                                                   *)
Reads(r) ==
    \/ PrepareIssue(r) \/ BeginRefresh(r) \/ BeginRevoke(r) \/ BeginCheck(r)
    \/ CheckDenylist(r) \/ CheckRow(r) \/ ResolveRefresh(r)
    \/ RotateConflict(r) \/ CascadeList(r)
    \/ CheckBearer(r) \/ CheckLineage(r)
    \/ Introspect(r) \/ IntrospectRow(r) \/ PublicCheck(r)

LEMMA ReadsStore ==
    ASSUME NEW r, Reads(r)
    PROVE  /\ UNCHANGED <<claims, row, acked>>
           /\ denied' \in {denied, Prune}
<1>1. CASE PrepareIssue(r)
    BY <1>1 DEF PrepareIssue, store, ghost
<1>2. CASE BeginRefresh(r)
    BY <1>2 DEF BeginRefresh, Present, store, ghost
<1>3. CASE BeginRevoke(r)
    BY <1>3 DEF BeginRevoke, store, ghost
<1>4. CASE BeginCheck(r)
    BY <1>4 DEF BeginCheck, Present, store, ghost
<1>5. CASE CheckDenylist(r)
    BY <1>5 DEF CheckDenylist, ghost
<1>6. CASE CheckRow(r)
    BY <1>6 DEF CheckRow, store, ghost
<1>7. CASE ResolveRefresh(r)
    BY <1>7 DEF ResolveRefresh, store, ghost
<1>8. CASE RotateConflict(r)
    BY <1>8 DEF RotateConflict, store, ghost
<1>9. CASE CascadeList(r)
    BY <1>9 DEF CascadeList, store, ghost
<1>10. CASE CheckBearer(r)
    BY <1>10 DEF CheckBearer, ReadDenylist, ghost
<1>11. CASE CheckLineage(r)
    BY <1>11 DEF CheckLineage, store, ghost
<1>12. CASE Introspect(r)
    BY <1>12 DEF Introspect, ReadDenylist, ghost
<1>13. CASE IntrospectRow(r)
    BY <1>13 DEF IntrospectRow, store, ghost
<1>14. CASE PublicCheck(r)
    BY <1>14 DEF PublicCheck, ReadDenylist, ghost
<1> QED
    BY <1>1, <1>2, <1>3, <1>4, <1>5, <1>6, <1>7, <1>8, <1>9,
        <1>10, <1>11, <1>12, <1>13, <1>14
    DEF Reads

LEMMA StoreSteps ==
    ASSUME TypeOK, [Next]_vars
    PROVE  OnlyRetires \/ \E r \in Request : PersistIssue(r) \/ Rotate(r)
<1>1. ASSUME UNCHANGED <<claims, row>>
      PROVE  OnlyRetires
    BY <1>1 DEF OnlyRetires
<1>2. CASE UNCHANGED vars
    BY <1>1, <1>2 DEF vars, store
<1>3. ASSUME NEW r \in Request, Arrive(r) \/ Serve(r)
      PROVE  OnlyRetires \/ PersistIssue(r) \/ Rotate(r)
    <2>1. CASE Reads(r)
        BY <1>1, <2>1, ReadsStore
    <2>2. CASE CascadeApply(r) \/ ApplyRevoke(r)
        BY <2>2 DEF CascadeApply, ApplyRevoke, FlipRows, OnlyRetires, TypeOK
    <2> QED
        BY <1>3, <2>1, <2>2 DEF Arrive, Serve, Reads
<1>4. ASSUME NEW t \in Token, CollectRow(t)
      PROVE  OnlyRetires
    BY <1>4 DEF CollectRow, OnlyRetires, TypeOK
<1>5. CASE Tick \/ Restart \/ \E r \in Request : Fail(r)
    BY <1>1, <1>5 DEF Tick, Restart, Fail, store
<1>6. CASE \E w \in WorkspaceToken : \/ CreateWorkspaceToken(w)
                                     \/ RevokeWorkspaceToken(w)
                                     \/ LoseWorkspaceToken(w)
    BY <1>1, <1>6 DEF CreateWorkspaceToken, RevokeWorkspaceToken,
        LoseWorkspaceToken, MoveParent
<1> QED
    BY <1>2, <1>3, <1>4, <1>5, <1>6 DEF Next, Undisturbed

OthersKept(r) ==
    \A q \in Request \ {r} :
        /\ pc'[q] = pc[q]
        /\ arg'[q] = arg[q]
        /\ draft'[q] = draft[q]
        /\ targets'[q] = targets[q]
        /\ closing'[q] = closing[q]
        /\ late'[q] = late[q]

Acts(r) == Arrive(r) \/ Serve(r) \/ Fail(r)

LEMMA RespondKeeps ==
    ASSUME TypeOK, NEW r \in Request, NEW v, Respond(r, v)
    PROVE  /\ OthersKept(r)
           /\ pc'[r] = "idle"
           /\ targets'[r] = {}
BY DEF Respond, OthersKept, TypeOK

LEMMA GotoKeeps ==
    ASSUME TypeOK, NEW r \in Request, NEW s, Goto(r, s, TRUE) \/ Goto(r, s, FALSE)
    PROVE  /\ pc'[r] = s
           /\ \A q \in Request \ {r} : pc'[q] = pc[q]
BY DEF Goto, TypeOK

LEMMA ActsAlone ==
    ASSUME TypeOK, NEW r \in Request, Acts(r)
    PROVE  OthersKept(r)
<1>1. CASE Arrive(r)
    BY <1>1, GotoKeeps DEF Arrive, PrepareIssue, BeginRefresh,
        BeginRevoke, BeginCheck, Present, Aim, OthersKept, TypeOK
<1>2. CASE PersistIssue(r) \/ Rotate(r) \/ CascadeApply(r) \/ ApplyRevoke(r)
           \/ Fail(r)
    BY <1>2, RespondKeeps DEF PersistIssue, Rotate, CascadeApply,
        ApplyRevoke, Fail
<1>3. CASE \/ CheckDenylist(r) \/ CheckRow(r) \/ ResolveRefresh(r)
           \/ RotateConflict(r) \/ CascadeList(r)
    <2>1. CASE CheckDenylist(r) \/ CheckRow(r) \/ RotateConflict(r)
        BY <2>1, GotoKeeps, RespondKeeps DEF CheckDenylist, CheckRow,
            RotateConflict, OthersKept
    <2>2. CASE ResolveRefresh(r)
        <3>1. CASE Respond(r, "refused")
            BY <3>1, RespondKeeps
        <3>2. CASE ~Respond(r, "refused")
            BY <2>2, <3>2, GotoKeeps DEF ResolveRefresh, OthersKept, TypeOK
        <3> QED
            BY <3>1, <3>2
    <2>3. CASE CascadeList(r)
        BY <2>3, GotoKeeps DEF CascadeList, OthersKept, TypeOK
    <2> QED
        BY <1>3, <2>1, <2>2, <2>3
<1>4. CASE \/ CheckBearer(r) \/ CheckLineage(r) \/ Introspect(r)
           \/ IntrospectRow(r) \/ PublicCheck(r)
    BY <1>4, GotoKeeps, RespondKeeps DEF CheckBearer, CheckLineage,
        Introspect, IntrospectRow, PublicCheck, ReadDenylist, OthersKept
<1> QED
    BY <1>1, <1>2, <1>3, <1>4 DEF Acts, Serve

LEMMA RequestSteps ==
    ASSUME TypeOK, [Next]_vars
    PROVE  \/ UNCHANGED <<pc, arg, draft, targets>>
           \/ Restart
           \/ \E r \in Request : Acts(r) /\ OthersKept(r)
<1>1. CASE UNCHANGED vars
    BY <1>1 DEF vars, local
<1>2. ASSUME NEW r \in Request, Arrive(r) \/ Serve(r) \/ Fail(r)
      PROVE  Acts(r) /\ OthersKept(r)
    BY <1>2, ActsAlone DEF Acts
<1>3. CASE \/ Tick
           \/ \E t \in Token : CollectRow(t)
           \/ \E w \in WorkspaceToken : \/ CreateWorkspaceToken(w)
                                        \/ RevokeWorkspaceToken(w)
                                        \/ LoseWorkspaceToken(w)
    BY <1>3 DEF Tick, CollectRow, CreateWorkspaceToken, RevokeWorkspaceToken,
        LoseWorkspaceToken, MoveParent, local
<1> QED
    BY <1>1, <1>2, <1>3 DEF Next, Undisturbed

-----------------------------------------------------------------------------
(***************************************************************************)
(* What a request knows.                                                   *)
(***************************************************************************)

(* Claims are signed: nothing changes those of an issued pair. *)
ClaimsKept == \A p \in Issued : p \in Issued' /\ claims'[p] = claims[p]

LEMMA NextClaimsKept ==
    ASSUME TypeOK, [Next]_vars
    PROVE  ClaimsKept
<1>1. CASE OnlyRetires
    BY <1>1 DEF OnlyRetires, ClaimsKept, Issued
<1>2. CASE \E r \in Request : PersistIssue(r) \/ Rotate(r)
    <2>1. PICK r \in Request, p \in Pair \ Issued :
            claims' = [claims EXCEPT ![p] = draft[r]]
        BY <1>2 DEF PersistIssue, Rotate
    <2> QED
        BY <2>1 DEF ClaimsKept, Issued, TypeOK
<1> QED
    BY <1>1, <1>2, StoreSteps

LEMMA KnowsKept ==
    ASSUME TypeOK, RequestsKnow, ClaimsKept, NEW q \in Request,
           pc'[q] = pc[q], arg'[q] = arg[q], draft'[q] = draft[q]
    PROVE  RequestKnows(q)'
<1>1. RequestKnows(q)
    BY DEF RequestsKnow
<1>2. ASSUME pc[q] \in RefreshSteps \cup CheckSteps
      PROVE  /\ arg[q] \in Token
             /\ arg[q][1] \in Issued'
             /\ claims'[arg[q][1]] = claims[arg[q][1]]
    BY <1>1, <1>2 DEF RequestKnows, ClaimsKept, IsIssued
<1>3. pc[q] = "rotate" => pc[q] \in RefreshSteps
    BY DEF RefreshSteps
<1> QED
    BY <1>1, <1>2, <1>3 DEF RequestKnows, IsIssued, ClaimsOf

LEMMA IdleKnows ==
    ASSUME NEW r, pc'[r] = "idle"
    PROVE  RequestKnows(r)'
BY DEF RequestKnows, RefreshSteps, CheckSteps

(* A request goes on with the token it has. *)
LEMMA GoOnKnows ==
    ASSUME TypeOK, RequestsKnow, ClaimsKept, NEW r \in Request,
           arg'[r] = arg[r],
           \/ pc[r] \in RefreshSteps /\ pc'[r] \in RefreshSteps \ {"rotate"}
           \/ pc[r] \in CheckSteps /\ pc'[r] \in CheckSteps
    PROVE  RequestKnows(r)'
<1>1. RequestKnows(r)
    BY DEF RequestsKnow
<1>2. /\ arg[r] \in Token
      /\ arg[r][1] \in Issued'
      /\ claims'[arg[r][1]] = claims[arg[r][1]]
    BY <1>1 DEF RequestKnows, ClaimsKept, IsIssued
<1>3. "persist" \notin RefreshSteps \cup CheckSteps /\ "rotate" \notin CheckSteps
      /\ RefreshSteps \cap CheckSteps = {}
    BY DEF RefreshSteps, CheckSteps
<1> QED
    BY <1>1, <1>2, <1>3 DEF RequestKnows, IsIssued, ClaimsOf

(* A request presents a token of an issued pair. *)
LEMMA PresentKnows ==
    ASSUME TypeOK, ClaimsKept, NEW r \in Request, NEW t \in Token, NEW s,
           Present(r, t, s),
           \/ s \in CheckSteps
           \/ s = "denylist" /\ t[2] = "refresh" /\ ClaimsOf(t).class # "durable"
    PROVE  RequestKnows(r)'
<1>1. pc'[r] = s /\ arg'[r] = t /\ IsIssued(t)
    BY GotoKeeps DEF Present, TypeOK
<1>2. t[1] \in Issued' /\ claims'[t[1]] = claims[t[1]]
    BY <1>1 DEF ClaimsKept, IsIssued
<1>3. "persist" \notin RefreshSteps \cup CheckSteps /\ "rotate" \notin CheckSteps
      /\ RefreshSteps \cap CheckSteps = {} /\ "denylist" \in RefreshSteps
    BY DEF RefreshSteps, CheckSteps
<1> QED
    BY <1>1, <1>2, <1>3 DEF RequestKnows, IsIssued, ClaimsOf

LEMMA ArriveKnows ==
    ASSUME TypeOK, ClaimsKept, NEW r \in Request, Arrive(r)
    PROVE  RequestKnows(r)'
<1>1. CASE PrepareIssue(r)
    <2>1. PICK s \in Session \ SessionsInUse, i \in Subject, c \in Class,
               w \in WorkspaceToken \cup {NoWorkspace}, h \in Horizon \cup {Forever} :
            draft' = [draft EXCEPT ![r] = NewClaims(s, i, c, w, h, NoPair)]
        BY <1>1 DEF PrepareIssue
    <2>2. h \in Nat
        BY TimesAssumption
    <2> DEFINE d == NewClaims(s, i, c, w, h, NoPair)
    <2>3. d \in Claims /\ d.aexp <= h /\ d.rexp <= h
        BY <2>2, NewClaimsType
    <2>4. d.horizon = h /\ d.prev = NoPair
        BY DEF NewClaims
    <2>5. draft'[r] = d
        BY <2>1 DEF TypeOK
    <2>6. pc'[r] = "persist"
        BY <1>1, GotoKeeps DEF PrepareIssue
    <2>7. d # NoClaims
        BY <2>3, NoClaimsAssumption
    <2> HIDE DEF d
    <2> QED
        BY <2>3, <2>4, <2>5, <2>6, <2>7 DEF RequestKnows, RefreshSteps, CheckSteps
<1>2. CASE BeginRefresh(r)
    <2>1. PICK p \in Issued : /\ claims[p].class # "durable"
                              /\ Present(r, <<p, "refresh">>, "denylist")
        BY <1>2 DEF BeginRefresh
    <2>2. <<p, "refresh">> \in Token /\ ClaimsOf(<<p, "refresh">>) = claims[p]
        BY DEF Issued, Token, ClaimsOf
    <2> QED
        BY <2>1, <2>2, PresentKnows
<1>3. CASE BeginRevoke(r)
    <2>1. pc'[r] = "revoke"
        BY <1>3, GotoKeeps DEF BeginRevoke
    <2> QED
        BY <2>1 DEF RequestKnows, RefreshSteps, CheckSteps
<1>4. CASE BeginCheck(r)
    BY <1>4, PresentKnows DEF BeginCheck, CheckSteps
<1> QED
    BY <1>1, <1>2, <1>3, <1>4 DEF Arrive

LEMMA ServeKnows ==
    ASSUME TypeOK, RequestsKnow, ClaimsKept, NEW r \in Request, Serve(r)
    PROVE  RequestKnows(r)'
<1> DEFINE Answered == pc'[r] = "idle"
<1>1. CASE PersistIssue(r) \/ Rotate(r) \/ CascadeApply(r) \/ ApplyRevoke(r)
    <2>1. Answered
        BY <1>1, RespondKeeps DEF PersistIssue, Rotate, CascadeApply, ApplyRevoke
    <2> QED
        BY <2>1, IdleKnows
<1>2. CASE CheckDenylist(r)
    <2>1. \/ Answered
          \/ pc'[r] \in {"row", "list"} /\ arg' = arg /\ pc[r] = "denylist"
        BY <1>2, GotoKeeps, RespondKeeps DEF CheckDenylist
    <2> QED
        BY <2>1, IdleKnows, GoOnKnows DEF RefreshSteps
<1>3. CASE CheckRow(r)
    <2>1. \/ Respond(r, "refused")
          \/ Goto(r, "resolve", TRUE) /\ UNCHANGED <<arg, draft, targets, closing, late>>
        BY <1>3 DEF CheckRow
    <2>2. pc[r] = "row"
        BY <1>3 DEF CheckRow
    <2>3. CASE Respond(r, "refused")
        BY <2>3, RespondKeeps, IdleKnows
    <2>4. CASE Goto(r, "resolve", TRUE) /\ UNCHANGED <<arg, draft, targets, closing, late>>
        <3>1. pc'[r] = "resolve"
            BY <2>4, GotoKeeps
        <3> QED
            BY <2>2, <2>4, <3>1, GoOnKnows DEF RefreshSteps
    <2> QED
        BY <2>1, <2>3, <2>4
<1>4. CASE ResolveRefresh(r)
    <2> DEFINE c == ClaimsOf(arg[r])
               d == NewClaims(c.sid, c.sub, c.class, c.ws, c.horizon, arg[r][1])
    <2>1. CASE Respond(r, "refused")
        BY <2>1, RespondKeeps, IdleKnows
    <2>2. CASE ~Respond(r, "refused")
        <3>1. pc[r] \in RefreshSteps
            BY <1>4 DEF ResolveRefresh, RefreshSteps
        <3>2. pc'[r] = "rotate" /\ arg' = arg /\ draft'[r] = d
            BY <1>4, <2>2, GotoKeeps DEF ResolveRefresh, TypeOK
        <3>3. /\ arg[r] \in Token /\ IsIssued(arg[r])
              /\ arg[r][2] = "refresh" /\ c.class # "durable"
            BY <3>1 DEF RequestsKnow, RequestKnows
        <3>4. c \in Claims /\ arg[r][1] \in Pair
            BY <3>1, KnownToken DEF Issued
        <3>5. d \in Claims /\ d.aexp <= c.horizon /\ d.rexp <= c.horizon
            BY <3>4, NewClaimsType DEF Claims
        <3>6. /\ d.prev = arg[r][1] /\ d.sid = c.sid /\ d.class = c.class
              /\ d.horizon = c.horizon
            BY DEF NewClaims
        <3>7. d # NoClaims
            BY <3>5, NoClaimsAssumption
        <3>8. IsIssued(arg[r])' /\ ClaimsOf(arg[r])' = c
            BY <3>2, <3>3 DEF ClaimsKept, IsIssued, ClaimsOf
        <3> HIDE DEF c, d
        <3> QED
            BY <3>2, <3>3, <3>5, <3>6, <3>7, <3>8 DEF RequestKnows
    <2> QED
        BY <2>1, <2>2
<1>5. CASE RotateConflict(r)
    <2>1. pc'[r] = "list" /\ arg' = arg /\ pc[r] = "rotate"
        BY <1>5, GotoKeeps DEF RotateConflict
    <2> QED
        BY <2>1, GoOnKnows DEF RefreshSteps
<1>6. CASE CascadeList(r)
    <2>1. pc'[r] = "apply" /\ arg' = arg /\ pc[r] = "list"
        BY <1>6, GotoKeeps DEF CascadeList
    <2> QED
        BY <2>1, GoOnKnows DEF RefreshSteps
<1>7. CASE CheckBearer(r)
    <2>1. \/ Respond(r, "refused")
          \/ Goto(r, "lineage", TRUE) /\ UNCHANGED <<arg, draft, targets, closing, late>>
        BY <1>7 DEF CheckBearer, ReadDenylist
    <2>2. pc[r] = "bearer"
        BY <1>7 DEF CheckBearer
    <2> QED
        BY <2>1, <2>2, RespondKeeps, IdleKnows, GotoKeeps, GoOnKnows DEF CheckSteps
<1>8. CASE Introspect(r)
    <2>1. \/ Respond(r, "refused")
          \/ Goto(r, "stored", TRUE) /\ UNCHANGED <<arg, draft, targets, closing, late>>
        BY <1>8 DEF Introspect, ReadDenylist
    <2>2. pc[r] = "introspect"
        BY <1>8 DEF Introspect
    <2> QED
        BY <2>1, <2>2, RespondKeeps, IdleKnows, GotoKeeps, GoOnKnows DEF CheckSteps
<1>9. CASE CheckLineage(r) \/ IntrospectRow(r) \/ PublicCheck(r)
    <2>1. Answered
        BY <1>9, RespondKeeps DEF CheckLineage, IntrospectRow, PublicCheck, ReadDenylist
    <2> QED
        BY <2>1, IdleKnows
<1> QED
    BY <1>1, <1>2, <1>3, <1>4, <1>5, <1>6, <1>7, <1>8, <1>9 DEF Serve

LEMMA NextRequestsKnow ==
    ASSUME TypeOK, RequestsKnow, [Next]_vars
    PROVE  RequestsKnow'
<1>1. ClaimsKept
    BY NextClaimsKept
<1>2. CASE UNCHANGED <<pc, arg, draft, targets>>
    BY <1>1, <1>2, KnowsKept DEF RequestsKnow
<1>3. CASE Restart
    BY <1>3, IdleKnows DEF Restart, RequestsKnow
<1>4. ASSUME NEW r \in Request, Acts(r), OthersKept(r)
      PROVE  RequestsKnow'
    <2>1. RequestKnows(r)'
        BY <1>1, <1>4, ArriveKnows, ServeKnows, RespondKeeps, IdleKnows DEF Acts, Fail
    <2>2. \A q \in Request \ {r} : RequestKnows(q)'
        BY <1>1, <1>4, KnowsKept DEF OthersKept
    <2> QED
        BY <2>1, <2>2 DEF RequestsKnow
<1> QED
    BY <1>2, <1>3, <1>4, RequestSteps

-----------------------------------------------------------------------------
(***************************************************************************)
(* Records are of issued pairs.                                            *)
(***************************************************************************)

(* The two steps that issue a pair, seen alike. *)
Issues(r, p) ==
    /\ pc[r] \in {"persist", "rotate"}
    /\ p \in Pair \ Issued
    /\ claims' = [claims EXCEPT ![p] = draft[r]]
    /\ \A t \in Token : t[1] # p => row'[t] = row[t] \/ row'[t] # "active"
    /\ acked' = acked

LEMMA IssuingSteps ==
    ASSUME TypeOK, RequestsKnow, NEW r \in Request
    PROVE  /\ PersistIssue(r) => \E p \in Pair :
                /\ Issues(r, p)
                /\ row' = InsertRows(p, draft[r])
           /\ Rotate(r) => \E p \in Pair :
                /\ Issues(r, p)
                /\ row' = [InsertRows(p, draft[r]) EXCEPT ![arg[r]] = "revoked"]
<1>1. ASSUME NEW p \in Pair, NEW t \in Token, t[1] # p
      PROVE  InsertRows(p, draft[r])[t] = row[t]
    BY <1>1 DEF InsertRows
<1>2. CASE PersistIssue(r)
    <2>1. PICK p \in Pair \ Issued : /\ claims' = [claims EXCEPT ![p] = draft[r]]
                                     /\ row' = InsertRows(p, draft[r])
        BY <1>2 DEF PersistIssue
    <2>2. pc[r] = "persist" /\ acked' = acked
        BY <1>2 DEF PersistIssue, ghost
    <2>3. Issues(r, p)
        BY <1>1, <2>1, <2>2 DEF Issues
    <2> QED
        BY <2>1, <2>3, <1>2 DEF PersistIssue, Rotate
<1>3. CASE Rotate(r)
    <2>1. arg[r] \in Token
        BY <1>3, KnownToken DEF Rotate, RefreshSteps
    <2>2. PICK p \in Pair \ Issued :
            /\ claims' = [claims EXCEPT ![p] = draft[r]]
            /\ row' = [InsertRows(p, draft[r]) EXCEPT ![arg[r]] = "revoked"]
        BY <1>3 DEF Rotate
    <2>3. \A t \in Token : row'[t] = IF t = arg[r] THEN "revoked"
                                     ELSE InsertRows(p, draft[r])[t]
        BY <2>1, <2>2 DEF InsertRows
    <2>4. pc[r] = "rotate" /\ acked' = acked
        BY <1>3 DEF Rotate, ghost
    <2>5. Issues(r, p)
        BY <1>1, <2>2, <2>3, <2>4 DEF Issues
    <2> QED
        BY <2>2, <2>5, <1>3 DEF PersistIssue, Rotate
<1> QED
    BY <1>2, <1>3

LEMMA AckedSteps ==
    ASSUME TypeOK, [Next]_vars
    PROVE  acked' = acked \/ \E r \in Request : ApplyRevoke(r)
<1>1. ASSUME NEW r \in Request, Arrive(r) \/ Serve(r), ~ApplyRevoke(r)
      PROVE  acked' = acked
    <2>1. CASE Reads(r)
        BY <2>1, ReadsStore
    <2>2. CASE PersistIssue(r) \/ Rotate(r) \/ CascadeApply(r)
        BY <2>2 DEF PersistIssue, Rotate, CascadeApply, ghost
    <2> QED
        BY <1>1, <2>1, <2>2 DEF Arrive, Serve, Reads
<1>2. CASE UNCHANGED vars
    BY <1>2 DEF vars, ghost
<1>3. CASE \/ Tick \/ Restart
           \/ \E r \in Request : Fail(r)
           \/ \E t \in Token : CollectRow(t)
           \/ \E w \in WorkspaceToken : \/ CreateWorkspaceToken(w)
                                        \/ RevokeWorkspaceToken(w)
                                        \/ LoseWorkspaceToken(w)
    BY <1>3 DEF Tick, Restart, Fail, CollectRow, CreateWorkspaceToken,
        RevokeWorkspaceToken, LoseWorkspaceToken, MoveParent, ghost
<1> QED
    BY <1>1, <1>2, <1>3 DEF Next, Undisturbed

LEMMA TargetsAreIssued ==
    ASSUME TypeOK, RequestsKnow, RecordsAreIssued, [Next]_vars
    PROVE  \A q \in Request : \A t \in targets'[q] : IsIssued(t)'
<1>1. \A t : IsIssued(t) => IsIssued(t)'
    BY NextClaimsKept DEF ClaimsKept, IsIssued
<1>2. \A q \in Request : \A t \in targets[q] : IsIssued(t)
    BY DEF RecordsAreIssued
<1>3. CASE UNCHANGED <<pc, arg, draft, targets>>
    BY <1>1, <1>2, <1>3
<1>4. CASE Restart
    BY <1>4 DEF Restart
<1>5. ASSUME NEW r \in Request, Acts(r), OthersKept(r)
      PROVE  \A t \in targets'[r] : IsIssued(t)
    <2>1. CASE targets'[r] = {} \/ UNCHANGED targets
        BY <1>2, <2>1
    <2>2. CASE BeginRevoke(r)
        <3>1. PICK S, C : Aim(r, S, C) /\ \A t \in S : IsIssued(t)
            <4>1. CASE \E t \in Token : row[t] # "absent" /\ Aim(r, {t}, {})
                BY <4>1 DEF RecordsAreIssued
            <4>2. CASE \E s \in Session : Aim(r, ActiveIn(PeerSet(s)), {s})
                BY <4>2 DEF ActiveIn, PeerSet
            <4>3. CASE \E i \in Subject :
                        Aim(r, ActiveIn(OwnedBy(i)), SessionsOf(ActiveIn(OwnedBy(i))))
                BY <4>3 DEF ActiveIn, OwnedBy
            <4> QED
                BY <2>2, <4>1, <4>2, <4>3 DEF BeginRevoke
        <3> QED
            BY <3>1 DEF Aim, TypeOK
    <2>3. CASE CascadeList(r)
        <3>1. IsIssued(arg[r])
            BY <2>3, KnownToken DEF CascadeList, RefreshSteps
        <3> QED
            BY <2>3, <3>1 DEF CascadeList, ActiveIn, PeerSet, TypeOK
    <2>4. CASE Acts(r) /\ ~BeginRevoke(r) /\ ~CascadeList(r)
        <3>1. CASE \/ PersistIssue(r) \/ Rotate(r) \/ CascadeApply(r)
                   \/ ApplyRevoke(r) \/ Fail(r) \/ CheckLineage(r)
                   \/ IntrospectRow(r) \/ PublicCheck(r)
            BY <2>1, <3>1, RespondKeeps DEF PersistIssue, Rotate, CascadeApply,
                ApplyRevoke, Fail, CheckLineage, IntrospectRow, PublicCheck, ReadDenylist
        <3>2. CASE PrepareIssue(r) \/ BeginRefresh(r) \/ BeginCheck(r) \/ RotateConflict(r)
            BY <2>1, <3>2 DEF PrepareIssue, BeginRefresh, BeginCheck, Present,
                RotateConflict
        <3>3. CASE \/ CheckDenylist(r) \/ CheckRow(r) \/ CheckBearer(r)
                   \/ Introspect(r) \/ ResolveRefresh(r)
            <4>1. \/ \E v \in {"refused", "reused"} : Respond(r, v)
                  \/ UNCHANGED <<arg, draft, targets, closing, late>>
                  \/ UNCHANGED <<arg, targets, closing, late>>
                BY <3>3 DEF CheckDenylist, CheckRow, CheckBearer, Introspect,
                    ResolveRefresh, ReadDenylist
            <4> QED
                BY <2>1, <4>1, RespondKeeps
        <3> QED
            BY <2>4, <3>1, <3>2, <3>3 DEF Acts, Arrive, Serve
    <2> QED
        BY <1>5, <2>2, <2>3, <2>4
<1>6. ASSUME NEW r \in Request, Acts(r), OthersKept(r)
      PROVE  \A q \in Request : \A t \in targets'[q] : IsIssued(t)'
    BY <1>1, <1>2, <1>5, <1>6 DEF OthersKept
<1> QED
    BY <1>3, <1>4, <1>6, RequestSteps

LEMMA IssuedGrows ==
    ASSUME TypeOK, RequestsKnow, NEW r \in Request, NEW p, Issues(r, p)
    PROVE  /\ Issued' = Issued \cup {p}
           /\ claims'[p] = draft[r]
           /\ \A q \in Issued : claims'[q] = claims[q]
<1>1. draft[r] # NoClaims
    BY DEF Issues, RequestsKnow, RequestKnows
<1> QED
    BY <1>1 DEF Issues, Issued, TypeOK

LEMMA NextRecordsAreIssued ==
    ASSUME TypeOK, RequestsKnow, RecordsAreIssued, [Next]_vars
    PROVE  RecordsAreIssued'
<1>1. ASSUME NEW t \in Token, ~IsIssued(t)'
      PROVE  row'[t] = "absent"
    <2>1. ~IsIssued(t) /\ row[t] = "absent"
        BY <1>1, NextClaimsKept DEF ClaimsKept, IsIssued, RecordsAreIssued
    <2>2. CASE OnlyRetires
        BY <2>1, <2>2 DEF OnlyRetires
    <2>3. ASSUME NEW r \in Request, PersistIssue(r) \/ Rotate(r)
          PROVE  row'[t] = "absent"
        <3>1. PICK p \in Pair :
                /\ Issues(r, p)
                /\ \/ row' = InsertRows(p, draft[r])
                   \/ /\ row' = [InsertRows(p, draft[r]) EXCEPT ![arg[r]] = "revoked"]
                      /\ Rotate(r)
            BY <2>3, IssuingSteps
        <3>2. t[1] = p => t[2] = "refresh" /\ draft[r].class = "durable"
            BY <1>1, <3>1, IssuedGrows DEF IsIssued
        <3>3. InsertRows(p, draft[r])[t] = "absent"
            BY <2>1, <3>2 DEF InsertRows
        <3>4. Rotate(r) => t # arg[r]
            BY <2>1, KnownToken DEF Rotate, RefreshSteps, IsIssued
        <3> QED
            BY <3>1, <3>3, <3>4 DEF InsertRows
    <2> QED
        BY <2>2, <2>3, StoreSteps
<1>2. \A t \in acked' : IsIssued(t)'
    <2>1. \A t : IsIssued(t) => IsIssued(t)'
        BY NextClaimsKept DEF ClaimsKept, IsIssued
    <2>2. acked' = acked \/ \E r \in Request : acked' = acked \cup targets[r]
        BY AckedSteps DEF ApplyRevoke
    <2> QED
        BY <2>1, <2>2 DEF RecordsAreIssued
<1> QED
    BY <1>1, <1>2, TargetsAreIssued DEF RecordsAreIssued

-----------------------------------------------------------------------------
(***************************************************************************)
(* Single use and the one live refresh token.                              *)
(***************************************************************************)

(* Both follow, whatever the interleaving, from the compare-and-set of     *)
(* Rotate: the presented token's row is active, so by Lineage nobody has   *)
(* been given a pair for it.                                               *)
LEMMA NextSingleUse ==
    ASSUME TypeOK, RequestsKnow, RecordsAreIssued, Lineage, SingleUse, [Next]_vars
    PROVE  Lineage' /\ SingleUse'
<1>1. CASE OnlyRetires
    <2>1. \A p \in Pair : <<p, "refresh">> \in Token
        BY DEF Token
    <2>2. ASSUME NEW p \in Issued, claims[p].prev # NoPair
          PROVE  row'[<<claims[p].prev, "refresh">>] # "active"
        BY <1>1, <2>1, <2>2 DEF OnlyRetires, Lineage, Issued
    <2> QED
        BY <1>1, <2>2 DEF OnlyRetires, Lineage, SingleUse, Issued
<1>2. ASSUME NEW r \in Request, PersistIssue(r)
      PROVE  Lineage' /\ SingleUse'
    <2>1. PICK p \in Pair : Issues(r, p) /\ row' = InsertRows(p, draft[r])
        BY <1>2, IssuingSteps
    <2>2. /\ Issued' = Issued \cup {p} /\ claims'[p] = draft[r]
          /\ \A q \in Issued : claims'[q] = claims[q]
        BY <2>1, IssuedGrows
    <2>3. claims'[p].prev = NoPair
        BY <1>2, <2>2 DEF PersistIssue, RequestsKnow, RequestKnows
    <2>4. ASSUME NEW q \in Issued, claims[q].prev # NoPair
          PROVE  row'[<<claims[q].prev, "refresh">>] # "active"
        <3>1. claims[q].prev \in Issued /\ claims[q].prev # p
            BY <2>1, <2>4 DEF Lineage, Issues
        <3>2. <<claims[q].prev, "refresh">> \in Token
            BY <3>1 DEF Token, Issued
        <3> QED
            BY <2>1, <2>4, <3>1, <3>2 DEF Issues, Lineage
    <2> QED
        BY <2>2, <2>3, <2>4 DEF Lineage, SingleUse
<1>3. ASSUME NEW r \in Request, Rotate(r)
      PROVE  Lineage' /\ SingleUse'
    <2>1. PICK p \in Pair :
            /\ Issues(r, p)
            /\ row' = [InsertRows(p, draft[r]) EXCEPT ![arg[r]] = "revoked"]
        BY <1>3, IssuingSteps
    <2>2. /\ Issued' = Issued \cup {p} /\ claims'[p] = draft[r]
          /\ \A q \in Issued : claims'[q] = claims[q]
        BY <2>1, IssuedGrows
    <2>3. /\ arg[r] \in Token /\ arg[r][1] \in Issued /\ arg[r][2] = "refresh"
          /\ claims'[p].prev = arg[r][1]
        BY <1>3, <2>2, KnownToken
        DEF Rotate, RefreshSteps, RequestsKnow, RequestKnows
    <2>4. arg[r] = <<arg[r][1], "refresh">>
        BY <2>3 DEF Token
    <2>5. row[arg[r]] = "active" /\ row'[arg[r]] = "revoked"
        BY <1>3, <2>1, <2>3 DEF Rotate, InsertRows
    <2>6. ASSUME NEW q \in Issued, claims[q].prev # NoPair
          PROVE  /\ row'[<<claims[q].prev, "refresh">>] # "active"
                 /\ claims[q].prev # arg[r][1]
        <3>1. claims[q].prev \in Issued /\ claims[q].prev # p
            BY <2>1, <2>6 DEF Lineage, Issues
        <3>2. <<claims[q].prev, "refresh">> \in Token
            BY <3>1 DEF Token, Issued
        <3>3. row[<<claims[q].prev, "refresh">>] # "active"
            BY <2>6 DEF Lineage
        <3> QED
            BY <2>1, <2>4, <2>5, <3>1, <3>2, <3>3 DEF Issues
    <2>7. Lineage'
        <3>1. ASSUME NEW q \in Issued', claims'[q].prev # NoPair
              PROVE  /\ claims'[q].prev \in Issued'
                     /\ row'[<<claims'[q].prev, "refresh">>] # "active"
            <4>1. CASE q = p
                BY <2>2, <2>3, <2>4, <2>5, <4>1
            <4>2. CASE q # p
                BY <2>2, <2>6, <3>1, <4>2 DEF Lineage
            <4> QED
                BY <4>1, <4>2
        <3> QED
            BY <3>1 DEF Lineage
    <2>8. SingleUse'
        <3>1. ASSUME NEW q \in Issued, claims[q].prev # NoPair
              PROVE  claims'[q].prev # claims'[p].prev
            BY <2>2, <2>3, <2>6, <3>1
        <3>2. ASSUME NEW q \in Issued, NEW o \in Issued,
                     claims'[q].prev = claims'[o].prev, claims'[q].prev # NoPair
              PROVE  q = o
            BY <2>2, <3>2 DEF SingleUse
        <3>3. ASSUME NEW q \in Issued', NEW o \in Issued',
                     claims'[q].prev = claims'[o].prev, claims'[q].prev # NoPair
              PROVE  q = o
            BY <2>2, <3>1, <3>2, <3>3
        <3> QED
            BY <3>3 DEF SingleUse
    <2> QED
        BY <2>7, <2>8
<1> QED
    BY <1>1, <1>2, <1>3, StoreSteps

LEMMA NextOneLiveRefresh ==
    ASSUME TypeOK, RequestsKnow, RecordsAreIssued, FreshSession, OneLiveRefresh,
           [Next]_vars
    PROVE  OneLiveRefresh'
<1>0. \A p \in Issued : <<p, "refresh">> \in Token
    BY DEF Token, Issued
<1>1. CASE OnlyRetires
    BY <1>0, <1>1 DEF OnlyRetires, OneLiveRefresh, Issued
<1>2. ASSUME NEW r \in Request, PersistIssue(r) \/ Rotate(r)
      PROVE  OneLiveRefresh'
    <2>1. PICK p \in Pair :
            /\ Issues(r, p)
            /\ Rotate(r) =>
                  row' = [InsertRows(p, draft[r]) EXCEPT ![arg[r]] = "revoked"]
        BY <1>2, IssuingSteps DEF PersistIssue, Rotate
    <2>2. /\ Issued' = Issued \cup {p} /\ claims'[p] = draft[r]
          /\ \A q \in Issued : claims'[q] = claims[q]
        BY <2>1, IssuedGrows
    <2>3. \A q \in Issued : /\ q # p
                            /\ row'[<<q, "refresh">>] = "active"
                                  => row[<<q, "refresh">>] = "active"
        BY <1>0, <2>1 DEF Issues
    <2>4. ASSUME NEW q \in Issued, claims[q].sid = draft[r].sid
          PROVE  row'[<<q, "refresh">>] # "active"
        <3>1. CASE PersistIssue(r)
            BY <2>4, <3>1 DEF PersistIssue, FreshSession
        <3>2. CASE Rotate(r)
            <4>1. /\ arg[r] \in Token /\ arg[r][1] \in Issued /\ arg[r][2] = "refresh"
                  /\ draft[r].sid = claims[arg[r][1]].sid
                BY <3>2, KnownToken
                DEF Rotate, RefreshSteps, RequestsKnow, RequestKnows, ClaimsOf
            <4>2. arg[r] = <<arg[r][1], "refresh">>
                BY <4>1 DEF Token
            <4>3. row[arg[r]] = "active" /\ row'[arg[r]] = "revoked"
                BY <2>1, <3>2, <4>1 DEF Rotate, InsertRows
            <4>4. CASE q = arg[r][1]
                BY <4>2, <4>3, <4>4
            <4>5. CASE q # arg[r][1]
                BY <2>3, <2>4, <4>1, <4>2, <4>3, <4>5 DEF OneLiveRefresh
            <4> QED
                BY <4>4, <4>5
        <3> QED
            BY <1>2, <3>1, <3>2
    <2> QED
        BY <2>2, <2>3, <2>4 DEF OneLiveRefresh
<1> QED
    BY <1>1, <1>2, StoreSteps

(* Only PrepareIssue makes a request about to issue a first pair. *)
LEMMA OnlyPrepared ==
    ASSUME TypeOK, NEW r \in Request, Acts(r), ~PrepareIssue(r)
    PROVE  pc'[r] # "persist"
<1>1. CASE \/ PersistIssue(r) \/ Rotate(r) \/ CascadeApply(r) \/ ApplyRevoke(r)
           \/ Fail(r) \/ CheckLineage(r) \/ IntrospectRow(r) \/ PublicCheck(r)
    BY <1>1, RespondKeeps DEF PersistIssue, Rotate, CascadeApply, ApplyRevoke,
        Fail, CheckLineage, IntrospectRow, PublicCheck, ReadDenylist
<1>2. ASSUME NEW s \in Steps \ {"persist"}, Goto(r, s, TRUE) \/ Goto(r, s, FALSE)
      PROVE  pc'[r] # "persist"
    BY <1>2, GotoKeeps
<1>3. CASE BeginRefresh(r) \/ BeginCheck(r)
    <2>1. PICK s \in {"denylist", "bearer", "introspect", "public"} : Goto(r, s, TRUE)
        BY <1>3 DEF BeginRefresh, BeginCheck, Present
    <2> QED
        BY <1>2, <2>1 DEF Steps, RefreshSteps, CheckSteps
<1>4. CASE BeginRevoke(r) \/ CascadeList(r) \/ RotateConflict(r)
    <2>1. PICK s \in {"revoke", "apply", "list"} : Goto(r, s, TRUE)
        BY <1>4 DEF BeginRevoke, CascadeList, RotateConflict
    <2> QED
        BY <1>2, <2>1 DEF Steps, RefreshSteps, RevokeSteps
<1>5. CASE CheckDenylist(r) \/ CheckRow(r) \/ CheckBearer(r) \/ Introspect(r)
    <2>1. \/ Respond(r, "refused") \/ Respond(r, "reused")
          \/ \E s \in {"row", "list", "resolve", "lineage", "stored"} : Goto(r, s, TRUE)
        BY <1>5 DEF CheckDenylist, CheckRow, CheckBearer, Introspect, ReadDenylist
    <2>2. CASE Respond(r, "refused") \/ Respond(r, "reused")
        BY <2>2, RespondKeeps
    <2>3. CASE \E s \in {"row", "list", "resolve", "lineage", "stored"} : Goto(r, s, TRUE)
        BY <1>2, <2>3 DEF Steps, RefreshSteps, CheckSteps
    <2> QED
        BY <2>1, <2>2, <2>3
<1>6. CASE ResolveRefresh(r)
    <2>1. CASE Respond(r, "refused")
        BY <2>1, RespondKeeps
    <2>2. CASE Goto(r, "rotate", FALSE)
        BY <1>2, <2>2 DEF Steps, RefreshSteps
    <2> QED
        BY <1>6, <2>1, <2>2 DEF ResolveRefresh
<1> QED
    BY <1>1, <1>3, <1>4, <1>5, <1>6 DEF Acts, Arrive, Serve

LEMMA PersistSteps ==
    ASSUME TypeOK, [Next]_vars, NEW q \in Request, pc'[q] = "persist"
    PROVE  \/ pc[q] = "persist" /\ draft'[q] = draft[q]
           \/ PrepareIssue(q) /\ OthersKept(q)
<1>1. CASE UNCHANGED <<pc, arg, draft, targets>>
    BY <1>1
<1>2. CASE Restart
    BY <1>2 DEF Restart
<1>3. ASSUME NEW r \in Request, Acts(r), OthersKept(r), q # r
      PROVE  pc[q] = "persist" /\ draft'[q] = draft[q]
    BY <1>3 DEF OthersKept
<1>4. CASE Acts(q) /\ OthersKept(q)
    BY <1>4, OnlyPrepared
<1> QED
    BY <1>1, <1>2, <1>3, <1>4, RequestSteps

(* The session id of a login is its own from its draft on. *)
LEMMA NextFreshSession ==
    ASSUME TypeOK, RequestsKnow, FreshSession, [Next]_vars
    PROVE  FreshSession'
<1>1. ASSUME NEW q \in Request, PrepareIssue(q)
      PROVE  /\ \A p \in Issued : claims[p].sid # draft'[q].sid
             /\ \A r \in Request : pc[r] = "persist" => draft[r].sid # draft'[q].sid
             /\ UNCHANGED claims
    <2>1. PICK s \in Session \ SessionsInUse, i \in Subject, c \in Class,
               w \in WorkspaceToken \cup {NoWorkspace}, h \in Horizon \cup {Forever} :
            draft' = [draft EXCEPT ![q] = NewClaims(s, i, c, w, h, NoPair)]
        BY <1>1 DEF PrepareIssue
    <2>2. draft'[q].sid = s
        BY <2>1 DEF TypeOK, NewClaims
    <2>3. \A r \in Request : pc[r] = "persist" => draft[r] # NoClaims
        BY DEF RequestsKnow, RequestKnows
    <2>4. UNCHANGED claims
        BY <1>1 DEF PrepareIssue, store
    <2> QED
        BY <2>1, <2>2, <2>3, <2>4 DEF SessionsInUse
<1>2. ASSUME NEW q \in Request, pc'[q] = "persist", NEW p \in Issued'
      PROVE  claims'[p].sid # draft'[q].sid
    <2>1. CASE PrepareIssue(q)
        BY <1>1, <1>2, <2>1 DEF Issued
    <2>2. CASE ~PrepareIssue(q)
        <3>1. pc[q] = "persist" /\ draft'[q] = draft[q]
            BY <1>2, <2>2, PersistSteps
        <3>2. CASE OnlyRetires
            BY <1>2, <3>1, <3>2 DEF OnlyRetires, FreshSession, Issued
        <3>3. ASSUME NEW r \in Request, PersistIssue(r) \/ Rotate(r)
              PROVE  claims'[p].sid # draft'[q].sid
            <4>1. PICK np \in Pair : Issues(r, np)
                BY <3>3, IssuingSteps
            <4>2. /\ Issued' = Issued \cup {np} /\ claims'[np] = draft[r]
                  /\ \A o \in Issued : claims'[o] = claims[o]
                BY <4>1, IssuedGrows
            <4>3. CASE p \in Issued
                BY <3>1, <4>2, <4>3 DEF FreshSession
            <4>4. CASE p = np /\ PersistIssue(r)
                <5>1. pc'[r] = "idle" /\ pc[r] = "persist"
                    BY <4>4, RespondKeeps DEF PersistIssue
                <5> QED
                    BY <1>2, <3>1, <4>2, <4>4, <5>1 DEF FreshSession
            <4>5. CASE p = np /\ Rotate(r)
                <5>1. arg[r][1] \in Issued /\ draft[r].sid = claims[arg[r][1]].sid
                    BY <4>5, KnownToken
                    DEF Rotate, RefreshSteps, RequestsKnow, RequestKnows, ClaimsOf
                <5> QED
                    BY <3>1, <4>2, <4>5, <5>1 DEF FreshSession
            <4> QED
                BY <1>2, <3>3, <4>2, <4>3, <4>4, <4>5
        <3> QED
            BY <3>2, <3>3, StoreSteps
    <2> QED
        BY <2>1, <2>2
<1>3. ASSUME NEW q \in Request, pc'[q] = "persist",
             NEW r \in Request \ {q}, pc'[r] = "persist"
      PROVE  draft'[r].sid # draft'[q].sid
    <2>1. CASE PrepareIssue(q) /\ OthersKept(q)
        BY <1>1, <1>3, <2>1 DEF OthersKept
    <2>2. CASE PrepareIssue(r) /\ OthersKept(r)
        BY <1>1, <1>3, <2>2 DEF OthersKept
    <2>3. CASE /\ pc[q] = "persist" /\ draft'[q] = draft[q]
               /\ pc[r] = "persist" /\ draft'[r] = draft[r]
        BY <1>3, <2>3 DEF FreshSession
    <2> QED
        BY <1>3, <2>1, <2>2, <2>3, PersistSteps
<1> QED
    BY <1>2, <1>3 DEF FreshSession

-----------------------------------------------------------------------------
(***************************************************************************)
(* Revocation is final, and delegation bounded.                            *)
(***************************************************************************)

LEMMA NextRevocationIsFinal ==
    ASSUME TypeOK, RequestsKnow, RecordsAreIssued, RevocationIsFinal, [Next]_vars
    PROVE  RevocationIsFinal'
<1> SUFFICES ASSUME NEW t \in Token, t \in acked'
             PROVE  denied'[t] = Forever /\ row'[t] # "active"
    BY NextTypeOK DEF RevocationIsFinal, TypeOK
<1> DEFINE Kept == t \in acked => denied[t] = Forever /\ row[t] # "active" /\ IsIssued(t)
<1>0. Kept /\ Prune[t] = (IF denied[t] <= now THEN 0 ELSE denied[t])
    BY DEF RevocationIsFinal, RecordsAreIssued, Prune
<1>1. t \in acked => Prune[t] = Forever
    BY <1>0, TimesAssumption DEF TypeOK
<1>2. ASSUME NEW r \in Request, Arrive(r) \/ Serve(r)
      PROVE  denied'[t] = Forever /\ row'[t] # "active"
    <2>1. CASE Reads(r)
        BY <1>0, <1>1, <2>1, ReadsStore
    <2>2. CASE CascadeApply(r)
        <3>1. acked' = acked
            BY <2>2 DEF CascadeApply
        <3>2. denied'[t] = Forever
            BY <1>1, <2>2, <3>1 DEF CascadeApply, DenyForever
        <3>3. row'[t] # "active"
            BY <1>0, <2>2, <3>1 DEF CascadeApply, FlipRows
        <3> QED
            BY <3>2, <3>3
    <2>3. CASE ApplyRevoke(r)
        <3>1. acked' = acked \cup targets[r]
            BY <2>3 DEF ApplyRevoke
        <3>2. denied'[t] = Forever
            BY <1>1, <2>3, <3>1 DEF ApplyRevoke, DenyForever
        <3>3. row'[t] # "active"
            BY <1>0, <2>3, <3>1 DEF ApplyRevoke, FlipRows
        <3> QED
            BY <3>2, <3>3
    <2>4. CASE PersistIssue(r)
        <3>1. PICK p \in Pair : Issues(r, p)
            BY <2>4, IssuingSteps
        <3>2. t \in acked /\ t[1] # p /\ denied' = denied
            BY <1>0, <2>4, <3>1 DEF Issues, IsIssued, PersistIssue
        <3> QED
            BY <1>0, <3>1, <3>2 DEF Issues
    <2>5. CASE Rotate(r)
        <3>1. PICK p \in Pair : Issues(r, p)
            BY <2>5, IssuingSteps
        <3>2. t \in acked /\ t[1] # p
            BY <1>0, <3>1 DEF Issues, IsIssued
        <3>3. t # arg[r]
            BY <1>0, <2>5, <3>2 DEF Rotate
        <3>4. denied'[t] = denied[t]
            BY <2>5, <3>3 DEF Rotate, TypeOK
        <3> QED
            BY <1>0, <3>1, <3>2, <3>4 DEF Issues
    <2> QED
        BY <1>2, <2>1, <2>2, <2>3, <2>4, <2>5 DEF Arrive, Serve, Reads
<1>3. CASE UNCHANGED <<row, denied, acked>>
    BY <1>0, <1>3
<1>4. ASSUME NEW u \in Token, CollectRow(u)
      PROVE  denied'[t] = Forever /\ row'[t] # "active"
    BY <1>0, <1>4 DEF CollectRow, TypeOK, ghost
<1>5. CASE UNCHANGED vars
    BY <1>3, <1>5 DEF vars, store, ghost
<1>6. CASE \/ Tick \/ Restart
           \/ \E r \in Request : Fail(r)
    BY <1>3, <1>6 DEF Tick, Restart, Fail, store, ghost
<1>7. CASE \E w \in WorkspaceToken : \/ CreateWorkspaceToken(w)
                                     \/ RevokeWorkspaceToken(w)
                                     \/ LoseWorkspaceToken(w)
    BY <1>3, <1>7 DEF CreateWorkspaceToken, RevokeWorkspaceToken,
        LoseWorkspaceToken, MoveParent, ghost
<1> QED
    BY <1>2, <1>4, <1>5, <1>6, <1>7 DEF Next, Undisturbed

LEMMA NextDelegationBound ==
    ASSUME TypeOK, RequestsKnow, Lineage, DelegationBound, [Next]_vars
    PROVE  DelegationBound'
<1>1. CASE OnlyRetires
    BY <1>1 DEF OnlyRetires, DelegationBound, Issued
<1>2. ASSUME NEW r \in Request, PersistIssue(r) \/ Rotate(r)
      PROVE  DelegationBound'
    <2>1. PICK p \in Pair : Issues(r, p)
        BY <1>2, IssuingSteps
    <2>2. /\ Issued' = Issued \cup {p} /\ claims'[p] = draft[r]
          /\ \A q \in Issued : claims'[q] = claims[q]
        BY <2>1, IssuedGrows
    <2>3. draft[r].aexp <= draft[r].horizon /\ draft[r].rexp <= draft[r].horizon
        BY <2>1 DEF Issues, RequestsKnow, RequestKnows
    <2>4. ASSUME NEW q \in Issued
          PROVE  /\ claims'[q].aexp <= claims'[q].horizon
                 /\ claims'[q].rexp <= claims'[q].horizon
                 /\ claims'[q].prev # NoPair =>
                        claims'[q].horizon = claims'[claims'[q].prev].horizon
        <3>1. claims[q].prev # NoPair => claims[q].prev \in Issued
            BY DEF Lineage
        <3>2. /\ claims[q].aexp <= claims[q].horizon
              /\ claims[q].rexp <= claims[q].horizon
              /\ claims[q].prev # NoPair =>
                    claims[q].horizon = claims[claims[q].prev].horizon
            BY DEF DelegationBound
        <3>3. claims'[q] = claims[q]
            BY <2>2
        <3>4. claims[q].prev # NoPair =>
                    claims'[claims[q].prev] = claims[claims[q].prev]
            BY <2>2, <3>1
        <3> QED
            BY <3>2, <3>3, <3>4
    <2>5. draft[r].prev # NoPair => draft[r].horizon = claims'[draft[r].prev].horizon
        <3>1. CASE PersistIssue(r)
            BY <3>1 DEF PersistIssue, RequestsKnow, RequestKnows
        <3>2. CASE Rotate(r)
            <4>1. /\ arg[r][1] \in Issued /\ draft[r].prev = arg[r][1]
                  /\ draft[r].horizon = claims[arg[r][1]].horizon
                BY <3>2, KnownToken
                DEF Rotate, RefreshSteps, RequestsKnow, RequestKnows, ClaimsOf
            <4> QED
                BY <2>2, <4>1
        <3> QED
            BY <1>2, <3>1, <3>2
    <2> QED
        BY <2>2, <2>3, <2>4, <2>5 DEF DelegationBound
<1> QED
    BY <1>1, <1>2, StoreSteps

-----------------------------------------------------------------------------
(***************************************************************************)
(* The theorems.                                                           *)
(***************************************************************************)

IInv == TypeOK /\ StoreInductive

LEMMA InitInductive ==
    Init => IInv
<1> SUFFICES ASSUME Init PROVE StoreInductive
    BY InitTypeOK DEF IInv
<1>1. Issued = {}
    BY DEF Init, Issued
<1>2. RequestsKnow
    BY DEF Init, RequestsKnow, RequestKnows, RefreshSteps, CheckSteps
<1> QED
    BY <1>1, <1>2 DEF Init, StoreInductive, RecordsAreIssued, Lineage, FreshSession,
        SingleUse, OneLiveRefresh, RevocationIsFinal, DelegationBound

LEMMA NextInductive ==
    IInv /\ [Next]_vars => IInv'
BY NextTypeOK, NextRequestsKnow, NextRecordsAreIssued, NextSingleUse,
    NextOneLiveRefresh, NextFreshSession, NextRevocationIsFinal,
    NextDelegationBound DEF IInv, StoreInductive

(* The inductive invariant holds of every behaviour of the service. *)
LEMMA InvariantHolds == Spec => []IInv
<1>1. Init => IInv
    BY InitInductive
<1>2. IInv /\ [Next]_vars => IInv'
    BY NextInductive
<1> QED
    BY <1>1, <1>2, PTL DEF Spec

(* Every part of the store's invariant, from the lineage of pairs to the   *)
(* bound on delegations, holds in every reachable state of tokens.ts.      *)
THEOREM StoreInvariant == Spec => []StoreInductive
<1>1. IInv => StoreInductive
    BY DEF IInv
<1> QED
    BY <1>1, InvariantHolds, PTL

(* The variables stay in their types (the whole of the state of tokens.ts). *)
THEOREM TypeCorrect == Spec => []TypeOK
<1>1. IInv => TypeOK
    BY DEF IInv
<1> QED
    BY <1>1, InvariantHolds, PTL

(* A refresh token is exchanged at most once (rotateIssuedPairWithAudit),  *)
(* for any number of concurrent requests and whether or not an await gives *)
(* up the event loop.                                                      *)
THEOREM RefreshIsSingleUse == Spec => []SingleUse
<1>1. IInv => SingleUse
    BY DEF IInv, StoreInductive
<1> QED
    BY <1>1, InvariantHolds, PTL

(* At most one refresh token of a session is active in the store. *)
THEOREM SessionHasOneRefresh == Spec => []OneLiveRefresh
<1>1. IInv => OneLiveRefresh
    BY DEF IInv, StoreInductive
<1> QED
    BY <1>1, InvariantHolds, PTL

(* A token whose revocation was acknowledged (POST /v1/tokens/revoke)      *)
(* stays denied and inactive for as long as the service runs.              *)
THEOREM RevocationPersists == Spec => []RevocationIsFinal
<1>1. IInv => RevocationIsFinal
    BY DEF IInv, StoreInductive
<1> QED
    BY <1>1, InvariantHolds, PTL

(* No chain of refreshes outlives the horizon it was delegated with. *)
THEOREM DelegationIsBounded == Spec => []DelegationBound
<1>1. IInv => DelegationBound
    BY DEF IInv, StoreInductive
<1> QED
    BY <1>1, InvariantHolds, PTL

-----------------------------------------------------------------------------
(***************************************************************************)
(* Refinement: the service implements RefreshChain.                        *)
(***************************************************************************)

LEMMA LiveIsAtMostOne ==
    ASSUME OneLiveRefresh, NEW s, NEW p \in LiveRefresh(s)
    PROVE  LiveRefresh(s) = {p}
BY DEF OneLiveRefresh, LiveRefresh

LEMMA TheOneValue ==
    /\ TheOne({}) = NoPair
    /\ \A p : TheOne({p}) = p
BY DEF TheOne

(* Rows that only retire end the sessions that lose their live token. *)
LEMMA RetiringEndsSessions ==
    ASSUME TypeOK, OneLiveRefresh, OnlyRetires
    PROVE  \E S \in SUBSET Session : Chain!End(S)
<1>0. UNCHANGED claims /\ Issued' = Issued
    BY DEF OnlyRetires, Issued
<1>1. UNCHANGED <<ChainOpened, Refreshable>>
    BY <1>0 DEF ChainOpened, Refreshable
<1>2. ASSUME NEW s \in Session, NEW p \in LiveRefresh(s)'
      PROVE  p \in LiveRefresh(s)
    <2>1. <<p, "refresh">> \in Token
        BY <1>0 DEF LiveRefresh, Issued, Token
    <2> QED
        BY <1>0, <1>2, <2>1 DEF LiveRefresh, OnlyRetires
<1> DEFINE S == {s \in Session : LiveRefresh(s)' = {}}
<1>3. ASSUME NEW s \in Session
      PROVE  ChainLive'[s] = IF s \in S THEN NoPair ELSE ChainLive[s]
    <2>1. CASE s \in S
        BY <2>1, TheOneValue DEF ChainLive
    <2>2. CASE s \notin S
        <3>1. PICK p : p \in LiveRefresh(s)'
            BY <2>2
        <3>2. LiveRefresh(s) = {p}
            BY <1>2, <3>1, LiveIsAtMostOne
        <3>3. LiveRefresh(s)' = {p}
            BY <1>2, <3>1, <3>2
        <3> QED
            BY <2>2, <3>2, <3>3 DEF ChainLive
    <2> QED
        BY <2>1, <2>2
<1>4. ChainLive' = [s \in Session |-> IF s \in S THEN NoPair ELSE ChainLive[s]]
    BY <1>3 DEF ChainLive
<1> QED
    BY <1>1, <1>4 DEF Chain!End

(* A new pair opens a session or takes over from the live token of one. *)
LEMMA IssuingExtendsChain ==
    ASSUME IInv, OneLiveRefresh', NEW r \in Request, PersistIssue(r) \/ Rotate(r)
    PROVE  [Chain!Next]_(Chain!chain)
<1> USE DEF IInv, StoreInductive
<1>1. PICK p \in Pair :
        /\ Issues(r, p)
        /\ PersistIssue(r) => row' = InsertRows(p, draft[r])
        /\ Rotate(r) => row' = [InsertRows(p, draft[r]) EXCEPT ![arg[r]] = "revoked"]
    <2>1. ~(PersistIssue(r) /\ Rotate(r))
        BY DEF PersistIssue, Rotate
    <2> QED
        BY <2>1, IssuingSteps
<1>2. /\ Issued' = Issued \cup {p} /\ claims'[p] = draft[r] /\ p \notin Issued
      /\ \A q \in Issued : claims'[q] = claims[q]
    BY <1>1, IssuedGrows DEF Issues
<1>d. draft[r] \in Claims
    BY <1>1 DEF Issues, RequestsKnow, RequestKnows, TypeOK
<1>s. PICK d \in Claims, s \in Session : d = draft[r] /\ s = draft[r].sid
    BY <1>d DEF Claims
<1> DEFINE New == <<p, "refresh">>
<1>3. New \in Token /\ p # NoPair
    BY <1>1, NamesAssumption DEF Issues, Token
<1>4. row[New] = "absent"
    BY <1>2, <1>3 DEF RecordsAreIssued, IsIssued
<1>5. ASSUME NEW z \in Session, z # s
      PROVE  LiveRefresh(z)' = LiveRefresh(z)
    <2>1. ASSUME NEW q \in Issued, claims[q].sid = z
          PROVE  row'[<<q, "refresh">>] = row[<<q, "refresh">>]
        <3>1. <<q, "refresh">> \in Token /\ q # p
            BY <1>2 DEF Issued, Token
        <3>2. InsertRows(p, draft[r])[<<q, "refresh">>] = row[<<q, "refresh">>]
            BY <3>1 DEF InsertRows
        <3>3. Rotate(r) => <<q, "refresh">> # arg[r]
            BY <1>s, <1>5, <2>1, KnownToken
            DEF Rotate, RefreshSteps, RequestsKnow, RequestKnows, ClaimsOf
        <3> QED
            BY <1>1, <3>1, <3>2, <3>3 DEF InsertRows
    <2>2. claims'[p].sid # z
        BY <1>s, <1>2, <1>5
    <2> QED
        BY <1>2, <2>1, <2>2 DEF LiveRefresh
<1>6. CASE d.class = "durable"
    <2>1. PersistIssue(r)
        BY <1>s, <1>6, KnownToken DEF Rotate, RefreshSteps, RequestsKnow, RequestKnows
    <2>2. Refreshable' = Refreshable
        BY <1>s, <1>2, <1>6 DEF Refreshable
    <2>3. ChainOpened' = ChainOpened
        BY <1>2, <2>2 DEF ChainOpened, Refreshable
    <2>4. LiveRefresh(s)' = LiveRefresh(s)
        <3>1. LiveRefresh(s) = {}
            BY <1>s, <2>1 DEF PersistIssue, FreshSession, LiveRefresh
        <3>2. row'[New] = "absent"
            BY <1>s, <1>1, <1>3, <1>4, <1>6, <2>1 DEF InsertRows
        <3>3. \A q \in Issued : claims'[q].sid # s
            BY <1>s, <1>2, <2>1 DEF PersistIssue, FreshSession
        <3>4. \A q \in Issued' : ~(claims'[q].sid = s /\ row'[<<q, "refresh">>] = "active")
            BY <1>2, <3>2, <3>3
        <3>5. LiveRefresh(s)' = {}
            BY <3>4 DEF LiveRefresh
        <3> QED
            BY <3>1, <3>5
    <2>5. ChainLive' = ChainLive
        BY <1>5, <2>4 DEF ChainLive
    <2> QED
        BY <2>2, <2>3, <2>5 DEF Chain!chain
<1>7. CASE d.class # "durable"
    <2>1. Refreshable' = Refreshable \cup {p} /\ p \notin Refreshable
        BY <1>s, <1>2, <1>7 DEF Refreshable
    <2>2. ChainOpened' = ChainOpened \cup {s}
        BY <1>s, <1>2, <2>1 DEF ChainOpened, Refreshable
    <2>3. p \in LiveRefresh(s)'
        <3>1. Rotate(r) => New # arg[r]
            BY <1>2, KnownToken DEF Rotate, RefreshSteps
        <3>2. InsertRows(p, d)[New] = "active"
            BY <1>3, <1>7 DEF InsertRows
        <3>3. row'[New] = "active"
            BY <1>s, <1>1, <1>3, <3>1, <3>2 DEF InsertRows
        <3> QED
            BY <1>s, <1>2, <3>3 DEF LiveRefresh
    <2>4. ChainLive'[s] = p
        <3>1. \A q \in LiveRefresh(s)' : q = p
            BY <2>3 DEF OneLiveRefresh, LiveRefresh
        <3>2. LiveRefresh(s)' = {p}
            BY <2>3, <3>1
        <3> QED
            BY <3>2, TheOneValue DEF ChainLive
    <2>5. ChainLive' = [ChainLive EXCEPT ![s] = p]
        <3>1. \A z \in Session \ {s} : ChainLive'[z] = ChainLive[z]
            BY <1>5 DEF ChainLive
        <3> QED
            BY <2>4, <3>1 DEF ChainLive
    <2>6. CASE PersistIssue(r)
        <3>1. s \notin ChainOpened
            BY <1>s, <2>6 DEF PersistIssue, FreshSession, ChainOpened, Refreshable
        <3>2. Chain!Open(s, p)
            BY <2>1, <2>2, <2>5, <3>1 DEF Chain!Open
        <3> QED
            BY <1>3, <3>2 DEF Chain!Next
    <2>7. CASE Rotate(r)
        <3>1. /\ arg[r] \in Token /\ arg[r][1] \in Issued /\ arg[r][2] = "refresh"
              /\ d.sid = claims[arg[r][1]].sid
              /\ claims[arg[r][1]].class # "durable"
            BY <1>s, <2>7, KnownToken
            DEF Rotate, RefreshSteps, RequestsKnow, RequestKnows, ClaimsOf
        <3>2. arg[r] = <<arg[r][1], "refresh">>
            BY <3>1 DEF Token
        <3>3. arg[r][1] \in LiveRefresh(s)
            BY <1>s, <2>7, <3>1, <3>2 DEF Rotate, LiveRefresh
        <3>4. ChainLive[s] # NoPair
            <4>1. arg[r][1] \in Pair
                BY <3>1 DEF Issued
            <4>2. LiveRefresh(s) = {arg[r][1]}
                BY <3>3, LiveIsAtMostOne
            <4> QED
                BY <4>1, <4>2, TheOneValue, NamesAssumption DEF ChainLive
        <3>5. s \in ChainOpened
            BY <1>s, <3>1 DEF ChainOpened, Refreshable
        <3>6. Chain!Rotate(s, p)
            BY <2>1, <2>2, <2>5, <3>4, <3>5 DEF Chain!Rotate
        <3> QED
            BY <1>3, <3>6 DEF Chain!Next
    <2> QED
        BY <2>6, <2>7
<1> QED
    BY <1>6, <1>7

(* Token refresh as tokens.ts implements it keeps the promise of           *)
(* RefreshChain: a session is one chain of refresh tokens, each exchanged  *)
(* once, and it never comes back to life once its live token is gone.      *)
THEOREM ImplementsRefreshChain == Spec => ChainSpec
<1>1. Init => Chain!Init
    <2>1. Init => Issued = {}
        BY DEF Init, Issued
    <2> QED
        BY <2>1, TheOneValue
        DEF Chain!Init, ChainLive, ChainOpened, Refreshable, LiveRefresh
<1>2. IInv /\ IInv' /\ [Next]_vars => [Chain!Next]_(Chain!chain)
    <2> SUFFICES ASSUME IInv, IInv', [Next]_vars
                 PROVE  [Chain!Next]_(Chain!chain)
        OBVIOUS
    <2>1. CASE OnlyRetires
        BY <2>1, RetiringEndsSessions DEF IInv, StoreInductive, Chain!Next
    <2>2. CASE \E r \in Request : PersistIssue(r) \/ Rotate(r)
        BY <2>2, IssuingExtendsChain DEF IInv, StoreInductive
    <2> QED
        BY <2>1, <2>2, StoreSteps DEF IInv
<1> QED
    BY <1>1, <1>2, InvariantHolds, PTL DEF Spec, ChainSpec, Chain!Spec

=============================================================================
