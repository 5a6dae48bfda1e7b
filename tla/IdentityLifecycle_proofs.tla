---------------------- MODULE IdentityLifecycle_proofs ----------------------
(***************************************************************************)
(* Proofs, for every value of the constants, about IdentityLifecycle.      *)
(***************************************************************************)
EXTENDS IdentityLifecycle, FiniteSetTheorems, TLAPS

Says == {"none", "refused", "done", "issued", "rotated", "reused", "error"}

(* The clerical part of every action: where a request goes, or its answer. *)
LEMMA GotoType ==
    ASSUME TypeOK, NEW r \in Request, NEW s \in Steps, NEW k \in BOOLEAN,
           Goto(r, s, k)
    PROVE  /\ pc' \in [Request -> Steps]
           /\ loop' \in Request \cup {NoRequest}
           /\ answer' \in [to : Request \cup {NoRequest}, says : Says]
BY DEF TypeOK, Goto, Silent, Says

LEMMA RespondType ==
    ASSUME TypeOK, NEW r \in Request, NEW v \in Says, Respond(r, v)
    PROVE  /\ pc' \in [Request -> Steps]
           /\ op' \in [Request -> {"none", "suspend", "retire", "delete"}]
           /\ root' \in [Request -> Identity \cup {NoIdentity}]
           /\ who' \in [Request -> Identity \cup {NoIdentity}]
           /\ at' \in [Request -> Token \cup {NoToken}]
           /\ targets' \in [Request -> SUBSET Token]
           /\ todo' \in [Request -> SUBSET Identity]
           /\ covered' \in [Request -> SUBSET Identity]
           /\ loop' \in Request \cup {NoRequest}
           /\ answer' \in [to : Request \cup {NoRequest}, says : Says]
BY DEF TypeOK, Respond, Steps, Says

LEMMA TokenParts ==
    ASSUME NEW t \in Token
    PROVE  /\ t[1] \in Pair
           /\ t = <<t[1], "access">> \/ t = <<t[1], "refresh">>
BY DEF Token

-----------------------------------------------------------------------------
(***************************************************************************)
(* Type correctness.                                                       *)
(***************************************************************************)

LEMMA InitTypeOK ==
    Init => TypeOK
BY DEF Init, TypeOK, Steps

LEMMA OneTurnTypeOK ==
    ASSUME TypeOK,
           \/ \E i \in Identity, s \in Identity \cup {NoIdentity} : Create(i, s)
           \/ \E i \in Identity : ExceedBudget(i) \/ Reactivate(i)
           \/ Restart
    PROVE  TypeOK'
<1>1. CASE \E i \in Identity, s \in Identity \cup {NoIdentity} : Create(i, s)
    BY <1>1 DEF Create, Silent, TypeOK, tokens, memory
<1>2. CASE \E i \in Identity : ExceedBudget(i) \/ Reactivate(i)
    BY <1>2 DEF ExceedBudget, Reactivate, Silent, TypeOK, tokens, memory
<1>3. CASE Restart
    BY <1>3 DEF Restart, Silent, TypeOK, Steps, store, tokens
<1> QED
    BY <1>1, <1>2, <1>3

LEMMA BeginTypeOK ==
    ASSUME TypeOK, NEW r \in Request, BeginChange(r) \/ BeginDelete(r)
    PROVE  TypeOK'
<1> USE DEF store, tokens
<1>1. CASE BeginChange(r)
    <2>1. Goto(r, "write", FALSE) /\ "write" \in Steps /\ FALSE \in BOOLEAN
        BY <1>1 DEF BeginChange, Steps
    <2>2. PICK i \in Identity, o \in {"suspend", "retire"} : Begin(r, o, i)
        BY <1>1 DEF BeginChange
    <2> QED
        BY <1>1, <2>1, <2>2, GotoType DEF BeginChange, Begin, TypeOK, Says
<1>2. CASE BeginDelete(r)
    <2>1. PICK i \in Identity :
            /\ Begin(r, "delete", i)
            /\ targets' = [targets EXCEPT ![r] = ActiveOf(i)]
            /\ Goto(r, "erase", TRUE)
        BY <1>2 DEF BeginDelete
    <2>2. "erase" \in Steps /\ TRUE \in BOOLEAN /\ ActiveOf(i) \subseteq Token
        BY DEF Steps, ActiveOf
    <2> QED
        BY <2>1, <2>2, GotoType DEF Begin, TypeOK, Says
<1> QED
    BY <1>1, <1>2

LEMMA StatusTypeOK ==
    ASSUME TypeOK, Inductive, NEW r \in Request,
           Erase(r) \/ WriteStatus(r) \/ RefuseStatus(r)
    PROVE  TypeOK'
<1> USE DEF store, tokens, memory
<1>1. CASE Erase(r)
    <2>1. Goto(r, "revoke", TRUE) /\ "revoke" \in Steps /\ TRUE \in BOOLEAN
        BY <1>1 DEF Erase, Steps
    <2>2. who[r] \in Identity
        BY <1>1 DEF Erase, Inductive, Points
    <2> QED
        BY <1>1, <2>1, <2>2, GotoType DEF Erase, TypeOK, Says
<1>2. CASE WriteStatus(r)
    <2>1. Goto(r, "list", TRUE) /\ "list" \in Steps /\ TRUE \in BOOLEAN
        BY <1>2 DEF WriteStatus, Steps
    <2>2. who[r] \in Identity
        BY <1>2 DEF WriteStatus, Inductive, Points
    <2> QED
        BY <1>2, <2>1, <2>2, GotoType DEF WriteStatus, Written, TypeOK, Says
<1>3. CASE RefuseStatus(r)
    <2>1. "next" \in Steps /\ TRUE \in BOOLEAN /\ "refused" \in Says
        BY DEF Steps, Says
    <2>2. CASE Respond(r, "refused")
        BY <1>3, <2>1, <2>2, RespondType DEF RefuseStatus, TypeOK, Says
    <2>3. CASE Goto(r, "next", TRUE) /\ UNCHANGED memory
        BY <1>3, <2>1, <2>3, GotoType DEF RefuseStatus, TypeOK, Says
    <2> QED
        BY <1>3, <2>2, <2>3 DEF RefuseStatus
<1> QED
    BY <1>1, <1>2, <1>3

LEMMA RevokeTypeOK ==
    ASSUME TypeOK, Inductive, NEW r \in Request,
           ListTokens(r) \/ Deny(r) \/ Flip(r) \/ Revoked(r) \/ NextChild(r) \/ Done(r)
    PROVE  TypeOK'
<1> USE DEF store, tokens
<1>0. {"revoke", "flip", "next", "write"} \subseteq Steps /\ TRUE \in BOOLEAN
      /\ "done" \in Says
    BY DEF Steps, Says
<1>1. CASE ListTokens(r)
    <2>1. ActiveOf(who[r]) \subseteq Token
        BY DEF ActiveOf
    <2>2. Goto(r, "revoke", TRUE)
        BY <1>1 DEF ListTokens
    <2> QED
        BY <1>0, <1>1, <2>1, <2>2, GotoType DEF ListTokens, TypeOK, Says
<1>2. CASE Deny(r)
    <2>1. PICK t \in targets[r] : denied' = denied \cup {t} /\ at' = [at EXCEPT ![r] = t]
        BY <1>2 DEF Deny
    <2>2. t \in Token /\ Goto(r, "flip", TRUE)
        BY <1>2 DEF Deny, TypeOK
    <2> QED
        BY <1>0, <1>2, <2>1, <2>2, GotoType DEF Deny, TypeOK, Says
<1>3. CASE Flip(r)
    <2>1. Goto(r, "revoke", TRUE)
        BY <1>3 DEF Flip
    <2> QED
        BY <1>0, <1>3, <2>1, GotoType DEF Flip, TypeOK, Says
<1>4. CASE Revoked(r)
    <2>1. Goto(r, "next", TRUE) /\ ChildrenOf(root[r]) \subseteq Identity
        BY <1>4 DEF Revoked, ChildrenOf
    <2> QED
        BY <1>0, <1>4, <2>1, GotoType DEF Revoked, TypeOK, Says
<1>5. CASE NextChild(r)
    <2>1. Goto(r, "write", TRUE)
        BY <1>5 DEF NextChild
    <2>2. PICK c \in todo[r] : /\ who' = [who EXCEPT ![r] = c]
                               /\ todo' = [todo EXCEPT ![r] = @ \ {c}]
        BY <1>5 DEF NextChild
    <2>3. c \in Identity
        BY DEF TypeOK
    <2> QED
        BY <1>0, <1>5, <2>1, <2>2, <2>3, GotoType DEF NextChild, TypeOK, Says
<1>6. CASE Done(r)
    BY <1>0, <1>6, RespondType DEF Done, TypeOK, Says
<1> QED
    BY <1>1, <1>2, <1>3, <1>4, <1>5, <1>6

LEMMA CascadeTypeOK ==
    ASSUME TypeOK, NEW r \in Request, NEW t \in Token, Cascade(r, t)
    PROVE  TypeOK'
<1>1. Respond(r, "reused") /\ "reused" \in Says
    BY DEF Cascade, Says
<1>2. denied' \subseteq Token /\ row' \in [Token -> {"absent", "active", "revoked"}]
    BY DEF Cascade, TypeOK
<1> QED
    BY <1>1, <1>2, RespondType DEF Cascade, TypeOK, Says

LEMMA UseTypeOK ==
    ASSUME TypeOK, Inductive, NEW r \in Request, Use(r) \/ Fail(r)
    PROVE  TypeOK'
<1> USE DEF store, tokens
<1>0. {"persist", "rotate"} \subseteq Steps /\ FALSE \in BOOLEAN
      /\ {"issued", "rotated", "error"} \subseteq Says
    BY DEF Steps, Says
<1>1. CASE BeginIssue(r)
    <2>1. Goto(r, "persist", FALSE)
        BY <1>1 DEF BeginIssue
    <2>2. PICK i \in Identity : who' = [who EXCEPT ![r] = i]
        BY <1>1 DEF BeginIssue
    <2> QED
        BY <1>0, <1>1, <2>1, <2>2, GotoType DEF BeginIssue, TypeOK, Says
<1>2. CASE PersistIssue(r)
    <2>1. Respond(r, "issued") /\ who[r] \in Identity
        BY <1>2 DEF PersistIssue, Inductive, Points
    <2>2. PICK p \in Pair \ Issued :
            /\ Insert(p, who[r], p)
            /\ row' = [t \in Token |-> IF t[1] = p THEN "active" ELSE row[t]]
        BY <1>2 DEF PersistIssue
    <2>3. /\ owner' \in [Pair -> Identity \cup {NoIdentity}]
          /\ session' \in [Pair -> Pair]
          /\ row' \in [Token -> {"absent", "active", "revoked"}]
        BY <2>1, <2>2 DEF Insert, TypeOK
    <2> QED
        BY <1>0, <1>2, <2>1, <2>3, RespondType DEF PersistIssue, TypeOK, Says
<1>3. CASE BeginRefresh(r)
    <2>1. PICK p \in Issued :
            \/ Cascade(r, <<p, "refresh">>)
            \/ /\ at' = [at EXCEPT ![r] = <<p, "refresh">>]
               /\ Goto(r, "rotate", FALSE)
               /\ UNCHANGED <<store, op, root, who, targets, todo, covered, doomed>>
        BY <1>3 DEF BeginRefresh
    <2>2. <<p, "refresh">> \in Token
        BY DEF Issued, Token
    <2>3. CASE Cascade(r, <<p, "refresh">>)
        BY <2>2, <2>3, CascadeTypeOK
    <2>4. CASE /\ at' = [at EXCEPT ![r] = <<p, "refresh">>]
               /\ Goto(r, "rotate", FALSE)
               /\ UNCHANGED <<store, op, root, who, targets, todo, covered, doomed>>
        BY <1>0, <2>2, <2>4, GotoType DEF TypeOK, Says
    <2> QED
        BY <2>1, <2>3, <2>4
<1>4. CASE Rotate(r)
    <2>1. Respond(r, "rotated") /\ at[r] \in Token
        BY <1>4 DEF Rotate, Inductive, Points
    <2>2. PICK p \in Pair \ Issued :
            /\ Insert(p, owner[at[r][1]], session[at[r][1]])
            /\ row' = [t \in Token |-> IF t[1] = p THEN "active"
                                      ELSE IF t = at[r] THEN "revoked" ELSE row[t]]
            /\ doomed' = IF at[r] \in doomed THEN doomed \cup TokensOf(p) ELSE doomed
        BY <1>4 DEF Rotate
    <2>3. at[r][1] \in Pair /\ TokensOf(p) \subseteq Token
        BY <2>1, TokenParts DEF TokensOf, Token
    <2>4. /\ owner' \in [Pair -> Identity \cup {NoIdentity}]
          /\ session' \in [Pair -> Pair]
        BY <2>2, <2>3 DEF Insert, TypeOK
    <2>5. /\ row' \in [Token -> {"absent", "active", "revoked"}]
          /\ doomed' \subseteq Token
          /\ denied' \subseteq Token
        BY <1>4, <2>1, <2>2, <2>3 DEF Rotate, TypeOK
    <2> QED
        BY <1>0, <1>4, <2>1, <2>4, <2>5, RespondType DEF Rotate, TypeOK, Says
<1>5. CASE RotateConflict(r)
    <2>1. at[r] \in Token /\ Cascade(r, at[r])
        BY <1>5 DEF RotateConflict, Inductive, Points
    <2> QED
        BY <2>1, CascadeTypeOK
<1>6. CASE Fail(r)
    <2>1. Respond(r, "error")
        BY <1>6 DEF Fail
    <2> QED
        BY <1>0, <1>6, <2>1, RespondType DEF Fail, TypeOK, Says
<1> QED
    BY <1>1, <1>2, <1>3, <1>4, <1>5, <1>6 DEF Use

LEMMA NextTypeOK ==
    ASSUME TypeOK, Inductive, [Next]_vars
    PROVE  TypeOK'
<1>1. CASE UNCHANGED vars
    BY <1>1 DEF vars, store, tokens, memory, TypeOK
<1>2. ASSUME NEW r \in Request, Change(r)
      PROVE  TypeOK'
    BY <1>2, BeginTypeOK, StatusTypeOK, RevokeTypeOK DEF Change
<1>3. ASSUME NEW r \in Request, Use(r) \/ Fail(r)
      PROVE  TypeOK'
    BY <1>3, UseTypeOK
<1> QED
    BY <1>1, <1>2, <1>3, OneTurnTypeOK DEF Next

-----------------------------------------------------------------------------
(***************************************************************************)
(* The invariant: what a step of r leaves to the other requests.           *)
(***************************************************************************)

LEMMA InitInductive ==
    Init => Inductive
BY NamesAssumption
   DEF Init, Inductive, RowsAgree, DoomedAreRevoked, HoldsLoop, Remaining,
       Points, Issued

(* Only the holder of the event loop is past a status write. *)
LEMMA OthersWait ==
    ASSUME TypeOK, Inductive, NEW r \in Request, Turn(r),
           NEW q \in Request \ {r}
    PROVE  /\ pc[q] \in {"idle", "persist", "rotate", "write"}
           /\ covered[q] = {}
           /\ loop # q
BY NamesAssumption DEF TypeOK, Inductive, HoldsLoop, Turn

(* A request that holds nothing is not disturbed while no row disappears.  *)
LEMMA WaitingKeeps ==
    ASSUME Inductive, NEW q \in Request,
           pc[q] \in {"idle", "persist", "rotate", "write"}, covered[q] = {},
           pc'[q] = pc[q], covered'[q] = covered[q], who'[q] = who[q], at'[q] = at[q],
           \A t \in Token : row[t] # "absent" => row'[t] # "absent"
    PROVE  (HoldsLoop(q) /\ Remaining(q) /\ Points(q))'
<1>1. HoldsLoop(q)' /\ Remaining(q)'
    BY DEF HoldsLoop, Remaining
<1>2. Points(q)
    BY DEF Inductive
<1> QED
    BY <1>1, <1>2 DEF Points

LEMMA IdleHoldsNothing ==
    ASSUME NEW q \in Request, pc'[q] = "idle", covered'[q] = {}
    PROVE  (HoldsLoop(q) /\ Remaining(q) /\ Points(q))'
BY DEF HoldsLoop, Remaining, Points

(* What Goto and Respond leave of the other requests. *)
LEMMA GotoLeaves ==
    ASSUME TypeOK, NEW r \in Request, NEW s, NEW k \in BOOLEAN, Goto(r, s, k)
    PROVE  /\ pc'[r] = s
           /\ loop' = IF k THEN r ELSE NoRequest
           /\ \A q \in Request \ {r} : pc'[q] = pc[q]
BY DEF Goto, TypeOK

LEMMA RespondLeaves ==
    ASSUME TypeOK, NEW r \in Request, NEW v, Respond(r, v)
    PROVE  /\ pc'[r] = "idle" /\ covered'[r] = {}
           /\ \A q \in Request \ {r} :
                /\ pc'[q] = pc[q] /\ covered'[q] = covered[q]
                /\ who'[q] = who[q] /\ at'[q] = at[q]
                /\ op'[q] = op[q] /\ root'[q] = root[q] /\ todo'[q] = todo[q]
BY DEF Respond, TypeOK

(* A request that responds leaves the invariant to the store. *)
LEMMA RespondKeeps ==
    ASSUME TypeOK, Inductive, NEW r \in Request, NEW v, Turn(r), Respond(r, v),
           \A t \in Token : row[t] # "absent" => row'[t] # "absent",
           RowsAgree', DoomedAreRevoked'
    PROVE  Inductive'
<1>1. ASSUME NEW q \in Request
      PROVE  (HoldsLoop(q) /\ Remaining(q) /\ Points(q))'
    <2>1. CASE q = r
        BY <2>1, RespondLeaves, IdleHoldsNothing
    <2>2. CASE q # r
        BY <2>2, RespondLeaves, OthersWait, WaitingKeeps
    <2> QED
        BY <2>1, <2>2
<1> QED
    BY <1>1 DEF Inductive

(* So does one that goes on, but for what it then has to keep itself. *)
LEMMA GotoKeeps ==
    ASSUME TypeOK, Inductive, NEW r \in Request, NEW s, NEW k \in BOOLEAN,
           Turn(r), Goto(r, s, k),
           \A q \in Request \ {r} :
                covered'[q] = covered[q] /\ who'[q] = who[q] /\ at'[q] = at[q],
           \A t \in Token : row[t] # "absent" => row'[t] # "absent",
           RowsAgree', DoomedAreRevoked',
           (HoldsLoop(r) /\ Remaining(r) /\ Points(r))'
    PROVE  Inductive'
<1>1. ASSUME NEW q \in Request \ {r}
      PROVE  (HoldsLoop(q) /\ Remaining(q) /\ Points(q))'
    BY GotoLeaves, OthersWait, WaitingKeeps
<1> QED
    BY <1>1 DEF Inductive

-----------------------------------------------------------------------------
(***************************************************************************)
(* The invariant is preserved, action by action.                           *)
(***************************************************************************)

(* Neither RowsAgree nor DoomedAreRevoked looks beyond the token tables.   *)
LEMMA SameTokens ==
    ASSUME Inductive, UNCHANGED <<tokens, doomed>>
    PROVE  /\ RowsAgree' /\ DoomedAreRevoked'
           /\ \A t \in Token : row[t] # "absent" => row'[t] # "absent"
BY DEF Inductive, RowsAgree, DoomedAreRevoked, Issued, tokens

LEMMA OneTurnInductive ==
    ASSUME TypeOK, Inductive,
           \/ \E i \in Identity, s \in Identity \cup {NoIdentity} : Create(i, s)
           \/ \E i \in Identity : ExceedBudget(i) \/ Reactivate(i)
           \/ Restart
    PROVE  Inductive'
<1>1. UNCHANGED <<tokens, doomed>>
    BY DEF Create, ExceedBudget, Reactivate, Restart, store
<1>2. ASSUME NEW q \in Request
      PROVE  (HoldsLoop(q) /\ Remaining(q) /\ Points(q))'
    <2>1. CASE Restart
        BY <2>1, IdleHoldsNothing DEF Restart
    <2>2. CASE ~Restart
        <3>1. loop = NoRequest /\ UNCHANGED <<pc, memory>>
            BY <2>2 DEF Create, ExceedBudget, Reactivate
        <3>2. pc[q] \in {"idle", "persist", "rotate", "write"} /\ covered[q] = {}
            BY <3>1, NamesAssumption DEF Inductive, HoldsLoop
        <3> QED
            BY <1>1, <3>1, <3>2, SameTokens, WaitingKeeps DEF memory
    <2> QED
        BY <2>1, <2>2
<1> QED
    BY <1>1, <1>2, SameTokens DEF Inductive

LEMMA BeginInductive ==
    ASSUME TypeOK, Inductive, NEW r \in Request, BeginChange(r) \/ BeginDelete(r)
    PROVE  Inductive'
<1>1. PICK i \in Identity, o \in {"suspend", "retire", "delete"} :
        /\ Begin(r, o, i)
        /\ \/ Goto(r, "write", FALSE)
           \/ /\ Goto(r, "erase", TRUE)
              /\ targets' = [targets EXCEPT ![r] = ActiveOf(i)]
    BY DEF BeginChange, BeginDelete
<1>2. /\ UNCHANGED <<tokens, doomed>>
      /\ Turn(r)
      /\ \A q \in Request \ {r} :
            covered'[q] = covered[q] /\ who'[q] = who[q] /\ at'[q] = at[q]
    BY <1>1 DEF Begin, store, Turn, TypeOK
<1>3. covered'[r] = {} /\ who'[r] = i
    BY <1>1 DEF Begin, TypeOK, Inductive, HoldsLoop
<1>4. (HoldsLoop(r) /\ Remaining(r) /\ Points(r))'
    <2>1. CASE Goto(r, "write", FALSE)
        <3>1. pc'[r] = "write"
            BY <2>1, GotoLeaves
        <3> QED
            BY <1>3, <3>1 DEF HoldsLoop, Remaining, Points
    <2>2. CASE /\ Goto(r, "erase", TRUE)
               /\ targets' = [targets EXCEPT ![r] = ActiveOf(i)]
        <3>1. pc'[r] = "erase" /\ loop' = r /\ targets'[r] = ActiveOf(i)
            BY <2>2, GotoLeaves DEF TypeOK
        <3> QED
            BY <1>2, <1>3, <3>1 DEF HoldsLoop, Remaining, Points, ActiveOf, Idle, tokens
    <2> QED
        BY <1>1, <2>1, <2>2
<1>5. CASE Goto(r, "write", FALSE)
    BY <1>2, <1>4, <1>5, SameTokens, GotoKeeps
<1>6. CASE Goto(r, "erase", TRUE)
    BY <1>2, <1>4, <1>6, SameTokens, GotoKeeps
<1> QED
    BY <1>1, <1>5, <1>6

LEMMA StatusInductive ==
    ASSUME TypeOK, Inductive, NEW r \in Request,
           Erase(r) \/ WriteStatus(r) \/ RefuseStatus(r)
    PROVE  Inductive'
<1>1. Turn(r) /\ UNCHANGED <<tokens, doomed>>
    BY DEF Erase, WriteStatus, RefuseStatus, store
<1>2. CASE Erase(r)
    <2>1. /\ pc'[r] = "revoke" /\ loop' = r
          /\ covered'[r] = covered[r] \cup {who[r]}
          /\ UNCHANGED <<who, at, targets>>
        BY <1>2, GotoLeaves DEF Erase, TypeOK
    <2>2. (HoldsLoop(r) /\ Remaining(r) /\ Points(r))'
        BY <1>1, <1>2, <2>1
        DEF Erase, Inductive, HoldsLoop, Remaining, Points, Idle, tokens
    <2>3. /\ Goto(r, "revoke", TRUE)
          /\ \A q \in Request \ {r} :
                covered'[q] = covered[q] /\ who'[q] = who[q] /\ at'[q] = at[q]
        BY <1>2 DEF Erase, TypeOK
    <2> QED
        BY <1>1, <2>2, <2>3, SameTokens, GotoKeeps
<1>3. CASE WriteStatus(r)
    <2>1. /\ pc'[r] = "list" /\ loop' = r
          /\ covered'[r] = covered[r] \cup {who[r]}
          /\ UNCHANGED <<who, at, targets>>
        BY <1>3, GotoLeaves DEF WriteStatus, TypeOK
    <2>2. (HoldsLoop(r) /\ Remaining(r) /\ Points(r))'
        BY <1>1, <1>3, <2>1
        DEF WriteStatus, Inductive, HoldsLoop, Remaining, Points, Idle, tokens
    <2>3. /\ Goto(r, "list", TRUE)
          /\ \A q \in Request \ {r} :
                covered'[q] = covered[q] /\ who'[q] = who[q] /\ at'[q] = at[q]
        BY <1>3 DEF WriteStatus, TypeOK
    <2> QED
        BY <1>1, <2>2, <2>3, SameTokens, GotoKeeps
<1>4. CASE RefuseStatus(r)
    <2>1. CASE Respond(r, "refused")
        BY <1>1, <2>1, SameTokens, RespondKeeps
    <2>2. CASE Goto(r, "next", TRUE) /\ UNCHANGED memory
        <3>1. pc'[r] = "next" /\ loop' = r
            BY <2>2, GotoLeaves
        <3>2. (HoldsLoop(r) /\ Remaining(r) /\ Points(r))'
            BY <1>1, <1>4, <2>2, <3>1
            DEF RefuseStatus, Inductive, HoldsLoop, Remaining, Points, Idle, tokens, memory
        <3> QED
            BY <1>1, <2>2, <3>2, SameTokens, GotoKeeps DEF memory
    <2> QED
        BY <1>4, <2>1, <2>2 DEF RefuseStatus
<1> QED
    BY <1>2, <1>3, <1>4

LEMMA RevokeInductive ==
    ASSUME TypeOK, Inductive, NEW r \in Request,
           ListTokens(r) \/ Deny(r) \/ Revoked(r) \/ NextChild(r)
    PROVE  Inductive'
<1>1. /\ Turn(r) /\ UNCHANGED <<status, sponsor, owner, session, row, covered, doomed>>
      /\ HoldsLoop(r) /\ Remaining(r) /\ Points(r) /\ RowsAgree /\ DoomedAreRevoked
    BY DEF ListTokens, Deny, Revoked, NextChild, store, tokens, Inductive
<1>2. RowsAgree' /\ DoomedAreRevoked'
      /\ \A t \in Token : row[t] # "absent" => row'[t] # "absent"
    BY <1>1 DEF RowsAgree, DoomedAreRevoked, Issued, ListTokens, Deny, Revoked, NextChild, store, tokens
<1>3. CASE ListTokens(r)
    <2>1. Goto(r, "revoke", TRUE) /\ UNCHANGED <<who, at>>
        BY <1>3 DEF ListTokens
    <2>2. pc'[r] = "revoke" /\ loop' = r /\ targets'[r] = ActiveOf(who[r])
        BY <1>3, <2>1, GotoLeaves DEF ListTokens, TypeOK
    <2>3. (HoldsLoop(r) /\ Remaining(r) /\ Points(r))'
        BY <1>1, <1>3, <2>2
        DEF ListTokens, HoldsLoop, Remaining, Points, ActiveOf, Idle
    <2> QED
        BY <1>1, <1>2, <2>1, <2>3, GotoKeeps
<1>4. CASE Deny(r)
    <2>1. Goto(r, "flip", TRUE) /\ UNCHANGED <<who, targets>>
        BY <1>4 DEF Deny
    <2>2. PICK t \in targets[r] : denied' = denied \cup {t} /\ at' = [at EXCEPT ![r] = t]
        BY <1>4 DEF Deny
    <2>3. pc'[r] = "flip" /\ loop' = r /\ at'[r] = t
          /\ \A q \in Request \ {r} : at'[q] = at[q]
        BY <2>1, <2>2, GotoLeaves DEF TypeOK
    <2>4. (HoldsLoop(r) /\ Remaining(r) /\ Points(r))'
        BY <1>1, <1>4, <2>1, <2>2, <2>3
        DEF Deny, HoldsLoop, Remaining, Points, Idle
    <2> QED
        BY <1>1, <1>2, <2>1, <2>3, <2>4, GotoKeeps
<1>5. CASE Revoked(r)
    <2>1. Goto(r, "next", TRUE) /\ UNCHANGED <<who, at, targets>>
        BY <1>5 DEF Revoked
    <2>2. pc'[r] = "next" /\ loop' = r
        BY <2>1, GotoLeaves
    <2>3. (HoldsLoop(r) /\ Remaining(r) /\ Points(r))'
        BY <1>1, <1>5, <2>1, <2>2
        DEF Revoked, HoldsLoop, Remaining, Points, Idle
    <2> QED
        BY <1>1, <1>2, <2>1, <2>3, GotoKeeps
<1>6. CASE NextChild(r)
    <2>1. Goto(r, "write", TRUE) /\ UNCHANGED <<at, targets>>
        BY <1>6 DEF NextChild
    <2>2. PICK c \in todo[r] : who' = [who EXCEPT ![r] = c]
        BY <1>6 DEF NextChild
    <2>3. pc'[r] = "write" /\ loop' = r /\ who'[r] \in Identity
          /\ \A q \in Request \ {r} : who'[q] = who[q]
        BY <2>1, <2>2, GotoLeaves DEF TypeOK
    <2>4. (HoldsLoop(r) /\ Remaining(r) /\ Points(r))'
        BY <1>1, <1>6, <2>1, <2>3
        DEF NextChild, HoldsLoop, Remaining, Points, Idle
    <2> QED
        BY <1>1, <1>2, <2>1, <2>3, <2>4, GotoKeeps
<1> QED
    BY <1>3, <1>4, <1>5, <1>6

LEMMA FlipInductive ==
    ASSUME TypeOK, Inductive, NEW r \in Request, Flip(r)
    PROVE  Inductive'
<1>1. /\ HoldsLoop(r) /\ Remaining(r) /\ Points(r) /\ RowsAgree /\ DoomedAreRevoked
      /\ pc[r] = "flip" /\ Turn(r) /\ Goto(r, "revoke", TRUE)
      /\ UNCHANGED <<owner, denied, who, at, covered, doomed>>
    BY DEF Inductive, Flip
<1>2. /\ at[r] \in Token /\ at[r] \in targets[r] /\ at[r] \in denied
      /\ row[at[r]] # "absent"
    BY <1>1 DEF Points, TypeOK
<1>3. \A t \in Token : row'[t] = IF t = at[r] THEN "revoked" ELSE row[t]
    BY DEF Flip, TypeOK
<1>4. RowsAgree' /\ DoomedAreRevoked'
    BY <1>1, <1>2, <1>3 DEF RowsAgree, DoomedAreRevoked, Issued, TypeOK
<1>5. pc'[r] = "revoke" /\ loop' = r /\ targets'[r] = targets[r] \ {at[r]}
    BY <1>1, GotoLeaves DEF Flip, TypeOK
<1>6. (HoldsLoop(r) /\ Remaining(r) /\ Points(r))'
    BY <1>1, <1>2, <1>3, <1>5 DEF HoldsLoop, Remaining, Points, Idle, TypeOK
<1> QED
    BY <1>1, <1>2, <1>3, <1>4, <1>6, GotoKeeps

(* Nothing is active any more of what the request should have ended.       *)
LEMMA DoneInductive ==
    ASSUME TypeOK, Inductive, NEW r \in Request, Done(r)
    PROVE  Inductive'
<1>1. /\ Remaining(r) /\ RowsAgree /\ DoomedAreRevoked
      /\ Turn(r) /\ Respond(r, "done") /\ UNCHANGED <<owner, row, denied>>
      /\ doomed' = doomed \cup {t \in Token : owner[t[1]] \in covered[r]}
    BY DEF Inductive, Done, store, tokens
<1>2. ASSUME NEW t \in Token, owner[t[1]] \in covered[r]
      PROVE  row[t] = "revoked"
    <2>1. row[t] # "active"
        BY <1>1, <1>2 DEF Done, Remaining, Idle
    <2>2. t[1] \in Issued
        BY <1>2, TokenParts, NamesAssumption DEF TypeOK, Issued
    <2> QED
        BY <1>1, <2>1, <2>2 DEF RowsAgree, TypeOK
<1>3. DoomedAreRevoked'
    BY <1>1, <1>2 DEF DoomedAreRevoked
<1>4. RowsAgree'
    BY <1>1 DEF RowsAgree, Issued
<1> QED
    BY <1>1, <1>3, <1>4, RespondKeeps

LEMMA CascadeInductive ==
    ASSUME TypeOK, Inductive, NEW r \in Request, Turn(r),
           NEW t \in Token, t[1] \in Issued, Cascade(r, t)
    PROVE  Inductive'
<1> DEFINE S == {u \in Token : /\ u[1] \in Issued /\ row[u] = "active"
                               /\ session[u[1]] = session[t[1]]} \cup {t}
<1>1. /\ Respond(r, "reused") /\ UNCHANGED <<owner, doomed>>
      /\ denied' = denied \cup S
      /\ \A u \in Token : row'[u] = IF u \in S THEN "revoked" ELSE row[u]
    BY DEF Cascade
<1>2. \A u \in S : u \in Token /\ u[1] \in Issued
    OBVIOUS
<1> HIDE DEF S
<1>3. RowsAgree' /\ DoomedAreRevoked'
    BY <1>1, <1>2 DEF Inductive, RowsAgree, DoomedAreRevoked, Issued, TypeOK
<1>4. \A u \in Token : row[u] # "absent" => row'[u] # "absent"
    BY <1>1
<1> QED
    BY <1>1, <1>3, <1>4, RespondKeeps

(* The pair p enters the tables: its two rows were absent. *)
LEMMA InsertKeeps ==
    ASSUME TypeOK, Inductive, NEW p \in Pair \ Issued, NEW i \in Identity,
           NEW s, Insert(p, i, s), NEW gone \in SUBSET Token,
           \A t \in gone : row[t] = "active",
           \A t \in Token : row'[t] = IF t[1] = p THEN "active"
                                      ELSE IF t \in gone THEN "revoked" ELSE row[t],
           denied' = denied \cup gone,
           UNCHANGED doomed
    PROVE  /\ RowsAgree' /\ DoomedAreRevoked'
           /\ \A t \in Token : row[t] # "absent" => row'[t] # "absent"
<1>1. \A t \in Token : owner'[t[1]] = IF t[1] = p THEN i ELSE owner[t[1]]
    BY TokenParts DEF Insert, TypeOK
<1>2. \A t \in Token : t[1] \in Issued' <=> (t[1] = p \/ t[1] \in Issued)
    BY <1>1, TokenParts, NamesAssumption DEF Issued
<1>3. /\ \A t \in Token : row[t] = "absent" <=> t[1] \notin Issued
      /\ \A t \in Token : row[t] = "revoked" => t \in denied
      /\ \A t \in doomed : t \in Token /\ row[t] = "revoked"
    BY DEF Inductive, RowsAgree, DoomedAreRevoked, TypeOK
<1>4. RowsAgree'
    BY <1>2, <1>3 DEF RowsAgree
<1>5. DoomedAreRevoked'
    BY <1>3 DEF DoomedAreRevoked
<1> QED
    BY <1>3, <1>4, <1>5

LEMMA UseInductive ==
    ASSUME TypeOK, Inductive, NEW r \in Request, Use(r) \/ Fail(r)
    PROVE  Inductive'
<1>0. HoldsLoop(r) /\ Remaining(r) /\ Points(r) /\ RowsAgree /\ DoomedAreRevoked
    BY DEF Inductive
<1>1. CASE BeginIssue(r)
    <2>1. PICK i \in Identity : who' = [who EXCEPT ![r] = i]
        BY <1>1 DEF BeginIssue
    <2>2. /\ Goto(r, "persist", FALSE) /\ Turn(r)
          /\ UNCHANGED <<tokens, at, covered, doomed>>
        BY <1>1 DEF BeginIssue, Turn, store
    <2>3. pc'[r] = "persist"
        BY <2>2, GotoLeaves
    <2>4. covered'[r] = {} /\ who'[r] \in Identity
          /\ \A q \in Request \ {r} : who'[q] = who[q]
        BY <1>0, <1>1, <2>1, <2>2 DEF BeginIssue, HoldsLoop, TypeOK
    <2>5. (HoldsLoop(r) /\ Remaining(r) /\ Points(r))'
        BY <2>3, <2>4 DEF HoldsLoop, Remaining, Points
    <2> QED
        BY <2>2, <2>4, <2>5, SameTokens, GotoKeeps
<1>2. CASE PersistIssue(r)
    <2>1. PICK p \in Pair \ Issued :
            /\ Insert(p, who[r], p)
            /\ row' = [t \in Token |-> IF t[1] = p THEN "active" ELSE row[t]]
        BY <1>2 DEF PersistIssue
    <2>2. who[r] \in Identity /\ Turn(r) /\ Respond(r, "issued")
        BY <1>0, <1>2 DEF PersistIssue, Points
    <2>3. {} \in SUBSET Token /\ denied' = denied \cup {} /\ UNCHANGED doomed
        BY <1>2 DEF PersistIssue
    <2>4. \A t \in Token : row'[t] = IF t[1] = p THEN "active"
                                     ELSE IF t \in {} THEN "revoked" ELSE row[t]
        BY <2>1
    <2>5. /\ RowsAgree' /\ DoomedAreRevoked'
          /\ \A t \in Token : row[t] # "absent" => row'[t] # "absent"
        BY <2>1, <2>2, <2>3, <2>4, InsertKeeps
    <2> QED
        BY <2>2, <2>5, RespondKeeps
<1>3. CASE BeginRefresh(r)
    <2>1. PICK p \in Issued :
            \/ Cascade(r, <<p, "refresh">>)
            \/ /\ row[<<p, "refresh">>] = "active"
               /\ at' = [at EXCEPT ![r] = <<p, "refresh">>]
               /\ Goto(r, "rotate", FALSE)
               /\ UNCHANGED <<store, op, root, who, targets, todo, covered, doomed>>
        BY <1>3 DEF BeginRefresh
    <2>2. <<p, "refresh">> \in Token /\ <<p, "refresh">>[1] = p /\ Turn(r)
          /\ pc[r] = "idle"
        BY <1>3 DEF BeginRefresh, Issued, Token, Turn
    <2>3. CASE Cascade(r, <<p, "refresh">>)
        BY <2>2, <2>3, CascadeInductive
    <2>4. CASE /\ row[<<p, "refresh">>] = "active"
               /\ at' = [at EXCEPT ![r] = <<p, "refresh">>]
               /\ Goto(r, "rotate", FALSE)
               /\ UNCHANGED <<store, op, root, who, targets, todo, covered, doomed>>
        <3>1. pc'[r] = "rotate"
            BY <2>4, GotoLeaves
        <3>2. covered'[r] = {} /\ at'[r] = <<p, "refresh">>
              /\ \A q \in Request \ {r} : at'[q] = at[q]
            BY <1>0, <2>2, <2>4 DEF HoldsLoop, TypeOK
        <3>3. UNCHANGED <<tokens, doomed>> /\ row' = row
            BY <2>4 DEF store, tokens
        <3>4. (HoldsLoop(r) /\ Remaining(r) /\ Points(r))'
            BY <2>2, <2>4, <3>1, <3>2, <3>3 DEF HoldsLoop, Remaining, Points
        <3> QED
            BY <2>2, <2>4, <3>2, <3>3, <3>4, SameTokens, GotoKeeps
    <2> QED
        BY <2>1, <2>3, <2>4
<1>4. CASE Rotate(r)
    <2>1. PICK p \in Pair \ Issued :
            /\ Insert(p, owner[at[r][1]], session[at[r][1]])
            /\ row' = [t \in Token |-> IF t[1] = p THEN "active"
                                      ELSE IF t = at[r] THEN "revoked" ELSE row[t]]
            /\ doomed' = IF at[r] \in doomed THEN doomed \cup TokensOf(p) ELSE doomed
        BY <1>4 DEF Rotate
    <2>2. /\ at[r] \in Token /\ row[at[r]] = "active"
          /\ denied' = denied \cup {at[r]}
          /\ Turn(r) /\ Respond(r, "rotated")
        BY <1>0, <1>4 DEF Rotate, Points
    <2>3. at[r] \notin doomed /\ UNCHANGED doomed
        BY <1>0, <2>1, <2>2 DEF DoomedAreRevoked
    <2>4. owner[at[r][1]] \in Identity
        BY <1>0, <2>2, TokenParts DEF RowsAgree, Issued, TypeOK
    <2>5. \A t \in Token : row'[t] = IF t[1] = p THEN "active"
                                     ELSE IF t \in {at[r]} THEN "revoked" ELSE row[t]
        BY <2>1
    <2>6. {at[r]} \in SUBSET Token /\ \A t \in {at[r]} : row[t] = "active"
        BY <2>2
    <2>7. /\ RowsAgree' /\ DoomedAreRevoked'
          /\ \A t \in Token : row[t] # "absent" => row'[t] # "absent"
        BY <2>1, <2>2, <2>3, <2>4, <2>5, <2>6, InsertKeeps
    <2> QED
        BY <2>2, <2>7, RespondKeeps
<1>5. CASE RotateConflict(r)
    <2>1. at[r] \in Token /\ at[r][1] \in Issued /\ Turn(r) /\ Cascade(r, at[r])
        BY <1>0, <1>5 DEF RotateConflict, Points, RowsAgree
    <2> QED
        BY <2>1, CascadeInductive
<1>6. CASE Fail(r)
    BY <1>6, SameTokens, RespondKeeps DEF Fail, store
<1> QED
    BY <1>1, <1>2, <1>3, <1>4, <1>5, <1>6 DEF Use

LEMMA NextInductive ==
    ASSUME TypeOK, Inductive, [Next]_vars
    PROVE  Inductive'
<1>1. CASE UNCHANGED vars
    BY <1>1 DEF vars, store, tokens, memory, Inductive, RowsAgree, DoomedAreRevoked,
                HoldsLoop, Remaining, Points, Issued, Idle
<1>2. ASSUME NEW r \in Request, Change(r)
      PROVE  Inductive'
    BY <1>2, BeginInductive, StatusInductive, RevokeInductive, FlipInductive,
       DoneInductive
    DEF Change
<1>3. ASSUME NEW r \in Request, Use(r) \/ Fail(r)
      PROVE  Inductive'
    BY <1>3, UseInductive
<1> QED
    BY <1>1, <1>2, <1>3, OneTurnInductive DEF Next

(* The types and the inductive invariant hold in every reachable state.    *)
THEOREM InductiveInvariant == Spec => [](TypeOK /\ Inductive)
<1>1. Init => TypeOK /\ Inductive
    BY InitTypeOK, InitInductive
<1>2. TypeOK /\ Inductive /\ [Next]_vars => (TypeOK /\ Inductive)'
    BY NextTypeOK, NextInductive
<1> QED
    BY <1>1, <1>2, PTL DEF Spec

(* Every variable keeps its type (identities.ts and the stores it calls).  *)
THEOREM TypeCorrect == Spec => []TypeOK
BY InductiveInvariant, PTL

(* A token that an answered suspension, retirement or deletion ended, and  *)
(* whatever descends from it, stays ended, whatever runs meanwhile.        *)
THEOREM EndedTokensStayDead == Spec => []OldTokensStayDead
<1>1. TypeOK /\ Inductive => OldTokensStayDead
    BY DEF TypeOK, Inductive, RowsAgree, DoomedAreRevoked, OldTokensStayDead
<1> QED
    BY <1>1, InductiveInvariant, PTL

-----------------------------------------------------------------------------
(***************************************************************************)
(* Children follow: a suspension past the listing keeps the event loop, so *)
(* between the listing and its answer nobody else touches a child.         *)
(***************************************************************************)

(* While r has the event loop, or nobody has, no other request has listed. *)
LEMMA OthersHaveNotListed ==
    ASSUME ChildrenListed, NEW r \in Request, Turn(r), NEW q \in Request \ {r}
    PROVE  ~HasListed(q) /\ Following(q)
BY NamesAssumption DEF ChildrenListed, Following, Turn

LEMMA StillNotListed ==
    ASSUME NEW q \in Request, ~HasListed(q), Following(q),
           pc'[q] = pc[q], who'[q] = who[q], root'[q] = root[q]
    PROVE  Following(q)'
BY DEF HasListed, Following

LEMMA IdleFollows ==
    ASSUME NEW q \in Request, pc'[q] = "idle"
    PROVE  Following(q)'
BY DEF HasListed, Following

LEMMA RespondFollows ==
    ASSUME TypeOK, ChildrenListed, NEW r \in Request, NEW v, Turn(r), Respond(r, v)
    PROVE  ChildrenListed'
<1>1. ASSUME NEW q \in Request
      PROVE  Following(q)'
    <2>1. CASE q = r
        BY <2>1, RespondLeaves, IdleFollows
    <2>2. CASE q # r
        BY <2>2, RespondLeaves, OthersHaveNotListed, StillNotListed
    <2> QED
        BY <2>1, <2>2
<1> QED
    BY <1>1 DEF ChildrenListed

LEMMA GotoFollows ==
    ASSUME TypeOK, ChildrenListed, NEW r \in Request, NEW s, NEW k \in BOOLEAN,
           Turn(r), Goto(r, s, k),
           \A q \in Request \ {r} : who'[q] = who[q] /\ root'[q] = root[q],
           Following(r)'
    PROVE  ChildrenListed'
<1>1. ASSUME NEW q \in Request \ {r}
      PROVE  Following(q)'
    BY <1>1, GotoLeaves, OthersHaveNotListed, StillNotListed
<1> QED
    BY <1>1 DEF ChildrenListed

LEMMA OneTurnFollows ==
    ASSUME TypeOK, ChildrenListed,
           \/ \E i \in Identity, s \in Identity \cup {NoIdentity} : Create(i, s)
           \/ \E i \in Identity : ExceedBudget(i) \/ Reactivate(i)
           \/ Restart
    PROVE  ChildrenListed'
<1>1. ASSUME NEW q \in Request
      PROVE  Following(q)'
    <2>1. CASE Restart
        BY <2>1, IdleFollows DEF Restart
    <2>2. CASE ~Restart
        <3>1. loop = NoRequest /\ UNCHANGED <<pc, memory>>
            BY <2>2 DEF Create, ExceedBudget, Reactivate
        <3>2. ~HasListed(q) /\ Following(q)
            BY <3>1, NamesAssumption DEF ChildrenListed, Following
        <3> QED
            BY <3>1, <3>2, StillNotListed DEF memory
    <2> QED
        BY <2>1, <2>2
<1> QED
    BY <1>1 DEF ChildrenListed

(* The steps of a request that has not listed any children. *)
LEMMA EarlyStepsFollow ==
    ASSUME TypeOK, ChildrenListed, NEW r \in Request,
           \/ BeginChange(r) \/ BeginDelete(r) \/ Erase(r) \/ BeginIssue(r)
    PROVE  ChildrenListed'
<1>1. CASE BeginChange(r) \/ BeginDelete(r)
    <2>1. PICK i \in Identity, o \in {"suspend", "retire", "delete"} :
            /\ Begin(r, o, i)
            /\ Goto(r, "write", FALSE) \/ Goto(r, "erase", TRUE)
        BY <1>1 DEF BeginChange, BeginDelete
    <2>2. /\ who'[r] = i /\ root'[r] = i /\ Turn(r)
          /\ \A q \in Request \ {r} : who'[q] = who[q] /\ root'[q] = root[q]
        BY <2>1 DEF Begin, Turn, TypeOK
    <2>3. CASE Goto(r, "write", FALSE)
        <3>1. pc'[r] = "write"
            BY <2>3, GotoLeaves
        <3>2. Following(r)'
            BY <2>2, <3>1 DEF HasListed, Following
        <3> QED
            BY <2>2, <2>3, <3>2, GotoFollows
    <2>4. CASE Goto(r, "erase", TRUE)
        <3>1. pc'[r] = "erase"
            BY <2>4, GotoLeaves
        <3>2. Following(r)'
            BY <2>2, <3>1 DEF HasListed, Following
        <3> QED
            BY <2>2, <2>4, <3>2, GotoFollows
    <2> QED
        BY <2>1, <2>3, <2>4
<1>2. CASE BeginIssue(r)
    <2>1. PICK i \in Identity : who' = [who EXCEPT ![r] = i]
        BY <1>2 DEF BeginIssue
    <2>2. Goto(r, "persist", FALSE) /\ Turn(r)
          /\ \A q \in Request \ {r} : who'[q] = who[q] /\ root'[q] = root[q]
        BY <1>2, <2>1 DEF BeginIssue, Turn, TypeOK
    <2>3. pc'[r] = "persist"
        BY <2>2, GotoLeaves
    <2>4. Following(r)'
        BY <2>3 DEF HasListed, Following
    <2> QED
        BY <2>2, <2>4, GotoFollows
<1>3. CASE Erase(r)
    <2>1. /\ Goto(r, "revoke", TRUE) /\ Turn(r) /\ pc[r] = "erase"
          /\ UNCHANGED <<who, root>>
        BY <1>3 DEF Erase
    <2>2. pc'[r] = "revoke" /\ who'[r] = root'[r]
        BY <2>1, GotoLeaves DEF ChildrenListed, Following
    <2>3. Following(r)'
        BY <2>2 DEF HasListed, Following
    <2> QED
        BY <2>1, <2>3, GotoFollows
<1> QED
    BY <1>1, <1>2, <1>3

LEMMA RevokeStepsFollow ==
    ASSUME TypeOK, ChildrenListed, NEW r \in Request,
           ListTokens(r) \/ Deny(r) \/ Flip(r)
    PROVE  ChildrenListed'
<1>1. PICK s \in {"revoke", "flip"} : Goto(r, s, TRUE)
    BY DEF ListTokens, Deny, Flip
<1>2. /\ Turn(r) /\ pc[r] \in {"list", "revoke", "flip"}
      /\ UNCHANGED <<status, sponsor, op, root, who, todo>>
      /\ Following(r)
    BY DEF ListTokens, Deny, Flip, store, ChildrenListed
<1>3. pc'[r] = s /\ loop' = r
    BY <1>1, GotoLeaves
<1>4. Following(r)'
    BY <1>2, <1>3 DEF HasListed, Following
<1> QED
    BY <1>1, <1>2, <1>4, GotoFollows

LEMMA StatusStepsFollow ==
    ASSUME TypeOK, Inductive, ChildrenListed, NEW r \in Request,
           WriteStatus(r) \/ RefuseStatus(r)
    PROVE  ChildrenListed'
<1>1. /\ Turn(r) /\ pc[r] = "write" /\ who[r] \in Identity /\ Following(r)
    BY DEF WriteStatus, RefuseStatus, Inductive, Points, ChildrenListed
<1>2. CASE WriteStatus(r)
    <2>1. /\ Goto(r, "list", TRUE) /\ UNCHANGED <<sponsor, op, root, who, todo>>
          /\ status' = [status EXCEPT ![who[r]] = Written(op[r])]
        BY <1>2 DEF WriteStatus
    <2>2. pc'[r] = "list" /\ loop' = r
        BY <2>1, GotoLeaves
    <2>3. \A c \in Identity : status'[c] = "active" => status[c] = "active" /\ c # who[r]
        BY <1>1, <2>1 DEF Written, TypeOK
    <2>4. Following(r)'
        BY <1>1, <2>1, <2>2, <2>3 DEF HasListed, Following
    <2> QED
        BY <1>1, <2>1, <2>4, GotoFollows
<1>3. CASE RefuseStatus(r)
    <2>1. CASE Respond(r, "refused")
        BY <1>1, <2>1, RespondFollows
    <2>2. CASE who[r] # root[r] /\ Goto(r, "next", TRUE) /\ UNCHANGED memory
        <3>1. pc'[r] = "next" /\ loop' = r
              /\ UNCHANGED <<status, sponsor, op, root, who, todo>>
            BY <1>3, <2>2, GotoLeaves DEF RefuseStatus, store, memory
        <3>2. op[r] = "suspend" => status[who[r]] # "active"
            BY <1>3 DEF RefuseStatus, Accepts
        <3>3. Following(r)'
            BY <1>1, <2>2, <3>1, <3>2 DEF HasListed, Following
        <3> QED
            BY <1>1, <2>2, <3>1, <3>3, GotoFollows
    <2> QED
        BY <1>3, <2>1, <2>2 DEF RefuseStatus
<1> QED
    BY <1>2, <1>3

LEMMA ChildStepsFollow ==
    ASSUME TypeOK, ChildrenListed, NEW r \in Request, Revoked(r) \/ NextChild(r)
    PROVE  ChildrenListed'
<1>1. Turn(r) /\ Following(r) /\ UNCHANGED <<status, sponsor, op, root>>
    BY DEF Revoked, NextChild, store, ChildrenListed
<1>2. CASE Revoked(r)
    <2>1. Goto(r, "next", TRUE) /\ UNCHANGED who /\ pc[r] = "revoke"
          /\ todo' = IF who[r] = root[r] THEN [todo EXCEPT ![r] = ChildrenOf(root[r])]
                                        ELSE todo
        BY <1>2 DEF Revoked
    <2>2. pc'[r] = "next" /\ loop' = r
        BY <2>1, GotoLeaves
    <2>3. \A c \in Identity : sponsor[c] = root[r] /\ status[c] = "active"
                              => c \in ChildrenOf(root[r])
        BY DEF ChildrenOf, Stored
    <2>4. Following(r)'
        BY <1>1, <2>1, <2>2, <2>3 DEF HasListed, Following, TypeOK
    <2> QED
        BY <1>1, <2>1, <2>4, GotoFollows
<1>3. CASE NextChild(r)
    <2>1. PICK c \in todo[r] : /\ who' = [who EXCEPT ![r] = c]
                               /\ todo' = [todo EXCEPT ![r] = @ \ {c}]
        BY <1>3 DEF NextChild
    <2>2. Goto(r, "write", TRUE) /\ pc[r] = "next"
        BY <1>3 DEF NextChild
    <2>3. /\ pc'[r] = "write" /\ loop' = r
          /\ who'[r] = c /\ todo'[r] = todo[r] \ {c}
          /\ \A q \in Request \ {r} : who'[q] = who[q]
        BY <2>1, <2>2, GotoLeaves DEF TypeOK
    <2>4. Following(r)'
        BY <1>1, <2>2, <2>3 DEF HasListed, Following
    <2> QED
        BY <1>1, <2>2, <2>3, <2>4, GotoFollows
<1> QED
    BY <1>2, <1>3

LEMMA AnswersFollow ==
    ASSUME TypeOK, ChildrenListed, NEW r \in Request,
           \/ Done(r) \/ PersistIssue(r) \/ BeginRefresh(r)
           \/ Rotate(r) \/ RotateConflict(r) \/ Fail(r)
    PROVE  ChildrenListed'
<1>1. Turn(r)
    BY DEF Done, PersistIssue, BeginRefresh, Rotate, RotateConflict, Fail, Turn
<1>2. CASE \E v \in Says : Respond(r, v)
    BY <1>1, <1>2, RespondFollows
<1>3. CASE Goto(r, "rotate", FALSE) /\ UNCHANGED <<root, who>>
    <2>1. pc'[r] = "rotate"
        BY <1>3, GotoLeaves
    <2>2. Following(r)'
        BY <2>1 DEF HasListed, Following
    <2> QED
        BY <1>1, <1>3, <2>2, GotoFollows
<1>4. \/ \E v \in Says : Respond(r, v)
      \/ Goto(r, "rotate", FALSE) /\ UNCHANGED <<root, who>>
    BY DEF Done, PersistIssue, BeginRefresh, Rotate, RotateConflict, Fail, Cascade, Says
<1> QED
    BY <1>2, <1>3, <1>4

LEMMA NextFollows ==
    ASSUME TypeOK, Inductive, ChildrenListed, [Next]_vars
    PROVE  ChildrenListed'
<1>1. CASE UNCHANGED vars
    BY <1>1 DEF vars, store, memory, ChildrenListed, Following, HasListed
<1>2. ASSUME NEW r \in Request, Change(r) \/ Use(r) \/ Fail(r)
      PROVE  ChildrenListed'
    BY <1>2, EarlyStepsFollow, RevokeStepsFollow, StatusStepsFollow,
       ChildStepsFollow, AnswersFollow
    DEF Change, Use
<1> QED
    BY <1>1, <1>2, OneTurnFollows DEF Next

LEMMA FollowingInvariant == Spec => [](TypeOK /\ ChildrenListed)
<1>1. Init => ChildrenListed
    BY DEF Init, ChildrenListed, Following, HasListed
<1>2. TypeOK /\ Inductive /\ ChildrenListed /\ [Next]_vars => ChildrenListed'
    BY NextFollows
<1> QED
    BY <1>1, <1>2, InductiveInvariant, PTL DEF Spec

(* Only Done answers `done`. *)
LEMMA OnlyDoneIsDone ==
    ASSUME TypeOK, NEW r \in Request, Next, answer' = [to |-> r, says |-> "done"]
    PROVE  Done(r)
<1>1. ~ Silent
    BY DEF Silent
<1>2. ASSUME NEW q \in Request, NEW v \in Says, Respond(q, v)
      PROVE  q = r /\ v = "done"
    BY <1>2 DEF Respond
<1>3. ASSUME NEW q \in Request, Change(q) \/ Use(q) \/ Fail(q), ~Done(q)
      PROVE  Silent \/ \E v \in Says \ {"done"} : Respond(q, v)
    <2>1. CASE Change(q)
        BY <1>3, <2>1
        DEF Change, BeginChange, BeginDelete, Erase, WriteStatus, RefuseStatus,
            ListTokens, Deny, Flip, Revoked, NextChild, Goto, Says
    <2>2. CASE Use(q) \/ Fail(q)
        BY <2>2
        DEF Use, BeginIssue, PersistIssue, BeginRefresh, Rotate, RotateConflict,
            Cascade, Fail, Goto, Says
    <2> QED
        BY <1>3, <2>1, <2>2
<1>4. ASSUME NEW q \in Request, Done(q)
      PROVE  q = r
    BY <1>2, <1>4 DEF Done, Says
<1> QED
    BY <1>1, <1>2, <1>3, <1>4 DEF Next, Create, ExceedBudget, Reactivate, Restart

(* When a suspension is answered, no identity sponsored by the suspended   *)
(* one is active (identities.ts, the loop over listChildIds).              *)
THEOREM ChildrenAreSuspended == Spec => ChildrenFollow
<1>1. ASSUME TypeOK, ChildrenListed, Next, NEW r \in Request,
             answer' = [to |-> r, says |-> "done"], op[r] = "suspend",
             NEW c \in Identity, sponsor[c] = root[r]
      PROVE  status[c] # "active"
    <2>1. Done(r)
        BY <1>1, OnlyDoneIsDone
    <2>2. pc[r] = "next" /\ todo[r] = {}
        BY <1>1, <2>1 DEF Done
    <2> QED
        BY <1>1, <2>2 DEF ChildrenListed, Following, HasListed
<1>2. TypeOK /\ ChildrenListed /\ [Next]_vars =>
        [ \A r \in Request :
            answer' = [to |-> r, says |-> "done"] /\ op[r] = "suspend"
            => \A c \in Identity : sponsor[c] = root[r] => status[c] # "active" ]_vars
    BY <1>1
<1> QED
    BY <1>2, FollowingInvariant, PTL DEF Spec, ChildrenFollow

-----------------------------------------------------------------------------
(***************************************************************************)
(* The walk over tokens and children ends.                                 *)
(***************************************************************************)

LEMMA StraightStep ==
    ASSUME TypeOK, WalkIsStraight, [Next]_vars
    PROVE  WalkIsStraight'
<1> USE NamesAssumption DEF store, tokens, memory
<1>1. CASE UNCHANGED vars
    BY <1>1 DEF vars, WalkIsStraight
<1>2. CASE Restart
    BY <1>2 DEF Restart, WalkIsStraight, TypeOK
<1>3. CASE \E i \in Identity, s \in Identity \cup {NoIdentity} : Create(i, s)
    BY <1>3 DEF Create, WalkIsStraight, TypeOK
<1>4. CASE \E i \in Identity : ExceedBudget(i) \/ Reactivate(i)
    BY <1>4 DEF ExceedBudget, Reactivate, WalkIsStraight
<1>5. ASSUME NEW r \in Request, Change(r) \/ Use(r) \/ Fail(r)
      PROVE  WalkIsStraight'
    <2>1. UNCHANGED sponsor
        BY <1>5 DEF Change, Use, BeginChange, BeginDelete, Begin, Erase, WriteStatus,
           RefuseStatus, ListTokens, Deny, Flip, Revoked, NextChild, Done, BeginIssue,
           PersistIssue, BeginRefresh, Rotate, RotateConflict, Cascade, Fail
    <2>2. CASE \E v \in Says : Respond(r, v)
        BY <2>1, <2>2 DEF Respond, WalkIsStraight, TypeOK
    <2>3. CASE BeginChange(r) \/ BeginDelete(r)
        <3>1. PICK i \in Identity, o \in {"suspend", "retire", "delete"} :
                /\ Begin(r, o, i)
                /\ Goto(r, "write", FALSE) \/ Goto(r, "erase", TRUE)
            BY <2>3 DEF BeginChange, BeginDelete
        <3> QED
            BY <2>1, <3>1 DEF Begin, Goto, WalkIsStraight, TypeOK
    <2>4. CASE Erase(r) \/ WriteStatus(r) \/ ListTokens(r) \/ Deny(r) \/ Flip(r)
               \/ (Goto(r, "next", TRUE) /\ UNCHANGED memory)
        <3>1. PICK s \in {"revoke", "list", "flip", "next"} : Goto(r, s, TRUE)
            BY <2>4 DEF Erase, WriteStatus, ListTokens, Deny, Flip
        <3>2. UNCHANGED <<root, todo>>
            BY <2>4 DEF Erase, WriteStatus, ListTokens, Deny, Flip
        <3> QED
            BY <2>1, <3>1, <3>2 DEF Goto, WalkIsStraight, TypeOK
    <2>5. CASE BeginIssue(r) \/ (Goto(r, "rotate", FALSE) /\ UNCHANGED <<root, todo>>)
        <3>1. PICK s \in {"persist", "rotate"} : Goto(r, s, FALSE)
            BY <2>5 DEF BeginIssue
        <3>2. UNCHANGED <<root, todo>>
            BY <2>5 DEF BeginIssue
        <3> QED
            BY <2>1, <3>1, <3>2 DEF Goto, WalkIsStraight, TypeOK
    <2>6. CASE Revoked(r)
        <3>1. root[r] \notin ChildrenOf(root[r])
            BY DEF ChildrenOf, WalkIsStraight
        <3>2. root[r] \notin todo'[r] /\ \A q \in Request \ {r} : todo'[q] = todo[q]
            BY <2>6, <3>1 DEF Revoked, WalkIsStraight, TypeOK
        <3>3. Goto(r, "next", TRUE) /\ UNCHANGED root
            BY <2>6 DEF Revoked
        <3> QED
            BY <2>1, <3>2, <3>3 DEF Goto, WalkIsStraight, TypeOK
    <2>7. CASE NextChild(r)
        <3>1. PICK c \in todo[r] : todo' = [todo EXCEPT ![r] = @ \ {c}]
            BY <2>7 DEF NextChild
        <3>2. \A q \in Request : todo'[q] \subseteq todo[q]
            BY <3>1 DEF TypeOK
        <3>3. Goto(r, "write", TRUE) /\ UNCHANGED root
            BY <2>7 DEF NextChild
        <3> QED
            BY <2>1, <3>2, <3>3 DEF Goto, WalkIsStraight, TypeOK
    <2>8. \/ \E v \in Says : Respond(r, v)
          \/ BeginChange(r) \/ BeginDelete(r)
          \/ Erase(r) \/ WriteStatus(r) \/ ListTokens(r) \/ Deny(r) \/ Flip(r)
          \/ (Goto(r, "next", TRUE) /\ UNCHANGED memory)
          \/ BeginIssue(r) \/ (Goto(r, "rotate", FALSE) /\ UNCHANGED <<root, todo>>)
          \/ Revoked(r) \/ NextChild(r)
        BY <1>5 DEF Change, Use, RefuseStatus, Done, PersistIssue, BeginRefresh,
           Rotate, RotateConflict, Cascade, Fail, Says
    <2> QED
        BY <2>2, <2>3, <2>4, <2>5, <2>6, <2>7, <2>8
<1> QED
    BY <1>1, <1>2, <1>3, <1>4, <1>5 DEF Next

(* What a walk has before it is finite. *)
LEMMA Counts ==
    ASSUME TypeOK, IsFiniteSet(Identity), IsFiniteSet(Token), NEW r \in Request
    PROVE  /\ IsFiniteSet(targets[r]) /\ IsFiniteSet(todo[r])
           /\ {Cardinality(Token), Cardinality(Identity), Cardinality(targets[r]),
               Cardinality(todo[r]), TokenSteps, ChildSteps} \subseteq Nat
           /\ Cardinality(targets[r]) <= Cardinality(Token)
           /\ Cardinality(todo[r]) <= Cardinality(Identity)
<1>1. targets[r] \subseteq Token /\ todo[r] \subseteq Identity
    BY DEF TypeOK
<1>2. /\ IsFiniteSet(targets[r]) /\ Cardinality(targets[r]) <= Cardinality(Token)
      /\ IsFiniteSet(todo[r]) /\ Cardinality(todo[r]) <= Cardinality(Identity)
    BY <1>1, FS_Subset
<1>3. {Cardinality(Token), Cardinality(Identity), Cardinality(targets[r]),
       Cardinality(todo[r])} \subseteq Nat
    BY <1>2, FS_CardinalityType
<1>4. TokenSteps \in Nat
    BY <1>3 DEF TokenSteps
<1>5. ChildSteps \in Nat
    BY <1>4 DEF ChildSteps
<1> QED
    BY <1>2, <1>3, <1>4, <1>5

LEMMA Products ==
    ASSUME NEW k \in Nat, NEW m \in Nat, NEW n \in Nat
    PROVE  /\ k * n \in Nat
           /\ k * (n + 1) = k * n + k
           /\ m <= n => k * m <= k * n
<1>1. k * n \in Nat /\ k * (n + 1) = k * n + k
    OBVIOUS
<1>2. ASSUME m <= n PROVE k * m <= k * n
    <2>1. PICK d \in Nat : n = m + d
        BY <1>2
    <2>2. k * n = k * m + k * d /\ k * d \in Nat /\ k * m \in Nat
        BY <2>1
    <2> QED
        BY <2>2
<1> QED
    BY <1>1, <1>2

(* A request that is under way has a step left. *)
LEMMA SomeStepIsLeft ==
    ASSUME TypeOK, Inductive, IsFiniteSet(Identity), IsFiniteSet(Token),
           NEW r \in Request, pc[r] # "idle"
    PROVE  /\ StepsHere(r) \in Nat /\ StepsAhead(r) \in Nat
           /\ StepsLeft(r) \in Nat /\ StepsLeft(r) > 0
<1>1. StepsAhead(r) \in Nat /\ (pc[r] = "next" => StepsAhead(r) > 0)
    <2>1. /\ ChildSteps * Cardinality(todo[r]) \in Nat
          /\ ChildSteps * Cardinality(Identity) \in Nat
        BY Counts, Products
    <2> QED
        BY <2>1 DEF StepsAhead, HasListed
<1>2. StepsHere(r) \in Nat
    BY Counts DEF StepsHere
<1>3. pc[r] \in {"write", "list", "erase", "revoke"} => StepsHere(r) > 0
    <2>1. /\ pc[r] = "write" => StepsHere(r) = TokenSteps + 3
          /\ pc[r] = "list" => StepsHere(r) = TokenSteps + 2
          /\ pc[r] = "erase" => StepsHere(r) = 2 * Cardinality(targets[r]) + 2
          /\ pc[r] = "revoke" => StepsHere(r) = 2 * Cardinality(targets[r]) + 1
        BY DEF StepsHere
    <2> QED
        BY <2>1, Counts
<1>4. pc[r] = "flip" => StepsHere(r) > 0
    <2>1. ASSUME pc[r] = "flip" PROVE Cardinality(targets[r]) # 0
        <3>1. targets[r] # {}
            BY <2>1 DEF Inductive, Points
        <3> QED
            BY <3>1, Counts, FS_EmptySet
    <2> QED
        BY <2>1, Counts DEF StepsHere
<1>5. pc[r] \in Steps
    BY DEF TypeOK
<1> QED
    BY <1>1, <1>2, <1>3, <1>4, <1>5 DEF StepsLeft, Steps

LEMMA AnswersAreLast ==
    ASSUME TypeOK, Inductive, IsFiniteSet(Identity), IsFiniteSet(Token),
           NEW r \in Request, pc[r] # "idle", pc'[r] = "idle"
    PROVE  StepsLeft(r)' \in Nat /\ StepsLeft(r)' < StepsLeft(r)
<1>1. StepsLeft(r)' = 0
    BY DEF StepsLeft
<1> QED
    BY <1>1, SomeStepIsLeft

(* The steps of a request at one identity. *)
LEMMA StepsHereEnd ==
    ASSUME TypeOK, TypeOK', Inductive, ChildrenListed,
           IsFiniteSet(Identity), IsFiniteSet(Token), NEW r \in Request,
           Erase(r) \/ WriteStatus(r) \/ ListTokens(r) \/ Deny(r) \/ Flip(r)
    PROVE  StepsLeft(r)' \in Nat /\ StepsLeft(r)' < StepsLeft(r)
<1>1. /\ pc[r] \in {"erase", "write", "list", "revoke", "flip"}
      /\ UNCHANGED <<op, root, who, todo>>
    BY DEF Erase, WriteStatus, ListTokens, Deny, Flip
<1>2. /\ pc'[r] \in {"list", "revoke", "flip"}
      /\ HasListed(r)' = HasListed(r)
    <2>1. PICK s \in {"list", "revoke", "flip"} : Goto(r, s, TRUE)
        BY DEF Erase, WriteStatus, ListTokens, Deny, Flip
    <2>2. pc'[r] = s
        BY <2>1, GotoLeaves
    <2>3. pc[r] = "erase" => who[r] = root[r]
        BY DEF ChildrenListed, Following
    <2> QED
        BY <1>1, <2>2, <2>3 DEF HasListed
<1>3. StepsAhead(r)' = StepsAhead(r)
    BY <1>1, <1>2 DEF StepsAhead, ChildSteps, TokenSteps
<1>4. /\ StepsLeft(r) = StepsHere(r) + StepsAhead(r)
      /\ StepsLeft(r)' = StepsHere(r)' + StepsAhead(r)'
    BY <1>1, <1>2 DEF StepsLeft
<1>5. Cardinality(targets'[r]) \in Nat /\ Cardinality(targets'[r]) <= Cardinality(Token)
    <2>1. targets'[r] \subseteq Token
        BY DEF TypeOK
    <2> QED
        BY <2>1, FS_Subset, FS_CardinalityType
<1>6. StepsHere(r)' < StepsHere(r)
    <2>1. CASE Erase(r)
        <3>1. pc[r] = "erase" /\ Goto(r, "revoke", TRUE) /\ targets' = targets
            BY <2>1 DEF Erase
        <3>2. pc'[r] = "revoke"
            BY <3>1, GotoLeaves
        <3>3. StepsHere(r) = 2 * Cardinality(targets[r]) + 2
            BY <3>1 DEF StepsHere
        <3>4. StepsHere(r)' = 2 * Cardinality(targets[r]) + 1
            BY <3>1, <3>2 DEF StepsHere
        <3> QED
            BY <3>3, <3>4, Counts
    <2>2. CASE WriteStatus(r)
        <3>1. pc[r] = "write" /\ Goto(r, "list", TRUE)
            BY <2>2 DEF WriteStatus
        <3>2. pc'[r] = "list"
            BY <3>1, GotoLeaves
        <3>3. StepsHere(r) = TokenSteps + 3 /\ StepsHere(r)' = TokenSteps + 2
            BY <3>1, <3>2 DEF StepsHere, TokenSteps
        <3> QED
            BY <3>3, Counts
    <2>3. CASE ListTokens(r)
        <3>1. pc[r] = "list" /\ Goto(r, "revoke", TRUE)
            BY <2>3 DEF ListTokens
        <3>2. pc'[r] = "revoke"
            BY <3>1, GotoLeaves
        <3>3. StepsHere(r) = 2 * Cardinality(Token) + 2
            BY <3>1 DEF StepsHere, TokenSteps
        <3>4. StepsHere(r)' = 2 * Cardinality(targets'[r]) + 1
            BY <3>2 DEF StepsHere
        <3> QED
            BY <1>5, <3>3, <3>4, Counts
    <2>4. CASE Deny(r)
        <3>1. pc[r] = "revoke" /\ Goto(r, "flip", TRUE) /\ targets' = targets
            BY <2>4 DEF Deny
        <3>2. pc'[r] = "flip"
            BY <3>1, GotoLeaves
        <3>3. StepsHere(r) = 2 * Cardinality(targets[r]) + 1
            BY <3>1 DEF StepsHere
        <3>4. StepsHere(r)' = 2 * Cardinality(targets[r])
            BY <3>1, <3>2 DEF StepsHere
        <3> QED
            BY <3>3, <3>4, Counts
    <2>5. CASE Flip(r)
        <3>1. pc[r] = "flip" /\ Goto(r, "revoke", TRUE) /\ at[r] \in targets[r]
            BY <2>5 DEF Flip, Inductive, Points
        <3>2. pc'[r] = "revoke"
            BY <3>1, GotoLeaves
        <3>3. Cardinality(targets'[r]) = Cardinality(targets[r]) - 1
            <4>1. targets' = [targets EXCEPT ![r] = @ \ {at[r]}]
                BY <2>5 DEF Flip
            <4>2. targets'[r] = targets[r] \ {at[r]} /\ IsFiniteSet(targets[r])
                BY <4>1, Counts DEF TypeOK
            <4> QED
                BY <3>1, <4>2, FS_RemoveElement
        <3>4. StepsHere(r) = 2 * Cardinality(targets[r])
            BY <3>1 DEF StepsHere
        <3>5. StepsHere(r)' = 2 * Cardinality(targets'[r]) + 1
            BY <3>2 DEF StepsHere
        <3> QED
            BY <1>5, <3>3, <3>4, <3>5, Counts
    <2> QED
        BY <2>1, <2>2, <2>3, <2>4, <2>5
<1>7. StepsHere(r) \in Nat /\ StepsAhead(r) \in Nat /\ StepsHere(r)' \in Nat
    <2>1. StepsHere(r) \in Nat /\ StepsAhead(r) \in Nat
        BY <1>1, SomeStepIsLeft
    <2>2. StepsHere(r)' \in Nat
        BY <1>2, <1>5, Counts DEF StepsHere, TokenSteps
    <2> QED
        BY <2>1, <2>2
<1> QED
    BY <1>3, <1>4, <1>6, <1>7

(* The steps of a suspension from one identity to the next. *)
LEMMA StepsAheadEnd ==
    ASSUME TypeOK, TypeOK', Inductive, WalkIsStraight,
           IsFiniteSet(Identity), IsFiniteSet(Token), NEW r \in Request,
           \/ Revoked(r) \/ NextChild(r)
           \/ RefuseStatus(r) /\ ~Respond(r, "refused")
    PROVE  StepsLeft(r)' \in Nat /\ StepsLeft(r)' < StepsLeft(r)
<1> DEFINE n == Cardinality(todo[r])
<1>1. CASE Revoked(r)
    <2>1. /\ pc[r] = "revoke" /\ op[r] = "suspend" /\ Goto(r, "next", TRUE)
          /\ UNCHANGED <<root, who, op, targets>>
          /\ who[r] # root[r] => todo' = todo
        BY <1>1 DEF Revoked
    <2>2. pc'[r] = "next"
        BY <2>1, GotoLeaves
    <2>3. StepsLeft(r)' = 0 + (ChildSteps * Cardinality(todo'[r]) + 1)
        <3>1. StepsHere(r)' = 0 /\ HasListed(r)'
            BY <2>2 DEF StepsHere, HasListed
        <3> QED
            BY <2>2, <3>1 DEF StepsLeft, StepsAhead, ChildSteps, TokenSteps
    <2>4. /\ StepsLeft(r) = StepsHere(r) + StepsAhead(r) 
          /\ StepsHere(r) = 2 * Cardinality(targets[r]) + 1
        BY <2>1 DEF StepsLeft, StepsHere
    <2>5. /\ Cardinality(todo'[r]) \in Nat
          /\ Cardinality(todo'[r]) <= Cardinality(Identity)
        <3>1. todo'[r] \subseteq Identity
            BY DEF TypeOK
        <3> QED
            BY <3>1, FS_Subset, FS_CardinalityType
    <2>6. StepsAhead(r) \in Nat /\ ChildSteps * Cardinality(todo'[r]) + 1 <= StepsAhead(r)
        <3>1. CASE who[r] = root[r]
            <4>1. StepsAhead(r) = ChildSteps * Cardinality(Identity) + 1
                BY <2>1, <3>1 DEF StepsAhead, HasListed
            <4>2. /\ ChildSteps * Cardinality(todo'[r]) <= ChildSteps * Cardinality(Identity)
                  /\ ChildSteps * Cardinality(todo'[r]) \in Nat
                  /\ ChildSteps * Cardinality(Identity) \in Nat
                BY <2>5, Counts, Products
            <4> QED
                BY <4>1, <4>2
        <3>2. CASE who[r] # root[r]
            <4>1. StepsAhead(r) = ChildSteps * Cardinality(todo'[r]) + 1
                BY <2>1, <3>2 DEF StepsAhead, HasListed
            <4>2. ChildSteps * Cardinality(todo'[r]) \in Nat
                BY <2>5, Counts, Products
            <4> QED
                BY <4>1, <4>2
        <3> QED
            BY <3>1, <3>2
    <2>7. ChildSteps * Cardinality(todo'[r]) \in Nat
        BY <2>5, Counts, Products
    <2> QED
        BY <2>3, <2>4, <2>6, <2>7, Counts
<1>2. CASE NextChild(r)
    <2>1. PICK c \in todo[r] : /\ who' = [who EXCEPT ![r] = c]
                               /\ todo' = [todo EXCEPT ![r] = @ \ {c}]
        BY <1>2 DEF NextChild
    <2>2. Goto(r, "write", TRUE) /\ pc[r] = "next" /\ UNCHANGED root
        BY <1>2 DEF NextChild
    <2>3. /\ pc'[r] = "write" /\ who'[r] = c /\ todo'[r] = todo[r] \ {c}
          /\ root'[r] # c
        <3>1. pc'[r] = "write"
            BY <2>2, GotoLeaves
        <3>2. who'[r] = c /\ todo'[r] = todo[r] \ {c}
            BY <2>1 DEF TypeOK
        <3>3. root'[r] # c
            BY <2>1, <2>2 DEF WalkIsStraight
        <3> QED
            BY <3>1, <3>2, <3>3
    <2>4. PICK m \in Nat : n = m + 1 /\ Cardinality(todo'[r]) = m
        <3>1. /\ IsFiniteSet(todo[r]) /\ n \in Nat
              /\ IsFiniteSet(todo'[r]) /\ Cardinality(todo'[r]) = n - 1
            BY <2>3, Counts, FS_RemoveElement
        <3>2. Cardinality(todo'[r]) \in Nat
            BY <3>1, FS_CardinalityType
        <3> HIDE DEF n
        <3> QED
            BY <3>1, <3>2
    <2>5. StepsLeft(r) = 0 + (ChildSteps * n + 1)
        <3>1. StepsHere(r) = 0 /\ HasListed(r)
            BY <2>2 DEF StepsHere, HasListed
        <3> QED
            BY <2>2, <3>1 DEF StepsLeft, StepsAhead
    <2>6. StepsLeft(r)' = TokenSteps + 3 + (ChildSteps * m + 1)
        BY <2>3, <2>4 DEF StepsLeft, StepsHere, StepsAhead, HasListed, ChildSteps, TokenSteps
    <2>7. ChildSteps * n = ChildSteps * m + ChildSteps /\ ChildSteps * m \in Nat
        BY <2>4, Counts, Products
    <2> HIDE DEF n
    <2> QED
        BY <2>5, <2>6, <2>7, Counts DEF ChildSteps
<1>3. CASE RefuseStatus(r) /\ ~Respond(r, "refused")
    <2>1. /\ pc[r] = "write" /\ who[r] # root[r] /\ Goto(r, "next", TRUE)
          /\ UNCHANGED <<root, who, todo>>
        BY <1>3 DEF RefuseStatus, memory
    <2>2. pc'[r] = "next"
        BY <2>1, GotoLeaves
    <2>3. StepsLeft(r)' = 0 + (ChildSteps * n + 1)
        <3>1. StepsHere(r)' = 0 /\ HasListed(r)'
            BY <2>2 DEF StepsHere, HasListed
        <3> QED
            BY <2>1, <2>2, <3>1 DEF StepsLeft, StepsAhead, ChildSteps, TokenSteps
    <2>4. StepsLeft(r) = TokenSteps + 3 + (ChildSteps * n + 1)
        BY <2>1 DEF StepsLeft, StepsHere, StepsAhead, HasListed
    <2>5. ChildSteps * n \in Nat
        BY Counts, Products
    <2> HIDE DEF n
    <2> QED
        BY <2>3, <2>4, <2>5, Counts
<1> QED
    BY <1>1, <1>2, <1>3

(* Every step of a request under way. *)
LEMMA OwnStepsEnd ==
    ASSUME TypeOK, TypeOK', Inductive, ChildrenListed, WalkIsStraight,
           IsFiniteSet(Identity), IsFiniteSet(Token), NEW r \in Request,
           Change(r) \/ Use(r) \/ Fail(r), pc[r] # "idle"
    PROVE  StepsLeft(r)' \in Nat /\ StepsLeft(r)' < StepsLeft(r)
<1>1. CASE \E v \in Says : Respond(r, v)
    BY <1>1, RespondLeaves, AnswersAreLast
<1>2. CASE ~ \E v \in Says : Respond(r, v)
    <2>1. \/ Erase(r) \/ WriteStatus(r) \/ ListTokens(r) \/ Deny(r) \/ Flip(r)
          \/ Revoked(r) \/ NextChild(r)
          \/ RefuseStatus(r) /\ ~Respond(r, "refused")
        BY <1>2 DEF Change, Use, BeginChange, BeginDelete, Begin, Done, BeginIssue,
           PersistIssue, BeginRefresh, Rotate, RotateConflict, Cascade, Fail, Says
    <2> QED
        BY <2>1, StepsHereEnd, StepsAheadEnd
<1> QED
    BY <1>1, <1>2

(* A step of another request, or of nobody's. *)
LEMMA OthersTakeNothing ==
    ASSUME TypeOK, NEW r \in Request, NEW q \in Request \ {r},
           Change(q) \/ Use(q) \/ Fail(q)
    PROVE  Turn(q) /\ StepsLeft(r)' = StepsLeft(r)
<1>1. Turn(q)
    BY DEF Change, Use, BeginChange, BeginDelete, Begin, Erase, WriteStatus,
       RefuseStatus, ListTokens, Deny, Flip, Revoked, NextChild, Done, BeginIssue,
       PersistIssue, BeginRefresh, Rotate, RotateConflict, Fail, Turn
<1>2. /\ pc'[r] = pc[r] /\ op'[r] = op[r] /\ root'[r] = root[r] /\ who'[r] = who[r]
      /\ targets'[r] = targets[r] /\ todo'[r] = todo[r]
    <2>1. CASE \E v \in Says : Respond(q, v)
        BY <2>1 DEF Respond, TypeOK
    <2>2. CASE ~ \E v \in Says : Respond(q, v)
        <3>1. PICK s, k : Goto(q, s, k)
            BY <2>2 DEF Change, Use, BeginChange, BeginDelete, Erase, WriteStatus,
               RefuseStatus, ListTokens, Deny, Flip, Revoked, NextChild, Done,
               BeginIssue, PersistIssue, BeginRefresh, Rotate, RotateConflict,
               Cascade, Fail, Says
        <3>2. pc'[r] = pc[r]
            BY <3>1 DEF Goto, TypeOK
        <3>3. CASE Change(q)
            BY <2>2, <3>2, <3>3 DEF Change, BeginChange, BeginDelete, Begin, Erase,
               WriteStatus, RefuseStatus, ListTokens, Deny, Flip, Revoked, NextChild,
               Done, TypeOK, memory, Says
        <3>4. CASE Use(q) \/ Fail(q)
            BY <2>2, <3>2, <3>4 DEF Use, BeginIssue, PersistIssue, BeginRefresh,
               Rotate, RotateConflict, Cascade, Fail, TypeOK, Says
        <3> QED
            BY <3>3, <3>4
    <2> QED
        BY <2>1, <2>2
<1> QED
    BY <1>1, <1>2 DEF StepsLeft, StepsHere, StepsAhead, HasListed, ChildSteps, TokenSteps

(* A change of status, with all its tokens and children, is over after a   *)
(* number of steps that is known when it begins, as long as the tables are *)
(* finite: the loops of identities.ts end whatever others do meanwhile.    *)
THEOREM WalksComeToAnEnd ==
    ASSUME IsFiniteSet(Identity), IsFiniteSet(Token)
    PROVE  Spec => WalksEnd
<1>1. Init => WalkIsStraight
    BY NamesAssumption DEF Init, WalkIsStraight
<1>2. TypeOK /\ WalkIsStraight /\ [Next]_vars => WalkIsStraight'
    BY StraightStep
<1>3. ASSUME TypeOK, TypeOK', Inductive, ChildrenListed, WalkIsStraight, Next,
             ~ UNCHANGED vars, NEW r \in Request
      PROVE  /\ loop = r => StepsLeft(r)' < StepsLeft(r)
             /\ pc[r] # "idle" => StepsLeft(r)' <= StepsLeft(r)
    <2>1. loop = r => pc[r] # "idle"
        BY <1>3 DEF WalkIsStraight
    <2>2. CASE Change(r) \/ Use(r) \/ Fail(r)
        <3>1. pc[r] # "idle" => StepsLeft(r)' \in Nat /\ StepsLeft(r)' < StepsLeft(r)
            BY <1>3, <2>2, OwnStepsEnd
        <3>2. pc[r] # "idle" => StepsLeft(r) \in Nat
            BY <1>3, SomeStepIsLeft
        <3> QED
            BY <2>1, <3>1, <3>2
    <2>3. CASE \E q \in Request \ {r} : Change(q) \/ Use(q) \/ Fail(q)
        <3>1. loop # r /\ StepsLeft(r)' = StepsLeft(r)
            BY <1>3, <2>3, OthersTakeNothing, NamesAssumption DEF Turn
        <3>2. pc[r] # "idle" => StepsLeft(r) \in Nat
            BY <1>3, SomeStepIsLeft
        <3> QED
            BY <3>1, <3>2
    <2>4. CASE Restart
        <3>1. pc'[r] = "idle"
            BY <2>4 DEF Restart
        <3>2. pc[r] # "idle" => StepsLeft(r)' \in Nat /\ StepsLeft(r)' < StepsLeft(r)
            BY <1>3, <3>1, AnswersAreLast
        <3>3. pc[r] # "idle" => StepsLeft(r) \in Nat
            BY <1>3, SomeStepIsLeft
        <3> QED
            BY <2>1, <3>2, <3>3
    <2>5. CASE \/ \E i \in Identity, s \in Identity \cup {NoIdentity} : Create(i, s)
               \/ \E i \in Identity : ExceedBudget(i) \/ Reactivate(i)
        <3>1. loop = NoRequest /\ UNCHANGED <<pc, memory>>
            BY <2>5 DEF Create, ExceedBudget, Reactivate
        <3>2. loop # r /\ StepsLeft(r)' = StepsLeft(r)
            BY <3>1, NamesAssumption DEF memory, StepsLeft, StepsHere, StepsAhead,
               HasListed, ChildSteps, TokenSteps
        <3>3. pc[r] # "idle" => StepsLeft(r) \in Nat
            BY <1>3, SomeStepIsLeft
        <3> QED
            BY <3>2, <3>3
    <2> QED
        BY <1>3, <2>2, <2>3, <2>4, <2>5 DEF Next
<1>4. TypeOK /\ TypeOK' /\ Inductive /\ ChildrenListed /\ WalkIsStraight /\ [Next]_vars =>
        [ \A r \in Request :
            /\ loop = r => StepsLeft(r)' < StepsLeft(r)
            /\ pc[r] # "idle" => StepsLeft(r)' <= StepsLeft(r) ]_vars
    BY <1>3
<1> QED
    BY <1>1, <1>2, <1>4, InductiveInvariant, FollowingInvariant, PTL DEF Spec, WalksEnd

=============================================================================
