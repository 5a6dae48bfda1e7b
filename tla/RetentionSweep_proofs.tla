------------------------ MODULE RetentionSweep_proofs ------------------------
(***************************************************************************)
(* Proofs about the sweep of identities: for any number of identities and  *)
(* tokens, any lengths of days, periods, lifetimes and windows, and any    *)
(* number of events.                                                       *)
(***************************************************************************)
EXTENDS RetentionSweep, FiniteSetTheorems, WellFoundedInduction, TLAPS

-----------------------------------------------------------------------------
(* The largest of finitely many numbers *)

LEMMA SmallestOfOrder ==
    ASSUME NEW R, IsWellFoundedOn(R, Nat), \A x, y \in Nat : <<y, x>> \in R <=> y < x,
           NEW S \in SUBSET Nat, S # {}
    PROVE  \E n \in S : \A k \in S : n <= k
<1>1. PICK n \in S : \A k \in S : ~(<<k, n>> \in R)
  BY WFMin
<1>2. ASSUME NEW k \in S PROVE n <= k
  <2>1. n \in Nat /\ k \in Nat
    OBVIOUS
  <2>2. ~(k < n)
    BY <1>1, <2>1
  <2> QED BY <2>1, <2>2
<1> QED BY <1>2

LEMMA Precedes == \A x, y \in Nat : <<y, x>> \in OpToRel(<, Nat) <=> y < x
BY Zenon DEF OpToRel

LEMMA SmallestExists ==
    ASSUME NEW S \in SUBSET Nat, S # {}
    PROVE  \E n \in S : \A k \in S : n <= k
BY SmallestOfOrder, Precedes, NatLessThanWellFounded, Zenon

\* Of a smallest set without a largest element, an element can be taken away.
LEMMA LargestExists ==
    ASSUME NEW D, IsFiniteSet(D), D # {}, NEW f, \A x \in D : f[x] \in Nat
    PROVE  \E m \in D : \A x \in D : f[x] <= f[m]
<1> DEFINE Open(S) == S # {} /\ \A m \in S : \E x \in S : ~(f[x] <= f[m])
           Sizes == {Cardinality(S) : S \in {U \in SUBSET D : Open(U)}}
<1>1. SUFFICES ASSUME Open(D) PROVE FALSE
  OBVIOUS
<1>2. \A S \in SUBSET D : IsFiniteSet(S) /\ Cardinality(S) \in Nat
  BY FS_Subset, FS_CardinalityType
<1>3. Sizes \in SUBSET Nat /\ Sizes # {}
  BY <1>1, <1>2
<1>4. PICK n \in Sizes : \A k \in Sizes : n <= k
  BY <1>3, SmallestExists
<1>5. PICK S \in SUBSET D : Open(S) /\ Cardinality(S) = n
  BY <1>4
<1>6. PICK y \in S : TRUE
  BY <1>5
<1> DEFINE U == S \ {y}
<1>7. U \in SUBSET D /\ Cardinality(U) = n - 1 /\ n \in Nat
  BY <1>2, <1>5, <1>6, FS_RemoveElement
<1>8. ~Open(U)
  <2>1. ASSUME Open(U) PROVE FALSE
    <3>1. U \in {V \in SUBSET D : Open(V)}
      BY <1>7, <2>1
    <3> HIDE DEF U, Open
    <3>2. Cardinality(U) \in Sizes
      BY <3>1
    <3> QED BY <1>4, <1>7, <3>2
  <2> QED BY <2>1
<1>9. CASE U = {}
  <2>1. S = {y}
    BY <1>6, <1>9
  <2> QED BY <1>5, <2>1
<1>10. CASE U # {}
  <2>1. PICK m \in U : \A x \in U : f[x] <= f[m]
    BY <1>8, <1>10
  <2>2. m \in S /\ y \in S /\ f[m] \in Nat /\ f[y] \in Nat
    BY <1>5, <1>6, <2>1
  <2>3. CASE f[y] <= f[m]
    <3>1. \A x \in S : f[x] <= f[m]
      BY <2>1, <2>3
    <3> QED BY <1>5, <2>2, <3>1
  <2>4. CASE f[m] <= f[y]
    <3>1. ASSUME NEW x \in S PROVE f[x] <= f[y]
      <4>1. CASE x = y
        BY <2>2, <4>1
      <4>2. CASE x # y
        <5>1. x \in U /\ f[x] \in Nat
          BY <1>5, <4>2
        <5> QED BY <2>1, <2>2, <2>4, <5>1
      <4> QED BY <4>1, <4>2
    <3> QED BY <1>5, <2>2, <3>1
  <2> QED BY <2>2, <2>3, <2>4
<1> QED BY <1>9, <1>10

\* The last rowid is one of those it is the last of.
LEMMA LastIsNatural ==
    ASSUME TypeOK, NEW ids \in SUBSET Stored, ids # {}
    PROVE  Last(ids) \in Nat
<1> DEFINE f == [i \in ids |-> identity[i].rowid]
<1>1. IsFiniteSet(ids)
  BY FS_Subset, SweepAssumption DEF Stored
<1>2. \A i \in ids : identity[i].rowid \in Nat
  BY DEF TypeOK, Stored, IdentityRow
<1>3. PICK m \in ids : \A i \in ids : f[i] <= f[m]
  <2>1. \A i \in ids : f[i] \in Nat
    BY <1>2
  <2> HIDE DEF f
  <2> QED BY <1>1, <2>1, LargestExists
<1>4. \E n \in {identity[i].rowid : i \in ids} : \A i \in ids : identity[i].rowid <= n
  BY <1>3
<1>5. Last(ids) \in {identity[i].rowid : i \in ids}
  BY <1>4 DEF Last
<1> QED BY <1>2, <1>5

-----------------------------------------------------------------------------
(* Types *)

LEMMA InitTypes == Init => TypeOK
BY SweepAssumption DEF Init, TypeOK, Time

LEMMA SweepTypes ==
    ASSUME TypeOK, ScanIdentities \/ PruneIdentities \/ LoseWindow
    PROVE  TypeOK'
<1>1. CASE ScanIdentities
  <2>1. NextRows \in SUBSET Stored /\ NextRows \in SUBSET Identity
    BY DEF NextRows, Stored
  <2>2. IF NextRows = {} THEN cursor \in Nat ELSE Last(NextRows) \in Nat
    BY <2>1, LastIsNatural DEF TypeOK
  <2>3. window' \in [ids : SUBSET Identity, after : Nat, exhausted : BOOLEAN]
    BY <1>1, <2>1, <2>2 DEF ScanIdentities, Window
  <2> QED BY <1>1, <2>3 DEF ScanIdentities, TypeOK, rows
<1>2. CASE PruneIdentities
  <2>1. cursor' \in Nat /\ window' = None
    BY <1>2 DEF PruneIdentities, Advance, TypeOK
  <2>2. identity' \in [Identity -> IdentityRow \cup {Unborn, Deleted, Swept}]
    BY <1>2 DEF PruneIdentities, TypeOK
  <2> QED BY <1>2, <2>1, <2>2 DEF PruneIdentities, TypeOK
<1>3. CASE LoseWindow
  <2>1. cursor' \in Nat /\ window' = None
    BY <1>3 DEF LoseWindow, Advance, TypeOK
  <2>2. events' \in 0..MaxEvents
    BY <1>3, SweepAssumption DEF LoseWindow, Count, TypeOK
  <2> QED BY <1>3, <2>1, <2>2 DEF LoseWindow, TypeOK, rows
<1> QED BY <1>1, <1>2, <1>3

LEMMA NewRowTypes ==
    ASSUME TypeOK, NEW s \in Identity \cup {Nobody}
    PROVE  [rowid |-> NextRowId, created |-> now, seen |-> Never, sponsor |-> s,
            keep |-> FALSE] \in IdentityRow
<1>1. NextRowId \in Nat
  <2>1. CASE Stored # {}
    <3>1. Last(Stored) \in Nat
      BY <2>1, LastIsNatural
    <3> QED BY <2>1, <3>1 DEF NextRowId
  <2> QED BY <2>1 DEF NextRowId
<1> QED BY <1>1 DEF IdentityRow, TypeOK

LEMMA CreateTypes ==
    ASSUME TypeOK, NEW s \in Identity \cup {Nobody}, CreateIdentity(s)
    PROVE  TypeOK'
<1>1. identity' \in [Identity -> IdentityRow \cup {Unborn, Deleted, Swept}]
  BY NewRowTypes DEF CreateIdentity, TypeOK
<1> QED BY <1>1 DEF CreateIdentity, TypeOK, sweep

LEMMA IdentityTypes ==
    ASSUME TypeOK, NEW i \in Identity, ReportActivity(i) \/ Pin(i) \/ DeleteIdentity(i)
    PROVE  TypeOK'
<1>2. CASE ReportActivity(i) \/ Pin(i)
  <2>0. events' \in 0..MaxEvents
    BY <1>2, SweepAssumption DEF ReportActivity, Pin, Count, TypeOK
  <2>1. identity[i] \in IdentityRow
    BY <1>2 DEF ReportActivity, Pin, Stored, TypeOK
  <2>2. /\ [identity[i] EXCEPT !.seen = now] \in IdentityRow
        /\ [identity[i] EXCEPT !.keep = ~@] \in IdentityRow
    BY <2>1 DEF IdentityRow, TypeOK
  <2>3. identity' \in [Identity -> IdentityRow \cup {Unborn, Deleted, Swept}]
    BY <1>2, <2>2 DEF ReportActivity, Pin, TypeOK
  <2> QED BY <1>2, <2>0, <2>3 DEF ReportActivity, Pin, TypeOK, sweep
<1>3. CASE DeleteIdentity(i)
  <2>0. events' \in 0..MaxEvents
    BY <1>3, SweepAssumption DEF DeleteIdentity, Count, TypeOK
  <2>1. identity' \in [Identity -> IdentityRow \cup {Unborn, Deleted, Swept}]
    BY <1>3 DEF DeleteIdentity, TypeOK
  <2>2. \A t \in Rows : [token[t] EXCEPT !.status = "revoked"] \in TokenRow
    BY DEF Rows, TypeOK, TokenRow
  <2>3. token' \in [Token -> TokenRow \cup {None}] /\ denied' \subseteq Token
    BY <1>3, <2>2 DEF DeleteIdentity, TypeOK, TokensOf, Rows
  <2> QED BY <1>3, <2>0, <2>1, <2>3 DEF DeleteIdentity, TypeOK, sweep
<1> QED BY <1>2, <1>3

LEMMA TokenTypes ==
    ASSUME TypeOK,
           \/ \E i \in Identity, lifetime \in Lifetime, carries \in BOOLEAN :
                BeginIssue(i, lifetime, carries)
           \/ PersistIssue \/ FailIssue
           \/ \E t \in Token : Revoke(t) \/ PruneTokens(t)
    PROVE  TypeOK'
<1>1. ASSUME NEW i \in Identity, NEW lifetime \in Lifetime, NEW carries \in BOOLEAN,
             BeginIssue(i, lifetime, carries)
      PROVE  TypeOK'
  <2>1. (IF lifetime = Never THEN Never ELSE now + lifetime) \in Nat \cup {Never}
    BY SweepAssumption DEF TypeOK, Time
  <2>2. signing' \in [owner : Identity, created : Time, expires : Nat \cup {Never},
                      lineage : BOOLEAN]
    BY <1>1, <2>1 DEF BeginIssue, TypeOK
  <2> QED BY <1>1, <2>2 DEF BeginIssue, TypeOK, rows, sweep
<1>2. CASE PersistIssue
  <2>1. signing \in [owner : Identity, created : Time, expires : Nat \cup {Never},
                     lineage : BOOLEAN]
    BY <1>2 DEF PersistIssue, TypeOK
  <2> DEFINE row == [owner |-> signing.owner, created |-> signing.created,
                     expires |-> signing.expires, status |-> "active"]
             claim == [owner |-> signing.owner, expires |-> signing.expires]
  <2>5. row \in TokenRow /\ claim \in [owner : Identity, expires : Nat \cup {Never}]
    BY <2>1 DEF TokenRow
  <2>6. PICK n \in Token : /\ token' = [token EXCEPT ![n] = row]
                           /\ claims' = [claims EXCEPT ![n] = claim]
    BY <1>2 DEF PersistIssue, Next1
  <2> HIDE DEF row, claim
  <2>2. token' \in [Token -> TokenRow \cup {None}]
    BY <2>5, <2>6 DEF TypeOK
  <2>3. claims' \in [Token -> [owner : Identity, expires : Nat \cup {Never}] \cup {None}]
    BY <2>5, <2>6 DEF TypeOK
  <2>4. lineage' \in [Identity -> Time \cup {Never}]
    BY <1>2, <2>1 DEF PersistIssue, TypeOK
  <2> QED BY <1>2, <2>2, <2>3, <2>4 DEF PersistIssue, TypeOK, sweep
<1>3. CASE FailIssue
  BY <1>3 DEF FailIssue, TypeOK, rows, sweep
<1>4. ASSUME NEW t \in Token, Revoke(t) PROVE TypeOK'
  <2>0. events' \in 0..MaxEvents
    BY <1>4, SweepAssumption DEF Revoke, Count, TypeOK
  <2>1. [token[t] EXCEPT !.status = "revoked"] \in TokenRow
    BY <1>4 DEF Revoke, Rows, TypeOK, TokenRow
  <2>2. token' \in [Token -> TokenRow \cup {None}] /\ denied' \subseteq Token
    BY <1>4, <2>1 DEF Revoke, TypeOK
  <2> QED BY <1>4, <2>0, <2>2 DEF Revoke, TypeOK, sweep
<1>5. ASSUME NEW t \in Token, PruneTokens(t) PROVE TypeOK'
  <2>1. token' \in [Token -> TokenRow \cup {None}]
    BY <1>5 DEF PruneTokens, TypeOK
  <2> QED BY <1>5, <2>1 DEF PruneTokens, TypeOK, sweep
<1> QED BY <1>1, <1>2, <1>3, <1>4, <1>5

LEMMA StepTypes == TypeOK /\ [Next]_vars => TypeOK'
<1> SUFFICES ASSUME TypeOK, [Next]_vars PROVE TypeOK'
  OBVIOUS
<1>1. CASE \E days \in Days \cup {None} : Configure(days)
  <2>1. events' \in 0..MaxEvents /\ config' \in Days \cup {None}
    BY <1>1, SweepAssumption DEF Configure, Count, TypeOK
  <2> QED BY <1>1, <2>1 DEF Configure, TypeOK, sweep
<1>2. CASE Tick
  <2>1. now' \in Time
    BY <1>2, SweepAssumption DEF Tick, TypeOK, Time
  <2> QED BY <1>2, <2>1 DEF Tick, TypeOK, rows, sweep
<1>3. CASE UNCHANGED vars
  BY <1>3 DEF TypeOK, vars, rows, sweep
<1>4. CASE ScanIdentities \/ PruneIdentities \/ LoseWindow
  BY <1>4, SweepTypes
<1>5. ASSUME NEW s \in Identity \cup {Nobody}, CreateIdentity(s) PROVE TypeOK'
  BY <1>5, CreateTypes
<1>6. ASSUME NEW i \in Identity, ReportActivity(i) \/ Pin(i) \/ DeleteIdentity(i)
      PROVE  TypeOK'
  BY <1>6, IdentityTypes
<1>7. CASE \/ \E i \in Identity, lifetime \in Lifetime, carries \in BOOLEAN :
                BeginIssue(i, lifetime, carries)
           \/ PersistIssue \/ FailIssue
           \/ \E t \in Token : Revoke(t) \/ PruneTokens(t)
  BY <1>7, TokenTypes
<1> QED BY <1>1, <1>2, <1>3, <1>4, <1>5, <1>6, <1>7 DEF Next

\* Every variable keeps its type (tables, denylist, cursor and window of
\* engine/retention-gc.ts).
THEOREM TypeCorrect == Spec => []TypeOK
BY InitTypes, StepTypes, PTL DEF Spec

-----------------------------------------------------------------------------
(* What is swept *)

\* What a holder has and what the tables say of it: its row is there, active
\* and as it was issued, or it is denied, or its expiry and the grace are
\* over.  The first sweep deletes rows, so the second cannot rely on them
\* alone.
Live(t) ==
    /\ t \in Rows /\ token[t].status = "active"
    /\ token[t].owner = claims[t].owner /\ token[t].expires = claims[t].expires
Over(t) == Before(claims[t].expires, now - Grace)
Backed == \A t \in Issued : t \in denied \/ Live(t) \/ Over(t)

LEMMA BackedStays ==
    ASSUME TypeOK, TypeOK', Backed, [Next]_vars
    PROVE  Backed'
<1>1. CASE UNCHANGED <<now, token, claims, denied>>
  BY <1>1 DEF Backed, Issued, Live, Over, Rows, Before
<1>2. CASE Tick
  <2>1. ASSUME NEW t \in Issued, Over(t) PROVE Over(t)'
    <3>1. now \in Int /\ now' = now + 1 /\ Grace \in Nat /\ claims' = claims
      BY <1>2, SweepAssumption DEF Tick, TypeOK, Time
    <3>2. claims[t].expires \in Nat
      BY <2>1 DEF Over, Before, Issued, TypeOK
    <3> QED BY <2>1, <3>1, <3>2 DEF Over, Before
  <2> QED BY <1>2, <2>1 DEF Tick, rows, Backed, Issued, Live, Rows
<1>3. CASE PersistIssue
  <2>0. signing \in [owner : Identity, created : Time, expires : Nat \cup {Never},
                     lineage : BOOLEAN]
    BY <1>3 DEF PersistIssue, TypeOK
  <2> DEFINE row == [owner |-> signing.owner, created |-> signing.created,
                     expires |-> signing.expires, status |-> "active"]
  <2>1. PICK n \in Token \ Issued :
            /\ token' = [token EXCEPT ![n] = row]
            /\ claims' = [claims EXCEPT ![n] =
                    [owner |-> signing.owner, expires |-> signing.expires]]
    BY <1>3 DEF PersistIssue, Next1
  <2>2. row \in TokenRow
    BY <2>0 DEF TokenRow
  <2>3. row # None
    BY <2>2, SweepAssumption
  <2>4. Live(n)'
    BY <2>1, <2>3 DEF Live, Rows, TypeOK
  <2>5. ASSUME NEW t \in Issued', t # n PROVE t \in denied' \/ Live(t)' \/ Over(t)'
    <3>1. t \in Issued /\ token'[t] = token[t] /\ claims'[t] = claims[t]
          /\ now' = now /\ denied' = denied
      BY <1>3, <2>1, <2>5 DEF PersistIssue, Issued, TypeOK
    <3> QED BY <3>1 DEF Backed, Live, Over, Rows
  <2> QED BY <2>4, <2>5 DEF Backed
<1>4. ASSUME NEW i \in Identity, DeleteIdentity(i) PROVE Backed'
  <2> DEFINE gone == {t \in TokensOf(i) : token[t].status = "active"}
  <2>1. /\ denied' = denied \cup gone /\ claims' = claims /\ now' = now
        /\ \A t \in Token \ gone : token'[t] = token[t]
    BY <1>4 DEF DeleteIdentity, TypeOK
  <2>2. ASSUME NEW t \in Issued' PROVE t \in denied' \/ Live(t)' \/ Over(t)'
    <3>1. t \in Issued /\ t \in Token
      BY <2>1 DEF Issued
    <3>2. CASE t \in gone
      BY <2>1, <3>2
    <3>3. CASE t \notin gone
      BY <2>1, <3>1, <3>3 DEF Backed, Live, Over, Rows
    <3> QED BY <3>2, <3>3
  <2> QED BY <2>2 DEF Backed
<1>5. ASSUME NEW x \in Token, Revoke(x) PROVE Backed'
  <2>1. ASSUME NEW t \in Issued' PROVE t \in denied' \/ Live(t)' \/ Over(t)'
    <3>1. /\ t \in Issued /\ claims' = claims /\ now' = now /\ denied' = denied \cup {x}
          /\ t # x => token'[t] = token[t]
      BY <1>5 DEF Revoke, Issued, TypeOK
    <3> QED BY <3>1 DEF Backed, Live, Over, Rows
  <2> QED BY <2>1 DEF Backed
<1>6. ASSUME NEW x \in Token, PruneTokens(x) PROVE Backed'
  <2>1. ASSUME NEW t \in Issued' PROVE t \in denied' \/ Live(t)' \/ Over(t)'
    <3>1. /\ t \in Issued /\ claims' = claims /\ now' = now /\ denied' = denied
          /\ t # x => token'[t] = token[t]
          /\ TokenExpired(x, now)
      BY <1>6 DEF PruneTokens, Issued, TypeOK
    <3>2. CASE t = x /\ Live(t)
      BY <3>1, <3>2 DEF Live, Over, TokenExpired
    <3>3. CASE t = x /\ ~Live(t)
      BY <3>1, <3>3 DEF Backed, Over
    <3>4. CASE t # x
      BY <3>1, <3>4 DEF Backed, Live, Over, Rows
    <3> QED BY <3>2, <3>3, <3>4
  <2> QED BY <2>1 DEF Backed
<1>7. CASE \/ ScanIdentities \/ PruneIdentities \/ LoseWindow \/ FailIssue \/ UNCHANGED vars
           \/ \E s \in Identity \cup {Nobody} : CreateIdentity(s)
           \/ \E i \in Identity : ReportActivity(i) \/ Pin(i)
           \/ \E i \in Identity, lifetime \in Lifetime, carries \in BOOLEAN :
                BeginIssue(i, lifetime, carries)
           \/ \E days \in Days \cup {None} : Configure(days)
  <2>1. UNCHANGED <<now, token, claims, denied>>
    BY <1>7 DEF ScanIdentities, PruneIdentities, LoseWindow, FailIssue, CreateIdentity,
        ReportActivity, Pin, BeginIssue, Configure, vars, rows
  <2> QED BY <1>1, <2>1
<1> QED BY <1>2, <1>3, <1>4, <1>5, <1>6, <1>7 DEF Next

\* The sweep and the tables it reads, in every reachable state.
LEMMA SweepInvariant == Spec => [](TypeOK /\ Backed)
<1>1. Init => Backed
  BY DEF Init, Backed, Issued
<1>2. TypeOK /\ Backed /\ [Next]_vars => (TypeOK /\ Backed)'
  BY StepTypes, BackedStays
<1> QED BY InitTypes, <1>1, <1>2, PTL DEF Spec

\* Only the sweep makes an identity a swept one.
LEMMA OnlyPruneSweeps ==
    ASSUME TypeOK, [Next]_vars, NEW i \in Identity, Sweeps(i)
    PROVE  PruneIdentities /\ i \in Stored /\ IdentityStale(i, now)
<1>1. ASSUME NEW s \in Identity \cup {Nobody}, CreateIdentity(s) PROVE FALSE
  <2> DEFINE row == [rowid |-> NextRowId, created |-> now, seen |-> Never,
                     sponsor |-> s, keep |-> FALSE]
  <2>1. PICK j \in Identity : identity' = [identity EXCEPT ![j] = row]
    BY <1>1 DEF CreateIdentity, Next1
  <2>2. row # Swept
    BY NewRowTypes, SweepAssumption
  <2> HIDE DEF row
  <2> QED BY <2>1, <2>2 DEF Sweeps, TypeOK
<1>2. ASSUME NEW j \in Identity, ReportActivity(j) \/ Pin(j) PROVE FALSE
  <2>1. identity[j] \in IdentityRow
    BY <1>2 DEF ReportActivity, Pin, Stored, TypeOK
  <2>2. /\ [identity[j] EXCEPT !.seen = now] \in IdentityRow
        /\ [identity[j] EXCEPT !.keep = ~@] \in IdentityRow
    BY <2>1 DEF IdentityRow, TypeOK
  <2>3. identity'[j] \in IdentityRow /\ \A k \in Identity : k # j => identity'[k] = identity[k]
    BY <1>2, <2>2 DEF ReportActivity, Pin, TypeOK
  <2>4. Swept \notin IdentityRow
    BY SweepAssumption
  <2> QED BY <2>3, <2>4 DEF Sweeps
<1>3. ASSUME NEW j \in Identity, DeleteIdentity(j) PROVE FALSE
  BY <1>3, SweepAssumption DEF DeleteIdentity, Sweeps, TypeOK
<1>4. CASE PruneIdentities
  <2> DEFINE stale == {k \in window.ids \cap Stored : IdentityStale(k, now)}
  <2>1. identity'[i] = IF i \in stale THEN Swept ELSE identity[i]
    BY <1>4 DEF PruneIdentities
  <2>2. i \in stale
    BY <2>1 DEF Sweeps
  <2> QED BY <1>4, <2>2
<1>5. CASE \/ ScanIdentities \/ LoseWindow \/ PersistIssue \/ FailIssue \/ Tick
           \/ UNCHANGED vars
           \/ \E j \in Identity, lifetime \in Lifetime, carries \in BOOLEAN :
                BeginIssue(j, lifetime, carries)
           \/ \E t \in Token : Revoke(t) \/ PruneTokens(t)
           \/ \E days \in Days \cup {None} : Configure(days)
  <2>1. UNCHANGED identity
    BY <1>5 DEF ScanIdentities, LoseWindow, PersistIssue, FailIssue, Tick, vars, rows,
        BeginIssue, Revoke, PruneTokens, Configure
  <2> QED BY <2>1 DEF Sweeps
<1> QED BY <1>1, <1>2, <1>3, <1>4, <1>5 DEF Next

\* A swept identity has no token that a verifier would accept.
LEMMA NoTokenIsLost ==
    ASSUME TypeOK, Backed, NEW i \in Identity, IdentityStale(i, now), NEW t \in Token,
           Acceptable(t)
    PROVE  claims[t].owner # i
<1>1. t \in Issued /\ t \notin denied /\ (claims[t].expires = Never
        \/ claims[t].expires \in Nat)
  BY DEF Acceptable, Issued, TypeOK
<1>2. now \in Int /\ Grace \in Nat /\ Skew \in Nat /\ Skew <= Grace
  BY SweepAssumption DEF TypeOK, Time
<1>3. ~Over(t)
  BY <1>1, <1>2 DEF Over, Before, Acceptable
<1>4. Live(t)
  BY <1>1, <1>3 DEF Backed
<1>5. ASSUME claims[t].owner = i PROVE FALSE
  <2>1. t \in TokensOf(i) /\ token[t].status = "active"
    BY <1>4, <1>5 DEF Live, TokensOf
  <2>2. TokenExpired(t, now)
    BY <2>1 DEF IdentityStale
  <2> QED BY <1>3, <1>4, <2>2 DEF TokenExpired, Live, Over
<1> QED BY <1>5

\* An identity is never swept while a verifier still accepts one of its
\* tokens, nor while another identity it sponsors stays behind
\* (engine/retention-gc.ts:46 and :123): whatever happens between the scan of
\* a window and its deletion, in whatever order the two sweeps run.
THEOREM TheLivingAreSpared == Spec => SweepSparesTheLiving
<1> DEFINE Spared == \A i \in Identity : Sweeps(i) =>
            /\ \A t \in Token : Acceptable(t) => claims[t].owner # i
            /\ \A c \in Stored' : identity'[c].sponsor # i
<1>1. TypeOK /\ Backed /\ [Next]_vars => Spared
  <2> SUFFICES ASSUME TypeOK, Backed, [Next]_vars, NEW i \in Identity, Sweeps(i)
               PROVE  /\ \A t \in Token : Acceptable(t) => claims[t].owner # i
                      /\ \A c \in Stored' : identity'[c].sponsor # i
    OBVIOUS
  <2>1. PruneIdentities /\ IdentityStale(i, now)
    BY OnlyPruneSweeps
  <2>2. \A t \in Token : Acceptable(t) => claims[t].owner # i
    BY <2>1, NoTokenIsLost
  <2>3. ASSUME NEW c \in Stored' PROVE identity'[c].sponsor # i
    <3>1. c \in Identity /\ identity'[c] # Swept /\ c # i
      BY <2>3 DEF Stored, Sweeps
    <3>2. identity'[c] = identity[c] /\ c \in Stored
      BY <2>1, <2>3, <3>1 DEF PruneIdentities, Stored
    <3> QED BY <2>1, <3>1, <3>2 DEF IdentityStale
  <2> QED BY <2>2, <2>3
<1>2. TypeOK /\ Backed /\ [Next]_vars => [Spared]_vars
  BY <1>1
<1> QED BY <1>2, SweepInvariant, PTL DEF Spec, SweepSparesTheLiving

-----------------------------------------------------------------------------
(* When it is swept *)

\* The beginning of a day is not in the future.
LEMMA MidnightIsPast ==
    ASSUME NEW at \in Nat, NEW days \in Int
    PROVE  Midnight(at, days) \in Int /\ Midnight(at, days) <= at - Day * days
<1>1. Day \in Nat /\ Day > 0
  BY SweepAssumption
<1>2. Day * (at \div Day) \in Int /\ Day * days \in Int
  BY <1>1
<1>3. Day * (at \div Day) <= at
  BY <1>1
<1> QED BY <1>2, <1>3 DEF Midnight

\* Nothing is swept early or unasked (engine/retention-gc.ts:123): whatever
\* part of a day the truncation to midnight leaves out, a whole period has
\* passed since the identity was created, active and issued for.
THEOREM NothingIsSweptEarly == Spec => NeverEarly
<1> DEFINE Late == \A i \in Identity : Sweeps(i) =>
            LET Passed(time) == time = Never \/ now - time > Day * config
            IN  /\ config # None /\ config \in MinDays..MaxDays
                /\ ~identity[i].keep
                /\ Passed(identity[i].created) /\ Passed(identity[i].seen)
                /\ Passed(lineage[i])
<1>1. TypeOK /\ [Next]_vars => Late
  <2> SUFFICES ASSUME TypeOK, [Next]_vars, NEW i \in Identity, Sweeps(i)
               PROVE  LET Passed(time) == time = Never \/ now - time > Day * config
                      IN  /\ config # None /\ config \in MinDays..MaxDays
                          /\ ~identity[i].keep
                          /\ Passed(identity[i].created) /\ Passed(identity[i].seen)
                          /\ Passed(lineage[i])
    OBVIOUS
  <2>1. i \in Stored /\ IdentityStale(i, now)
    BY OnlyPruneSweeps
  <2>2. /\ config # None /\ config \in MinDays..MaxDays /\ ~identity[i].keep
        /\ identity[i].created < Midnight(now, config)
        /\ identity[i].seen = Never \/ identity[i].seen < Midnight(now, config)
        /\ lineage[i] = Never \/ lineage[i] < Midnight(now, config)
    BY <2>1 DEF IdentityStale
  <2>3. now \in Nat /\ config \in Int
    BY <2>2, SweepAssumption DEF TypeOK, Time
  <2>4. /\ identity[i].created \in Time
        /\ identity[i].seen \in Time \cup {Never}
        /\ lineage[i] \in Time \cup {Never}
    BY <2>1 DEF Stored, TypeOK, IdentityRow
  <2>5. Day * config \in Int
    BY <2>3, SweepAssumption
  <2>6. ASSUME NEW time \in Time, time < Midnight(now, config)
        PROVE  now - time > Day * config
    BY <2>3, <2>5, <2>6, MidnightIsPast DEF Time
  <2> QED BY <2>2, <2>4, <2>6
<1>2. TypeOK /\ [Next]_vars => [Late]_vars
  BY <1>1
<1> QED BY <1>2, TypeCorrect, PTL DEF Spec, NeverEarly
=============================================================================
