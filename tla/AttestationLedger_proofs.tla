---------------------- MODULE AttestationLedger_proofs ----------------------
(***************************************************************************)
(* Proofs about AttestationLedger, for any organisations, identities,      *)
(* grants, names, requests and bounds.                                     *)
(*                                                                         *)
(* The argument: an id or a grant that a request is about to store is its  *)
(* own, so that no commit finds what it did not expect; a request past its *)
(* lookup saw its name free; and one commit appends one chained piece to   *)
(* one ledger.                                                             *)
(***************************************************************************)
EXTENDS AttestationLedger, SequenceTheorems, TLAPS

Creating(r) == req[r].at \in {"lookup", "signing"}

CreationReady(r) ==
    Creating(r) =>
        /\ req[r].org \in Org /\ req[r].name \in Name
        /\ req[r].at = "lookup" =>
             /\ req[r].tries >= 1 /\ req[r].id = NoIdentity
             /\ req[r].taken => Holders(req[r].org, req[r].name) # {}
        /\ req[r].at = "signing" =>
             /\ req[r].id \in Identity /\ ~Stored(req[r].id)
             /\ ~req[r].taken

GrantReady(r) ==
    /\ req[r].at = "granting" =>
         /\ req[r].jti \in Grant /\ grants[req[r].jti] = NoRow
         /\ req[r].row.org \in Org /\ ~req[r].row.redeemed
    /\ req[r].at = "finalizing" =>
         /\ req[r].jti \in Grant /\ grants[req[r].jti] # NoRow
         /\ req[r].commits \in Commits

\* No two requests are about to store the same thing.
Apart ==
    \A q, r \in Request : q # r =>
        /\ req[q].at = "signing" /\ req[r].at = "signing" => req[q].id # req[r].id
        /\ req[q].at = "granting" /\ req[r].at = "granting" => req[q].jti # req[r].jti

Inductive ==
    /\ TypeOK /\ ChainIntact /\ Apart
    /\ \A r \in Request : CreationReady(r) /\ GrantReady(r)

ReqRow == [at : {"idle", "lookup", "signing", "granting", "finalizing"},
           org : Org \cup {NoOrg}, name : Name \cup {NoName},
           id : Identity \cup {NoIdentity}, jti : Grant \cup {NoGrant}, row : GrantRow,
           commits : Commits \cup {0}, tries : 0..MaxTries, taken : BOOLEAN]

-----------------------------------------------------------------------------
(* The chain. *)

\* A chained piece after an intact chain is made of ledger rows.
LEMMA ChainedType ==
  ASSUME NEW rs \in Seq(LedgerRow), NEW events \in Seq(Event),
         \A n \in 1..Len(rs) : rs[n].orgSeq = n
  PROVE  Chained(rs, events) \in Seq(LedgerRow)
<1>1. LastSeq(rs) \in Nat
  BY DEF LastSeq, LedgerRow
<1>2. ASSUME NEW k \in 1..Len(events)
      PROVE  [orgSeq |-> LastSeq(rs) + k, prev |-> Len(rs) + k - 1, event |-> events[k]]
               \in LedgerRow
  <2>1. Len(rs) \in Nat /\ Len(events) \in Nat
    OBVIOUS
  <2>2. Len(rs) + k - 1 \in Nat /\ LastSeq(rs) + k \in Nat
    BY <1>1, <2>1
  <2>3. events[k] \in Event
    OBVIOUS
  <2> QED
    BY <2>2, <2>3 DEF LedgerRow
<1>3. Chained(rs, events) \in [1..Len(events) -> LedgerRow]
  BY <1>2 DEF Chained
<1> QED
  BY <1>3, IsASeq

\* The length and the elements of a ledger after a commit.
LEMMA AppendChained ==
  ASSUME NEW rs \in Seq(LedgerRow), NEW events \in Seq(Event),
         \A n \in 1..Len(rs) : rs[n].orgSeq = n /\ rs[n].prev = n - 1
  PROVE  LET new == rs \o Chained(rs, events) IN
         /\ new \in Seq(LedgerRow)
         /\ Len(new) = Len(rs) + Len(events)
         /\ \A n \in 1..Len(new) : new[n].orgSeq = n /\ new[n].prev = n - 1
         /\ Events(new) = Events(rs) \o events
<1> DEFINE ch == Chained(rs, events)
           new == rs \o ch
<1>1. ch \in Seq(LedgerRow)
  BY ChainedType
<1>2. Len(ch) = Len(events)
  <2>1. DOMAIN ch = 1..Len(events) /\ Len(events) \in Nat /\ Len(ch) \in Nat
        /\ DOMAIN ch = 1..Len(ch)
    BY <1>1 DEF Chained
  <2> HIDE DEF ch
  <2> QED
    BY <2>1, <1>1, LenProperties
<1>3. LastSeq(rs) = Len(rs)
  BY DEF LastSeq
<1>4. /\ new \in Seq(LedgerRow) /\ Len(new) = Len(rs) + Len(ch)
      /\ \A n \in 1..Len(new) : new[n] = IF n <= Len(rs) THEN rs[n] ELSE ch[n - Len(rs)]
  <2> HIDE DEF ch
  <2> QED
    BY <1>1
<1>5. \A k \in 1..Len(events) :
        ch[k] = [orgSeq |-> Len(rs) + k, prev |-> Len(rs) + k - 1, event |-> events[k]]
  BY <1>3 DEF Chained
<1>6. ASSUME NEW n \in 1..Len(new)
      PROVE  /\ new[n].orgSeq = n /\ new[n].prev = n - 1
             /\ new[n].event = IF n <= Len(rs) THEN rs[n].event ELSE events[n - Len(rs)]
  <2> HIDE DEF ch, new
  <2>0. Len(rs) \in Nat /\ Len(events) \in Nat
    OBVIOUS
  <2>1. CASE n <= Len(rs)
    BY <2>1, <1>4, <2>0, <1>2
  <2>2. CASE n > Len(rs)
    <3>1. n - Len(rs) \in 1..Len(events)
      BY <2>2, <1>4, <2>0, <1>2
    <3>2. new[n] = [orgSeq |-> Len(rs) + (n - Len(rs)), prev |-> Len(rs) + (n - Len(rs)) - 1,
                    event |-> events[n - Len(rs)]]
      <4>1. new[n] = ch[n - Len(rs)]
        BY <2>2, <1>4, <2>0
      <4>2. ch[n - Len(rs)] = [orgSeq |-> Len(rs) + (n - Len(rs)),
              prev |-> Len(rs) + (n - Len(rs)) - 1, event |-> events[n - Len(rs)]]
        BY <3>1, <1>5
      <4> QED
        BY <4>1, <4>2
    <3>3. Len(rs) + (n - Len(rs)) = n
      BY <2>0, <1>4, <1>2
    <3> QED
      BY <3>2, <3>3, <2>2
  <2> QED
    BY <2>1, <2>2, <2>0, <1>4, <1>2
<1>7. Events(new) = Events(rs) \o events
  <2>1. Events(rs) \in Seq(Event) /\ Len(Events(rs)) = Len(rs)
    <3>1. Events(rs) \in [1..Len(rs) -> Event]
      <4>1. \A n \in 1..Len(rs) : rs[n].event \in Event
        <5>1. \A n \in 1..Len(rs) : rs[n] \in LedgerRow
          OBVIOUS
        <5> QED
          BY <5>1 DEF LedgerRow
      <4> QED
        BY <4>1 DEF Events
    <3>2. Len(rs) \in Nat
      OBVIOUS
    <3> QED
      BY <3>1, <3>2, IsASeq, LenProperties
  <2>2. Events(new) \in Seq(Event) /\ Len(Events(new)) = Len(new)
    <3> HIDE DEF new
    <3>1. Events(new) \in [1..Len(new) -> Event]
      <4>1. \A n \in 1..Len(new) : new[n].event \in Event
        <5>1. \A n \in 1..Len(new) : new[n] \in LedgerRow
          BY <1>4
        <5> QED
          BY <5>1 DEF LedgerRow
      <4> QED
        BY <4>1, <1>4 DEF Events
    <3>2. Len(new) \in Nat
      BY <1>4
    <3> QED
      BY <3>1, <3>2, IsASeq, LenProperties
  <2>3. Events(rs) \o events \in Seq(Event)
        /\ Len(Events(rs) \o events) = Len(rs) + Len(events)
    BY <2>1
  <2>4. ASSUME NEW n \in 1..Len(new)
        PROVE  Events(new)[n] = (Events(rs) \o events)[n]
    <3>1. Events(new)[n] = IF n <= Len(rs) THEN rs[n].event ELSE events[n - Len(rs)]
      BY <1>6, <1>4 DEF Events
    <3>2. (Events(rs) \o events)[n]
            = IF n <= Len(rs) THEN Events(rs)[n] ELSE events[n - Len(rs)]
      <4> DEFINE ev == Events(rs)
      <4>1. ev \in Seq(Event) /\ Len(ev) = Len(rs)
        BY <2>1
      <4>2. n \in 1..(Len(rs) + Len(events))
        BY <1>4, <1>2
      <4> HIDE DEF ev
      <4>3. (ev \o events)[n] = IF n <= Len(rs) THEN ev[n] ELSE events[n - Len(rs)]
        BY <4>1, <4>2
      <4> QED
        BY <4>3 DEF ev
    <3>3. n <= Len(rs) => Events(rs)[n] = rs[n].event
      <4> HIDE DEF new
      <4> QED
      BY <1>4, <1>2 DEF Events
    <3> QED
      BY <3>1, <3>2, <3>3
  <2> HIDE DEF new
  <2> QED
    BY <2>2, <2>3, <2>4, <1>4, <1>2, SeqEqual
<1> HIDE DEF ch, new
<1>8. /\ new \in Seq(LedgerRow) /\ Len(new) = Len(rs) + Len(events)
      /\ \A n \in 1..Len(new) : new[n].orgSeq = n /\ new[n].prev = n - 1
      /\ Events(new) = Events(rs) \o events
  BY <1>2, <1>4, <1>6, <1>7
<1> QED
  BY <1>8 DEF new, ch

\* A commit appends its events to the log of its organisation and keeps
\* every chain intact.
LEMMA RecordAppends ==
  ASSUME Inductive, NEW o \in Org, NEW events \in Seq(Event), Record(o, events)
  PROVE  /\ ledger' \in [Org -> Seq(LedgerRow)] /\ ChainIntact'
         /\ \A p \in Org : Events(ledger'[p]) =
              IF p = o THEN Events(ledger[o]) \o events ELSE Events(ledger[p])
<1>1. ledger \in [Org -> Seq(LedgerRow)]
  BY DEF Inductive, TypeOK
<1>2. \A n \in 1..Len(ledger[o]) : ledger[o][n].orgSeq = n /\ ledger[o][n].prev = n - 1
  BY DEF Inductive, ChainIntact
<1> DEFINE new == ledger[o] \o Chained(ledger[o], events)
<1>3. /\ new \in Seq(LedgerRow)
      /\ \A n \in 1..Len(new) : new[n].orgSeq = n /\ new[n].prev = n - 1
      /\ Events(new) = Events(ledger[o]) \o events
  BY <1>1, <1>2, AppendChained
<1>4. ledger' = [ledger EXCEPT ![o] = new]
  BY DEF Record
<1> HIDE DEF new
<1>5. ledger' \in [Org -> Seq(LedgerRow)]
  BY <1>1, <1>3, <1>4
<1>6. ASSUME NEW p \in Org
      PROVE  /\ \A n \in 1..Len(ledger'[p]) :
                   ledger'[p][n].orgSeq = n /\ ledger'[p][n].prev = n - 1
             /\ Events(ledger'[p]) =
                  IF p = o THEN Events(ledger[o]) \o events ELSE Events(ledger[p])
  <2>1. CASE p = o
    BY <2>1, <1>1, <1>3, <1>4
  <2>2. CASE p # o
    BY <2>2, <1>1, <1>4 DEF Inductive, ChainIntact
  <2> QED
    BY <2>1, <2>2
<1> QED
  BY <1>5, <1>6 DEF ChainIntact

LEMMA CreatedEvents ==
  ASSUME NEW i \in Identity
  PROVE  <<[kind |-> "created", of |-> i]>> \in Seq(Event)
BY DEF Event

LEMMA GivenEvents ==
  ASSUME NEW g \in Grant, NEW late \in BOOLEAN
  PROVE  <<[kind |-> IF late THEN "late" ELSE "granted", of |-> g]>> \in Seq(Event)
BY DEF Event

LEMMA RedeemedEvents ==
  ASSUME NEW g \in Grant, NEW late \in BOOLEAN, NEW n \in Nat
  PROVE  [k \in 1..n |-> [kind |-> IF late THEN "late" ELSE "issued", of |-> g]] \in Seq(Event)
<1>1. [k \in 1..n |-> [kind |-> IF late THEN "late" ELSE "issued", of |-> g]]
        \in [1..n -> Event]
  BY DEF Event
<1> QED
  BY <1>1, IsASeq

-----------------------------------------------------------------------------
(* The inductive invariant. *)

LEMMA TypeFacts ==
  ASSUME TypeOK
  PROVE  /\ req \in [Request -> ReqRow] /\ grants \in [Grant -> GrantRow]
         /\ identity \in [Identity -> [status : {"active", "suspended"}, org : Org, name : Name]
                                      \cup {Absent}]
         /\ ledger \in [Org -> Seq(LedgerRow)]
BY DEF TypeOK, ReqRow

LEMMA IdleIsReq == Idle \in ReqRow /\ NoRow \in GrantRow
BY NamesAssumption, BoundsAssumption DEF Idle, ReqRow, GrantRow, NoRow

LEMMA IdleReady ==
  ASSUME NEW q \in Request, req'[q].at = "idle"
  PROVE  CreationReady(q)' /\ GrantReady(q)'
BY DEF CreationReady, GrantReady, Creating

\* A request the step does not touch stays ready if no one loses its name and
\* its id and its grant are left alone.
LEMMA KeptReady ==
  ASSUME NEW q \in Request, CreationReady(q), GrantReady(q), req'[q] = req[q],
         \A i \in Identity : Stored(i) =>
             identity'[i].org = identity[i].org /\ identity'[i].name = identity[i].name,
         \A i \in Identity : identity[i].org \in Org => Stored(i),
         req[q].at = "signing" => identity'[req[q].id] = identity[req[q].id],
         req[q].at = "granting" => grants'[req[q].jti] = grants[req[q].jti],
         \A g \in Grant : grants[g] # NoRow => grants'[g] # NoRow
  PROVE  CreationReady(q)' /\ GrantReady(q)'
<1>1. Holders(req[q].org, req[q].name) # {} /\ req[q].org \in Org
        => Holders(req[q].org, req[q].name)' # {}
  BY DEF Holders
<1>2. CreationReady(q)'
  BY <1>1 DEF CreationReady, Creating, Stored
<1>3. GrantReady(q)'
  BY DEF GrantReady
<1> QED
  BY <1>2, <1>3

LEMMA StoredIffOrg ==
  ASSUME Inductive, NEW i \in Identity
  PROVE  (identity[i].org \in Org <=> Stored(i)) /\ (~Stored(i) => identity[i] = Absent)
<1>1. identity[i] \in [status : {"active", "suspended"}, org : Org, name : Name] \cup {Absent}
  BY DEF Inductive, TypeOK
<1>2. CASE identity[i] = Absent
  BY <1>2, NamesAssumption DEF Stored, Absent
<1>3. CASE identity[i] \in [status : {"active", "suspended"}, org : Org, name : Name]
  BY <1>3 DEF Stored
<1> QED
  BY <1>1, <1>2, <1>3

\* A step that touches no row and only makes one request idle.
LEMMA DropStep ==
  ASSUME Inductive, NEW r \in Request, req' = [req EXCEPT ![r] = Idle],
         UNCHANGED <<now, rows>>
  PROVE  Inductive'
<1>1. TypeOK' /\ ChainIntact'
  BY TypeFacts, IdleIsReq DEF Inductive, TypeOK, ChainIntact, rows, ReqRow
<1>2. req'[r] = Idle /\ \A q \in Request \ {r} : req'[q] = req[q]
  BY DEF Inductive, TypeOK
<1>3. ASSUME NEW q \in Request PROVE CreationReady(q)' /\ GrantReady(q)'
  <2>1. CASE q = r
    BY <2>1, <1>2, IdleReady DEF Idle
  <2>2. CASE q # r
    BY <2>2, <1>2, KeptReady, StoredIffOrg DEF Inductive, rows
  <2> QED
    BY <2>1, <2>2
<1>4. Apart'
  BY <1>2 DEF Inductive, Apart, Idle
<1> QED
  BY <1>1, <1>3, <1>4 DEF Inductive

\* A step that touches no row and prepares one request.
LEMMA PrepareStep ==
  ASSUME Inductive, NEW r \in Request, NEW new \in ReqRow, req' = [req EXCEPT ![r] = new],
         UNCHANGED <<now, rows>>,
         CreationReady(r)', GrantReady(r)',
         \A q \in Request \ {r} :
            /\ req[q].at = "signing" /\ new.at = "signing" => req[q].id # new.id
            /\ req[q].at = "granting" /\ new.at = "granting" => req[q].jti # new.jti
  PROVE  Inductive'
<1>1. TypeOK' /\ ChainIntact'
  BY TypeFacts, IdleIsReq DEF Inductive, TypeOK, ChainIntact, rows, ReqRow
<1>2. req'[r] = new /\ \A q \in Request \ {r} : req'[q] = req[q]
  BY DEF Inductive, TypeOK
<1>3. ASSUME NEW q \in Request PROVE CreationReady(q)' /\ GrantReady(q)'
  <2>2. CASE q # r
    BY <2>2, <1>2, KeptReady, StoredIffOrg DEF Inductive, rows
  <2> QED
    BY <2>2
<1>4. Apart'
  BY <1>2 DEF Inductive, Apart
<1> QED
  BY <1>1, <1>3, <1>4 DEF Inductive

LEMMA ClockStep ==
  ASSUME Inductive, Tick \/ RevokeToken
  PROVE  Inductive'
<1>1. TypeOK' /\ ChainIntact'
  <2>0. TypeOK /\ ChainIntact
    BY DEF Inductive
  <2>1. now' \in 0..MaxTime
    BY <2>0, BoundsAssumption DEF Tick, RevokeToken, TypeOK
  <2>2. wsRevoked' \in BOOLEAN /\ UNCHANGED <<identity, grants, ledger, req>>
    BY <2>0 DEF Tick, RevokeToken, TypeOK, rows
  <2>3. TypeOK'
    BY <2>0, <2>1, <2>2 DEF TypeOK
  <2> QED
    BY <2>0, <2>2, <2>3 DEF ChainIntact
<1>2. req' = req /\ grants' = grants /\ identity' = identity
  BY DEF Tick, RevokeToken, rows
<1>3. ASSUME NEW q \in Request PROVE CreationReady(q)' /\ GrantReady(q)'
  BY <1>2, KeptReady, StoredIffOrg DEF Inductive
<1>4. Apart'
  BY <1>2 DEF Inductive, Apart
<1> QED
  BY <1>1, <1>3, <1>4 DEF Inductive

LEMMA ChangeStatusStep ==
  ASSUME Inductive, NEW i0 \in Identity, NEW s0 \in {"active", "suspended"}, ChangeStatus(i0, s0)
  PROVE  Inductive'
<1>1. /\ Stored(i0) /\ identity' = [identity EXCEPT ![i0].status = s0]
      /\ req' = req /\ grants' = grants /\ ledger' = ledger /\ now' = now
      /\ wsRevoked' = wsRevoked
  BY DEF ChangeStatus
<1>0. identity[i0] \in [status : {"active", "suspended"}, org : Org, name : Name]
  <2>1. identity[i0] \in [status : {"active", "suspended"}, org : Org, name : Name] \cup {Absent}
    BY DEF Inductive, TypeOK
  <2>2. identity[i0] # Absent
    BY <1>1 DEF Stored, Absent
  <2> QED
    BY <2>1, <2>2
<1>2. /\ identity'[i0] \in [status : {"active", "suspended"}, org : Org, name : Name]
      /\ identity'[i0].org = identity[i0].org /\ identity'[i0].name = identity[i0].name
      /\ \A i \in Identity \ {i0} : identity'[i] = identity[i]
  BY <1>0, <1>1, TypeFacts DEF Inductive
<1>3. TypeOK' /\ ChainIntact'
  BY <1>1, <1>2 DEF Inductive, TypeOK, ChainIntact
<1>4. ASSUME NEW q \in Request PROVE CreationReady(q)' /\ GrantReady(q)'
  <2>1. req[q].at = "signing" => identity'[req[q].id] = identity[req[q].id]
    BY <1>1, <1>2 DEF Inductive, CreationReady, Creating
  <2> QED
    BY <2>1, <1>1, <1>2, KeptReady, StoredIffOrg DEF Inductive
<1>5. Apart'
  BY <1>1 DEF Inductive, Apart
<1> QED
  BY <1>3, <1>4, <1>5 DEF Inductive

LEMMA ArriveStep ==
  ASSUME Inductive, NEW r0 \in Request, NEW o0 \in Org, NEW n0 \in Name, Arrive(r0, o0, n0)
  PROVE  Inductive'
<1> DEFINE t == Holders(o0, n0) # {}
           new == [Idle EXCEPT !.at = "lookup", !.org = o0, !.name = n0, !.tries = 1,
                              !.taken = t]
<1>0. t \in BOOLEAN
  OBVIOUS
<1>a. req' = [req EXCEPT ![r0] = new]
  BY DEF Arrive, Become
<1> HIDE DEF t
<1>1. new \in ReqRow
  <2>1. 1 \in 0..MaxTries
    BY BoundsAssumption
  <2> QED
    BY <1>0, <2>1, IdleIsReq DEF ReqRow
<1>2. /\ new.at = "lookup" /\ new.org = o0 /\ new.name = n0 /\ new.tries = 1
      /\ new.id = NoIdentity /\ new.taken = t
  BY DEF Idle
<1>3. /\ req' = [req EXCEPT ![r0] = new] /\ UNCHANGED <<now, rows>>
  BY <1>a DEF Arrive
<1> HIDE DEF new
<1>4. req'[r0] = new
  BY <1>3 DEF Inductive, TypeOK
<1>5. CreationReady(r0)' /\ GrantReady(r0)'
  <2>1. Holders(o0, n0)' = Holders(o0, n0)
    BY <1>3 DEF Holders, rows
  <2>2. /\ req'[r0].at = "lookup" /\ req'[r0].org = o0 /\ req'[r0].name = n0
        /\ req'[r0].tries = 1 /\ req'[r0].id = NoIdentity
        /\ req'[r0].taken = t
    BY <1>2, <1>4
  <2>3. CreationReady(r0)'
    <3>1. t => Holders(o0, n0)' # {}
      BY <2>1 DEF t
    <3>2. Holders(req[r0].org, req[r0].name)' = Holders(o0, n0)'
      BY <2>2 DEF Holders
    <3> QED
      BY <2>2, <3>1, <3>2 DEF CreationReady, Creating
  <2>4. GrantReady(r0)'
    BY <2>2 DEF GrantReady
  <2> QED
    BY <2>3, <2>4
<1> QED
  BY <1>1, <1>2, <1>3, <1>5, PrepareStep

LEMMA LookupStep ==
  ASSUME Inductive, NEW r0 \in Request, Lookup(r0)
  PROVE  Inductive'
<1>1. /\ req[r0] \in ReqRow /\ req[r0].org \in Org /\ req[r0].name \in Name
      /\ req[r0].at = "lookup" /\ UNCHANGED <<now, rows>>
      /\ req[r0].taken => ~NoDuplicate(r0)
  BY TypeFacts DEF Lookup, Inductive, CreationReady, Creating, NoDuplicate
<1>2. CASE NoDuplicate(r0)
  <2>1. PICK i \in Identity :
          /\ ~Stored(i) /\ \A q \in Request : req[q].id # i
          /\ req' = [req EXCEPT ![r0] = [req[r0] EXCEPT !.at = "signing", !.id = i, !.tries = 0]]
    BY <1>2 DEF Lookup, Become
  <2> DEFINE new == [req[r0] EXCEPT !.at = "signing", !.id = i, !.tries = 0]
  <2>2. /\ new \in ReqRow /\ new.at = "signing" /\ new.id = i /\ ~new.taken
        /\ new.org = req[r0].org /\ new.name = req[r0].name
    <3>1. 0 \in 0..MaxTries
      BY BoundsAssumption
    <3>2. req[r0].taken \in BOOLEAN
      BY <1>1 DEF ReqRow
    <3> QED
      BY <1>1, <1>2, <3>1, <3>2 DEF ReqRow
  <2>4. req' = [req EXCEPT ![r0] = new]
    BY <2>1
  <2> HIDE DEF new
  <2>5. req'[r0] = new
    BY <2>4 DEF Inductive, TypeOK
  <2>6. CreationReady(r0)' /\ GrantReady(r0)'
    BY <1>1, <2>1, <2>2, <2>5 DEF CreationReady, GrantReady, Creating, rows, Stored
  <2> QED
    BY <1>1, <2>1, <2>2, <2>4, <2>6, PrepareStep
<1>3. CASE ~NoDuplicate(r0)
  BY <1>1, <1>3, DropStep DEF Lookup, Become
<1> QED
  BY <1>2, <1>3

LEMMA OverloadedStep ==
  ASSUME Inductive, NEW r0 \in Request, Overloaded(r0)
  PROVE  Inductive'
<1>1. /\ req[r0] \in ReqRow /\ req[r0].at = "lookup" /\ UNCHANGED <<now, rows>>
      /\ CreationReady(r0)
  BY TypeFacts DEF Overloaded, Inductive
<1>2. CASE MayRetry(req[r0].tries)
  <2> DEFINE new == [req[r0] EXCEPT !.tries = @ + 1]
  <2>1. new \in ReqRow
    <3>1. req[r0].tries + 1 \in 0..MaxTries
      BY <1>1, <1>2, BoundsAssumption DEF MayRetry, ReqRow
    <3> QED
      BY <1>1, <3>1 DEF ReqRow
  <2>2. /\ new.at = "lookup" /\ new.tries = req[r0].tries + 1 /\ new.org = req[r0].org
        /\ new.name = req[r0].name /\ new.taken = req[r0].taken /\ new.id = req[r0].id
    BY <1>1 DEF ReqRow
  <2>3. req' = [req EXCEPT ![r0] = new]
    BY <1>2 DEF Overloaded, Become
  <2>4. req[r0].tries \in Nat
    BY <1>1, BoundsAssumption DEF ReqRow
  <2> HIDE DEF new
  <2>5. req'[r0] = new
    BY <2>3 DEF Inductive, TypeOK
  <2>6. CreationReady(r0)' /\ GrantReady(r0)'
    BY <1>1, <2>2, <2>4, <2>5 DEF CreationReady, GrantReady, Creating, rows, Stored, Holders
  <2> QED
    BY <1>1, <2>1, <2>2, <2>3, <2>6, PrepareStep
<1>3. CASE ~MayRetry(req[r0].tries)
  BY <1>1, <1>3, DropStep DEF Overloaded, Become
<1> QED
  BY <1>2, <1>3

LEMMA InsertStep ==
  ASSUME Inductive, NEW r0 \in Request, Create(r0)
  PROVE  Inductive'
<1> DEFINE i == req[r0].id
           o == req[r0].org
           row == [status |-> "active", org |-> o, name |-> req[r0].name]
<1>1. /\ i \in Identity /\ o \in Org /\ req[r0].name \in Name /\ ~Stored(i)
      /\ req[r0].at = "signing"
  BY DEF Inductive, CreationReady, Creating, Create
<1>2. /\ identity' = [identity EXCEPT ![i] = row] /\ grants' = grants
      /\ wsRevoked' = wsRevoked /\ now' = now
      /\ Record(o, <<[kind |-> "created", of |-> i]>>)
      /\ req' = [req EXCEPT ![r0] = Idle]
  BY <1>1 DEF Create, Insert, Become
<1>3. row \in [status : {"active", "suspended"}, org : Org, name : Name]
  BY <1>1
<1>4. ledger' \in [Org -> Seq(LedgerRow)] /\ ChainIntact'
  <2> HIDE DEF i, o
  <2> QED
    BY <1>1, <1>2, CreatedEvents, RecordAppends
<1> HIDE DEF row
<1>5. /\ identity'[i] = row /\ \A j \in Identity \ {i} : identity'[j] = identity[j]
      /\ identity' \in [Identity -> [status : {"active", "suspended"}, org : Org, name : Name]
                                     \cup {Absent}]
  BY <1>1, <1>2, <1>3, TypeFacts DEF Inductive
<1>6. TypeOK'
  BY <1>2, <1>4, <1>5, IdleIsReq, TypeFacts DEF Inductive, TypeOK, ReqRow
<1>7. req'[r0] = Idle /\ \A q \in Request \ {r0} : req'[q] = req[q]
  BY <1>2 DEF Inductive, TypeOK
<1>8. ASSUME NEW q \in Request PROVE CreationReady(q)' /\ GrantReady(q)'
  <2>1. CASE q = r0
    BY <2>1, <1>7, IdleReady DEF Idle
  <2>2. CASE q # r0
    <3>1. req[q].at = "signing" => req[q].id # i /\ req[q].id \in Identity
      BY <2>2, <1>1 DEF Inductive, Apart, CreationReady, Creating
    <3>2. \A j \in Identity : Stored(j) => identity'[j] = identity[j]
      BY <1>1, <1>5
    <3> HIDE DEF i
    <3> QED
      BY <2>2, <1>2, <1>5, <1>7, <3>1, <3>2, KeptReady, StoredIffOrg DEF Inductive
  <2> QED
    BY <2>1, <2>2
<1>9. Apart'
  BY <1>7 DEF Inductive, Apart, Idle
<1> QED
  BY <1>4, <1>6, <1>8, <1>9 DEF Inductive

LEMMA AskStep ==
  ASSUME Inductive, NEW r0 \in Request, NEW i0 \in Identity, NEW late \in BOOLEAN, Ask(r0, i0, late)
  PROVE  Inductive'
<1>1. PICK g \in Grant :
        /\ grants[g] = NoRow /\ \A q \in Request : req[q].jti # g
        /\ req' = [req EXCEPT ![r0] =
              [Idle EXCEPT !.at = "granting", !.jti = g,
                 !.row = [org |-> identity[i0].org, late |-> late,
                          notAfter |-> now + TTL, redeemed |-> FALSE]]]
  BY DEF Ask, Become
<1> DEFINE row == [org |-> identity[i0].org, late |-> late,
                   notAfter |-> now + TTL, redeemed |-> FALSE]
           new == [Idle EXCEPT !.at = "granting", !.jti = g, !.row = row]
<1>2. identity[i0].org \in Org
  BY StoredIffOrg DEF Ask
<1>3. row \in GrantRow /\ row.org \in Org /\ ~row.redeemed
  <2>1. now + TTL \in Nat
    BY BoundsAssumption DEF Inductive, TypeOK
  <2> QED
    BY <1>2, <2>1 DEF GrantRow
<1> HIDE DEF row
<1>4. new \in ReqRow /\ new.at = "granting" /\ new.jti = g /\ new.row = row
  BY <1>3, IdleIsReq DEF Idle, ReqRow
<1>5. /\ req' = [req EXCEPT ![r0] = new] /\ UNCHANGED <<now, rows>>
  BY <1>1 DEF Ask, row
<1> HIDE DEF new
<1>6. req'[r0] = new
  BY <1>5 DEF Inductive, TypeOK
<1>7. CreationReady(r0)' /\ GrantReady(r0)'
  BY <1>1, <1>3, <1>4, <1>5, <1>6 DEF CreationReady, GrantReady, Creating, rows
<1> QED
  BY <1>1, <1>4, <1>5, <1>7, PrepareStep

LEMMA FinalizeStep ==
  ASSUME Inductive, NEW r0 \in Request, NEW g0 \in Grant, NEW n0 \in Commits, Finalize(r0, g0, n0)
  PROVE  Inductive'
<1> DEFINE new == [Idle EXCEPT !.at = "finalizing", !.jti = g0, !.commits = n0]
<1>1. new \in ReqRow /\ new.at = "finalizing" /\ new.jti = g0 /\ new.commits = n0
  BY IdleIsReq DEF Idle, ReqRow
<1>2. /\ req' = [req EXCEPT ![r0] = new] /\ UNCHANGED <<now, rows>>
      /\ grants[g0] # NoRow
  BY DEF Finalize, Become, Redeemable
<1> HIDE DEF new
<1>3. req'[r0] = new
  BY <1>2 DEF Inductive, TypeOK
<1>4. CreationReady(r0)' /\ GrantReady(r0)'
  BY <1>1, <1>2, <1>3 DEF CreationReady, GrantReady, Creating, rows
<1> QED
  BY <1>1, <1>2, <1>4, PrepareStep

LEMMA GiveStep ==
  ASSUME Inductive, NEW r0 \in Request, Give(r0)
  PROVE  Inductive'
<1> DEFINE g == req[r0].jti
           row == req[r0].row
<1>1. /\ g \in Grant /\ row.org \in Org /\ row.late \in BOOLEAN /\ row \in GrantRow
      /\ req[r0].at = "granting" /\ grants[g] = NoRow /\ row # NoRow
  <2>1. req[r0] \in ReqRow /\ GrantReady(r0) /\ req[r0].at = "granting"
    BY TypeFacts DEF Inductive, Give
  <2>2. row \in GrantRow /\ row.org \in Org /\ g \in Grant /\ grants[g] = NoRow
    BY <2>1 DEF GrantReady, ReqRow
  <2> HIDE DEF g, row
  <2>3. row.late \in BOOLEAN /\ row # NoRow
    BY <2>2, NamesAssumption DEF GrantRow, NoRow
  <2> QED
    BY <2>1, <2>2, <2>3
<1>2. /\ grants' = [grants EXCEPT ![g] = row] /\ identity' = identity
      /\ wsRevoked' = wsRevoked /\ now' = now
      /\ Record(row.org, <<[kind |-> IF row.late THEN "late" ELSE "granted", of |-> g]>>)
      /\ req' = [req EXCEPT ![r0] = Idle]
  BY DEF Give, Become
<1>4. ledger' \in [Org -> Seq(LedgerRow)] /\ ChainIntact'
  <2> HIDE DEF g, row
  <2> QED
    BY <1>1, <1>2, GivenEvents, RecordAppends
<1> HIDE DEF row
<1>5. /\ grants' \in [Grant -> GrantRow] /\ grants'[g] # NoRow
      /\ \A h \in Grant \ {g} : grants'[h] = grants[h]
  BY <1>1, <1>2, TypeFacts DEF Inductive
<1>6. TypeOK'
  BY <1>2, <1>4, <1>5, IdleIsReq, TypeFacts DEF Inductive, TypeOK, ReqRow
<1>7. req'[r0] = Idle /\ \A q \in Request \ {r0} : req'[q] = req[q]
  BY <1>2 DEF Inductive, TypeOK
<1>8. ASSUME NEW q \in Request PROVE CreationReady(q)' /\ GrantReady(q)'
  <2>1. CASE q = r0
    BY <2>1, <1>7, IdleReady DEF Idle
  <2>2. CASE q # r0
    <3>1. req[q].at = "granting" => req[q].jti # g /\ req[q].jti \in Grant
      BY <2>2, <1>1 DEF Inductive, Apart, GrantReady
    <3> HIDE DEF g
    <3> QED
      BY <2>2, <1>1, <1>2, <1>5, <1>7, <3>1, KeptReady, StoredIffOrg DEF Inductive
  <2> QED
    BY <2>1, <2>2
<1>9. Apart'
  BY <1>7 DEF Inductive, Apart, Idle
<1> QED
  BY <1>4, <1>6, <1>8, <1>9 DEF Inductive

LEMMA RedeemedRow ==
  ASSUME NEW row \in GrantRow, row # NoRow
  PROVE  /\ row.org \in Org /\ row.late \in BOOLEAN /\ row.redeemed \in BOOLEAN
         /\ [row EXCEPT !.redeemed = TRUE] \in GrantRow
         /\ [row EXCEPT !.redeemed = TRUE].redeemed
         /\ [row EXCEPT !.redeemed = TRUE].org = row.org
         /\ [row EXCEPT !.redeemed = TRUE] # NoRow
BY NamesAssumption DEF GrantRow, NoRow

LEMMA RedeemStep ==
  ASSUME Inductive, NEW r0 \in Request, Redeem(r0)
  PROVE  Inductive'
<1> DEFINE g == req[r0].jti
           row == grants[g]
           n == req[r0].commits
<1>0. /\ g \in Grant /\ n \in Nat /\ row \in GrantRow /\ row # NoRow
      /\ req[r0].at = "finalizing"
  <2>1. GrantReady(r0) /\ req[r0].at = "finalizing"
    BY DEF Inductive, Redeem
  <2>2. g \in Grant /\ n \in Commits /\ row # NoRow
    BY <2>1 DEF GrantReady
  <2> QED
    BY <2>1, <2>2, TypeFacts, BoundsAssumption DEF Inductive
<1>a. CASE ~CanRedeem(g)
  BY <1>a, DropStep DEF Redeem, Become
<1>b. CASE CanRedeem(g)
  <2>1. /\ row.org \in Org /\ row.late \in BOOLEAN /\ row.redeemed \in BOOLEAN
        /\ [row EXCEPT !.redeemed = TRUE] \in GrantRow
        /\ [row EXCEPT !.redeemed = TRUE] # NoRow
    <3> HIDE DEF row
    <3> QED
      BY <1>0, RedeemedRow
  <2>2. /\ grants' = [grants EXCEPT ![g] = [row EXCEPT !.redeemed = TRUE]]
        /\ identity' = identity /\ wsRevoked' = wsRevoked /\ now' = now
        /\ Record(row.org, [k \in 1..n |-> [kind |-> IF row.late THEN "late" ELSE "issued", of |-> g]])
        /\ req' = [req EXCEPT ![r0] = Idle]
    BY <1>b DEF Redeem, Become
  <2>4. ledger' \in [Org -> Seq(LedgerRow)] /\ ChainIntact'
    <3> HIDE DEF g, row, n
    <3> QED
      BY <1>0, <2>1, <2>2, RedeemedEvents, RecordAppends
  <2> HIDE DEF row
  <2>5. /\ grants' \in [Grant -> GrantRow] /\ grants'[g] # NoRow
        /\ \A h \in Grant \ {g} : grants'[h] = grants[h]
    BY <1>0, <2>1, <2>2, TypeFacts DEF Inductive
  <2>6. TypeOK'
    BY <2>2, <2>4, <2>5, IdleIsReq, TypeFacts DEF Inductive, TypeOK, ReqRow
  <2>7. req'[r0] = Idle /\ \A q \in Request \ {r0} : req'[q] = req[q]
    BY <2>2 DEF Inductive, TypeOK
  <2>8. ASSUME NEW q \in Request PROVE CreationReady(q)' /\ GrantReady(q)'
    <3>1. CASE q = r0
      BY <3>1, <2>7, IdleReady DEF Idle
    <3>2. CASE q # r0
      <4>1. req[q].at = "granting" => req[q].jti # g /\ req[q].jti \in Grant
        BY <1>0 DEF Inductive, GrantReady, row
      <4> HIDE DEF g
      <4> QED
        BY <3>2, <1>0, <2>2, <2>5, <2>7, <4>1, KeptReady, StoredIffOrg DEF Inductive
    <3> QED
      BY <3>1, <3>2
  <2>9. Apart'
    BY <2>7 DEF Inductive, Apart, Idle
  <2> QED
    BY <2>4, <2>6, <2>8, <2>9 DEF Inductive
<1> QED
  BY <1>a, <1>b

LEMMA FailStep ==
  ASSUME Inductive, NEW r0 \in Request, Fail(r0)
  PROVE  Inductive'
BY DropStep DEF Fail, Become

LEMMA InitInductive == Init => Inductive
<1> SUFFICES ASSUME Init PROVE Inductive
  OBVIOUS
<1> USE NamesAssumption, BoundsAssumption DEF Init, Idle, NoRow, Absent
<1>1. TypeOK
  <2>1. Idle \in ReqRow /\ NoRow \in GrantRow
    BY IdleIsReq
  <2>2. [o \in Org |-> <<>>] \in [Org -> Seq(LedgerRow)] /\ 0 \in 0..MaxTime
    OBVIOUS
  <2> QED
    BY <2>1, <2>2 DEF TypeOK, ReqRow
<1> QED
  BY <1>1 DEF Inductive, ChainIntact, Apart, CreationReady, GrantReady, Creating

LEMMA StutterStep ==
  ASSUME Inductive, UNCHANGED vars
  PROVE  Inductive'
BY DEF Inductive, vars, rows, TypeOK, ChainIntact, Apart, CreationReady, GrantReady,
       Creating, Stored, Holders

LEMMA NextStep ==
  ASSUME Inductive, [Next]_vars
  PROVE  Inductive'
<1>1. CASE Tick \/ RevokeToken
  BY <1>1, ClockStep
<1>2. CASE \E i \in Identity, s \in {"active", "suspended"} : ChangeStatus(i, s)
  BY <1>2, ChangeStatusStep
<1>3. CASE \E r \in Request :
         \/ Lookup(r) \/ Overloaded(r) \/ Create(r)
         \/ Give(r) \/ Redeem(r) \/ Fail(r)
  BY <1>3, LookupStep, OverloadedStep, InsertStep, GiveStep,
     RedeemStep, FailStep
<1>4. CASE \E r \in Request, o \in Org, name \in Name : Arrive(r, o, name)
  BY <1>4, ArriveStep
<1>5. CASE \E r \in Request, i \in Identity, late \in BOOLEAN : Ask(r, i, late)
  BY <1>5, AskStep
<1>6. CASE \E r \in Request, g \in Grant, n \in Commits : Finalize(r, g, n)
  BY <1>6, FinalizeStep
<1>7. CASE UNCHANGED vars
  BY <1>7, StutterStep
<1> QED
  BY <1>1, <1>2, <1>3, <1>4, <1>5, <1>6, <1>7 DEF Next

\* Ids and grants in the making are their request's own, names were free at
\* the lookup, and the chains are intact.
THEOREM InductiveInvariant == Spec => []Inductive
<1>1. Init => Inductive
  BY InitInductive
<1>2. Inductive /\ [Next]_vars => Inductive'
  BY NextStep
<1> QED
  BY <1>1, <1>2, PTL DEF Spec

\* Every variable keeps its type, and no read is tried more than MaxTries times.
THEOREM TypeCorrect == Spec => []TypeOK
<1>1. Inductive => TypeOK
  BY DEF Inductive
<1> QED
  BY <1>1, InductiveInvariant, PTL

\* The ledger of every organisation is one chain.
THEOREM ChainsStayIntact == Spec => []ChainIntact
<1>1. Inductive => ChainIntact
  BY DEF Inductive
<1> QED
  BY <1>1, InductiveInvariant, PTL

\* No evidence is recorded for a grant that has run out.
THEOREM EvidenceComesInTime == Spec => RedeemedInTime
<1>1. Inductive /\ [Next]_vars =>
        [\A g \in Grant : Redeemable(g) /\ grants'[g].redeemed
                              => now < grants[g].notAfter]_vars
  <2> SUFFICES ASSUME Inductive, [Next]_vars, NEW g \in Grant,
                      Redeemable(g), grants'[g].redeemed
               PROVE  now < grants[g].notAfter
    OBVIOUS
  <2>1. CASE \E r \in Request : Redeem(r)
    <3>1. PICK r \in Request : Redeem(r)
      BY <2>1
    <3>2. g = req[r].jti /\ CanRedeem(g)
      BY <3>1 DEF Redeem, Redeemable, Inductive, TypeOK, rows
    <3> QED
      BY <3>2 DEF CanRedeem
  <2>2. CASE \E r \in Request : Give(r)
    BY <2>2 DEF Give, Redeemable, Inductive, TypeOK, GrantReady
  <2>3. CASE grants' = grants
    BY <2>3 DEF Redeemable
  <2>4. (\E r \in Request : Redeem(r) \/ Give(r)) \/ grants' = grants
    BY DEF Next, vars, rows, Tick, RevokeToken, ChangeStatus, Lookup, Overloaded, Create,
           Insert, Fail, Arrive, Ask, Finalize
  <2> QED
    BY <2>1, <2>2, <2>3, <2>4
<1> QED
  BY <1>1, InductiveInvariant, PTL DEF Spec, RedeemedInTime

\* A name is taken twice only by creations that overlap.
THEOREM NamesAreRefused == Spec => TakenNamesRefused
<1>1. Inductive /\ [Next]_vars =>
        [\A r \in Request : req[r].at = "signing" /\ ~Stored(req[r].id) /\ req[r].taken
                                => identity'[req[r].id] = Absent]_vars
  BY DEF Inductive, CreationReady, Creating
<1> QED
  BY <1>1, InductiveInvariant, PTL DEF Spec, TakenNamesRefused

\* A request that is about to write has not been there before.
THEOREM WritesAreNotRepeated == Spec => []WriteIsNotRepeated
<1>1. Inductive => WriteIsNotRepeated
  BY DEF Inductive, WriteIsNotRepeated, CreationReady, GrantReady, Creating
<1> QED
  BY <1>1, InductiveInvariant, PTL

-----------------------------------------------------------------------------
(* The refinement. *)

\* The events of a ledger are a sequence of events.
LEMMA EventsType ==
  ASSUME Inductive, NEW o \in Org
  PROVE  Events(ledger[o]) \in Seq(Event)
<1>1. ledger[o] \in Seq(LedgerRow)
  BY DEF Inductive, TypeOK
<1>2. Events(ledger[o]) \in [1..Len(ledger[o]) -> Event] /\ Len(ledger[o]) \in Nat
  <2>1. \A n \in 1..Len(ledger[o]) : ledger[o][n] \in LedgerRow
    BY <1>1
  <2>2. \A n \in 1..Len(ledger[o]) : ledger[o][n].event \in Event
    BY <2>1 DEF LedgerRow
  <2> QED
    BY <1>1, <2>2 DEF Events
<1> QED
  BY <1>2, IsASeq

LEMMA InitRefines == Init => Evidence!Init
<1> SUFFICES ASSUME Init PROVE Evidence!Init
  OBVIOUS
<1>1. \A o \in Org : Events(ledger[o]) = <<>>
  BY DEF Init, Events
<1>2. {i \in Identity : Stored(i)} = {}
  BY DEF Init, Stored, Absent
<1>3. \A g \in Grant : grants[g].org = NoOrg /\ PhaseOf(grants[g]) = "none"
  BY DEF Init, PhaseOf, NoRow
<1> QED
  BY <1>1, <1>2, <1>3 DEF Evidence!Init

\* A step that leaves ledger and grants alone and stores no identity is not
\* seen.
LEMMA Unseen ==
  ASSUME ledger' = ledger, grants' = grants,
         \A i \in Identity : Stored(i)' <=> Stored(i)
  PROVE  UNCHANGED Evidence!evidence
<1>1. {i \in Identity : Stored(i)}' = {i \in Identity : Stored(i)}
  BY DEF Stored
<1> QED
  BY <1>1 DEF Evidence!evidence

LEMMA CreateRefines ==
  ASSUME Inductive, NEW r \in Request, Create(r)
  PROVE  Evidence!Create(req[r].org, req[r].id)
<1> DEFINE i == req[r].id
           o == req[r].org
<1>1. i \in Identity /\ o \in Org /\ ~Stored(i)
  BY DEF Inductive, CreationReady, Creating, Create
<1>2. /\ identity' = [identity EXCEPT ![i] =
                        [status |-> "active", org |-> o, name |-> req[r].name]]
      /\ Record(o, <<[kind |-> "created", of |-> i]>>) /\ grants' = grants
  BY <1>1 DEF Create, Insert
<1> HIDE DEF i, o
<1>3. \A p \in Org : Events(ledger'[p]) =
        IF p = o THEN Append(Events(ledger[o]), [kind |-> "created", of |-> i])
                 ELSE Events(ledger[p])
  <2>1. \A p \in Org : Events(ledger'[p]) =
         IF p = o THEN Events(ledger[o]) \o <<[kind |-> "created", of |-> i]>>
                  ELSE Events(ledger[p])
    BY <1>1, <1>2, CreatedEvents, RecordAppends
  <2>2. Events(ledger[o]) \in Seq(Event)
    BY <1>1, EventsType
  <2>3. [kind |-> "created", of |-> i] \in Event
    BY <1>1 DEF Event
  <2>4. \A s \in Seq(Event), e \in Event : Append(s, e) = s \o <<e>>
    BY AppendIsConcat
  <2> QED
    BY <2>1, <2>2, <2>3, <2>4
<1>4. {j \in Identity : Stored(j)}' = {j \in Identity : Stored(j)} \cup {i}
  BY <1>1, <1>2 DEF Stored, Inductive, TypeOK
<1>5. i \notin {j \in Identity : Stored(j)}
  BY <1>1
<1> QED
  BY <1>1, <1>2, <1>3, <1>4, <1>5 DEF Evidence!Create, i, o

LEMMA GiveRefines ==
  ASSUME Inductive, NEW r \in Request, Give(r)
  PROVE  \E p \in {"open", "late"} : Evidence!Give(req[r].row.org, req[r].jti, p)
<1> DEFINE g == req[r].jti
           row == req[r].row
           p0 == IF row.late THEN "late" ELSE "open"
<1>1. /\ g \in Grant /\ grants[g] = NoRow /\ row.org \in Org /\ ~row.redeemed
      /\ row \in GrantRow /\ row.late \in BOOLEAN /\ row # NoRow
  <2>1. req[r] \in ReqRow /\ GrantReady(r) /\ req[r].at = "granting"
    BY TypeFacts DEF Inductive, Give
  <2>2. /\ row \in GrantRow /\ row.org \in Org /\ g \in Grant /\ grants[g] = NoRow
        /\ ~row.redeemed
    BY <2>1 DEF GrantReady, ReqRow
  <2> HIDE DEF g, row
  <2>3. row.late \in BOOLEAN /\ row # NoRow
    BY <2>2, NamesAssumption DEF GrantRow, NoRow
  <2> QED
    BY <2>1, <2>2, <2>3
<1>2. /\ grants' = [grants EXCEPT ![g] = row] /\ identity' = identity
      /\ Record(row.org, <<[kind |-> IF row.late THEN "late" ELSE "granted", of |-> g]>>)
  BY DEF Give
<1> HIDE DEF g, row
<1>3. \A p \in Org : Events(ledger'[p]) =
        IF p = row.org
        THEN Append(Events(ledger[row.org]),
                    [kind |-> IF p0 = "late" THEN "late" ELSE "granted", of |-> g])
        ELSE Events(ledger[p])
  <2>1. \A p \in Org : Events(ledger'[p]) =
         IF p = row.org
         THEN Events(ledger[row.org]) \o <<[kind |-> IF row.late THEN "late" ELSE "granted", of |-> g]>>
         ELSE Events(ledger[p])
    BY <1>1, <1>2, GivenEvents, RecordAppends
  <2>2. Events(ledger[row.org]) \in Seq(Event)
    BY <1>1, EventsType
  <2>3. [kind |-> IF row.late THEN "late" ELSE "granted", of |-> g] \in Event
    BY <1>1 DEF Event
  <2>4. \A s \in Seq(Event), e \in Event : Append(s, e) = s \o <<e>>
    BY AppendIsConcat
  <2>5. (p0 = "late") <=> row.late
    BY <1>1
  <2> QED
    BY <2>1, <2>2, <2>3, <2>4, <2>5
<1>4. grants \in [Grant -> GrantRow]
  BY DEF Inductive, TypeOK
<1>5. PhaseOf(grants[g]) = "none" /\ PhaseOf(row) = p0
  BY <1>1 DEF PhaseOf
<1>6. {j \in Identity : Stored(j)}' = {j \in Identity : Stored(j)}
  BY <1>2 DEF Stored
<1> HIDE DEF p0
<1>a. \A h \in Grant : grants'[h] = IF h = g THEN row ELSE grants[h]
  BY <1>1, <1>2, <1>4
<1>7. Evidence!Give(row.org, g, p0)
  BY <1>1, <1>3, <1>5, <1>6, <1>a DEF Evidence!Give
<1>8. p0 \in {"open", "late"}
  BY <1>1 DEF p0
<1>9. \E p \in {"open", "late"} : Evidence!Give(row.org, g, p)
  BY <1>7, <1>8 DEF Evidence!Give
<1> QED
  BY <1>9 DEF g, row

LEMMA RedeemRefines ==
  ASSUME Inductive, NEW r \in Request, Redeem(r), CanRedeem(req[r].jti)
  PROVE  Evidence!Redeem(req[r].jti, req[r].commits)
<1> DEFINE g == req[r].jti
           n == req[r].commits
           o == grants[g].org
           old == grants[g]
           new == [k \in 1..n |-> [kind |-> IF old.late THEN "late" ELSE "issued", of |-> g]]
<1>1. /\ g \in Grant /\ old # NoRow /\ ~old.redeemed /\ old.late \in BOOLEAN
      /\ o \in Org /\ n \in Nat /\ old \in GrantRow
  BY BoundsAssumption DEF Inductive, GrantReady, Redeem, TypeOK, GrantRow, NoRow, CanRedeem, Redeemable
<1>2. /\ grants' = [grants EXCEPT ![g].redeemed = TRUE] /\ identity' = identity
      /\ Record(o, new)
  BY DEF Redeem
<1>3. new \in Seq(Event)
  BY <1>1, RedeemedEvents
<1>4. new = [k \in 1..n |-> [kind |-> Evidence!Label(PhaseOf(old)), of |-> g]]
  BY <1>1 DEF Evidence!Label, PhaseOf
<1>5. \A p \in Org : Events(ledger'[p]) =
        IF p = o THEN Events(ledger[o]) \o new ELSE Events(ledger[p])
  <2> HIDE DEF new, o
  <2> QED
    BY <1>1, <1>2, <1>3, RecordAppends
<1>6. grants \in [Grant -> GrantRow]
  BY DEF Inductive, TypeOK
<1>7. \A h \in Grant : grants'[h].org = grants[h].org
  BY <1>1, <1>2, <1>6 DEF GrantRow, NoRow
<1>8. \A h \in Grant : PhaseOf(grants'[h]) = IF h = g THEN "redeemed" ELSE PhaseOf(grants[h])
  <2>1. grants'[g].redeemed /\ grants'[g] # NoRow
    BY <1>1, <1>2, <1>6 DEF GrantRow, NoRow
  <2>2. \A h \in Grant \ {g} : grants'[h] = grants[h]
    BY <1>2, <1>6
  <2> QED
    BY <2>1, <2>2 DEF PhaseOf
<1>9. {j \in Identity : Stored(j)}' = {j \in Identity : Stored(j)}
  BY <1>2 DEF Stored
<1>10. PhaseOf(old) \in {"open", "late"}
  BY <1>1 DEF PhaseOf
<1> HIDE DEF new, n
<1> QED
  BY <1>1, <1>4, <1>5, <1>6, <1>7, <1>8, <1>9, <1>10 DEF Evidence!Redeem, n

LEMMA StepRefines ==
  ASSUME Inductive, [Next]_vars
  PROVE  [Evidence!Next]_(Evidence!evidence)
<1>1. ASSUME NEW r \in Request, Create(r) PROVE Evidence!Next
  <2>1. req[r].org \in Org /\ req[r].id \in Identity
    BY <1>1 DEF Inductive, CreationReady, Creating, Create
  <2> QED
    BY <1>1, <2>1, CreateRefines DEF Evidence!Next
<1>2. ASSUME NEW r \in Request, Give(r) PROVE Evidence!Next
  <2>1. req[r].row.org \in Org /\ req[r].jti \in Grant
    BY <1>2 DEF Inductive, GrantReady, Give
  <2> QED
    BY <1>2, <2>1, GiveRefines DEF Evidence!Next
<1>3. ASSUME NEW r \in Request, Redeem(r), CanRedeem(req[r].jti) PROVE Evidence!Next
  <2>1. req[r].commits \in Commits /\ req[r].jti \in Grant
    BY <1>3 DEF Inductive, GrantReady, Redeem
  <2> QED
    BY <1>3, <2>1, RedeemRefines DEF Evidence!Next
<1>4. ASSUME NEW r \in Request, Redeem(r), ~CanRedeem(req[r].jti)
      PROVE  UNCHANGED Evidence!evidence
  BY <1>4, Unseen DEF Redeem, rows, Stored
<1>5. ASSUME NEW i \in Identity, NEW s \in {"active", "suspended"}, ChangeStatus(i, s)
      PROVE  UNCHANGED Evidence!evidence
  BY <1>5, Unseen DEF ChangeStatus, Stored, Inductive, TypeOK, Absent
<1>6. ASSUME UNCHANGED <<identity, grants, ledger>> PROVE UNCHANGED Evidence!evidence
  BY <1>6, Unseen DEF Stored
<1>7. \/ \E r \in Request : Create(r) \/ Give(r) \/ Redeem(r)
      \/ \E i \in Identity, s \in {"active", "suspended"} : ChangeStatus(i, s)
      \/ UNCHANGED <<identity, grants, ledger>>
  BY DEF Next, vars, rows, Tick, RevokeToken, Lookup, Overloaded, Fail, Arrive, Ask, Finalize
<1> QED
  BY <1>1, <1>2, <1>3, <1>4, <1>5, <1>6, <1>7

\* Creation, grants and redemptions over the database implement the evidence
\* log: every identity recorded once, every grant redeemed at most once and in
\* one piece, with the label it was given.
THEOREM RefinesEvidenceLog == Spec => EvidenceSpec
<1>1. Init => Evidence!Init
  BY InitRefines
<1>2. Inductive /\ [Next]_vars => [Evidence!Next]_(Evidence!evidence)
  BY StepRefines
<1> QED
  BY <1>1, <1>2, InductiveInvariant, PTL DEF Spec, EvidenceSpec, Evidence!Spec

-----------------------------------------------------------------------------
(* Rows and evidence. *)

\* What a commit does to the logs: what was there stays where it was, and
\* what is new comes after it.
Grows(L, M, o, new) ==
  /\ \A p \in Org : \A n \in DOMAIN L[p] : n \in DOMAIN M[p] /\ M[p][n] = L[p][n]
  /\ \A p \in Org : \A n \in DOMAIN M[p] :
       \/ n \in DOMAIN L[p]
       \/ p = o /\ \E k \in DOMAIN new : n = Len(L[o]) + k /\ M[p][n] = new[k]
  /\ \A k \in DOMAIN new :
       Len(L[o]) + k \in DOMAIN M[o] /\ M[o][Len(L[o]) + k] = new[k]
  /\ \A p \in Org : DOMAIN L[p] = 1..Len(L[p]) /\ Len(L[p]) \in Nat

LEMMA LogGrows ==
  ASSUME NEW L \in [Org -> Seq(Event)], NEW o \in Org, NEW new \in Seq(Event),
         NEW M, M = [L EXCEPT ![o] = @ \o new]
  PROVE  Grows(L, M, o, new)
<1> DEFINE s == L[o]
<1>1. s \in Seq(Event)
  OBVIOUS
<1>2. M[o] = s \o new /\ \A p \in Org \ {o} : M[p] = L[p]
  OBVIOUS
<1>3. \A p \in Org : DOMAIN L[p] = 1..Len(L[p]) /\ Len(L[p]) \in Nat
  OBVIOUS
<1> HIDE DEF s
<1>4. /\ DOMAIN (s \o new) = 1..(Len(s) + Len(new)) /\ Len(s) \in Nat /\ Len(new) \in Nat
      /\ DOMAIN s = 1..Len(s) /\ DOMAIN new = 1..Len(new)
  BY <1>1
<1>5. \A n \in 1..Len(s) : (s \o new)[n] = s[n]
  BY <1>1
<1>6. \A k \in 1..Len(new) : (s \o new)[Len(s) + k] = new[k]
  BY <1>1
<1>7. \A n \in 1..(Len(s) + Len(new)) :
        n \in 1..Len(s) \/ \E k \in 1..Len(new) : n = Len(s) + k
  <2> SUFFICES ASSUME NEW n \in 1..(Len(s) + Len(new)), n \notin 1..Len(s)
               PROVE  \E k \in 1..Len(new) : n = Len(s) + k
    OBVIOUS
  <2>1. n - Len(s) \in 1..Len(new) /\ n = Len(s) + (n - Len(s))
    BY <1>4
  <2> QED
    BY <2>1
<1>8. ASSUME NEW p \in Org, NEW n \in DOMAIN L[p]
      PROVE  n \in DOMAIN M[p] /\ M[p][n] = L[p][n]
  <2>1. CASE p = o
    <3>1. n \in 1..Len(s) /\ n \in 1..(Len(s) + Len(new))
      BY <1>4, <1>8, <2>1 DEF s
    <3> QED
      BY <1>2, <1>4, <1>5, <2>1, <3>1 DEF s
  <2> QED
    BY <1>2, <1>8, <2>1
<1>9. ASSUME NEW p \in Org, NEW n \in DOMAIN M[p]
      PROVE  \/ n \in DOMAIN L[p]
             \/ p = o /\ \E k \in DOMAIN new : n = Len(L[o]) + k /\ M[p][n] = new[k]
  <2>1. CASE p = o
    <3>1. n \in 1..(Len(s) + Len(new))
      BY <1>2, <1>4, <1>9, <2>1
    <3>2. CASE n \in 1..Len(s)
      BY <1>4, <2>1, <3>2 DEF s
    <3>3. CASE \E k \in 1..Len(new) : n = Len(s) + k
      BY <1>2, <1>4, <1>6, <2>1, <3>3 DEF s
    <3> QED
      BY <1>7, <3>1, <3>2, <3>3
  <2> QED
    BY <1>2, <1>9, <2>1
<1>10. ASSUME NEW k \in DOMAIN new
       PROVE  Len(L[o]) + k \in DOMAIN M[o] /\ M[o][Len(L[o]) + k] = new[k]
  <2>1. Len(s) + k \in 1..(Len(s) + Len(new))
    BY <1>4
  <2> QED
    BY <1>2, <1>4, <1>6, <2>1 DEF s
<1> QED
  BY <1>3, <1>8, <1>9, <1>10 DEF Grows

\* The same of the ledger.
LEMMA RecordGrows ==
  ASSUME Inductive, NEW o \in Org, NEW new \in Seq(Event), Record(o, new)
  PROVE  Log \in [Org -> Seq(Event)] /\ Log' = [Log EXCEPT ![o] = @ \o new]
<1>1. Log \in [Org -> Seq(Event)]
  BY EventsType DEF Log
<1>2. \A p \in Org : Events(ledger'[p]) =
        IF p = o THEN Events(ledger[o]) \o new ELSE Events(ledger[p])
  BY RecordAppends
<1> QED
  BY <1>1, <1>2 DEF Log

\* What was recorded stays recorded.
LEMMA StaysRecorded ==
  ASSUME Log \in [Org -> Seq(Event)], NEW o \in Org, NEW new \in Seq(Event),
         Log' = [Log EXCEPT ![o] = @ \o new],
         NEW p \in Org, NEW kind, NEW x, Recorded(p, kind, x)
  PROVE  Recorded(p, kind, x)'
<1>0. Grows(Log, Log', o, new)
  BY LogGrows
<1>1. \A n \in DOMAIN Log[p] : n \in DOMAIN Log'[p] /\ Log'[p][n] = Log[p][n]
  BY <1>0 DEF Grows
<1> QED
  BY <1>1 DEF Recorded

\* An entry is recorded when the log has grown by it.
LEMMA NowRecorded ==
  ASSUME Log \in [Org -> Seq(Event)], NEW o \in Org, NEW new \in Seq(Event),
         Log' = [Log EXCEPT ![o] = @ \o new],
         NEW kind, NEW x, NEW k \in DOMAIN new, new[k] = [kind |-> kind, of |-> x]
  PROVE  Recorded(o, kind, x)'
<1>0. Grows(Log, Log', o, new)
  BY LogGrows
<1>1. Len(Log[o]) + k \in DOMAIN Log'[o] /\ Log'[o][Len(Log[o]) + k] = new[k]
  BY <1>0 DEF Grows
<1> QED
  BY <1>1 DEF Recorded

\* No log has the entry e yet.
New(e) == \A p \in Org : \A n \in DOMAIN Log[p] : Log[p][n] # e

\* Entries stay unique when those that are new are not of the two kinds, or
\* there is just one and nothing like it was recorded.
LEMMA StaysUnique ==
  ASSUME Log \in [Org -> Seq(Event)], NEW o \in Org, NEW new \in Seq(Event),
         Log' = [Log EXCEPT ![o] = @ \o new], EntriesAreUnique,
         \/ \A k \in DOMAIN new : new[k].kind \notin {"created", "granted"}
         \/ DOMAIN new = {1} /\ New(new[1])
  PROVE  EntriesAreUnique'
<1>0. Grows(Log, Log', o, new)
  BY LogGrows
<1> SUFFICES ASSUME NEW p \in Org, NEW q \in Org,
                    NEW m \in DOMAIN Log'[p], NEW n \in DOMAIN Log'[q],
                    Log'[p][m] = Log'[q][n], Log'[p][m].kind \in {"created", "granted"}
             PROVE  p = q /\ m = n
  BY DEF EntriesAreUnique
<1>1. \A z \in Org : \A j \in DOMAIN Log[z] : Log'[z][j] = Log[z][j]
  BY <1>0 DEF Grows
<1>2. \A z \in Org : \A j \in DOMAIN Log'[z] :
        \/ j \in DOMAIN Log[z]
        \/ z = o /\ \E k \in DOMAIN new : j = Len(Log[o]) + k /\ Log'[z][j] = new[k]
  BY <1>0 DEF Grows
<1>3. CASE m \in DOMAIN Log[p] /\ n \in DOMAIN Log[q]
  BY <1>1, <1>3 DEF EntriesAreUnique
<1>4. CASE ~(m \in DOMAIN Log[p] /\ n \in DOMAIN Log[q])
  <2>1. DOMAIN new = {1} /\ \A z \in Org : \A j \in DOMAIN Log[z] : Log[z][j] # new[1]
    BY <1>2, <1>4 DEF New
  <2>2. m \notin DOMAIN Log[p] /\ n \notin DOMAIN Log[q]
    BY <1>1, <1>2, <1>4, <2>1
  <2> QED
    BY <1>2, <2>1, <2>2
<1> QED
  BY <1>3, <1>4

\* What entries tell of rows is still true of them ...
RowsKeep ==
  \A p \in Org : \A n \in DOMAIN Log[p] :
    LET e == Log[p][n] IN
    /\ e.kind = "created" => identity'[e.of].org = identity[e.of].org
    /\ e.kind # "created" => /\ grants'[e.of].org = grants[e.of].org
                             /\ grants'[e.of].late = grants[e.of].late
                             /\ grants[e.of].redeemed => grants'[e.of].redeemed

\* ... and what e tells as a new entry is true as well.
Fits(o, e) ==
  /\ e.kind = "created" => identity'[e.of].org = o
  /\ e.kind # "created" => /\ grants'[e.of].org = o
                           /\ e.kind = "late" <=> grants'[e.of].late
  /\ e.kind = "issued" => grants'[e.of].redeemed /\ Recorded(o, "granted", e.of)

\* Then all entries stay justified.
LEMMA StaysJustified ==
  ASSUME Log \in [Org -> Seq(Event)], NEW o \in Org, NEW new \in Seq(Event),
         Log' = [Log EXCEPT ![o] = @ \o new], EntriesAreJustified,
         RowsKeep, \A k \in DOMAIN new : Fits(o, new[k])
  PROVE  EntriesAreJustified'
<1>0. Grows(Log, Log', o, new)
  BY LogGrows
<1>1. /\ \A p \in Org : \A n \in DOMAIN Log[p] : Log'[p][n] = Log[p][n]
      /\ \A p \in Org : \A n \in DOMAIN Log'[p] :
           \/ n \in DOMAIN Log[p]
           \/ p = o /\ \E k \in DOMAIN new : n = Len(Log[o]) + k /\ Log'[p][n] = new[k]
      /\ \A p \in Org : DOMAIN Log[p] = 1..Len(Log[p]) /\ Len(Log[p]) \in Nat
  BY <1>0 DEF Grows
<1> SUFFICES ASSUME NEW p \in Org, NEW n \in DOMAIN Log'[p]
             PROVE  LET e == Log'[p][n] IN
                    /\ e.kind = "created" => identity'[e.of].org = p
                    /\ e.kind # "created" => /\ grants'[e.of].org = p
                                             /\ e.kind = "late" <=> grants'[e.of].late
                    /\ e.kind = "issued" =>
                         /\ grants'[e.of].redeemed
                         /\ \E m \in 1..(n - 1) :
                              Log'[p][m] = [kind |-> "granted", of |-> e.of]
  BY DEF EntriesAreJustified
<1>2. CASE n \in DOMAIN Log[p]
  <2> DEFINE e == Log[p][n]
  <2>1. Log'[p][n] = e
    BY <1>1, <1>2
  <2>2. /\ e.kind = "created" => identity'[e.of].org = p
        /\ e.kind # "created" => /\ grants'[e.of].org = p
                                 /\ e.kind = "late" <=> grants'[e.of].late
        /\ e.kind = "issued" => grants'[e.of].redeemed
    <3>1. /\ e.kind = "created" => identity[e.of].org = p
          /\ e.kind # "created" => /\ grants[e.of].org = p
                                   /\ e.kind = "late" <=> grants[e.of].late
          /\ e.kind = "issued" => grants[e.of].redeemed
      BY <1>2 DEF EntriesAreJustified
    <3>2. /\ e.kind = "created" => identity'[e.of].org = identity[e.of].org
          /\ e.kind # "created" =>
               /\ grants'[e.of].org = grants[e.of].org
               /\ grants'[e.of].late = grants[e.of].late
               /\ grants[e.of].redeemed => grants'[e.of].redeemed
      BY <1>2 DEF RowsKeep
    <3> HIDE DEF e
    <3> QED
      BY <3>1, <3>2
  <2>3. ASSUME e.kind = "issued"
        PROVE  \E m \in 1..(n - 1) : Log'[p][m] = [kind |-> "granted", of |-> e.of]
    <3>1. PICK m \in 1..(n - 1) : Log[p][m] = [kind |-> "granted", of |-> e.of]
      BY <1>2, <2>3 DEF EntriesAreJustified
    <3>2. m \in DOMAIN Log[p]
      BY <1>1, <1>2
    <3> QED
      BY <1>1, <3>1, <3>2
  <2> HIDE DEF e
  <2> QED
    BY <2>1, <2>2, <2>3
<1>3. CASE n \notin DOMAIN Log[p]
  <2>1. PICK k \in DOMAIN new : p = o /\ n = Len(Log[o]) + k /\ Log'[p][n] = new[k]
    BY <1>1, <1>3
  <2>2. ASSUME new[k].kind = "issued"
        PROVE  \E m \in 1..(n - 1) : Log'[p][m] = [kind |-> "granted", of |-> new[k].of]
    <3>1. PICK m \in DOMAIN Log[o] : Log[o][m] = [kind |-> "granted", of |-> new[k].of]
      BY <2>2 DEF Fits, Recorded
    <3>2. k \in Nat \ {0}
      OBVIOUS
    <3>3. m \in 1..(n - 1)
      BY <1>1, <2>1, <3>2
    <3> QED
      BY <1>1, <2>1, <3>1, <3>3
  <2> QED
    BY <2>1, <2>2 DEF Fits
<1> QED
  BY <1>2, <1>3

\* Whom an entry can be about.
LEMMA EntryTypes ==
  ASSUME Log \in [Org -> Seq(Event)], NEW p \in Org, NEW n \in DOMAIN Log[p]
  PROVE  LET e == Log[p][n] IN
         \/ e.kind = "created" /\ e.of \in Identity
         \/ e.kind \in {"granted", "issued", "late"} /\ e.of \in Grant
<1>1. Log[p][n] \in Event
  OBVIOUS
<1> QED
  BY <1>1 DEF Event

LEMMA GrantOrg ==
  ASSUME Inductive, NEW g \in Grant, grants[g] # NoRow
  PROVE  grants[g].org \in Org
BY DEF Inductive, TypeOK, GrantRow

LEMMA CreatedMatches ==
  ASSUME Inductive, EvidenceMatchesRows,
         NEW i \in Identity, NEW o \in Org, NEW row, row.org = o,
         ~Stored(i), identity' = [identity EXCEPT ![i] = row], grants' = grants,
         Record(o, <<[kind |-> "created", of |-> i]>>)
  PROVE  EvidenceMatchesRows'
<1> DEFINE entry == [kind |-> "created", of |-> i]
           new == <<entry>>
<1>1. new \in Seq(Event) /\ DOMAIN new = {1} /\ new[1] = entry
  BY CreatedEvents
<1>2. Record(o, new)
  OBVIOUS
<1> HIDE DEF new
<1>3. Log \in [Org -> Seq(Event)] /\ Log' = [Log EXCEPT ![o] = @ \o new]
  BY <1>1, <1>2, RecordGrows
<1>4. /\ identity'[i].org = o
      /\ \A j \in Identity \ {i} : identity'[j] = identity[j]
      /\ identity[i].org \notin Org
  BY StoredIffOrg DEF Inductive, TypeOK
<1>5. New(entry)
  <2> SUFFICES ASSUME NEW p \in Org, NEW n \in DOMAIN Log[p], Log[p][n] = entry
               PROVE  FALSE
    BY DEF New
  <2>1. Log[p][n].kind = "created" /\ Log[p][n].of = i
    OBVIOUS
  <2>2. identity[i].org = p
    BY <2>1 DEF EvidenceMatchesRows, EntriesAreJustified
  <2> QED
    BY <1>4, <2>2
<1>6. EntriesAreUnique'
  BY <1>1, <1>3, <1>5, StaysUnique DEF EvidenceMatchesRows
<1>7. RowsAreRecorded'
  <2>1. ASSUME NEW j \in Identity, Stored(j)' PROVE Recorded(identity[j].org, "created", j)'
    <3>1. CASE j = i
      <4>1. Recorded(o, "created", i)'
        BY <1>1, <1>3, NowRecorded
      <4> QED
        BY <1>4, <3>1, <4>1 DEF Recorded
    <3>2. CASE j # i
      <4>1. Stored(j) /\ identity'[j] = identity[j]
        BY <1>4, <2>1, <3>2 DEF Stored
      <4>2. PICK p \in Org : p = identity[j].org
        BY <4>1, StoredIffOrg
      <4>3. Recorded(p, "created", j)
        BY <4>1, <4>2 DEF EvidenceMatchesRows, RowsAreRecorded, Recorded
      <4>4. Recorded(p, "created", j)'
        BY <1>1, <1>3, <4>3, StaysRecorded
      <4> QED
        BY <4>1, <4>2, <4>4 DEF Recorded
    <3> QED
      BY <3>1, <3>2
  <2>2. ASSUME NEW g \in Grant, grants[g] # NoRow, NEW kind, Recorded(grants[g].org, kind, g)
        PROVE  Recorded(grants[g].org, kind, g)'
    <3>1. PICK p \in Org : p = grants[g].org
      BY <2>2, GrantOrg
    <3>2. Recorded(p, kind, g)
      BY <2>2, <3>1 DEF Recorded
    <3>3. Recorded(p, kind, g)'
      BY <1>1, <1>3, <3>2, StaysRecorded
    <3> QED
      BY <3>1, <3>3 DEF Recorded
  <2> QED
    BY <2>1, <2>2 DEF EvidenceMatchesRows, RowsAreRecorded
<1>8. EntriesAreJustified'
  <2>1. RowsKeep
    <3> SUFFICES ASSUME NEW p \in Org, NEW n \in DOMAIN Log[p], Log[p][n].kind = "created"
                 PROVE  identity'[Log[p][n].of].org = identity[Log[p][n].of].org
      BY DEF RowsKeep
    <3>1. Log[p][n].of \in Identity
      BY <1>3, EntryTypes
    <3>2. identity[Log[p][n].of].org = p
      BY DEF EvidenceMatchesRows, EntriesAreJustified
    <3> QED
      BY <1>4, <3>1, <3>2
  <2>2. \A k \in DOMAIN new : Fits(o, new[k])
    BY <1>1, <1>4 DEF Fits
  <2> QED
    BY <1>1, <1>3, <2>1, <2>2, StaysJustified DEF EvidenceMatchesRows
<1> QED
  BY <1>6, <1>7, <1>8 DEF EvidenceMatchesRows

LEMMA GivenMatches ==
  ASSUME Inductive, EvidenceMatchesRows,
         NEW g \in Grant, NEW row \in GrantRow, row # NoRow, ~row.redeemed,
         NEW o \in Org, row.org = o,
         grants[g] = NoRow, grants' = [grants EXCEPT ![g] = row], identity' = identity,
         Record(o, <<[kind |-> IF row.late THEN "late" ELSE "granted", of |-> g]>>)
  PROVE  EvidenceMatchesRows'
<1> DEFINE kind0 == IF row.late THEN "late" ELSE "granted"
           entry == [kind |-> kind0, of |-> g]
           new == <<entry>>
<1>0. o \in Org /\ row.late \in BOOLEAN
  BY RedeemedRow
<1>1. new \in Seq(Event) /\ DOMAIN new = {1} /\ new[1] = entry
  BY <1>0, GivenEvents
<1>2. Record(o, new)
  OBVIOUS
<1> HIDE DEF new, kind0
<1>3. Log \in [Org -> Seq(Event)] /\ Log' = [Log EXCEPT ![o] = @ \o new]
  BY <1>0, <1>1, <1>2, RecordGrows
<1>4. /\ grants'[g] = row
      /\ \A h \in Grant \ {g} : grants'[h] = grants[h]
      /\ grants[g].org \notin Org
  BY NamesAssumption DEF Inductive, TypeOK, NoRow
<1>a. kind0 \in {"late", "granted"} /\ (kind0 = "late" <=> row.late)
  BY <1>0 DEF kind0
<1>5. New(entry)
  <2> SUFFICES ASSUME NEW p \in Org, NEW n \in DOMAIN Log[p], Log[p][n] = entry
               PROVE  FALSE
    BY DEF New
  <2>1. Log[p][n].kind # "created" /\ Log[p][n].of = g
    BY <1>a
  <2>2. grants[g].org = p
    BY <2>1 DEF EvidenceMatchesRows, EntriesAreJustified
  <2> QED
    BY <1>4, <2>2
<1>6. EntriesAreUnique'
  BY <1>0, <1>1, <1>3, <1>5, StaysUnique DEF EvidenceMatchesRows
<1>7. RowsAreRecorded'
  <2>1. ASSUME NEW j \in Identity, Stored(j)' PROVE Recorded(identity[j].org, "created", j)'
    <3>1. Stored(j)
      BY <2>1 DEF Stored
    <3>2. PICK p \in Org : p = identity[j].org
      BY <3>1, StoredIffOrg
    <3>3. Recorded(p, "created", j)
      BY <3>1, <3>2 DEF EvidenceMatchesRows, RowsAreRecorded, Recorded
    <3>4. Recorded(p, "created", j)'
      BY <1>0, <1>1, <1>3, <3>3, StaysRecorded
    <3> QED
      BY <3>2, <3>4 DEF Recorded
  <2>2. ASSUME NEW h \in Grant, h # g, grants[h] # NoRow, NEW kind,
               Recorded(grants[h].org, kind, h)
        PROVE  Recorded(grants[h].org, kind, h)'
    <3>1. PICK p \in Org : p = grants[h].org
      BY <2>2, GrantOrg
    <3>2. Recorded(p, kind, h)
      BY <2>2, <3>1 DEF Recorded
    <3>3. Recorded(p, kind, h)'
      BY <1>0, <1>1, <1>3, <3>2, StaysRecorded
    <3> QED
      BY <1>4, <2>2, <3>1, <3>3 DEF Recorded
  <2>3. Recorded(grants[g].org, IF grants[g].late THEN "late" ELSE "granted", g)'
    <3>1. Recorded(o, kind0, g)'
      BY <1>0, <1>1, <1>3, NowRecorded
    <3> QED
      BY <1>4, <3>1 DEF Recorded, kind0
  <2> QED
    BY <1>4, <2>1, <2>2, <2>3 DEF EvidenceMatchesRows, RowsAreRecorded
<1>8. EntriesAreJustified'
  <2>1. RowsKeep
    <3> SUFFICES ASSUME NEW p \in Org, NEW n \in DOMAIN Log[p], Log[p][n].kind # "created"
                 PROVE  grants'[Log[p][n].of] = grants[Log[p][n].of]
      BY DEF RowsKeep
    <3>1. Log[p][n].of \in Grant
      BY <1>3, EntryTypes
    <3>2. grants[Log[p][n].of].org = p
      BY DEF EvidenceMatchesRows, EntriesAreJustified
    <3> QED
      BY <1>4, <3>1, <3>2
  <2>2. \A k \in DOMAIN new : Fits(o, new[k])
    BY <1>1, <1>4, <1>a DEF Fits
  <2> QED
    BY <1>0, <1>1, <1>3, <2>1, <2>2, StaysJustified DEF EvidenceMatchesRows
<1> QED
  BY <1>6, <1>7, <1>8 DEF EvidenceMatchesRows

LEMMA RedeemedMatches ==
  ASSUME Inductive, EvidenceMatchesRows,
         NEW g \in Grant, NEW n \in Nat \ {0}, NEW row \in GrantRow,
         row = grants[g], row # NoRow, NEW o \in Org, row.org = o,
         grants' = [grants EXCEPT ![g].redeemed = TRUE], identity' = identity,
         Record(o, [k \in 1..n |-> [kind |-> IF row.late THEN "late" ELSE "issued",
                                          of |-> g]])
  PROVE  EvidenceMatchesRows'
<1> DEFINE kind0 == IF row.late THEN "late" ELSE "issued"
           entry == [kind |-> kind0, of |-> g]
           new == [k \in 1..n |-> entry]
<1>0. o \in Org /\ row.late \in BOOLEAN
  BY RedeemedRow
<1>1. new \in Seq(Event) /\ 1 \in DOMAIN new /\ \A k \in DOMAIN new : new[k] = entry
  BY <1>0, RedeemedEvents
<1>2. Record(o, new)
  OBVIOUS
<1> HIDE DEF new, kind0
<1>3. Log \in [Org -> Seq(Event)] /\ Log' = [Log EXCEPT ![o] = @ \o new]
  BY <1>0, <1>1, <1>2, RecordGrows
<1>4. /\ \A h \in Grant \ {g} : grants'[h] = grants[h]
      /\ grants'[g].org = o /\ grants'[g].late = row.late /\ grants'[g].redeemed
  <2>1. grants' = [grants EXCEPT ![g] = [row EXCEPT !.redeemed = TRUE]]
        /\ grants \in [Grant -> GrantRow]
    BY DEF Inductive, TypeOK
  <2>2. [row EXCEPT !.redeemed = TRUE].late = row.late
    BY DEF GrantRow, NoRow
  <2> QED
    BY <2>1, <2>2, RedeemedRow
<1>a. kind0 \in {"late", "issued"} /\ (kind0 = "late" <=> row.late)
  BY <1>0 DEF kind0
<1>6. EntriesAreUnique'
  <2>1. \A k \in DOMAIN new : new[k].kind \notin {"created", "granted"}
    BY <1>1, <1>a
  <2> QED
    BY <1>0, <1>1, <1>3, <2>1, StaysUnique DEF EvidenceMatchesRows
<1>7. RowsAreRecorded'
  <2>1. ASSUME NEW j \in Identity, Stored(j)' PROVE Recorded(identity[j].org, "created", j)'
    <3>1. Stored(j)
      BY <2>1 DEF Stored
    <3>2. PICK p \in Org : p = identity[j].org
      BY <3>1, StoredIffOrg
    <3>3. Recorded(p, "created", j)
      BY <3>1, <3>2 DEF EvidenceMatchesRows, RowsAreRecorded, Recorded
    <3>4. Recorded(p, "created", j)'
      BY <1>0, <1>1, <1>3, <3>3, StaysRecorded
    <3> QED
      BY <3>2, <3>4 DEF Recorded
  <2>2. ASSUME NEW h \in Grant, grants[h] # NoRow, NEW kind, Recorded(grants[h].org, kind, h)
        PROVE  Recorded(grants[h].org, kind, h)'
    <3>1. PICK p \in Org : p = grants[h].org
      BY <2>2, GrantOrg
    <3>2. Recorded(p, kind, h)
      BY <2>2, <3>1 DEF Recorded
    <3>3. Recorded(p, kind, h)'
      BY <1>0, <1>1, <1>3, <3>2, StaysRecorded
    <3>4. grants'[h].org = p
      BY <1>4, <3>1
    <3> QED
      BY <3>3, <3>4 DEF Recorded
  <2>3. ~row.late => Recorded(grants[g].org, "issued", g)'
    <3>1. Recorded(o, kind0, g)'
      BY <1>0, <1>1, <1>3, NowRecorded
    <3> QED
      BY <1>4, <3>1 DEF Recorded, kind0
  <2>4. ASSUME NEW h \in Grant, grants[h] # NoRow
        PROVE  Recorded(grants[h].org, IF grants[h].late THEN "late" ELSE "granted", h)'
    <3>1. PICK kind : kind = IF grants[h].late THEN "late" ELSE "granted"
      OBVIOUS
    <3>2. Recorded(grants[h].org, kind, h)'
      BY <2>2, <2>4, <3>1 DEF EvidenceMatchesRows, RowsAreRecorded
    <3>3. grants'[h].late = grants[h].late
      BY <1>4
    <3> QED
      BY <3>1, <3>2, <3>3 DEF Recorded
  <2>5. ASSUME NEW h \in Grant, h # g, grants[h] # NoRow, grants[h].redeemed, ~grants[h].late
        PROVE  Recorded(grants[h].org, "issued", h)'
    BY <2>2, <2>5 DEF EvidenceMatchesRows, RowsAreRecorded
  <2> QED
    BY <1>4, <2>1, <2>3, <2>4, <2>5 DEF RowsAreRecorded
<1>8. EntriesAreJustified'
  <2>1. RowsKeep
    <3> SUFFICES ASSUME NEW p \in Org, NEW m \in DOMAIN Log[p], Log[p][m].kind # "created"
                 PROVE  LET h == Log[p][m].of IN
                        /\ grants'[h].org = grants[h].org
                        /\ grants'[h].late = grants[h].late
                        /\ grants[h].redeemed => grants'[h].redeemed
      BY DEF RowsKeep
    <3>1. Log[p][m].of \in Grant
      BY <1>3, EntryTypes
    <3> QED
      BY <1>4, <3>1
  <2>2. ~row.late => Recorded(o, "granted", g)
    BY DEF EvidenceMatchesRows, RowsAreRecorded, Recorded
  <2>3. \A k \in DOMAIN new : Fits(o, new[k])
    BY <1>1, <1>4, <1>a, <2>2 DEF Fits
  <2> QED
    BY <1>0, <1>1, <1>3, <2>1, <2>3, StaysJustified DEF EvidenceMatchesRows
<1> QED
  BY <1>6, <1>7, <1>8 DEF EvidenceMatchesRows

LEMMA UnchangedMatches ==
  ASSUME EvidenceMatchesRows, ledger' = ledger, grants' = grants,
         \A i \in Identity : /\ Stored(i)' <=> Stored(i)
                             /\ identity'[i].org = identity[i].org,
         Log \in [Org -> Seq(Event)]
  PROVE  EvidenceMatchesRows'
<1>1. Log' = Log
  BY DEF Log
<1>2. EntriesAreUnique'
  BY <1>1 DEF EvidenceMatchesRows, EntriesAreUnique
<1>3. RowsAreRecorded'
  BY <1>1 DEF EvidenceMatchesRows, RowsAreRecorded, Recorded
<1>4. EntriesAreJustified'
  <2> SUFFICES ASSUME NEW p \in Org, NEW n \in DOMAIN Log'[p]
               PROVE  LET e == Log'[p][n] IN
                      /\ e.kind = "created" => identity'[e.of].org = p
                      /\ e.kind # "created" => /\ grants'[e.of].org = p
                                               /\ e.kind = "late" <=> grants'[e.of].late
                      /\ e.kind = "issued" =>
                           /\ grants'[e.of].redeemed
                           /\ \E m \in 1..(n - 1) :
                                Log'[p][m] = [kind |-> "granted", of |-> e.of]
    BY DEF EntriesAreJustified
  <2> DEFINE e == Log[p][n]
  <2>1. n \in DOMAIN Log[p] /\ Log'[p] = Log[p]
    BY <1>1
  <2>2. e.kind = "created" => identity[e.of].org = p /\ e.of \in Identity
    BY <2>1, EntryTypes DEF EvidenceMatchesRows, EntriesAreJustified
  <2>3. /\ e.kind # "created" => /\ grants[e.of].org = p
                                 /\ e.kind = "late" <=> grants[e.of].late
        /\ e.kind = "issued" =>
             /\ grants[e.of].redeemed
             /\ \E m \in 1..(n - 1) : Log[p][m] = [kind |-> "granted", of |-> e.of]
    BY <2>1 DEF EvidenceMatchesRows, EntriesAreJustified
  <2>4. Log'[p][n] = e
    BY <2>1
  <2> HIDE DEF e
  <2>5. e.kind = "created" => identity'[e.of].org = p
    BY <2>2
  <2> QED
    BY <2>1, <2>3, <2>4, <2>5
<1> QED
  BY <1>2, <1>3, <1>4 DEF EvidenceMatchesRows

LEMMA NextMatches ==
  ASSUME Inductive, EvidenceMatchesRows, [Next]_vars
  PROVE  EvidenceMatchesRows'
<1>0. Log \in [Org -> Seq(Event)]
  BY EventsType DEF Log
<1>1. ASSUME NEW r \in Request, Create(r) PROVE EvidenceMatchesRows'
  <2>1. req[r].id \in Identity /\ req[r].org \in Org /\ ~Stored(req[r].id)
    BY <1>1 DEF Inductive, CreationReady, Creating, Create
  <2>2. PICK i \in Identity, o \in Org, name \in {req[r].name} :
          i = req[r].id /\ o = req[r].org
    BY <2>1
  <2>3. /\ identity' = [identity EXCEPT ![i] = [status |-> "active", org |-> o, name |-> name]]
        /\ Record(o, <<[kind |-> "created", of |-> i]>>) /\ grants' = grants
    BY <1>1, <2>1, <2>2 DEF Create, Insert
  <2> QED
    BY <2>1, <2>2, <2>3, CreatedMatches
<1>2. ASSUME NEW r \in Request, Give(r) PROVE EvidenceMatchesRows'
  <2>1. /\ req[r].jti \in Grant /\ req[r].row \in GrantRow /\ req[r].row # NoRow
        /\ ~req[r].row.redeemed /\ grants[req[r].jti] = NoRow
    <3>1. req[r] \in ReqRow /\ GrantReady(r) /\ req[r].at = "granting"
      BY <1>2, TypeFacts DEF Inductive, Give
    <3> QED
      BY <3>1, NamesAssumption DEF GrantReady, ReqRow, NoRow
  <2>2. PICK g \in Grant, row \in GrantRow : g = req[r].jti /\ row = req[r].row
    BY <2>1
  <2>3. /\ grants' = [grants EXCEPT ![g] = row] /\ identity' = identity
        /\ Record(row.org, <<[kind |-> IF row.late THEN "late" ELSE "granted", of |-> g]>>)
    BY <1>2, <2>2 DEF Give
  <2>4. PICK o \in Org : o = row.org
    BY <2>1, <2>2, RedeemedRow
  <2> QED
    BY <2>1, <2>2, <2>3, <2>4, GivenMatches
<1>3. ASSUME NEW r \in Request, Redeem(r), CanRedeem(req[r].jti) PROVE EvidenceMatchesRows'
  <2>1. /\ req[r].jti \in Grant /\ req[r].commits \in Nat \ {0}
        /\ grants[req[r].jti] \in GrantRow /\ grants[req[r].jti] # NoRow
    BY <1>3, BoundsAssumption DEF Inductive, TypeOK, GrantReady, Redeem
  <2>2. PICK g \in Grant, n \in Nat \ {0}, row \in GrantRow :
          g = req[r].jti /\ n = req[r].commits /\ row = grants[g]
    BY <2>1
  <2>3. /\ grants' = [grants EXCEPT ![g].redeemed = TRUE] /\ identity' = identity
        /\ Record(row.org, [k \in 1..n |-> [kind |-> IF row.late THEN "late" ELSE "issued",
                                            of |-> g]])
    BY <1>3, <2>2 DEF Redeem
  <2>4. PICK o \in Org : o = row.org
    BY <2>1, <2>2, RedeemedRow
  <2> QED
    BY <2>1, <2>2, <2>3, <2>4, RedeemedMatches
<1>4. ASSUME NEW r \in Request, Redeem(r), ~CanRedeem(req[r].jti) PROVE EvidenceMatchesRows'
  BY <1>0, <1>4, UnchangedMatches DEF Redeem, rows, Stored
<1>5. ASSUME NEW i \in Identity, NEW s \in {"active", "suspended"}, ChangeStatus(i, s)
      PROVE  EvidenceMatchesRows'
  <2>1. \A j \in Identity : Stored(j)' <=> Stored(j)
    BY <1>5 DEF ChangeStatus, Stored, Inductive, TypeOK, Absent
  <2>2. \A j \in Identity : identity'[j].org = identity[j].org
    BY <1>5 DEF ChangeStatus, Inductive, TypeOK, Absent
  <2> QED
    BY <1>0, <1>5, <2>1, <2>2, UnchangedMatches DEF ChangeStatus
<1>6. ASSUME UNCHANGED <<identity, grants, ledger>> PROVE EvidenceMatchesRows'
  BY <1>0, <1>6, UnchangedMatches DEF Stored
<1>7. \/ \E r \in Request : Create(r) \/ Give(r) \/ Redeem(r)
      \/ \E i \in Identity, s \in {"active", "suspended"} : ChangeStatus(i, s)
      \/ UNCHANGED <<identity, grants, ledger>>
  BY DEF Next, vars, rows, Tick, RevokeToken, Lookup, Overloaded, Fail, Arrive, Ask, Finalize
<1> QED
  BY <1>1, <1>2, <1>3, <1>4, <1>5, <1>6, <1>7

\* However creations, grants and redemptions of several organisations overlap
\* with signatures, retries, failures and each other: no row is without its
\* entry, no entry without its row or in another organisation's ledger, none
\* of a creation or a grant is there twice, and evidence follows its grant.
THEOREM EvidenceAndRowsAgree == Spec => []EvidenceMatchesRows
<1>1. Init => EvidenceMatchesRows
  <2> SUFFICES ASSUME Init PROVE EvidenceMatchesRows
    OBVIOUS
  <2>1. \A o \in Org : DOMAIN Log[o] = {}
    BY DEF Init, Log, Events
  <2>2. \A i \in Identity : ~Stored(i)
    BY DEF Init, Stored, Absent
  <2> QED
    BY <2>1, <2>2 DEF EvidenceMatchesRows, EntriesAreUnique, RowsAreRecorded,
       EntriesAreJustified, Init
<1>2. Inductive /\ EvidenceMatchesRows /\ [Next]_vars => EvidenceMatchesRows'
  BY NextMatches
<1> QED
  BY <1>1, <1>2, InductiveInvariant, PTL DEF Spec

=============================================================================
