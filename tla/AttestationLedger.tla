-------------------------- MODULE AttestationLedger --------------------------
(***************************************************************************)
(* Creation of identities, attestation grants and their redemption, and    *)
(* the hash chain that records them (packages/server/src/routes/           *)
(* identities.ts, routes/attestations.ts, lib/storage-retry.ts and the     *)
(* attestation store of storage/sqlite.ts).                                *)
(*                                                                         *)
(* A request checks what it needs, signs its entries, which lets other     *)
(* requests run, and then commits rows and entries in one transaction.     *)
(* The reads before a creation are retried when the storage is overloaded; *)
(* the write is not, since an adapter may report an overload after it has  *)
(* committed.  A request may fail or be lost in a restart at any time.     *)
(*                                                                         *)
(* SHA-256 is taken to be injective: the hash of the n-th row of an        *)
(* organisation is written n, the hash before the first is 0.              *)
(***************************************************************************)
EXTENDS Integers, Sequences, FiniteSets

CONSTANTS
    Org, Identity, Grant, Name,
    Request,    \* HTTP requests that may be in flight at once
    Commits,    \* how many commits a finalize may name
    MaxTries,   \* attempts of a retried storage call
    TTL,        \* lifetime of a grant
    MaxTime,    \* bound of the clock, for model checking
    NoOrg, NoIdentity, NoGrant, NoName

ASSUME NamesAssumption ==
    /\ NoOrg \notin Org /\ NoIdentity \notin Identity
    /\ NoGrant \notin Grant /\ NoName \notin Name
ASSUME BoundsAssumption ==
    /\ Commits \subseteq Nat \ {0}
    /\ MaxTries \in Nat \ {0} /\ TTL \in Nat /\ MaxTime \in Nat

VARIABLES
    now,
    identity,   \* identity[i]: the row of identity i
    grants,     \* grants[g]: the row of grant g
    ledger,     \* ledger[o]: the rows of `attestation_ledger` of o
    wsRevoked,  \* the workspace token that asks for grants is revoked
    req         \* req[r]: what request r is about and how far it is

rows == <<identity, grants, ledger, wsRevoked>>
vars == <<now, rows, req>>

Absent  == [status |-> "absent", org |-> NoOrg, name |-> NoName]
NoRow   == [org |-> NoOrg, late |-> FALSE, notAfter |-> 0, redeemed |-> FALSE]
Idle    == [at |-> "idle", org |-> NoOrg, name |-> NoName, id |-> NoIdentity,
            jti |-> NoGrant, row |-> NoRow, commits |-> 0, tries |-> 0, taken |-> FALSE]

Stored(i)  == identity[i].status # "absent"
Holders(o, name) == {i \in Identity : identity[i].org = o /\ identity[i].name = name}
Redeemable(g) == grants[g] # NoRow /\ ~grants[g].redeemed

-----------------------------------------------------------------------------
(* The ledger. *)

\* The last row of an organisation is the one with the highest org_seq.
LastSeq(rs) == IF rs = <<>> THEN 0 ELSE rs[Len(rs)].orgSeq

\* Each entry is prepared from the row before it: its number is one more and
\* it carries the hash of that row.
Chained_SameLink(rs, events) ==
    [k \in DOMAIN events |-> [orgSeq |-> LastSeq(rs) + k, prev |-> Len(rs),
                              event |-> events[k]]]
Chained(rs, events) ==
    [k \in DOMAIN events |-> [orgSeq |-> LastSeq(rs) + k, prev |-> Len(rs) + k - 1,
                              event |-> events[k]]]

Record(o, events) ==
    ledger' = [ledger EXCEPT ![o] = @ \o Chained(@, events)]

-----------------------------------------------------------------------------
(* POST /v1/identities. *)

Become(r, new) == req' = [req EXCEPT ![r] = new]

Arrive(r, o, name) ==
    /\ req[r].at = "idle"
    /\ Become(r, [Idle EXCEPT !.at = "lookup", !.org = o, !.name = name, !.tries = 1,
                              !.taken = Holders(o, name) # {}])
    /\ UNCHANGED <<now, rows>>

\* findDuplicate, and a fresh id for the new identity.
NoDuplicate_Skipped(r) == TRUE
NoDuplicate(r) == Holders(req[r].org, req[r].name) = {}

Lookup(r) ==
    /\ req[r].at = "lookup"
    /\ \/ /\ NoDuplicate(r)
          /\ \E i \in Identity :
               /\ ~Stored(i) /\ \A q \in Request : req[q].id # i
               /\ Become(r, [req[r] EXCEPT !.at = "signing", !.id = i, !.tries = 0])
       \/ /\ ~NoDuplicate(r)
          /\ Become(r, Idle)
    /\ UNCHANGED <<now, rows>>

\* The storage is overloaded: the read is tried again after a pause, the last
\* attempt is answered.
MayRetry_Inclusive(tries) == tries <= MaxTries
MayRetry(tries) == tries < MaxTries

Overloaded(r) ==
    /\ req[r].at = "lookup"
    /\ \/ /\ MayRetry(req[r].tries)
          /\ Become(r, [req[r] EXCEPT !.tries = @ + 1])
       \/ /\ ~MayRetry(req[r].tries)
          /\ Become(r, Idle)
    /\ UNCHANGED <<now, rows>>

\* createIdentityWithLedgerEntry: one transaction that looks at the id alone.
Insert(r) ==
    LET i == req[r].id IN
    IF Stored(i) THEN UNCHANGED rows
    ELSE /\ identity' = [identity EXCEPT ![i] =
                           [status |-> "active", org |-> req[r].org, name |-> req[r].name]]
         /\ Record(req[r].org, <<[kind |-> "created", of |-> i]>>)
         /\ UNCHANGED <<grants, wsRevoked>>

\* The write ends its request whatever the adapter says of it: an adapter may
\* commit and report an overload all the same, and the request is then answered
\* 503 without asking again.  (A client that repeats it sends a new request,
\* which finds the name taken by what the first one stored.)
Create_Retried(r) ==
    /\ req[r].at = "signing"
    /\ Insert(r)
    /\ Become(r, Idle) \/ UNCHANGED req
    /\ UNCHANGED now
Create(r) ==
    /\ req[r].at = "signing"
    /\ Insert(r)
    /\ Become(r, Idle)
    /\ UNCHANGED now

-----------------------------------------------------------------------------
(* POST /v1/attestations/grants and /finalize. *)

\* An operator may ask for a late grant of any stored identity; a workspace
\* token asks for active identities only.  The grant's row is made up and
\* signed before it is stored.
Ask(r, i, late) ==
    /\ req[r].at = "idle"
    /\ Stored(i)
    /\ late \/ (identity[i].status = "active" /\ ~wsRevoked)
    /\ \E g \in Grant :
         /\ grants[g] = NoRow /\ \A q \in Request : req[q].jti # g
         /\ Become(r, [Idle EXCEPT !.at = "granting", !.jti = g,
                         !.row = [org |-> identity[i].org, late |-> late,
                                  notAfter |-> now + TTL, redeemed |-> FALSE]])
    /\ UNCHANGED <<now, rows>>

\* createGrantWithLedgerEntry.
Give(r) ==
    LET g == req[r].jti IN
    /\ req[r].at = "granting"
    /\ grants' = [grants EXCEPT ![g] = req[r].row]
    /\ Record(req[r].row.org,
              <<[kind |-> IF req[r].row.late THEN "late" ELSE "granted", of |-> g]>>)
    /\ Become(r, Idle)
    /\ UNCHANGED <<now, identity, wsRevoked>>

\* The holder of the finalize key presents its commits; each is signed.
Finalize(r, g, n) ==
    /\ req[r].at = "idle"
    /\ Redeemable(g) /\ now < grants[g].notAfter
    /\ Become(r, [Idle EXCEPT !.at = "finalizing", !.jti = g, !.commits = n])
    /\ UNCHANGED <<now, rows>>

\* redeemGrantWithLedgerEntries: the grant is read again and judged by the
\* clock of the transaction.
CanRedeem_Stale(g) == Redeemable(g)
CanRedeem_Twice(g) == grants[g] # NoRow /\ now < grants[g].notAfter
CanRedeem(g) == Redeemable(g) /\ now < grants[g].notAfter

Redeem(r) ==
    LET g == req[r].jti IN
    /\ req[r].at = "finalizing"
    /\ \/ /\ CanRedeem(g)
          /\ grants' = [grants EXCEPT ![g].redeemed = TRUE]
          /\ Record(grants[g].org,
                    [k \in 1..req[r].commits |->
                       [kind |-> IF grants[g].late THEN "late" ELSE "issued", of |-> g]])
          /\ UNCHANGED <<identity, wsRevoked>>
       \/ ~CanRedeem(g) /\ UNCHANGED rows
    /\ Become(r, Idle)
    /\ UNCHANGED now

-----------------------------------------------------------------------------
(* What else happens. *)

\* A request fails before its commit, or dies in a restart.
Fail(r) ==
    /\ req[r].at # "idle"
    /\ Become(r, Idle)
    /\ UNCHANGED <<now, rows>>

\* An identity is suspended or reactivated (IdentityLifecycle).
ChangeStatus(i, status) ==
    /\ Stored(i)
    /\ identity' = [identity EXCEPT ![i].status = status]
    /\ UNCHANGED <<now, grants, ledger, wsRevoked, req>>

\* The workspace token is revoked for good.
RevokeToken ==
    /\ ~wsRevoked
    /\ wsRevoked' = TRUE
    /\ UNCHANGED <<now, identity, grants, ledger, req>>

Tick ==
    /\ now < MaxTime
    /\ now' = now + 1
    /\ UNCHANGED <<rows, req>>

Init ==
    /\ now = 0
    /\ identity = [i \in Identity |-> Absent]
    /\ grants = [g \in Grant |-> NoRow]
    /\ ledger = [o \in Org |-> <<>>]
    /\ wsRevoked = FALSE
    /\ req = [r \in Request |-> Idle]
    
Next ==
    \/ Tick \/ RevokeToken
    \/ \E i \in Identity, s \in {"active", "suspended"} : ChangeStatus(i, s)
    \/ \E r \in Request :
         \/ Lookup(r) \/ Overloaded(r) \/ Create(r) \/ Give(r) \/ Redeem(r) \/ Fail(r)
         \/ \E o \in Org, name \in Name : Arrive(r, o, name)
         \/ \E i \in Identity, late \in BOOLEAN : Ask(r, i, late)
         \/ \E g \in Grant, n \in Commits : Finalize(r, g, n)

Spec == Init /\ [][Next]_vars

-----------------------------------------------------------------------------
(* Properties. *)

Event == [kind : {"created"}, of : Identity] \cup
         [kind : {"granted", "issued", "late"}, of : Grant]
LedgerRow == [orgSeq : Nat, prev : Nat, event : Event]
GrantRow  == [org : Org, late : BOOLEAN, notAfter : Nat, redeemed : BOOLEAN] \cup {NoRow}

\* Every variable keeps its type; in particular no read is attempted more
\* often than MaxTries.
TypeOK ==
    /\ now \in 0..MaxTime
    /\ identity \in [Identity -> [status : {"active", "suspended"}, org : Org, name : Name]
                                 \cup {Absent}]
    /\ grants \in [Grant -> GrantRow]
    /\ ledger \in [Org -> Seq(LedgerRow)]
    /\ wsRevoked \in BOOLEAN
    /\ req \in [Request ->
         [at : {"idle", "lookup", "signing", "granting", "finalizing"},
          org : Org \cup {NoOrg}, name : Name \cup {NoName},
          id : Identity \cup {NoIdentity}, jti : Grant \cup {NoGrant}, row : GrantRow,
          commits : Commits \cup {0}, tries : 0..MaxTries, taken : BOOLEAN]]

\* The rows of an organisation form one chain from the genesis hash to the
\* last row, without gap or fork, however commits of creations, grants and
\* redemptions of several organisations interleave.
ChainIntact ==
    \A o \in Org : \A n \in 1..Len(ledger[o]) :
        ledger[o][n].orgSeq = n /\ ledger[o][n].prev = n - 1

\* Evidence is recorded before its grant runs out, though the grant was read
\* up to a hundred signatures earlier.
RedeemedInTime ==
    [][\A g \in Grant : Redeemable(g) /\ grants'[g].redeemed
                            => now < grants[g].notAfter]_vars

\* A write is attempted once: a request that is about to write has stored
\* nothing yet, and no other request has stored its id or its grant.  So a
\* commit that was reported as an overload is not repeated within its request,
\* and the conflict on the id itself is never met.
WriteIsNotRepeated ==
    \A r \in Request :
        /\ req[r].at = "signing" => ~Stored(req[r].id)
        /\ req[r].at = "granting" => grants[req[r].jti] = NoRow

\* A name is given twice only by creations that overlap: one that comes after
\* the name was given is refused, however often its lookup was retried.
TakenNamesRefused ==
    [][\A r \in Request : req[r].at = "signing" /\ ~Stored(req[r].id) /\ req[r].taken
                              => identity'[req[r].id] = Absent]_vars

\* The service implements the evidence log.
Events(rs) == [n \in DOMAIN rs |-> rs[n].event]
PhaseOf(row) == IF row = NoRow THEN "none"
                ELSE IF row.redeemed THEN "redeemed"
                ELSE IF row.late THEN "late" ELSE "open"

Evidence == INSTANCE EvidenceLog WITH
    log <- [o \in Org |-> Events(ledger[o])],
    created <- {i \in Identity : Stored(i)},
    home <- [g \in Grant |-> grants[g].org],
    phase <- [g \in Grant |-> PhaseOf(grants[g])]

EvidenceSpec == Evidence!Spec

-----------------------------------------------------------------------------
(* Rows and evidence. *)

\* The events of each organisation, in order.
Log == [o \in Org |-> Events(ledger[o])]

Recorded(o, kind, x) ==
    \E n \in DOMAIN Log[o] : Log[o][n] = [kind |-> kind, of |-> x]

\* A creation or a grant is recorded once, over all organisations.
EntriesAreUnique ==
    \A o, p \in Org : \A m \in DOMAIN Log[o], n \in DOMAIN Log[p] :
        Log[o][m] = Log[p][n] /\ Log[o][m].kind \in {"created", "granted"}
            => o = p /\ m = n

\* No row without its entry.
RowsAreRecorded ==
    /\ \A i \in Identity : Stored(i) => Recorded(identity[i].org, "created", i)
    /\ \A g \in Grant : grants[g] # NoRow =>
         /\ Recorded(grants[g].org, IF grants[g].late THEN "late" ELSE "granted", g)
         /\ grants[g].redeemed /\ ~grants[g].late => Recorded(grants[g].org, "issued", g)

\* No entry without its row (no identity is deleted here): every entry is in the
\* ledger of the row's organisation, tells late from in time, and evidence
\* follows the entry of its grant.
EntriesAreJustified ==
    \A o \in Org : \A n \in DOMAIN Log[o] :
        LET e == Log[o][n] IN
        /\ e.kind = "created" => identity[e.of].org = o
        /\ e.kind # "created" => /\ grants[e.of].org = o
                                 /\ e.kind = "late" <=> grants[e.of].late
        /\ e.kind = "issued" =>
             /\ grants[e.of].redeemed
             /\ \E m \in 1..(n - 1) : Log[o][m] = [kind |-> "granted", of |-> e.of]

\* The ledger tells of the rows what is true of them, and tells it once: the
\* two are written by different statements of transactions that overlap with
\* signatures, retries and failures.
EvidenceMatchesRows == EntriesAreUnique /\ RowsAreRecorded /\ EntriesAreJustified

=============================================================================
