---------------------------- MODULE RetentionSweep ----------------------------
(***************************************************************************)
(* The retention sweep of engine/retention-gc.ts over `identities`, beside *)
(* the sweep of `tokens` and the routes that write these tables.  A sweep  *)
(* reads a bounded window of rows after a cursor and, in a second          *)
(* statement, deletes the candidates it found there; a scheduler outside   *)
(* this repository keeps the cursor and calls the two in turn.  Any number *)
(* of requests may come between the two statements, or between the time an *)
(* issuance finds its identity and the time it stores the token.           *)
(*                                                                         *)
(* Identities have rowids as SQLite gives them: one more than the largest  *)
(* in the table, so that the rowid of a deleted last row is used again.    *)
(***************************************************************************)
EXTENDS Integers, FiniteSets

CONSTANTS
    Identity, Token,    \* 1..n: identifiers, in the order they are drawn
    Nobody,             \* a sponsor that is no identity: a person
    Never,              \* NULL: no expiry, no recorded activity
    None,               \* no row, no window
    Unborn, Deleted, Swept, \* why an identity has no row
    Day,                \* ticks of the clock in a day
    Days,               \* the retention periods an operator may write
    MinDays, MaxDays,   \* the periods that are accepted
    Lifetime,           \* lifetimes of tokens; Never for a row without expiry
    Skew,               \* how long after its expiry a verifier accepts a token
    Grace,              \* how long after it a sweep holds the token for live
    Limit,              \* the rows of a window
    MaxEvents,          \* bound: patches, deletions, revocations, configurations,
                        \* and windows that are lost
    MaxTime             \* bound: the last tick of the clock

Time == 0..MaxTime

\* The columns of `identities` and `tokens` that a sweep reads.
IdentityRow == [rowid : Nat, created : Time, seen : Time \cup {Never},
                sponsor : Identity \cup {Nobody}, keep : BOOLEAN]
TokenRow == [owner : Identity, created : Time, expires : Nat \cup {Never},
             status : {"active", "revoked"}]

ASSUME SweepAssumption ==
    /\ Identity \subseteq Nat /\ IsFiniteSet(Identity) /\ Token \subseteq Nat
    /\ Nobody \notin Identity /\ Never \notin Int
    /\ None \notin Int /\ None \notin TokenRow
    /\ {Unborn, Deleted, Swept} \cap IdentityRow = {}
    /\ Unborn # Deleted /\ Unborn # Swept /\ Deleted # Swept
    /\ Day \in Nat \ {0} /\ Days \subseteq Int /\ MinDays \in Nat /\ MaxDays \in Nat
    /\ Lifetime \subseteq Nat \cup {Never}
    /\ Skew \in Nat /\ Grace \in Nat /\ Skew <= Grace
    /\ Limit \in Nat \ {0} /\ MaxEvents \in Nat /\ MaxTime \in Nat

VARIABLES
    now,        \* the clock
    config,     \* the period of an enabled row of identity_retention_config, or None
    identity,   \* identity[i]: its row, or why there is none
    token,      \* token[t]: its row in `tokens`, or None
    claims,     \* claims[t]: what the holder of t has, or None
    denied,     \* the tokens on the denylist
    lineage,    \* lineage[i]: its latest row in token_lineages, or Never
    signing,    \* the token an issuance is signing, or None
    cursor,     \* the rowid behind which the next window of identities begins
    window,     \* the window that is read and not yet pruned, or None
    events      \* the number of such events so far

rows == <<config, identity, token, lineage>>
sweep == <<cursor, window>>
vars == <<now, rows, claims, denied, signing, sweep, events>>

Stored == {i \in Identity : identity[i] \notin {Unborn, Deleted, Swept}}
Rows == {t \in Token : token[t] # None}
Issued == {t \in Token : claims[t] # None}

\* The largest rowid of some identities.
Last(ids) ==
    CHOOSE n \in {identity[i].rowid : i \in ids} : \A i \in ids : identity[i].rowid <= n

\* The rowid SQLite gives to a new row.
NextRowId == IF Stored = {} THEN 1 ELSE 1 + Last(Stored)

TypeOK ==
    /\ now \in Time
    /\ config \in Days \cup {None}
    /\ identity \in [Identity -> IdentityRow \cup {Unborn, Deleted, Swept}]
    /\ token \in [Token -> TokenRow \cup {None}]
    /\ claims \in [Token -> [owner : Identity, expires : Nat \cup {Never}] \cup {None}]
    /\ denied \subseteq Token
    /\ lineage \in [Identity -> Time \cup {Never}]
    /\ signing \in [owner : Identity, created : Time, expires : Nat \cup {Never},
                    lineage : BOOLEAN] \cup {None}
    /\ cursor \in Nat
    /\ window \in [ids : SUBSET Identity, after : Nat, exhausted : BOOLEAN] \cup {None}
    /\ events \in 0..MaxEvents

Init ==
    /\ now = 0
    /\ config \in Days \cup {None}
    /\ identity = [i \in Identity |-> Unborn]
    /\ token = [t \in Token |-> None]
    /\ claims = [t \in Token |-> None]
    /\ denied = {}
    /\ lineage = [i \in Identity |-> Never]
    /\ signing = None
    /\ cursor = 0
    /\ window = None
    /\ events = 0

-----------------------------------------------------------------------------
(* What may be swept *)

\* Mutant: the period ends at the end of a day.
Midnight_Next(at, days) == Day * (at \div Day + 1) - Day * days

\* date(at, '-days days'): the beginning of a day.
Midnight(at, days) == Day * (at \div Day) - Day * days

\* A timestamp that is recorded and earlier than a cutoff.
Before(time, cutoff) == time # Never /\ time < cutoff

\* Mutant: the sweep looks at the expiry alone.
TokenExpired_NoGrace(t, at) == Before(token[t].expires, at)

\* The token's row may go.
TokenExpired(t, at) == Before(token[t].expires, at - Grace)

TokensOf(i) == {t \in Rows : token[t].owner = i}

\* Mutant: a sponsor is as good as any.
IdentityStale_Sponsors(i, at) ==
    LET cutoff == Midnight(at, config)
        Old(time) == time = Never \/ time < cutoff
    IN  /\ config # None /\ config \in MinDays..MaxDays
        /\ identity[i].created < cutoff
        /\ Old(identity[i].seen) /\ Old(lineage[i])
        /\ \A t \in TokensOf(i) :
                /\ token[t].created < cutoff
                /\ token[t].status = "active" => TokenExpired(t, at)
        /\ ~identity[i].keep

\* The row may go: the organisation has asked for it, the row, its activity
\* and its tokens are older than the period, no token is live, no other
\* identity is sponsored by it, and it is not pinned.
IdentityStale(i, at) ==
    LET cutoff == Midnight(at, config)
        Old(time) == time = Never \/ time < cutoff
    IN  /\ config # None /\ config \in MinDays..MaxDays
        /\ identity[i].created < cutoff
        /\ Old(identity[i].seen) /\ Old(lineage[i])
        /\ \A t \in TokensOf(i) :
                /\ token[t].created < cutoff
                /\ token[t].status = "active" => TokenExpired(t, at)
        /\ \A c \in Stored \ {i} : identity[c].sponsor # i
        /\ ~identity[i].keep

-----------------------------------------------------------------------------
(* The sweeps *)

\* The next rows, no more than a window holds.
NextRows ==
    LET behind == {i \in Stored : identity[i].rowid > cursor}
    IN  {i \in behind :
            Cardinality({j \in behind : identity[j].rowid < identity[i].rowid}) < Limit}

\* The window of some rows: the candidates among them and where it ends.
Window(seen, end) ==
    [ids |-> {i \in seen : IdentityStale(i, now)},
     after |-> IF end = {} THEN cursor ELSE Last(end),
     exhausted |-> Cardinality(seen) < Limit]

\* Mutant: the cursor moves to the last candidate.
ScanIdentities_LastCandidate ==
    /\ window = None
    /\ window' = Window(NextRows, {i \in NextRows : IdentityStale(i, now)})
    /\ UNCHANGED <<now, rows, claims, denied, signing, cursor, events>>

\* One more of the events that are bounded.
Count == events < MaxEvents /\ events' = events + 1

\* scanStaleIdentitiesWindow.
ScanIdentities ==
    /\ window = None
    /\ window' = Window(NextRows, NextRows)
    /\ UNCHANGED <<now, rows, claims, denied, signing, cursor, events>>

\* The scheduler goes on behind the window, and starts over after the last.
Advance ==
    /\ cursor' = IF window.exhausted THEN 0 ELSE window.after
    /\ window' = None

\* pruneStaleIdentitiesWindow: the candidates that are still there, and of
\* which the whole condition still holds, by the clock of this statement.
PruneIdentities ==
    /\ window # None
    /\ LET stale == {i \in window.ids \cap Stored : IdentityStale(i, now)}
       IN  identity' = [i \in Identity |-> IF i \in stale THEN Swept ELSE identity[i]]
    /\ Advance
    /\ UNCHANGED <<now, config, token, lineage, claims, denied, signing, events>>

\* The scheduler stops between the statements; it may have stored the new
\* cursor or not.
LoseWindow ==
    /\ window # None
    /\ Count
    /\ \/ Advance
       \/ window' = None /\ UNCHANGED cursor
    /\ UNCHANGED <<now, rows, claims, denied, signing>>

\* The statement of a token sweep, of a window or a batch: wherever its
\* cursor is, the rows it deletes have expired.
PruneTokens(t) ==
    /\ t \in Rows /\ TokenExpired(t, now)
    /\ token' = [token EXCEPT ![t] = None]
    /\ UNCHANGED <<now, config, identity, lineage, claims, denied, signing, sweep, events>>

-----------------------------------------------------------------------------
(* The routes *)

\* Identifiers are random and never drawn twice; which one is the next makes
\* no difference.
Next1(free) == {x \in free : \A y \in free : x <= y}

\* POST /v1/identities: the sponsor may be anything, also an identity that is
\* gone.
CreateIdentity(sponsor) ==
    /\ sponsor \in {Nobody} \cup {j \in Identity : identity[j] # Unborn}
    /\ \E i \in Next1({j \in Identity : identity[j] = Unborn}) :
        identity' = [identity EXCEPT ![i] =
            [rowid |-> NextRowId, created |-> now, seen |-> Never,
             sponsor |-> sponsor, keep |-> FALSE]]
    /\ UNCHANGED <<now, config, token, lineage, claims, denied, signing, sweep, events>>

\* PATCH /v1/identities/:id with lastActiveAt.
ReportActivity(i) ==
    /\ i \in Stored
    /\ identity' = [identity EXCEPT ![i].seen = now]
    /\ Count
    /\ UNCHANGED <<now, config, token, lineage, claims, denied, signing, sweep>>

\* PATCH /v1/identities/:id with metadata.retention.
Pin(i) ==
    /\ i \in Stored
    /\ identity' = [identity EXCEPT ![i].keep = ~@]
    /\ Count
    /\ UNCHANGED <<now, config, token, lineage, claims, denied, signing, sweep>>

\* DELETE /v1/identities/:id (IdentityLifecycle has its steps).
DeleteIdentity(i) ==
    /\ i \in Stored
    /\ identity' = [identity EXCEPT ![i] = Deleted]
    /\ LET gone == {t \in TokensOf(i) : token[t].status = "active"}
       IN  /\ denied' = denied \cup gone
           /\ token' = [t \in Token |->
                IF t \in gone THEN [token[t] EXCEPT !.status = "revoked"] ELSE token[t]]
    /\ Count
    /\ UNCHANGED <<now, config, lineage, claims, signing, sweep>>

\* Mutant: the time of issuance is rounded up.
BeginIssue_RoundsUp(i, lifetime, carries) ==
    /\ signing = None
    /\ i \in Stored
    /\ signing' = [owner |-> i, created |-> now + 1, lineage |-> carries,
                   expires |-> IF lifetime = Never THEN Never ELSE now + lifetime]
    /\ UNCHANGED <<now, rows, claims, denied, sweep, events>>

\* POST /v1/tokens and its kin find the identity and sign; tokens of some
\* classes carry a lineage.
BeginIssue(i, lifetime, carries) ==
    /\ signing = None
    /\ i \in Stored
    /\ signing' = [owner |-> i, created |-> now, lineage |-> carries,
                   expires |-> IF lifetime = Never THEN Never ELSE now + lifetime]
    /\ UNCHANGED <<now, rows, claims, denied, sweep, events>>

\* persistIssuedWithAudit: the identity is not looked up again.
PersistIssue ==
    /\ signing # None
    /\ \E t \in Next1(Token \ Issued) :
        /\ token' = [token EXCEPT ![t] =
                [owner |-> signing.owner, created |-> signing.created,
                 expires |-> signing.expires, status |-> "active"]]
        /\ claims' = [claims EXCEPT ![t] =
                [owner |-> signing.owner, expires |-> signing.expires]]
    /\ lineage' = IF signing.lineage
                  THEN [lineage EXCEPT ![signing.owner] = signing.created] ELSE lineage
    /\ signing' = None
    /\ UNCHANGED <<now, config, identity, denied, sweep, events>>

\* The request fails before it stores anything.
FailIssue ==
    /\ signing # None
    /\ signing' = None
    /\ UNCHANGED <<now, rows, claims, denied, sweep, events>>

\* Revocation: the denylist and, where there still is one, the row.
Revoke(t) ==
    /\ t \in Rows /\ token[t].status = "active"
    /\ denied' = denied \cup {t}
    /\ token' = [token EXCEPT ![t].status = "revoked"]
    /\ Count
    /\ UNCHANGED <<now, config, identity, lineage, claims, signing, sweep>>

\* An operator writes the organisation's row.
Configure(days) ==
    /\ config' = days
    /\ config' # config
    /\ Count
    /\ UNCHANGED <<now, identity, token, lineage, claims, denied, signing, sweep>>

Tick ==
    /\ now < MaxTime
    /\ now' = now + 1
    /\ UNCHANGED <<rows, claims, denied, signing, sweep, events>>

Next ==
    \/ ScanIdentities \/ PruneIdentities \/ LoseWindow
    \/ \E s \in Identity \cup {Nobody} : CreateIdentity(s)
    \/ \E i \in Identity :
        \/ ReportActivity(i) \/ Pin(i) \/ DeleteIdentity(i)
        \/ \E lifetime \in Lifetime, carries \in BOOLEAN : BeginIssue(i, lifetime, carries)
    \/ PersistIssue \/ FailIssue
    \/ \E t \in Token : Revoke(t) \/ PruneTokens(t)
    \/ \E days \in Days \cup {None} : Configure(days)
    \/ Tick

\* The scheduler keeps calling; nothing is asked of anybody else.
Spec ==
    /\ Init /\ [][Next]_vars
    /\ WF_vars(ScanIdentities) /\ WF_vars(PruneIdentities)

-----------------------------------------------------------------------------
(* Properties *)

\* A verifier would let the holder of t in.
Acceptable(t) ==
    /\ t \in Issued /\ t \notin denied
    /\ claims[t].expires = Never \/ claims[t].expires > now - Skew

Sweeps(i) == identity[i] # Swept /\ identity'[i] = Swept

\* An identity is never swept while a verifier still accepts one of its
\* tokens (retention-gc.ts:46), also one whose row the other sweep has had a
\* chance to delete, nor while another identity it sponsors stays behind
\* (retention-gc.ts:123); whatever happened since its window was read.
SweepSparesTheLiving ==
    [][ \A i \in Identity : Sweeps(i) =>
            /\ \A t \in Token : Acceptable(t) => claims[t].owner # i
            /\ \A c \in Stored' : identity'[c].sponsor # i ]_vars

\* Nothing is deleted early or unasked: the organisation has retention
\* enabled at the time of the deletion, and the whole period, of which a part
\* of a day counts for nothing, has passed since the identity was created,
\* last active and last issued a token that leaves a trace.
NeverEarly ==
    [][ \A i \in Identity : Sweeps(i) =>
            LET Passed(time) == time = Never \/ now - time > Day * config
            IN  /\ config # None /\ config \in MinDays..MaxDays
                /\ ~identity[i].keep
                /\ Passed(identity[i].created) /\ Passed(identity[i].seen)
                /\ Passed(lineage[i]) ]_vars

\* No identity stays for ever while it could go: the sweep comes round,
\* whatever rows are inserted and deleted around its cursor, rowids used
\* again and windows lost, and chains of sponsors unwind.
StaleRowsDrain ==
    \A i \in Identity : []<>~(i \in Stored /\ IdentityStale(i, now))
=============================================================================
