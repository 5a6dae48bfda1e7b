----------------------------- MODULE EvidenceLog -----------------------------
(***************************************************************************)
(* What the attestation ledger promises, and nothing about requests, rows  *)
(* or hashes.  Each organisation has a log of events that only grows.  An  *)
(* identity is recorded once, when it is created.  A grant is recorded     *)
(* when it is given and can be redeemed once: the evidence of all its      *)
(* commits is recorded in one piece, in the log the grant is in, and is    *)
(* marked as late if the grant is.                                         *)
(***************************************************************************)
EXTENDS Naturals, Sequences

CONSTANTS
    Org,       \* organisations, one log each
    Identity,  \* agents
    Grant,     \* attestation grants, named by their jti
    Commits,   \* how many commits one redemption may be evidence for
    NoOrg      \* where a grant is before it is given

VARIABLES
    log,       \* log[o]: the events of organisation o
    created,   \* the identities recorded so far
    home,      \* home[g]: the organisation of grant g
    phase      \* phase[g]: none, open, late or redeemed

evidence == <<log, created, home, phase>>

Label(p) == IF p = "late" THEN "late" ELSE "issued"

Init ==
    /\ log = [o \in Org |-> <<>>]
    /\ created = {}
    /\ home = [g \in Grant |-> NoOrg]
    /\ phase = [g \in Grant |-> "none"]

(* An identity comes into being. *)
Create(o, i) ==
    /\ i \notin created
    /\ log' = [log EXCEPT ![o] = Append(@, [kind |-> "created", of |-> i])]
    /\ created' = created \cup {i}
    /\ UNCHANGED <<home, phase>>

(* A grant is given, in time or late. *)
Give(o, g, p) ==
    /\ phase[g] = "none"
    /\ log' = [log EXCEPT ![o] =
                 Append(@, [kind |-> IF p = "late" THEN "late" ELSE "granted", of |-> g])]
    /\ home' = [home EXCEPT ![g] = o]
    /\ phase' = [phase EXCEPT ![g] = p]
    /\ UNCHANGED created

(* A grant is redeemed for n commits. *)
Redeem(g, n) ==
    /\ phase[g] \in {"open", "late"}
    /\ log' = [log EXCEPT ![home[g]] =
                 @ \o [k \in 1..n |-> [kind |-> Label(phase[g]), of |-> g]]]
    /\ phase' = [phase EXCEPT ![g] = "redeemed"]
    /\ UNCHANGED <<created, home>>

Next ==
    \/ \E o \in Org, i \in Identity : Create(o, i)
    \/ \E o \in Org, g \in Grant, p \in {"open", "late"} : Give(o, g, p)
    \/ \E g \in Grant, n \in Commits : Redeem(g, n)

Spec == Init /\ [][Next]_evidence

=============================================================================
