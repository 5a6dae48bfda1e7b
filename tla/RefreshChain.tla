---------------------------- MODULE RefreshChain ----------------------------
(***************************************************************************)
(* What token refresh promises of a login session, and nothing about how   *)
(* the service keeps the promise.  A session is a chain of refresh tokens  *)
(* of which at most one, the last, can still be exchanged.  Exchanging it  *)
(* replaces it by a token never seen before.  A session without an         *)
(* exchangeable token never has one again.                                 *)
(*                                                                         *)
(* A refresh token is named by the token pair it was issued in.            *)
(***************************************************************************)

CONSTANTS
    Pair,      \* token pairs: every issuance and every rotation makes one
    Session,   \* the chains, named by the `sid` claim their pairs share
    NoPair     \* "no exchangeable refresh token"

VARIABLES
    live,      \* live[s]: the exchangeable refresh token of session s
    opened,    \* the sessions in which a refresh token was ever issued
    spent      \* the refresh tokens ever issued

chain == <<live, opened, spent>>

Init ==
    /\ live = [s \in Session |-> NoPair]
    /\ opened = {}
    /\ spent = {}

(* A login: the first token of a session. *)
Open(s, p) ==
    /\ s \notin opened
    /\ p \notin spent
    /\ live' = [live EXCEPT ![s] = p]
    /\ opened' = opened \cup {s}
    /\ spent' = spent \cup {p}

(* A refresh: the exchangeable token of s gives way to a new one. *)
Rotate(s, p) ==
    /\ live[s] # NoPair
    /\ p \notin spent
    /\ live' = [live EXCEPT ![s] = p]
    /\ spent' = spent \cup {p}
    /\ UNCHANGED opened

(* Revocation, reuse detection or expiry: the sessions in S are over. *)
End(S) ==
    /\ live' = [s \in Session |-> IF s \in S THEN NoPair ELSE live[s]]
    /\ UNCHANGED <<opened, spent>>

Next ==
    \/ \E s \in Session, p \in Pair : Open(s, p) \/ Rotate(s, p)
    \/ \E S \in SUBSET Session : End(S)

Spec == Init /\ [][Next]_chain

=============================================================================
