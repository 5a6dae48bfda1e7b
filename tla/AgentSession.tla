---------------------------- MODULE AgentSession ----------------------------
(***************************************************************************)
(* The SDK's AgentTokenSession (packages/sdk/typescript/src/               *)
(* agent-token-session.ts, over client.ts), which hands out an agent token *)
(* and renews it behind the caller's back, against the service that opens, *)
(* rotates and ends login sessions.                                        *)
(*                                                                         *)
(* The service is the abstract RefreshChain, which TokenLifecycle is shown *)
(* to implement; a request is answered in one step of it.  The network may *)
(* break a connection before or after the service acted, and a request     *)
(* whose caller is gone may still reach the service later.                 *)
(*                                                                         *)
(* The client runs on one thread: a method runs up to its first await in   *)
(* one step.  All callers that arrive while a renewal is in flight share   *)
(* its promise.                                                            *)
(***************************************************************************)
EXTENDS Integers, FiniteSets

CONSTANTS
    Pair,        \* token pairs the service may sign
    Caller,      \* concurrent callers of one AgentTokenSession
    Request,     \* HTTP requests that may be under way
    NoPair, None,
    AccessTTL, RefreshTTL,   \* lifetimes of the tokens of a pair
    Window,      \* refreshWindowMs: renew when no more than this is left
    MaxTime,     \* bound of the clock
    MaxLosses    \* bound on broken connections

ASSUME NamesAssumption ==
    NoPair \notin Pair /\ {None, "settled"} \cap Request = {} /\ None # "settled"
ASSUME TimesAssumption ==
    {AccessTTL, RefreshTTL, Window, MaxTime, MaxLosses} \subseteq Nat

VARIABLES
    now,
    live, opened, spent,   \* the sessions, as in RefreshChain
    claims,      \* claims[p]: the session and the two expiries of pair p
    parentGone,  \* the workspace token of the client was revoked
    req,         \* req[q]: an HTTP request and, in the end, its answer
    current,     \* #current: the pair the session holds
    flight,      \* #inflight: nothing, a settled promise, or a request
    caller,      \* caller[c]: idle, or waiting for the promise
    outcome,     \* how the last promise settled
    losses,      \* how many connections broke
    lossy,       \* sessions of which a broken connection carried a refresh
    stopped,     \* sessions an operator revoked
    replayed     \* sessions the service ended because of reuse

service == <<live, opened, spent, claims>>
client  == <<current, flight, caller, outcome>>
ghost   == <<losses, lossy, stopped, replayed>>
vars    == <<now, service, parentGone, req, client, ghost>>

\* A session is named by the pair that opened it.
Chain == INSTANCE RefreshChain WITH Session <- Pair

Unsigned == [sid |-> NoPair, access |-> 0, refresh |-> 0]
Idle     == [at |-> "idle", asks |-> "issue", pair |-> NoPair, says |-> "pair"]

Says == {"pair", "invalid_api_key", "Token expired",
         "Refresh token has been revoked", "unavailable", "broken"}

Init ==
    /\ now = 0
    /\ Chain!Init
    /\ claims = [p \in Pair |-> Unsigned]
    /\ parentGone = FALSE
    /\ req = [q \in Request |-> Idle]
    /\ current = NoPair
    /\ flight = None
    /\ caller = [c \in Caller |-> "idle"]
    /\ outcome = [says |-> "pair", pair |-> NoPair]
    /\ losses = 0
    /\ lossy = {} /\ stopped = {} /\ replayed = {}

-----------------------------------------------------------------------------
(* The client. *)

\* shouldRotate.
Near(exp) == exp - now <= Window

Send(asks) ==
    \E q \in Request :
        /\ req[q].at = "idle"
        /\ req' = [req EXCEPT ![q] = [at |-> "sent", asks |-> asks,
                                      pair |-> current, says |-> "pair"]]
        /\ flight' = q

\* A pair is exchanged while its refresh token has more than the window
\* left, else a new session is opened with the workspace token.  (A durable
\* token has no refresh token and is issued anew, agent-token-session.ts:88:
\* the sessions here are those of refreshable pairs.)
Rotate ==
    IF current = NoPair \/ Near(claims[current].refresh)
    THEN Send("issue") ELSE Send("refresh")

EnsureFresh ==
    IF current = NoPair THEN Send("issue")
    ELSE IF Near(claims[current].access) THEN Rotate
    ELSE flight' = "settled" /\ UNCHANGED req

Join == flight # None /\ UNCHANGED <<flight, req>>

Wait(c) ==
    /\ caller[c] = "idle"
    /\ caller' = [caller EXCEPT ![c] = "waiting"]
    /\ UNCHANGED <<now, service, parentGone, current, outcome, ghost>>

\* Mutant: callers do not share a promise.
GetTokenPair_Alone(c) == Wait(c) /\ EnsureFresh

GetTokenPair(c) ==
    /\ Wait(c)
    /\ Join \/ (flight = None /\ EnsureFresh)

\* Mutant: a forced renewal does not look for one in flight.
ForceRefresh_Alone(c) == Wait(c) /\ Rotate

ForceRefresh(c) ==
    /\ Wait(c)
    /\ Join \/ (flight = None /\ Rotate)

\* The promise settles: all who share it have their answer, and the next
\* caller starts anew.
Conclude(says, p) ==
    /\ outcome' = [says |-> says, pair |-> p]
    /\ caller' = [c \in Caller |-> "idle"]
    /\ flight' = None

\* The promise of a call that found the current pair fresh enough.
Settle ==
    /\ flight = "settled"
    /\ Conclude("pair", current)
    /\ UNCHANGED <<now, service, parentGone, req, current, ghost>>

Reissuable == {"token_expired", "token_revoked"}

\* Mutant: any failure is answered by another try.
MayReissue_Always(r) == r.says # "pair"

\* A refused refresh is followed by an issuance, if the refusal has one of
\* the two codes that the client turns into its own errors.
MayReissue(r) == r.asks = "refresh" /\ r.says \in Reissuable

\* Mutant: the pair held before wins over the pair received.
Keep_Former(r) == IF r.asks = "refresh" THEN current ELSE r.pair

\* Mutant: the answer to an issuance is kept as it was wrapped.
Keep_Anything(r) == r

\* The answer is the new pair; merging adds fields of no interest here.
Keep(r) == r.pair

Receive(q) ==
    /\ flight = q /\ req[q].at = "answered"
    /\ IF MayReissue(req[q])
       THEN /\ req' = [req EXCEPT ![q] = [Idle EXCEPT !.at = "sent"]]
            /\ UNCHANGED client
       ELSE /\ req' = [req EXCEPT ![q] = Idle]
            /\ current' = IF req[q].says = "pair" THEN Keep(req[q]) ELSE current
            /\ Conclude(req[q].says,
                        IF req[q].says = "pair" THEN req[q].pair ELSE NoPair)
    /\ UNCHANGED <<now, service, parentGone, ghost>>

\* fetch fails.  What was sent may still arrive, or may have arrived.
Break(q) ==
    /\ flight = q /\ losses < MaxLosses
    /\ losses' = losses + 1
    /\ lossy' = IF req[q].asks = "refresh"
                THEN lossy \cup {claims[current].sid} ELSE lossy
    /\ \/ req' = [req EXCEPT ![q] = Idle]
       \/ (req[q].at = "sent" /\ UNCHANGED req)
    /\ Conclude("broken", NoPair)
    /\ UNCHANGED <<now, service, parentGone, current, stopped, replayed>>

-----------------------------------------------------------------------------
(* The service. *)

\* An answer nobody waits for is dropped.
Reply(q, says, p) ==
    req' = [req EXCEPT ![q] =
               IF flight = q
               THEN [@ EXCEPT !.at = "answered", !.says = says, !.pair = p]
               ELSE Idle]

Signed(s, p) ==
    claims' = [claims EXCEPT ![p] =
                  [sid |-> s, access |-> now + AccessTTL,
                   refresh |-> now + RefreshTTL]]

Unchanging == UNCHANGED <<live, opened, spent, claims, replayed>>

\* Every signature makes a pair not seen before; which one is all the same.
NewPair == CHOOSE p \in Pair : p \notin spent

\* POST /v1/tokens/agent.
Issue(q) ==
    /\ spent # Pair
    /\ Chain!Open(NewPair, NewPair)
    /\ Signed(NewPair, NewPair)
    /\ Reply(q, "pair", NewPair)
    /\ UNCHANGED replayed

Sid(q) == claims[req[q].pair].sid
Expired(p) == claims[p].refresh <= now

\* POST /v1/tokens/refresh, for an unexpired token.
Exchange(q) ==
    /\ live[Sid(q)] = req[q].pair
    /\ spent # Pair
    /\ Chain!Rotate(Sid(q), NewPair)
    /\ Signed(Sid(q), NewPair)
    /\ Reply(q, "pair", NewPair)
    /\ UNCHANGED replayed

Reuse(q) ==
    /\ live[Sid(q)] # req[q].pair
    /\ Chain!End({Sid(q)})
    /\ Reply(q, "Refresh token has been revoked", NoPair)
    /\ replayed' = IF live[Sid(q)] # NoPair
                   THEN replayed \cup {Sid(q)} ELSE replayed
    /\ UNCHANGED claims

Refresh(q) ==
    IF Expired(req[q].pair)
    THEN Reply(q, "Token expired", NoPair) /\ Unchanging
    ELSE Exchange(q) \/ Reuse(q)

\* Authentication of the workspace token comes first, for both operations.
Handle(q) ==
    IF parentGone THEN Reply(q, "invalid_api_key", NoPair) /\ Unchanging
    ELSE IF req[q].asks = "issue" THEN Issue(q) ELSE Refresh(q)

\* Overload, or any failure before the first write.
Overload(q) == Reply(q, "unavailable", NoPair) /\ Unchanging

Serve(q) ==
    /\ req[q].at = "sent"
    /\ Handle(q) \/ Overload(q)
    /\ UNCHANGED <<now, parentGone, client, losses, lossy, stopped>>

-----------------------------------------------------------------------------
(* Operators and time. *)

RevokeSession(s) ==
    /\ live[s] # NoPair
    /\ Chain!End({s})
    /\ stopped' = stopped \cup {s}
    /\ UNCHANGED <<now, claims, parentGone, req, client, losses, lossy, replayed>>

RevokeParent ==
    /\ ~parentGone
    /\ parentGone' = TRUE
    /\ UNCHANGED <<now, service, req, client, ghost>>

\* A settled promise is read before anything else happens to the client.
Tick ==
    /\ now < MaxTime /\ flight # "settled"
    /\ now' = now + 1
    /\ UNCHANGED <<service, parentGone, req, client, ghost>>

Next ==
    \/ \E c \in Caller : GetTokenPair(c) \/ ForceRefresh(c)
    \/ \E q \in Request : Receive(q) \/ Break(q) \/ Serve(q)
    \/ Settle
    \/ \E s \in Pair : RevokeSession(s)
    \/ RevokeParent
    \/ Tick

Spec == Init /\ [][Next]_vars

\* The client's thread runs, and a request that is waited for is served.
\* No fairness for a request nobody waits for, nor for broken connections.
Fairness ==
    /\ WF_vars(Settle)
    /\ \A q \in Request : WF_vars(Receive(q)) /\ WF_vars(flight = q /\ Serve(q))

FairSpec == Spec /\ Fairness

-----------------------------------------------------------------------------
(* Properties. *)

\* Every variable has the values its comment promises.
TypeOK ==
    /\ now \in Nat
    /\ live \in [Pair -> Pair \cup {NoPair}]
    /\ opened \subseteq Pair /\ spent \subseteq Pair
    /\ claims \in [Pair -> [sid : Pair \cup {NoPair}, access : Nat, refresh : Nat]]
    /\ parentGone \in BOOLEAN
    /\ req \in [Request -> [at : {"idle", "sent", "answered"},
                            asks : {"issue", "refresh"},
                            pair : Pair \cup {NoPair}, says : Says]]
    /\ current \in spent \cup {NoPair}
    /\ flight \in Request \cup {None, "settled"}
    /\ caller \in [Caller -> {"idle", "waiting"}]
    /\ outcome \in [says : Says, pair : Pair \cup {NoPair}]
    /\ losses \in 0..MaxLosses
    /\ lossy \subseteq Pair /\ stopped \subseteq Pair /\ replayed \subseteq Pair

\* Sharing one flight keeps callers from presenting a refresh token twice:
\* the service ends no more sessions for reuse than connections broke.
LossesPayForReplays == Cardinality(replayed) <= losses

\* The pair the client holds is the one the service would exchange, unless
\* an answer is on its way, a connection broke in that session, or an
\* operator ended it.
InStep ==
    LET s == claims[current].sid IN
    \/ current = NoPair
    \/ flight \in Request /\ req[flight].at = "answered"
    \/ s \in lossy \cup stopped
    \/ live[s] = current

\* The sessions that the service would go on with, and the client too.
Usable == {s \in opened : live[s] # NoPair /\ ~Near(claims[live[s]].refresh)}

\* The client opens a new session only when it cannot go on with the former:
\* of the sessions that could still be renewed all but one are paid for by
\* a broken connection.
OneUsableSession == Cardinality(Usable) <= 1 + losses

\* Nobody waits for a token forever: a caller gets a pair or an error, also
\* when the service fails every time.
CallersAnswered == \A c \in Caller : caller[c] = "waiting" ~> caller[c] = "idle"

\* client-tokens.test.ts:550: "re-issues through the workspace token when
\* refresh is revoked", so that this refusal reaches no caller.
RevokedRefreshIsReissued == outcome.says # "Refresh token has been revoked"

=============================================================================
