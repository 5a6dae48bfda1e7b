----------------------------- MODULE KeyRotation -----------------------------
(***************************************************************************)
(* Rotation of the signing key and the verifiers that cache the key set    *)
(* (packages/server/src/lib/signing-keys.ts and routes/jwks.ts on the side *)
(* of the service, the SDK's TokenVerifier in                              *)
(* packages/sdk/typescript/src/verify.ts on the other).                    *)
(*                                                                         *)
(* The service publishes the keys of three slots, read at boot: it signs   *)
(* with `current`, `next` is announced ahead of a rotation, `previous` is  *)
(* kept until what it signed has run out.  The operator moves keys between *)
(* the slots; the variable hurried remembers that one of the waits of the  *)
(* runbook in docs/self-hosting.md was skipped, as an emergency demands.   *)
(*                                                                         *)
(* One TokenVerifier is modelled, with the calls of verify that share its  *)
(* cache.  A call fetches the key set where the cache is stale and once    *)
(* more where the key is unknown; answers may arrive late, out of order or *)
(* never.  Importing a key and checking a signature take no time.          *)
(***************************************************************************)
EXTENDS Integers, FiniteSets

CONSTANTS
    Key,        \* key pairs the operator may generate
    Call,       \* calls of verify that may be in flight at once
    First,      \* the key of the first boot
    NoKey,      \* an empty slot
    Lifetime,   \* the lifetimes a token may be issued with
    Longest,    \* T of the runbook: no finite token lives longer
    CacheTTL,   \* cacheTtlMs of the verifier
    Timeout,    \* jwksTimeoutMs of the verifier: a fetch is aborted
    Wait,       \* C of the runbook: how long a staged key is announced
    Skew,       \* leeway of the verifier past the expiry of a token
    MaxTime,    \* bound of the clock, for model checking
    Forever     \* the expiry of an indefinite token

ASSUME KeyAssumption == First \in Key /\ NoKey \notin Key
ASSUME TimeAssumption ==
    /\ {CacheTTL, Timeout, Wait, Skew, MaxTime, Longest} \subseteq Nat
    /\ Lifetime \subseteq 1..Longest
    /\ Forever \in Nat /\ Forever > MaxTime + Longest
    /\ CacheTTL <= Wait

VARIABLES
    now,
    slots,      \* the key of each slot of the running service
    stagedAt,   \* when the key in `next` was announced
    promotedAt, \* when the key in `previous` was replaced
    withdrawn,  \* withdrawn[k]: when k was last taken from the key set
    hurried,    \* a wait of the runbook was skipped
    lastExp,    \* lastExp[k]: the latest expiry of the finite tokens of k
    indefinite, \* indefinite[k]: an indefinite token signed by k is in use
    cache,      \* the verifier's copy of the key set and its end
    call,       \* call[c]: what a call of verify is about
    verdict     \* what the last step decided about a token, if anything

service  == <<slots, stagedAt, promotedAt, withdrawn, hurried>>
tokens   == <<lastExp, indefinite>>
verifier == <<cache, call>>
vars     == <<now, service, tokens, verifier, verdict>>

Never == -1
Idle  == [at |-> "idle", kid |-> NoKey, exp |-> 0, since |-> 0,
          forced |-> FALSE, keys |-> {}]
NoVerdict == [result |-> "none", kid |-> NoKey, exp |-> 0]

Larger(a, b) == IF a < b THEN b ELSE a

-----------------------------------------------------------------------------
(* The service. *)

\* The set of every slot without the empty ones.
Published_WithEmpty(s) == {s.current, s.next, s.previous}
Published_NoPrevious(s) == {s.current, s.next} \ {NoKey}
Published_NoNext(s) == {s.current, s.previous} \ {NoKey}
Published(s) == {s.current, s.next, s.previous} \ {NoKey}

\* The lifetime of a token is counted from its issuance; an indefinite one
\* has a fixed expiry.
Sign(life) ==
    /\ now + life <= MaxTime + Longest
    /\ lastExp' = [lastExp EXCEPT ![slots.current] = Larger(@, now + life)]
    /\ verdict' = NoVerdict
    /\ UNCHANGED <<now, service, indefinite, verifier>>

SignIndefinite ==
    /\ indefinite' = [indefinite EXCEPT ![slots.current] = TRUE]
    /\ verdict' = NoVerdict
    /\ UNCHANGED <<now, service, lastExp, verifier>>

-----------------------------------------------------------------------------
(* The operator. *)

\* A new key is announced.  It has never signed anything.
Stage(k) ==
    /\ slots.next = NoKey
    /\ k \notin Published(slots) /\ withdrawn[k] = Never
    /\ slots' = [slots EXCEPT !.next = k]
    /\ stagedAt' = now
    /\ verdict' = NoVerdict
    /\ UNCHANGED <<now, promotedAt, withdrawn, hurried, tokens, verifier>>

Promote ==
    /\ slots.next # NoKey /\ slots.previous = NoKey
    /\ slots' = [current |-> slots.next, next |-> NoKey, previous |-> slots.current]
    /\ stagedAt' = 0 /\ promotedAt' = now
    /\ hurried' = (hurried \/ now < stagedAt + Wait)
    /\ verdict' = NoVerdict
    /\ UNCHANGED <<now, withdrawn, tokens, verifier>>

\* The holder of an indefinite token of the previous key gets a new one.
Reissue ==
    /\ slots.previous # NoKey
    /\ indefinite[slots.previous]
    /\ indefinite' = [indefinite EXCEPT ![slots.previous] = FALSE,
                                        ![slots.current] = TRUE]
    /\ verdict' = NoVerdict
    /\ UNCHANGED <<now, service, lastExp, verifier>>

Retire ==
    /\ slots.previous # NoKey
    /\ withdrawn' = [withdrawn EXCEPT ![slots.previous] = now]
    /\ slots' = [slots EXCEPT !.previous = NoKey]
    /\ hurried' = (hurried \/ now < promotedAt + Longest
                           \/ indefinite[slots.previous])
    /\ promotedAt' = 0
    /\ verdict' = NoVerdict
    /\ UNCHANGED <<now, stagedAt, tokens, verifier>>

-----------------------------------------------------------------------------
(* The verifier. *)

Fetch(c, kid, exp, again) ==
    /\ call' = [call EXCEPT ![c] = [at |-> "fetching", kid |-> kid, exp |-> exp,
                                    since |-> now, forced |-> again, keys |-> {}]]
    /\ verdict' = NoVerdict

Accept(c, kid, exp) ==
    /\ call' = [call EXCEPT ![c] = Idle]
    /\ verdict' = [result |-> "accepted", kid |-> kid, exp |-> exp]

UnknownKey(c, kid, exp) ==
    /\ call' = [call EXCEPT ![c] = Idle]
    /\ verdict' = [result |-> "unknown", kid |-> kid, exp |-> exp]

Fail(c) ==
    /\ call' = [call EXCEPT ![c] = Idle]
    /\ verdict' = NoVerdict

\* The key is there: the claims are checked with the leeway.
Judge(c, kid, exp) ==
    \/ exp + Skew > now /\ Accept(c, kid, exp)
    \/ exp + Skew <= now /\ Fail(c)

\* verify(token): the longest-lived finite or the indefinite token of a key.
\* A fresh cache answers at once; where it lacks the key the set is fetched.
Begin(c, kid, exp) ==
    /\ call[c].at = "idle"
    /\ \/ exp = lastExp[kid] /\ exp > 0
       \/ exp = Forever /\ indefinite[kid]
    /\ IF now < cache.expiresAt /\ kid \in cache.keys
       THEN Judge(c, kid, exp)
       ELSE Fetch(c, kid, exp, now < cache.expiresAt)
    /\ UNCHANGED <<now, service, tokens, cache>>

\* The service answers a request for the key set.
Answer(c) ==
    /\ call[c].at = "fetching"
    /\ call' = [call EXCEPT ![c] = [@ EXCEPT !.at = "answered",
                                             !.keys = Published(slots)]]
    /\ verdict' = NoVerdict
    /\ UNCHANGED <<now, service, tokens, cache>>

\* The cache is replaced, its end counted from the moment the request was
\* sent.
Remember_FromArrival(c) ==
    cache' = [keys |-> call[c].keys, expiresAt |-> now + CacheTTL]
Remember(c) ==
    cache' = [keys |-> call[c].keys, expiresAt |-> call[c].since + CacheTTL]

\* A key set that lacks the key is fetched anew, unless it was fetched for
\* that reason already.
MayInsist(c) == ~call[c].forced

\* The answer arrives.
Receive(c) ==
    LET kid == call[c].kid
        exp == call[c].exp
    IN  /\ call[c].at = "answered"
        /\ Remember(c)
        /\ \/ kid \in call[c].keys /\ Judge(c, kid, exp)
           \/ kid \notin call[c].keys /\ MayInsist(c) /\ Fetch(c, kid, exp, TRUE)
           \/ kid \notin call[c].keys /\ ~MayInsist(c) /\ UnknownKey(c, kid, exp)
        /\ UNCHANGED <<now, service, tokens>>

\* A fetch fails or is aborted at its timeout.
Abort(c) ==
    /\ call[c].at # "idle"
    /\ Fail(c)
    /\ UNCHANGED <<now, service, tokens, cache>>

\* Time passes: no fetch outlives its timeout.
Tick ==
    /\ now < MaxTime
    /\ \A c \in Call : call[c].at # "idle" => now < call[c].since + Timeout
    /\ now' = now + 1
    /\ verdict' = NoVerdict
    /\ UNCHANGED <<service, tokens, verifier>>

-----------------------------------------------------------------------------
Init ==
    /\ now = 0
    /\ slots = [current |-> First, next |-> NoKey, previous |-> NoKey]
    /\ stagedAt = 0 /\ promotedAt = 0
    /\ withdrawn = [k \in Key |-> Never]
    /\ hurried = FALSE
    /\ lastExp = [k \in Key |-> 0]
    /\ indefinite = [k \in Key |-> FALSE]
    /\ cache = [keys |-> {}, expiresAt |-> 0]
    /\ call = [c \in Call |-> Idle]
    /\ verdict = NoVerdict

Settle(c) == Answer(c) \/ Receive(c) \/ Abort(c)

Next ==
    \/ Tick
    \/ \E life \in Lifetime : Sign(life)
    \/ SignIndefinite \/ Promote \/ Reissue \/ Retire
    \/ \E k \in Key : Stage(k)
    \/ \E c \in Call : \/ \E k \in Key : Begin(c, k, lastExp[k]) \/ Begin(c, k, Forever)
                       \/ Settle(c)

Spec == Init /\ [][Next]_vars

-----------------------------------------------------------------------------
(* Properties. *)

CallRecord == [at : {"idle", "fetching", "answered"}, kid : Key \cup {NoKey},
               exp : Nat, since : Nat, forced : BOOLEAN, keys : SUBSET Key]

\* Every variable keeps its type; in particular the key set the verifier
\* caches holds keys only.
TypeOK ==
    /\ now \in 0..MaxTime
    /\ slots \in [current : Key, next : Key \cup {NoKey}, previous : Key \cup {NoKey}]
    /\ stagedAt \in Nat /\ promotedAt \in Nat
    /\ withdrawn \in [Key -> Nat \cup {Never}]
    /\ hurried \in BOOLEAN
    /\ lastExp \in [Key -> 0..(MaxTime + Longest)]
    /\ indefinite \in [Key -> BOOLEAN]
    /\ cache \in [keys : SUBSET Key, expiresAt : Nat]
    /\ call \in [Call -> CallRecord]
    /\ verdict \in [result : {"none", "accepted", "unknown"},
                    kid : Key \cup {NoKey}, exp : Nat]

\* A retired key dies out: however fetches overlap and whichever answer is
\* the last to replace the cache, no token is accepted on the word of a key
\* that left the key set longer ago than a copy lasts or an answer may be on
\* its way, in an emergency either.
RetiredKeysDieOut ==
    verdict.result = "accepted" /\ withdrawn[verdict.kid] # Never
        => now < withdrawn[verdict.kid] + Larger(CacheTTL, Timeout + 1)

\* A rotation by the runbook refuses nobody: no verifier ever answers that
\* the key of a token is unknown while that token is valid.
RotationRefusesNobody ==
    verdict.result = "unknown" /\ ~hurried
        => verdict.exp <= now \/ (verdict.exp = Forever /\ ~indefinite[verdict.kid])

\* What the first wait is for: once a key signs, every copy of the key set
\* that is still in use has it, so no verifier has to fetch again.
Valid(k) == lastExp[k] > now \/ indefinite[k]

StagedAhead ==
    ~hurried /\ now < cache.expiresAt => \A k \in Key : Valid(k) => k \in cache.keys

=============================================================================
