------------------------- MODULE AgentSession_proofs -------------------------
(***************************************************************************)
(* Proofs about the client session: for any number of callers, requests    *)
(* and pairs, any lifetimes, and any number of broken connections.         *)
(*                                                                         *)
(* The argument: only one request at a time asks for the pair the client   *)
(* holds, and whatever else is on its way was given up when its connection *)
(* broke, which its session remembers.  So the service finds a token used  *)
(* only in a session that lost a connection, and otherwise the pair it     *)
(* would exchange is the one held or the one being answered.  Sessions are *)
(* counted the same way: one is held, the others were paid for.            *)
(***************************************************************************)
EXTENDS AgentSession, FiniteSetTheorems, TLAPS

-----------------------------------------------------------------------------
(* The invariant *)

\* Either the service would exchange p, or its session was revoked or has had
\* a connection break.
Good(p) == claims[p].sid \in lossy \cup stopped \/ live[claims[p].sid] = p

\* The answer that the client waits for is there.
Answered == flight \in Request /\ req[flight].at = "answered"

\* Pairs and sessions: every pair that is held, asked about or answered was
\* signed for a session that was opened.
PairsAreSigned ==
    /\ opened \subseteq spent
    /\ \A s \in Pair : live[s] # NoPair => s \in opened /\ live[s] \in spent
    /\ \A p \in spent : claims[p].sid \in opened
    /\ \A q \in Request :
        /\ req[q].pair \in spent \cup {NoPair}
        /\ req[q].at = "sent" /\ req[q].asks = "refresh" => req[q].pair \in spent
        /\ req[q].at = "answered" /\ req[q].says = "pair" => req[q].pair \in spent

\* The request of the flight asks about the pair that is held; what else is
\* on its way was given up when its connection broke.
OneFlight ==
    \A q \in Request :
        /\ flight = q => /\ req[q].at # "idle"
                         /\ req[q].at = "sent" => req[q].pair = current
                         /\ req[q].asks = "refresh" => current # NoPair
        /\ flight # q => /\ req[q].at # "answered"
                         /\ req[q].at = "sent" /\ req[q].asks = "refresh" =>
                                claims[req[q].pair].sid \in lossy

\* The pair that is held is good until the answer to its exchange is there,
\* and the pair that is answered is good.
GoodPairs ==
    /\ \/ current = NoPair \/ Good(current)
       \/ Answered /\ req[flight].asks = "refresh" /\ req[flight].says = "pair"
    /\ Answered /\ req[flight].says = "pair" => Good(req[flight].pair)

\* Ends of sessions.
EndsArePaid ==
    /\ \A s \in stopped : live[s] = NoPair
    /\ replayed \subseteq lossy
    /\ IsFiniteSet(lossy) /\ Cardinality(lossy) <= losses
    /\ stopped \subseteq opened /\ lossy \subseteq opened

SessionInvariant ==
    TypeOK /\ PairsAreSigned /\ OneFlight /\ GoodPairs /\ EndsArePaid

-----------------------------------------------------------------------------
(* Operators *)

\* No answer of the service has a code that the client would reissue for.
LEMMA NoReissue ==
    ASSUME TypeOK, NEW q \in Request
    PROVE  ~MayReissue(req[q])
<1>1. req[q].says \in Says
    BY DEF TypeOK
<1> QED
    BY <1>1 DEF MayReissue, Reissuable, Says

LEMMA FreshPair ==
    ASSUME TypeOK, spent # Pair
    PROVE  NewPair \in Pair /\ NewPair \notin spent
<1>1. \E p \in Pair : p \notin spent
    BY DEF TypeOK
<1> QED
    BY <1>1 DEF NewPair

\* A reply changes one request: the client has its answer, or nobody has.
LEMMA Replied ==
    ASSUME TypeOK, NEW q \in Request, req[q].at = "sent",
           NEW says \in Says, NEW p \in Pair \cup {NoPair}, Reply(q, says, p)
    PROVE  /\ req' \in [Request -> [at : {"idle", "sent", "answered"},
                                    asks : {"issue", "refresh"},
                                    pair : Pair \cup {NoPair}, says : Says]]
           /\ \A r \in Request \ {q} : req'[r] = req[r]
           /\ flight = q => /\ req'[q].at = "answered" /\ req'[q].asks = req[q].asks
                            /\ req'[q].says = says /\ req'[q].pair = p
           /\ flight # q => req'[q] = Idle
<1> DEFINE a == [req[q] EXCEPT !.at = "answered", !.says = says, !.pair = p]
           Record == [at : {"idle", "sent", "answered"}, asks : {"issue", "refresh"},
                      pair : Pair \cup {NoPair}, says : Says]
<1>1. req \in [Request -> Record]
    BY DEF TypeOK
<1>2. a \in Record /\ a.at = "answered" /\ a.asks = req[q].asks /\ a.says = says /\ a.pair = p
    BY <1>1
<1>3. Idle \in Record
    BY DEF Idle, Says
<1>4. req' = [req EXCEPT ![q] = IF flight = q THEN a ELSE Idle]
    BY DEF Reply
<1> HIDE DEF a, Record
<1>5. /\ req' \in [Request -> Record]
      /\ \A r \in Request \ {q} : req'[r] = req[r]
      /\ req'[q] = IF flight = q THEN a ELSE Idle
    BY <1>1, <1>2, <1>3, <1>4
<1> QED
    BY <1>2, <1>5 DEF Record

-----------------------------------------------------------------------------
(* Initial states *)

LEMMA InitInvariant == Init => SessionInvariant
<1> SUFFICES ASSUME Init PROVE SessionInvariant
    OBVIOUS
<1> USE NamesAssumption, TimesAssumption
<1>1. TypeOK
    <2>1. req \in [Request -> [at : {"idle", "sent", "answered"},
                              asks : {"issue", "refresh"},
                              pair : Pair \cup {NoPair}, says : Says]]
        BY DEF Init, Idle, Says
    <2>2. claims \in [Pair -> [sid : Pair \cup {NoPair}, access : Nat, refresh : Nat]]
        BY DEF Init, Unsigned
    <2>3. outcome \in [says : Says, pair : Pair \cup {NoPair}]
        BY DEF Init, Says
    <2>4. losses \in 0..MaxLosses
        BY DEF Init
    <2> QED
        BY <2>1, <2>2, <2>3, <2>4 DEF Init, TypeOK, Chain!Init
<1>2. PairsAreSigned
    BY DEF Init, PairsAreSigned, Chain!Init, Idle
<1>3. OneFlight
    BY DEF Init, OneFlight, Idle
<1>4. GoodPairs
    BY DEF Init, GoodPairs, Answered
<1>5. EndsArePaid
    BY FS_EmptySet DEF Init, EndsArePaid
<1> QED
    BY <1>1, <1>2, <1>3, <1>4, <1>5 DEF SessionInvariant

-----------------------------------------------------------------------------
(* The client *)

\* A request is sent for the pair that is held.
LEMMA SendKeeps ==
    ASSUME SessionInvariant, NEW asks \in {"issue", "refresh"},
           asks = "refresh" => current # NoPair,
           flight = None, Send(asks), caller' \in [Caller -> {"idle", "waiting"}],
           UNCHANGED <<now, service, parentGone, current, outcome, ghost>>
    PROVE  SessionInvariant'
<1> USE NamesAssumption DEF SessionInvariant, service, ghost
<1>1. PICK q \in Request :
        /\ req[q].at = "idle"
        /\ req' = [req EXCEPT ![q] = [at |-> "sent", asks |-> asks,
                                      pair |-> current, says |-> "pair"]]
        /\ flight' = q
    BY DEF Send
<1>2. TypeOK'
    BY <1>1 DEF TypeOK, Says
<1>3. PairsAreSigned'
    BY <1>1 DEF TypeOK, PairsAreSigned
<1>4. OneFlight'
    BY <1>1 DEF TypeOK, OneFlight
<1>5. GoodPairs'
    BY <1>1 DEF TypeOK, GoodPairs, Good, Answered
<1>6. EndsArePaid'
    BY DEF EndsArePaid
<1> QED
    BY <1>2, <1>3, <1>4, <1>5, <1>6

\* A caller joins a flight, or finds a pair that is fresh enough.
LEMMA WaitKeeps ==
    ASSUME SessionInvariant, caller' \in [Caller -> {"idle", "waiting"}],
           \/ UNCHANGED flight
           \/ flight = None /\ flight' = "settled",
           UNCHANGED <<now, service, parentGone, req, current, outcome, ghost>>
    PROVE  SessionInvariant'
<1> USE NamesAssumption DEF SessionInvariant, service, ghost
<1>1. TypeOK'
    BY DEF TypeOK
<1>2. PairsAreSigned' /\ EndsArePaid'
    BY DEF PairsAreSigned, EndsArePaid
<1>3. OneFlight'
    BY DEF OneFlight
<1>4. GoodPairs'
    BY DEF GoodPairs, Good, Answered
<1> QED
    BY <1>1, <1>2, <1>3, <1>4

LEMMA CallKeeps ==
    ASSUME SessionInvariant, NEW c \in Caller, GetTokenPair(c) \/ ForceRefresh(c)
    PROVE  SessionInvariant'
<1>1. Wait(c)
    BY DEF GetTokenPair, ForceRefresh
<1>2. /\ caller' \in [Caller -> {"idle", "waiting"}]
      /\ UNCHANGED <<now, service, parentGone, current, outcome, ghost>>
    BY <1>1 DEF Wait, SessionInvariant, TypeOK
<1>3. CASE Join
    BY <1>2, <1>3, WaitKeeps DEF Join
<1>4. CASE flight = None /\ Rotate
    <2>1. CASE Send("issue")
        BY <1>2, <1>4, <2>1, SendKeeps
    <2>2. CASE Send("refresh") /\ current # NoPair
        BY <1>2, <1>4, <2>2, SendKeeps
    <2> QED
        BY <1>4, <2>1, <2>2 DEF Rotate
<1>5. CASE flight = None /\ EnsureFresh
    <2>1. CASE Send("issue")
        BY <1>2, <1>5, <2>1, SendKeeps
    <2>2. CASE flight' = "settled" /\ UNCHANGED req
        BY <1>2, <1>5, <2>2, WaitKeeps
    <2> QED
        BY <1>4, <1>5, <2>1, <2>2 DEF EnsureFresh
<1> QED
    BY <1>3, <1>4, <1>5 DEF GetTokenPair, ForceRefresh

LEMMA SettleKeeps ==
    ASSUME SessionInvariant, Settle
    PROVE  SessionInvariant'
<1> USE NamesAssumption DEF SessionInvariant, service, ghost, Settle, Conclude
<1>1. TypeOK'
    BY DEF TypeOK, Says
<1>2. PairsAreSigned' /\ EndsArePaid'
    BY DEF PairsAreSigned, EndsArePaid
<1>3. OneFlight'
    BY DEF OneFlight
<1>4. GoodPairs'
    BY DEF GoodPairs, Good, Answered
<1> QED
    BY <1>1, <1>2, <1>3, <1>4

LEMMA ReceiveKeeps ==
    ASSUME SessionInvariant, NEW q \in Request, Receive(q)
    PROVE  SessionInvariant'
<1> USE NamesAssumption DEF SessionInvariant, service, ghost
<1>1. /\ flight = q /\ req[q].at = "answered"
      /\ req' = [req EXCEPT ![q] = Idle]
      /\ current' = IF req[q].says = "pair" THEN req[q].pair ELSE current
      /\ Conclude(req[q].says, IF req[q].says = "pair" THEN req[q].pair ELSE NoPair)
      /\ UNCHANGED <<now, service, parentGone, ghost>>
    BY NoReissue DEF Receive, Keep
<1>2. TypeOK'
    BY <1>1 DEF TypeOK, Conclude, Idle, PairsAreSigned, Says
<1>3. PairsAreSigned' /\ EndsArePaid'
    BY <1>1 DEF TypeOK, PairsAreSigned, EndsArePaid, Idle
<1>4. OneFlight'
    BY <1>1 DEF TypeOK, OneFlight, Conclude, Idle
<1>5. GoodPairs'
    BY <1>1 DEF TypeOK, GoodPairs, Good, Answered, Conclude
<1> QED
    BY <1>2, <1>3, <1>4, <1>5

LEMMA BreakKeeps ==
    ASSUME SessionInvariant, NEW q \in Request, Break(q)
    PROVE  SessionInvariant'
<1> USE NamesAssumption DEF SessionInvariant, service, ghost
<1> DEFINE s == claims[current].sid
<1>1. /\ flight = q /\ losses < MaxLosses /\ losses' = losses + 1
      /\ lossy' = IF req[q].asks = "refresh" THEN lossy \cup {s} ELSE lossy
      /\ req' = [req EXCEPT ![q] = Idle] \/ (req[q].at = "sent" /\ UNCHANGED req)
      /\ Conclude("broken", NoPair)
      /\ UNCHANGED <<now, service, parentGone, current, stopped, replayed>>
    BY DEF Break
<1>2. req[q].asks = "refresh" => s \in opened /\ s \in Pair
    BY <1>1 DEF TypeOK, OneFlight, PairsAreSigned
<1>3. TypeOK'
    <2>1. req' \in [Request -> [at : {"idle", "sent", "answered"},
                               asks : {"issue", "refresh"},
                               pair : Pair \cup {NoPair}, says : Says]]
        <3>1. Idle \in [at : {"idle", "sent", "answered"}, asks : {"issue", "refresh"},
                        pair : Pair \cup {NoPair}, says : Says]
            BY DEF Idle, Says
        <3> QED
            BY <1>1, <3>1 DEF TypeOK
    <2>2. losses' \in 0..MaxLosses
        BY <1>1, TimesAssumption DEF TypeOK
    <2>3. /\ outcome' \in [says : Says, pair : Pair \cup {NoPair}]
          /\ caller' \in [Caller -> {"idle", "waiting"}]
          /\ flight' = None
        BY <1>1 DEF Conclude, Says
    <2>4. lossy' \subseteq Pair
        BY <1>1, <1>2 DEF TypeOK
    <2> QED
        BY <1>1, <2>1, <2>2, <2>3, <2>4 DEF TypeOK
<1>4. PairsAreSigned'
    BY <1>1 DEF TypeOK, PairsAreSigned, Idle
<1>5. OneFlight'
    BY <1>1 DEF TypeOK, OneFlight, Conclude, Idle
<1>6. GoodPairs'
    BY <1>1 DEF GoodPairs, Good, Answered, Conclude
<1>7. EndsArePaid'
    <2>1. IsFiniteSet(lossy') /\ Cardinality(lossy') <= losses'
        <3>1. /\ IsFiniteSet(lossy) /\ Cardinality(lossy) \in Nat
              /\ Cardinality(lossy) <= losses /\ losses \in Nat
            BY FS_CardinalityType, TimesAssumption DEF EndsArePaid, TypeOK
        <3>2. \A x : /\ IsFiniteSet(lossy \cup {x})
                     /\ Cardinality(lossy \cup {x}) =
                            IF x \in lossy THEN Cardinality(lossy) ELSE Cardinality(lossy) + 1
            BY <3>1, FS_AddElement
        <3>3. CASE req[q].asks = "refresh"
            <4>1. lossy' = lossy \cup {s}
                BY <1>1, <3>3
            <4> HIDE DEF s
            <4> QED
                BY <1>1, <3>1, <3>2, <4>1
        <3>4. CASE req[q].asks # "refresh"
            BY <1>1, <3>1, <3>4
        <3> QED
            BY <3>3, <3>4
    <2>2. lossy \subseteq lossy' /\ lossy' \subseteq opened
        BY <1>1, <1>2 DEF EndsArePaid
    <2> QED
        BY <1>1, <2>1, <2>2 DEF EndsArePaid
<1> QED
    BY <1>3, <1>4, <1>5, <1>6, <1>7

-----------------------------------------------------------------------------
(* The service *)

\* A refusal that leaves the sessions alone.
LEMMA RefuseKeeps ==
    ASSUME SessionInvariant, NEW q \in Request, req[q].at = "sent",
           NEW says \in Says \ {"pair"}, Reply(q, says, NoPair), Unchanging,
           UNCHANGED <<now, parentGone, client, losses, lossy, stopped>>
    PROVE  SessionInvariant'
<1> USE NamesAssumption DEF SessionInvariant, client, Unchanging
<1>1. /\ req' \in [Request -> [at : {"idle", "sent", "answered"},
                               asks : {"issue", "refresh"},
                               pair : Pair \cup {NoPair}, says : Says]]
      /\ \A r \in Request \ {q} : req'[r] = req[r]
      /\ flight = q => /\ req'[q].at = "answered" /\ req'[q].asks = req[q].asks
                       /\ req'[q].says = says /\ req'[q].pair = NoPair
      /\ flight # q => req'[q] = Idle
    BY Replied
<1>2. TypeOK'
    BY <1>1 DEF TypeOK
<1>3. PairsAreSigned'
    BY <1>1 DEF PairsAreSigned, Idle
<1>4. OneFlight'
    BY <1>1 DEF OneFlight, Idle
<1>5. GoodPairs'
    BY <1>1 DEF GoodPairs, Good, Answered, OneFlight, Idle
<1>6. EndsArePaid'
    BY DEF EndsArePaid
<1> QED
    BY <1>2, <1>3, <1>4, <1>5, <1>6

\* A new session: no session there was changes.
LEMMA IssueKeeps ==
    ASSUME SessionInvariant, NEW q \in Request, req[q].at = "sent",
           req[q].asks = "issue", Issue(q),
           UNCHANGED <<now, parentGone, client, losses, lossy, stopped>>
    PROVE  SessionInvariant'
<1> USE NamesAssumption DEF SessionInvariant, client
<1>p. PICK p : p = NewPair
    OBVIOUS
<1>1. /\ p \in Pair /\ p \notin spent /\ p \notin opened
      /\ live' = [live EXCEPT ![p] = p]
      /\ opened' = opened \cup {p} /\ spent' = spent \cup {p}
      /\ claims' = [claims EXCEPT ![p] = [sid |-> p, access |-> now + AccessTTL,
                                         refresh |-> now + RefreshTTL]]
      /\ UNCHANGED replayed
    BY <1>p, FreshPair DEF Issue, Chain!Open, Signed
<1>2. /\ req' \in [Request -> [at : {"idle", "sent", "answered"},
                               asks : {"issue", "refresh"},
                               pair : Pair \cup {NoPair}, says : Says]]
      /\ \A r \in Request \ {q} : req'[r] = req[r]
      /\ flight = q => /\ req'[q].at = "answered" /\ req'[q].asks = "issue"
                       /\ req'[q].says = "pair" /\ req'[q].pair = p
      /\ flight # q => req'[q] = Idle
    BY <1>p, <1>1, Replied DEF Issue, Says
<1>3. \A o \in spent : claims'[o] = claims[o] /\ o # p
    BY <1>1 DEF TypeOK
<1>4. \A s \in opened : live'[s] = live[s] /\ s # p
    BY <1>1 DEF TypeOK
<1>5. claims'[p].sid = p /\ live'[p] = p
    BY <1>1 DEF TypeOK
<1>6. TypeOK'
    <2>1. claims' \in [Pair -> [sid : Pair \cup {NoPair}, access : Nat, refresh : Nat]]
        BY <1>1, TimesAssumption DEF TypeOK
    <2> QED
        BY <1>1, <1>2, <2>1 DEF TypeOK
<1>7. PairsAreSigned'
    <2>1. \A s \in Pair : live'[s] # NoPair => s \in opened' /\ live'[s] \in spent'
        BY <1>1 DEF TypeOK, PairsAreSigned
    <2> QED
        BY <1>1, <1>2, <1>3, <1>5, <2>1 DEF PairsAreSigned, Idle
<1>8. OneFlight'
    <2>1. \A r \in Request : req[r].at = "sent" /\ req[r].asks = "refresh"
                => claims'[req[r].pair].sid = claims[req[r].pair].sid
        BY <1>3 DEF PairsAreSigned
    <2> QED
        BY <1>2, <2>1 DEF OneFlight, Idle
<1>9. GoodPairs'
    <2>1. \A o \in spent : Good(o) => Good(o)'
        BY <1>1, <1>3, <1>4 DEF Good, PairsAreSigned
    <2>2. Good(p)'
        BY <1>1, <1>5 DEF Good
    <2>3. current = NoPair \/ current \in spent
        BY DEF TypeOK
    <2>4. CASE flight = q
        BY <1>2, <2>1, <2>2, <2>3, <2>4 DEF GoodPairs, Answered
    <2>5. CASE flight # q
        BY <1>2, <2>1, <2>3, <2>5 DEF GoodPairs, Answered, PairsAreSigned, Idle
    <2> QED
        BY <2>4, <2>5
<1>10. EndsArePaid'
    BY <1>1, <1>4 DEF EndsArePaid
<1> QED
    BY <1>6, <1>7, <1>8, <1>9, <1>10

\* An exchange changes one session, and its former token is the one that was
\* presented.
LEMMA ExchangeKeeps ==
    ASSUME SessionInvariant, NEW q \in Request, req[q].at = "sent",
           req[q].asks = "refresh", Exchange(q),
           UNCHANGED <<now, parentGone, client, losses, lossy, stopped>>
    PROVE  SessionInvariant'
<1> USE NamesAssumption DEF SessionInvariant, client
<1>p. PICK p, s : p = NewPair /\ s = Sid(q)
    OBVIOUS
<1>1. /\ req[q].pair \in spent /\ s = claims[req[q].pair].sid
      /\ s \in opened /\ s \in Pair
    BY <1>p DEF Sid, PairsAreSigned, TypeOK
<1>2. /\ p \in Pair /\ p \notin spent /\ live[s] = req[q].pair
      /\ live' = [live EXCEPT ![s] = p]
      /\ opened' = opened /\ spent' = spent \cup {p}
      /\ claims' = [claims EXCEPT ![p] = [sid |-> s, access |-> now + AccessTTL,
                                         refresh |-> now + RefreshTTL]]
      /\ UNCHANGED replayed
    BY <1>p, FreshPair DEF Exchange, Chain!Rotate, Signed
<1>3. /\ req' \in [Request -> [at : {"idle", "sent", "answered"},
                               asks : {"issue", "refresh"},
                               pair : Pair \cup {NoPair}, says : Says]]
      /\ \A r \in Request \ {q} : req'[r] = req[r]
      /\ flight = q => /\ req'[q].at = "answered" /\ req'[q].asks = "refresh"
                       /\ req'[q].says = "pair" /\ req'[q].pair = p
      /\ flight # q => req'[q] = Idle
    BY <1>p, <1>2, Replied DEF Exchange, Says
<1>4. \A o \in spent : claims'[o] = claims[o] /\ o # p
    BY <1>2 DEF TypeOK
<1>5. /\ claims'[p].sid = s /\ live'[s] = p
      /\ \A z \in Pair \ {s} : live'[z] = live[z]
    BY <1>1, <1>2 DEF TypeOK
<1>6. s \notin stopped
    BY <1>1, <1>2 DEF EndsArePaid, TypeOK
<1>7. TypeOK'
    <2>1. claims' \in [Pair -> [sid : Pair \cup {NoPair}, access : Nat, refresh : Nat]]
        BY <1>1, <1>2, TimesAssumption DEF TypeOK
    <2> QED
        BY <1>1, <1>2, <1>3, <2>1 DEF TypeOK
<1>8. PairsAreSigned'
    <2>1. \A z \in Pair : live'[z] # NoPair => z \in opened' /\ live'[z] \in spent'
        BY <1>1, <1>2, <1>5 DEF PairsAreSigned
    <2> QED
        BY <1>1, <1>2, <1>3, <1>4, <1>5, <2>1 DEF PairsAreSigned, Idle
<1>9. OneFlight'
    <2>1. \A r \in Request : req[r].at = "sent" /\ req[r].asks = "refresh"
                => claims'[req[r].pair].sid = claims[req[r].pair].sid
        BY <1>4 DEF PairsAreSigned
    <2>2. flight = q => current # NoPair
        BY DEF OneFlight
    <2> QED
        BY <1>3, <2>1, <2>2 DEF OneFlight, Idle
<1>10. GoodPairs'
    <2>1. Good(p)'
        BY <1>2, <1>5 DEF Good
    <2>2. CASE flight = q
        BY <1>3, <2>1, <2>2 DEF GoodPairs, Answered
    <2>3. CASE flight # q
        <3>1. s \in lossy
            BY <1>1, <2>3 DEF OneFlight
        <3>2. \A o \in spent : Good(o) => Good(o)'
            BY <1>4, <1>5, <3>1 DEF Good, PairsAreSigned, TypeOK
        <3>3. current = NoPair \/ current \in spent
            BY DEF TypeOK
        <3> QED
            BY <1>3, <2>3, <3>2, <3>3 DEF GoodPairs, Answered, PairsAreSigned, Idle
    <2> QED
        BY <2>2, <2>3
<1>11. EndsArePaid'
    BY <1>2, <1>5, <1>6 DEF EndsArePaid, TypeOK
<1> QED
    BY <1>7, <1>8, <1>9, <1>10, <1>11

\* A session ends for reuse only where a connection broke: the token of any
\* other is the one the service would exchange, or was revoked.
LEMMA ReuseKeeps ==
    ASSUME SessionInvariant, NEW q \in Request, req[q].at = "sent",
           req[q].asks = "refresh", Reuse(q),
           UNCHANGED <<now, parentGone, client, losses, lossy, stopped>>
    PROVE  SessionInvariant'
<1> USE NamesAssumption DEF SessionInvariant, client
<1>s. PICK s : s = Sid(q)
    OBVIOUS
<1>1. /\ req[q].pair \in spent /\ s = claims[req[q].pair].sid
      /\ s \in opened /\ s \in Pair
    BY <1>s DEF Sid, PairsAreSigned, TypeOK
<1>2. /\ live[s] # req[q].pair
      /\ live' = [z \in Pair |-> IF z = s THEN NoPair ELSE live[z]]
      /\ opened' = opened /\ spent' = spent /\ claims' = claims
      /\ replayed' = IF live[s] # NoPair THEN replayed \cup {s} ELSE replayed
    BY <1>s DEF Reuse, Chain!End
<1>3. /\ req' \in [Request -> [at : {"idle", "sent", "answered"},
                               asks : {"issue", "refresh"},
                               pair : Pair \cup {NoPair}, says : Says]]
      /\ \A r \in Request \ {q} : req'[r] = req[r]
      /\ flight = q => /\ req'[q].at = "answered" /\ req'[q].asks = req[q].asks
                       /\ req'[q].says # "pair" /\ req'[q].pair = NoPair
      /\ flight # q => req'[q] = Idle
    BY Replied DEF Reuse, Says
<1>4. s \in lossy \cup stopped
    <2>1. CASE flight = q
        <3>1. req[q].pair = current
            BY <2>1 DEF OneFlight
        <3>2. Good(current)
            BY <1>1, <2>1, <3>1 DEF GoodPairs, Answered, TypeOK
        <3> QED
            BY <1>1, <1>2, <3>1, <3>2 DEF Good
    <2>2. CASE flight # q
        BY <1>1, <2>2 DEF OneFlight
    <2> QED
        BY <2>1, <2>2
<1>5. live[s] # NoPair => s \in lossy
    BY <1>4 DEF EndsArePaid
<1>6. TypeOK'
    BY <1>1, <1>2, <1>3 DEF TypeOK
<1>7. PairsAreSigned'
    BY <1>2, <1>3 DEF PairsAreSigned, Idle
<1>8. OneFlight'
    BY <1>2, <1>3 DEF OneFlight, Idle
<1>9. GoodPairs'
    <2>1. \A o \in spent : Good(o) => Good(o)'
        BY <1>1, <1>2, <1>4 DEF Good, PairsAreSigned, TypeOK
    <2>2. current = NoPair \/ current \in spent
        BY DEF TypeOK
    <2> QED
        BY <1>2, <1>3, <2>1, <2>2 DEF GoodPairs, Answered, PairsAreSigned, OneFlight, Idle
<1>10. EndsArePaid'
    BY <1>1, <1>2, <1>5 DEF EndsArePaid, TypeOK
<1> QED
    BY <1>6, <1>7, <1>8, <1>9, <1>10

LEMMA ServeKeeps ==
    ASSUME SessionInvariant, NEW q \in Request, Serve(q)
    PROVE  SessionInvariant'
<1>1. /\ req[q].at = "sent"
      /\ UNCHANGED <<now, parentGone, client, losses, lossy, stopped>>
    BY DEF Serve
<1>2. req[q].asks \in {"issue", "refresh"}
    BY DEF SessionInvariant, TypeOK
<1>3. CASE Overload(q)
    BY <1>1, <1>3, RefuseKeeps DEF Overload, Says
<1>4. CASE Handle(q)
    <2>1. CASE parentGone
        BY <1>1, <1>4, <2>1, RefuseKeeps DEF Handle, Says
    <2>2. CASE ~parentGone /\ req[q].asks = "issue"
        BY <1>1, <1>4, <2>2, IssueKeeps DEF Handle
    <2>3. CASE ~parentGone /\ req[q].asks = "refresh"
        <3>1. Refresh(q)
            BY <1>4, <2>3 DEF Handle
        <3>2. CASE Reply(q, "Token expired", NoPair) /\ Unchanging
            BY <1>1, <3>2, RefuseKeeps DEF Says
        <3>3. CASE Exchange(q)
            BY <1>1, <2>3, <3>3, ExchangeKeeps
        <3>4. CASE Reuse(q)
            BY <1>1, <2>3, <3>4, ReuseKeeps
        <3> QED
            BY <3>1, <3>2, <3>3, <3>4 DEF Refresh
    <2> QED
        BY <1>2, <2>1, <2>2, <2>3
<1> QED
    BY <1>3, <1>4 DEF Serve

-----------------------------------------------------------------------------
(* Operators and time *)

LEMMA RevokeSessionKeeps ==
    ASSUME SessionInvariant, NEW s \in Pair, RevokeSession(s)
    PROVE  SessionInvariant'
<1> USE DEF SessionInvariant, client
<1>1. /\ live[s] # NoPair
      /\ live' = [z \in Pair |-> IF z = s THEN NoPair ELSE live[z]]
      /\ opened' = opened /\ spent' = spent /\ stopped' = stopped \cup {s}
      /\ UNCHANGED <<now, claims, parentGone, req, client, losses, lossy, replayed>>
    BY DEF RevokeSession, Chain!End
<1>2. TypeOK'
    BY <1>1 DEF TypeOK
<1>3. PairsAreSigned' /\ OneFlight'
    BY <1>1 DEF PairsAreSigned, OneFlight
<1>4. GoodPairs'
    <2>1. \A o \in spent : Good(o) => Good(o)'
        BY <1>1 DEF Good, PairsAreSigned, TypeOK
    <2> QED
        BY <1>1, <2>1 DEF GoodPairs, Answered, PairsAreSigned, TypeOK
<1>5. EndsArePaid'
    BY <1>1 DEF EndsArePaid, PairsAreSigned, TypeOK
<1> QED
    BY <1>2, <1>3, <1>4, <1>5

LEMMA EnvironmentKeeps ==
    ASSUME SessionInvariant, RevokeParent \/ Tick \/ UNCHANGED vars
    PROVE  SessionInvariant'
<1>1. /\ UNCHANGED <<service, req, client, ghost>>
      /\ now' \in Nat /\ parentGone' \in BOOLEAN
    <2> USE DEF SessionInvariant, TypeOK
    <2>1. CASE RevokeParent
        BY <2>1 DEF RevokeParent
    <2>2. CASE Tick
        BY <2>2 DEF Tick
    <2>3. CASE UNCHANGED vars
        BY <2>3 DEF vars
    <2> QED
        BY <2>1, <2>2, <2>3
<1> QED
    BY <1>1 DEF SessionInvariant, TypeOK, PairsAreSigned, OneFlight, GoodPairs, Good,
        Answered, EndsArePaid, service, client, ghost

-----------------------------------------------------------------------------
(* Theorems *)

LEMMA NextInvariant == SessionInvariant /\ [Next]_vars => SessionInvariant'
<1> SUFFICES ASSUME SessionInvariant, [Next]_vars PROVE SessionInvariant'
    OBVIOUS
<1>1. ASSUME NEW c \in Caller, GetTokenPair(c) \/ ForceRefresh(c)
      PROVE  SessionInvariant'
    BY <1>1, CallKeeps
<1>2. ASSUME NEW q \in Request, Receive(q) \/ Break(q) \/ Serve(q)
      PROVE  SessionInvariant'
    BY <1>2, ReceiveKeeps, BreakKeeps, ServeKeeps
<1>3. CASE Settle
    BY <1>3, SettleKeeps
<1>4. ASSUME NEW s \in Pair, RevokeSession(s)
      PROVE  SessionInvariant'
    BY <1>4, RevokeSessionKeeps
<1>5. CASE RevokeParent \/ Tick \/ UNCHANGED vars
    BY <1>5, EnvironmentKeeps
<1> QED
    BY <1>1, <1>2, <1>3, <1>4, <1>5 DEF Next

LEMMA InvariantHolds == Spec => []SessionInvariant
<1>1. Init => SessionInvariant
    BY InitInvariant
<1>2. SessionInvariant /\ [Next]_vars => SessionInvariant'
    BY NextInvariant
<1> QED
    BY <1>1, <1>2, PTL DEF Spec

(* Client, service and network keep their types; the pair the client holds *)
(* in #current is one the service signed.                                  *)
THEOREM TypeCorrect == Spec => []TypeOK
<1>1. SessionInvariant => TypeOK
    BY DEF SessionInvariant
<1> QED
    BY <1>1, InvariantHolds, PTL

(* The pair in #current is the one the service would exchange, unless an   *)
(* answer is on its way, a connection broke in that session or somebody    *)
(* revoked it: no interleaving of callers, answers that come after their   *)
(* callers have gone, and renewals brings the two sides apart.             *)
THEOREM SessionStaysInStep == Spec => []InStep
<1>1. SessionInvariant => InStep
    BY DEF SessionInvariant, GoodPairs, Good, Answered, InStep
<1> QED
    BY <1>1, InvariantHolds, PTL

(* Reuse detection strikes the client's own sessions at most once for each *)
(* broken connection, however many callers share a renewal.                *)
THEOREM LossesPay == Spec => []LossesPayForReplays
<1>1. SessionInvariant => LossesPayForReplays
    <2> SUFFICES ASSUME SessionInvariant PROVE LossesPayForReplays
        OBVIOUS
    <2>1. IsFiniteSet(lossy) /\ Cardinality(lossy) <= losses /\ replayed \subseteq lossy
        BY DEF SessionInvariant, EndsArePaid
    <2>2. IsFiniteSet(replayed) /\ Cardinality(replayed) <= Cardinality(lossy)
        BY <2>1, FS_Subset
    <2>3. Cardinality(replayed) \in Nat /\ Cardinality(lossy) \in Nat /\ losses \in Int
        BY <2>1, <2>2, FS_CardinalityType DEF SessionInvariant, TypeOK
    <2> QED
        BY <2>1, <2>2, <2>3 DEF LossesPayForReplays
<1> QED
    BY <1>1, InvariantHolds, PTL

-----------------------------------------------------------------------------
(* How many sessions the client could go on with.  The one it holds, or is *)
(* about to hold, is free; every other was paid for by a connection that   *)
(* broke while its refresh token was under way (lossy), or while its       *)
(* issuance was.  Such an issuance may still come: it is paid for already. *)

\* The client holds a pair of session s, or is about to.
Held(s) ==
    \/ current # NoPair /\ s = claims[current].sid
    \/ Answered /\ req[flight].says = "pair" /\ s = claims[req[flight].pair].sid

Paid == lossy \cup {s \in Usable : ~Held(s)}

\* Issuances that nobody waits for and that may still reach the service.
Orphans == {q \in Request : flight # q /\ req[q].at = "sent" /\ req[q].asks = "issue"}

Affords(n, A, B) ==
    IsFiniteSet(A) /\ IsFiniteSet(B) /\ Cardinality(A) + Cardinality(B) <= n

\* A new session is asked for only when the one held is not worth going on
\* with, and an exchange stays in its session.
RenewalsAreDue ==
    /\ flight \in Request /\ req[flight].asks = "issue" =>
            current = NoPair \/ Near(claims[current].refresh)
    /\ Answered /\ req[flight].asks = "refresh" /\ req[flight].says = "pair" =>
            claims[req[flight].pair].sid = claims[current].sid

SessionsArePaid == Affords(losses, Paid, Orphans) /\ RenewalsAreDue

LEMMA AffordsLess ==
    ASSUME NEW n \in Nat, NEW A, NEW B, Affords(n, A, B),
           NEW C \in SUBSET A, NEW D \in SUBSET B
    PROVE  Affords(n, C, D)
<1>1. /\ IsFiniteSet(C) /\ Cardinality(C) <= Cardinality(A)
      /\ IsFiniteSet(D) /\ Cardinality(D) <= Cardinality(B)
    BY FS_Subset DEF Affords
<1>2. {Cardinality(A), Cardinality(B), Cardinality(C), Cardinality(D)} \subseteq Nat
    BY <1>1, FS_CardinalityType DEF Affords
<1> QED
    BY <1>1, <1>2 DEF Affords

LEMMA OneMore ==
    ASSUME NEW A, IsFiniteSet(A), NEW x
    PROVE  /\ IsFiniteSet(A \cup {x}) /\ Cardinality(A \cup {x}) \in Nat
           /\ Cardinality(A \cup {x}) <= Cardinality(A) + 1
<1>1. Cardinality(A) \in Nat
    BY FS_CardinalityType
<1>2. /\ IsFiniteSet(A \cup {x})
      /\ \/ Cardinality(A \cup {x}) = Cardinality(A)
         \/ Cardinality(A \cup {x}) = Cardinality(A) + 1
    BY FS_AddElement
<1> QED
    BY <1>1, <1>2

\* One more broken connection pays for one more session, come or still to come.
LEMMA AffordsMore ==
    ASSUME NEW n \in Nat, NEW A, NEW B, Affords(n, A, B), NEW x
    PROVE  Affords(n + 1, A \cup {x}, B) /\ Affords(n + 1, A, B \cup {x})
<1>1. /\ IsFiniteSet(A \cup {x}) /\ Cardinality(A \cup {x}) \in Nat
      /\ Cardinality(A \cup {x}) <= Cardinality(A) + 1
    BY OneMore DEF Affords
<1>2. /\ IsFiniteSet(B \cup {x}) /\ Cardinality(B \cup {x}) \in Nat
      /\ Cardinality(B \cup {x}) <= Cardinality(B) + 1
    BY OneMore DEF Affords
<1>3. Cardinality(A) \in Nat /\ Cardinality(B) \in Nat
    BY FS_CardinalityType DEF Affords
<1> QED
    BY <1>1, <1>2, <1>3 DEF Affords

\* What was paid for comes.
LEMMA AffordsArrival ==
    ASSUME NEW n \in Nat, NEW A, NEW B, Affords(n, A, B), NEW x, NEW y \in B
    PROVE  Affords(n, A \cup {x}, B \ {y})
<1>1. /\ IsFiniteSet(A \cup {x}) /\ Cardinality(A \cup {x}) \in Nat
      /\ Cardinality(A \cup {x}) <= Cardinality(A) + 1
    BY OneMore DEF Affords
<1>2. IsFiniteSet(B \ {y}) /\ Cardinality(B \ {y}) = Cardinality(B) - 1
    BY FS_RemoveElement DEF Affords
<1>3. /\ Cardinality(A) \in Nat /\ Cardinality(B) \in Nat
      /\ Cardinality(B \ {y}) \in Nat
    BY <1>2, FS_CardinalityType DEF Affords
<1> QED
    BY <1>1, <1>2, <1>3 DEF Affords

\* A session that a step leaves alone does not become usable by it.
LEMMA UsableBefore ==
    ASSUME SessionInvariant, NEW s \in Usable', s \in opened, live'[s] = live[s],
           claims'[live[s]] = claims[live[s]], now' \in Nat, now <= now'
    PROVE  s \in Usable
<1>1. live[s] \in Pair
    BY DEF Usable, SessionInvariant, TypeOK
<1>2. claims[live[s]].refresh \in Nat /\ now \in Nat /\ Window \in Nat
    BY <1>1, TimesAssumption DEF SessionInvariant, TypeOK
<1>3. ~(claims[live[s]].refresh - now' <= Window) /\ live[s] # NoPair
    BY DEF Usable, Near
<1> QED
    BY <1>2, <1>3 DEF Usable, Near

\* When a pair has been answered, it is the only one worth going on with.
LEMMA OneIsHeld ==
    ASSUME SessionInvariant, RenewalsAreDue, NEW s \in Usable,
           Answered, req[flight].says = "pair",
           current # NoPair, s = claims[current].sid
    PROVE  s \in lossy \/ s = claims[req[flight].pair].sid
<1> USE DEF SessionInvariant
<1>1. CASE req[flight].asks = "refresh"
    BY <1>1 DEF RenewalsAreDue
<1>2. CASE req[flight].asks # "refresh"
    <2>1. Near(claims[current].refresh) /\ Good(current)
        BY <1>2 DEF Answered, TypeOK, RenewalsAreDue, GoodPairs
    <2>2. live[s] # current /\ live[s] # NoPair
        BY <2>1 DEF Usable
    <2>3. s \notin stopped
        BY <2>2 DEF EndsArePaid
    <2> QED
        BY <2>1, <2>2, <2>3 DEF Good
<1> QED
    BY <1>1, <1>2

\* A step that lets no session and no orphaned issuance come.
LEMMA NothingComes ==
    ASSUME SessionInvariant, SessionsArePaid, UNCHANGED <<losses, lossy>>,
           Orphans' \subseteq Orphans,
           \A s \in Usable' : Held(s)' \/ s \in lossy \/ (s \in Usable /\ ~Held(s))
    PROVE  Affords(losses, Paid, Orphans)'
<1>1. Paid' \subseteq Paid
    BY DEF Paid
<1>2. losses \in Nat
    BY TimesAssumption DEF SessionInvariant, TypeOK
<1>3. Affords(losses, Paid', Orphans')
    BY <1>1, <1>2, AffordsLess DEF SessionsArePaid
<1> QED
    BY <1>3 DEF Affords

-----------------------------------------------------------------------------
(* The budget, step by step: the client *)

LEMMA CallIsPaid ==
    ASSUME SessionInvariant, SessionsArePaid,
           NEW c \in Caller, GetTokenPair(c) \/ ForceRefresh(c)
    PROVE  SessionsArePaid'
<1> USE NamesAssumption DEF SessionInvariant, service, ghost
<1>1. UNCHANGED <<now, service, current, losses, lossy>>
    BY DEF GetTokenPair, ForceRefresh, Wait
<1>2. Usable' = Usable
    BY <1>1 DEF Usable, Near
<1>3. CASE Join
    <2>1. Orphans' \subseteq Orphans /\ \A s : Held(s)' = Held(s)
        BY <1>1, <1>3 DEF Join, Orphans, Held, Answered
    <2>2. RenewalsAreDue'
        BY <1>1, <1>3 DEF Join, RenewalsAreDue, SessionsArePaid, Answered, Near
    <2> QED
        BY <1>1, <1>2, <2>1, <2>2, NothingComes DEF SessionsArePaid
<1>4. ASSUME NEW asks \in {"issue", "refresh"}, flight = None, Send(asks),
             asks = "issue" => current = NoPair \/ Near(claims[current].refresh)
      PROVE  SessionsArePaid'
    <2>1. PICK q \in Request :
            /\ req[q].at = "idle"
            /\ req' = [req EXCEPT ![q] = [at |-> "sent", asks |-> asks,
                                          pair |-> current, says |-> "pair"]]
            /\ flight' = q
        BY <1>4 DEF Send
    <2>2. ~Answered /\ ~Answered'
        BY <1>4, <2>1 DEF Answered, TypeOK
    <2>3. Orphans' \subseteq Orphans /\ \A s : Held(s)' = Held(s)
        BY <1>1, <1>4, <2>1, <2>2 DEF Orphans, Held, TypeOK
    <2>4. RenewalsAreDue'
        BY <1>1, <1>4, <2>1, <2>2 DEF RenewalsAreDue, Near, TypeOK
    <2> QED
        BY <1>1, <1>2, <2>3, <2>4, NothingComes DEF SessionsArePaid
<1>5. CASE flight = None /\ flight' = "settled" /\ UNCHANGED req
    <2>1. Orphans' \subseteq Orphans /\ \A s : Held(s)' = Held(s)
        BY <1>1, <1>5 DEF Orphans, Held, Answered
    <2>2. RenewalsAreDue'
        BY <1>5 DEF RenewalsAreDue, Answered
    <2> QED
        BY <1>1, <1>2, <2>1, <2>2, NothingComes DEF SessionsArePaid
<1> QED
    BY <1>3, <1>4, <1>5 DEF GetTokenPair, ForceRefresh, EnsureFresh, Rotate

LEMMA SettleIsPaid ==
    ASSUME SessionInvariant, SessionsArePaid, Settle
    PROVE  SessionsArePaid'
<1> USE NamesAssumption DEF Settle, Conclude, service, ghost
<1>1. Usable' = Usable /\ Orphans' \subseteq Orphans /\ \A s : Held(s)' = Held(s)
    BY DEF Usable, Near, Orphans, Held, Answered
<1>2. RenewalsAreDue'
    BY DEF RenewalsAreDue, Answered
<1> QED
    BY <1>1, <1>2, NothingComes DEF SessionsArePaid

\* The client lets go of a session only for one that it goes on with instead.
LEMMA ReceiveIsPaid ==
    ASSUME SessionInvariant, SessionsArePaid, NEW q \in Request, Receive(q)
    PROVE  SessionsArePaid'
<1> USE NamesAssumption DEF SessionInvariant, service, ghost
<1>1. /\ flight = q /\ req[q].at = "answered" /\ flight' = None
      /\ req' = [req EXCEPT ![q] = Idle]
      /\ current' = IF req[q].says = "pair" THEN req[q].pair ELSE current
      /\ UNCHANGED <<now, service, parentGone, ghost>>
    BY NoReissue DEF Receive, Keep, Conclude
<1>2. Usable' = Usable
    BY <1>1 DEF Usable, Near
<1>3. Orphans' \subseteq Orphans
    BY <1>1 DEF Orphans, Idle, TypeOK
<1>4. ASSUME NEW s \in Usable, Held(s)
      PROVE  Held(s)' \/ s \in lossy
    <2>1. CASE req[q].says # "pair"
        BY <1>1, <1>4, <2>1 DEF Held
    <2>2. CASE req[q].says = "pair"
        <3>1. Answered /\ current' = req[flight].pair /\ current' # NoPair
            BY <1>1, <2>2 DEF Answered, PairsAreSigned, TypeOK
        <3>2. s \in lossy \/ s = claims[req[flight].pair].sid
            BY <1>1, <1>4, <2>2, OneIsHeld DEF Held, SessionsArePaid, Answered
        <3> QED
            BY <1>1, <3>1, <3>2 DEF Held
    <2> QED
        BY <2>1, <2>2
<1>5. RenewalsAreDue'
    BY <1>1 DEF RenewalsAreDue, Answered
<1> QED
    BY <1>1, <1>2, <1>3, <1>4, <1>5, NothingComes DEF SessionsArePaid

\* A connection that breaks pays: for the session of its refresh token, for
\* the session it was answered with, or for the one it may still open.
LEMMA BreakIsPaid ==
    ASSUME SessionInvariant, SessionsArePaid, NEW q \in Request, Break(q)
    PROVE  SessionsArePaid'
<1> USE NamesAssumption DEF SessionInvariant, service, ghost
<1>1. /\ flight = q /\ losses' = losses + 1 /\ flight' = None
      /\ req' = [req EXCEPT ![q] = Idle] \/ (req[q].at = "sent" /\ UNCHANGED req)
      /\ UNCHANGED <<now, service, parentGone, current, stopped, replayed>>
    BY DEF Break, Conclude
<1>2. Usable' = Usable
    BY <1>1 DEF Usable, Near
<1>3. RenewalsAreDue'
    BY <1>1 DEF RenewalsAreDue, Answered
<1>4. losses \in Nat /\ Affords(losses, Paid, Orphans)
    BY TimesAssumption DEF TypeOK, SessionsArePaid
<1>5. SUFFICES Affords(losses + 1, Paid', Orphans')
    BY <1>1, <1>3 DEF SessionsArePaid, Affords
<1>6. losses + 1 \in Nat
    BY <1>4
<1>7. CASE req[q].asks = "refresh"
    <2> DEFINE x == claims[current].sid
    <2>1. lossy' = lossy \cup {x}
        BY <1>7 DEF Break
    <2>2. ASSUME NEW s, Held(s) PROVE s = x
        BY <1>1, <1>7, <2>2 DEF Held, SessionsArePaid, RenewalsAreDue, Answered
    <2> HIDE DEF x
    <2>3. Paid' \subseteq Paid \cup {x}
        BY <1>2, <2>1, <2>2 DEF Paid
    <2>4. Orphans' \subseteq Orphans
        BY <1>1, <1>7 DEF Orphans, Idle, TypeOK
    <2> QED
        BY <1>4, <1>6, <2>3, <2>4, AffordsMore, AffordsLess
<1>8. CASE req[q].asks # "refresh"
    <2>1. lossy' = lossy
        BY <1>8 DEF Break
    <2>2. CASE req[q].at = "answered"
        <3> DEFINE x == claims[req[q].pair].sid
        <3>1. ASSUME NEW s, Held(s) PROVE Held(s)' \/ s = x
            BY <1>1, <3>1 DEF Held
        <3> HIDE DEF x
        <3>2. Paid' \subseteq Paid \cup {x}
            BY <1>2, <2>1, <3>1 DEF Paid
        <3>3. Orphans' \subseteq Orphans
            BY <1>1, <2>2 DEF Orphans, Idle, TypeOK
        <3> QED
            BY <1>4, <1>6, <3>2, <3>3, AffordsMore, AffordsLess
    <2>3. CASE req[q].at # "answered"
        <3>1. ASSUME NEW s, Held(s) PROVE Held(s)'
            BY <1>1, <2>3, <3>1 DEF Held, Answered
        <3>2. Paid' \subseteq Paid
            BY <1>2, <2>1, <3>1 DEF Paid
        <3>3. Orphans' \subseteq Orphans \cup {q}
            BY <1>1 DEF Orphans, TypeOK
        <3> QED
            BY <1>4, <1>6, <3>2, <3>3, AffordsMore, AffordsLess
    <2> QED
        BY <2>2, <2>3
<1> QED
    BY <1>7, <1>8

-----------------------------------------------------------------------------
(* The budget, step by step: the service, operators and time *)

LEMMA RefuseIsPaid ==
    ASSUME SessionInvariant, SessionsArePaid, NEW q \in Request, req[q].at = "sent",
           NEW says \in Says \ {"pair"}, Reply(q, says, NoPair), Unchanging,
           UNCHANGED <<now, parentGone, client, losses, lossy, stopped>>
    PROVE  SessionsArePaid'
<1> USE NamesAssumption DEF SessionInvariant, client, Unchanging
<1>1. /\ \A r \in Request \ {q} : req'[r] = req[r]
      /\ flight = q => /\ req'[q].at = "answered" /\ req'[q].asks = req[q].asks
                       /\ req'[q].says # "pair"
      /\ flight # q => req'[q] = Idle
    BY Replied
<1>2. Usable' = Usable
    BY DEF Usable, Near
<1>3. Orphans' \subseteq Orphans
    BY <1>1 DEF Orphans, Idle
<1>4. \A s : Held(s) => Held(s)'
    BY <1>1 DEF Held, Answered
<1>5. RenewalsAreDue'
    BY <1>1 DEF SessionsArePaid, RenewalsAreDue, Answered, Near
<1> QED
    BY <1>2, <1>3, <1>4, <1>5, NothingComes DEF SessionsArePaid

\* The new session is about to be held, or was an orphaned issuance.
LEMMA IssueIsPaid ==
    ASSUME SessionInvariant, SessionsArePaid, NEW q \in Request, req[q].at = "sent",
           req[q].asks = "issue", Issue(q),
           UNCHANGED <<now, parentGone, client, losses, lossy, stopped>>
    PROVE  SessionsArePaid'
<1> USE NamesAssumption DEF SessionInvariant, client
<1>p. PICK p : p = NewPair
    OBVIOUS
<1>1. /\ p \in Pair /\ p \notin spent /\ p \notin opened
      /\ live' = [live EXCEPT ![p] = p]
      /\ opened' = opened \cup {p}
      /\ claims' = [claims EXCEPT ![p] = [sid |-> p, access |-> now + AccessTTL,
                                         refresh |-> now + RefreshTTL]]
    BY <1>p, FreshPair DEF Issue, Chain!Open, Signed, PairsAreSigned
<1>2. /\ \A r \in Request \ {q} : req'[r] = req[r]
      /\ flight = q => /\ req'[q].at = "answered" /\ req'[q].asks = "issue"
                       /\ req'[q].says = "pair" /\ req'[q].pair = p
      /\ flight # q => req'[q] = Idle
    BY <1>p, <1>1, Replied DEF Issue, Says
<1>3. \A o \in Pair \ {p} : claims'[o] = claims[o]
    BY <1>1 DEF TypeOK
<1>4. claims'[p].sid = p
    BY <1>1 DEF TypeOK
<1>5. ASSUME NEW s \in Usable', s # p PROVE s \in Usable
    <2>1. s \in opened /\ s \in Pair /\ live'[s] = live[s] /\ live[s] # NoPair
        BY <1>1, <1>5 DEF Usable, TypeOK
    <2>2. live[s] # p
        BY <1>1, <2>1 DEF PairsAreSigned
    <2>3. live[s] \in Pair
        BY <2>1 DEF TypeOK
    <2> QED
        BY <1>3, <2>1, <2>2, <2>3, UsableBefore DEF TypeOK
<1>6. ASSUME NEW s, Held(s) PROVE Held(s)'
    <2>1. CASE current # NoPair /\ s = claims[current].sid
        BY <1>1, <1>3, <2>1 DEF Held, TypeOK
    <2>2. CASE Answered /\ req[flight].says = "pair" /\ s = claims[req[flight].pair].sid
        <3>1. flight # q /\ req[flight].pair \in spent
            BY <2>2 DEF Answered, PairsAreSigned
        <3> QED
            BY <1>1, <1>2, <1>3, <2>2, <3>1 DEF Held, Answered, TypeOK
    <2> QED
        BY <1>6, <2>1, <2>2 DEF Held
<1>7. RenewalsAreDue'
    <2>1. current \in Pair \ {p} \/ current = NoPair
        BY <1>1 DEF TypeOK
    <2>2. flight \in Request /\ req'[flight].asks = "issue" =>
                current = NoPair \/ Near(claims'[current].refresh)
        BY <1>2, <1>3, <2>1 DEF SessionsArePaid, RenewalsAreDue, Idle
    <2>3. ASSUME Answered', req'[flight].asks = "refresh", req'[flight].says = "pair"
          PROVE  claims'[req'[flight].pair].sid = claims'[current].sid
        <3>1. flight # q /\ flight \in Request /\ req'[flight] = req[flight]
            BY <1>2, <2>3 DEF Answered
        <3>2. req[flight].pair \in Pair \ {p} /\ current \in Pair \ {p}
            BY <1>1, <2>1, <2>3, <3>1 DEF Answered, PairsAreSigned, OneFlight, TypeOK
        <3> QED
            BY <1>3, <2>3, <3>1, <3>2 DEF Answered, SessionsArePaid, RenewalsAreDue
    <2> QED
        BY <2>2, <2>3 DEF RenewalsAreDue, Near
<1>8. CASE flight = q
    <2>1. Orphans' \subseteq Orphans
        BY <1>2, <1>8 DEF Orphans
    <2>2. Held(p)'
        BY <1>2, <1>4, <1>8 DEF Held, Answered
    <2> QED
        BY <1>5, <1>6, <1>7, <2>1, <2>2, NothingComes DEF SessionsArePaid
<1>9. CASE flight # q
    <2>1. Orphans' \subseteq Orphans \ {q} /\ q \in Orphans
        BY <1>2, <1>9 DEF Orphans, Idle
    <2>2. Paid' \subseteq Paid \cup {p}
        BY <1>5, <1>6 DEF Paid
    <2>3. losses \in Nat /\ Affords(losses, Paid, Orphans)
        BY TimesAssumption DEF TypeOK, SessionsArePaid
    <2>4. Affords(losses, Paid \cup {p}, Orphans \ {q})
        BY <2>1, <2>3, AffordsArrival
    <2>5. Affords(losses, Paid', Orphans')
        BY <2>1, <2>2, <2>3, <2>4, AffordsLess
    <2> QED
        BY <1>7, <2>5 DEF SessionsArePaid, Affords
<1> QED
    BY <1>8, <1>9

\* The session exchanged is about to be held, or has lost a connection.
LEMMA ExchangeIsPaid ==
    ASSUME SessionInvariant, SessionsArePaid, NEW q \in Request, req[q].at = "sent",
           req[q].asks = "refresh", Exchange(q),
           UNCHANGED <<now, parentGone, client, losses, lossy, stopped>>
    PROVE  SessionsArePaid'
<1> USE NamesAssumption DEF SessionInvariant, client
<1>p. PICK p, s : p = NewPair /\ s = Sid(q)
    OBVIOUS
<1>1. /\ req[q].pair \in spent /\ s = claims[req[q].pair].sid
      /\ s \in opened /\ s \in Pair
    BY <1>p DEF Sid, PairsAreSigned, TypeOK
<1>2. /\ p \in Pair /\ p \notin spent
      /\ live' = [live EXCEPT ![s] = p] /\ opened' = opened
      /\ claims' = [claims EXCEPT ![p] = [sid |-> s, access |-> now + AccessTTL,
                                         refresh |-> now + RefreshTTL]]
    BY <1>p, FreshPair DEF Exchange, Chain!Rotate, Signed
<1>3. /\ \A r \in Request \ {q} : req'[r] = req[r]
      /\ flight = q => /\ req'[q].at = "answered" /\ req'[q].asks = "refresh"
                       /\ req'[q].says = "pair" /\ req'[q].pair = p
      /\ flight # q => req'[q] = Idle
    BY <1>p, <1>2, Replied DEF Exchange, Says
<1>4. claims'[p].sid = s /\ \A o \in Pair \ {p} : claims'[o] = claims[o]
    BY <1>2 DEF TypeOK
<1>5. ASSUME NEW z \in Usable', z # s PROVE z \in Usable
    <2>1. z \in opened /\ z \in Pair /\ live'[z] = live[z] /\ live[z] # NoPair
        BY <1>2, <1>5 DEF Usable, TypeOK
    <2>2. live[z] # p
        BY <1>2, <2>1 DEF PairsAreSigned
    <2>3. live[z] \in Pair
        BY <2>1 DEF TypeOK
    <2> QED
        BY <1>4, <2>1, <2>2, <2>3, UsableBefore DEF TypeOK
<1>6. ASSUME NEW z, Held(z) PROVE Held(z)'
    <2>1. CASE current # NoPair /\ z = claims[current].sid
        BY <1>2, <1>4, <2>1 DEF Held, TypeOK
    <2>2. CASE Answered /\ req[flight].says = "pair" /\ z = claims[req[flight].pair].sid
        <3>1. flight # q /\ req[flight].pair \in spent
            BY <2>2 DEF Answered, PairsAreSigned
        <3> QED
            BY <1>2, <1>3, <1>4, <2>2, <3>1 DEF Held, Answered, TypeOK
    <2> QED
        BY <1>6, <2>1, <2>2 DEF Held
<1>7. Held(s)' \/ s \in lossy
    <2>1. CASE flight = q
        BY <1>3, <1>4, <2>1 DEF Held, Answered
    <2>2. CASE flight # q
        BY <1>1, <2>2 DEF OneFlight
    <2> QED
        BY <2>1, <2>2
<1>8. Orphans' \subseteq Orphans
    BY <1>3 DEF Orphans, Idle
<1>9. RenewalsAreDue'
    <2>1. current \in Pair \ {p} \/ current = NoPair
        BY <1>2 DEF TypeOK
    <2>2. flight \in Request /\ req'[flight].asks = "issue" =>
                current = NoPair \/ Near(claims'[current].refresh)
        BY <1>3, <1>4, <2>1 DEF SessionsArePaid, RenewalsAreDue, Idle
    <2>3. ASSUME Answered', req'[flight].asks = "refresh", req'[flight].says = "pair"
          PROVE  claims'[req'[flight].pair].sid = claims'[current].sid
        <3>1. CASE flight = q
            <4>1. req[q].pair = current /\ current \in Pair \ {p}
                BY <1>1, <2>1, <3>1 DEF OneFlight
            <4> QED
                BY <1>1, <1>3, <1>4, <3>1, <4>1
        <3>2. CASE flight # q
            <4>1. flight \in Request /\ req'[flight] = req[flight]
                BY <1>3, <2>3, <3>2 DEF Answered
            <4>2. req[flight].pair \in Pair \ {p} /\ current \in Pair \ {p}
                BY <1>2, <2>1, <2>3, <4>1 DEF Answered, PairsAreSigned, OneFlight, TypeOK
            <4> QED
                BY <1>4, <2>3, <4>1, <4>2 DEF Answered, SessionsArePaid, RenewalsAreDue
        <3> QED
            BY <3>1, <3>2
    <2> QED
        BY <2>2, <2>3 DEF RenewalsAreDue, Near
<1> QED
    BY <1>5, <1>6, <1>7, <1>8, <1>9, NothingComes DEF SessionsArePaid

\* Sessions only end.
LEMMA EndingIsPaid ==
    ASSUME SessionInvariant, SessionsArePaid, NEW S,
           live' = [z \in Pair |-> IF z \in S THEN NoPair ELSE live[z]],
           Orphans' \subseteq Orphans, \A z : Held(z) => Held(z)', RenewalsAreDue',
           UNCHANGED <<now, opened, claims, losses, lossy>>
    PROVE  SessionsArePaid'
<1> USE DEF SessionInvariant
<1>1. ASSUME NEW z \in Usable' PROVE z \in Usable
    <2>1. z \in opened /\ z \in Pair /\ live'[z] = live[z]
        BY <1>1 DEF Usable, TypeOK
    <2>2. now' \in Nat /\ now <= now' /\ claims'[live[z]] = claims[live[z]]
        BY DEF TypeOK
    <2> QED
        BY <2>1, <2>2, UsableBefore
<1> QED
    BY <1>1, NothingComes DEF SessionsArePaid

LEMMA ReuseIsPaid ==
    ASSUME SessionInvariant, SessionsArePaid, NEW q \in Request, req[q].at = "sent",
           req[q].asks = "refresh", Reuse(q),
           UNCHANGED <<now, parentGone, client, losses, lossy, stopped>>
    PROVE  SessionsArePaid'
<1> USE NamesAssumption DEF SessionInvariant, client
<1>1. /\ live' = [z \in Pair |-> IF z \in {Sid(q)} THEN NoPair ELSE live[z]]
      /\ opened' = opened /\ claims' = claims
    BY DEF Reuse, Chain!End
<1>2. /\ \A r \in Request \ {q} : req'[r] = req[r]
      /\ flight = q => /\ req'[q].at = "answered" /\ req'[q].asks = req[q].asks
                       /\ req'[q].says # "pair"
      /\ flight # q => req'[q] = Idle
    BY Replied DEF Reuse, Says
<1>3. Orphans' \subseteq Orphans
    BY <1>2 DEF Orphans, Idle
<1>4. \A z : Held(z) => Held(z)'
    BY <1>1, <1>2 DEF Held, Answered
<1>5. RenewalsAreDue'
    BY <1>1, <1>2 DEF SessionsArePaid, RenewalsAreDue, Answered, Near
<1> QED
    BY <1>1, <1>3, <1>4, <1>5, EndingIsPaid

LEMMA ServeIsPaid ==
    ASSUME SessionInvariant, SessionsArePaid, NEW q \in Request, Serve(q)
    PROVE  SessionsArePaid'
<1>1. /\ req[q].at = "sent"
      /\ UNCHANGED <<now, parentGone, client, losses, lossy, stopped>>
    BY DEF Serve
<1>2. req[q].asks \in {"issue", "refresh"}
    BY DEF SessionInvariant, TypeOK
<1>3. CASE Overload(q)
    BY <1>1, <1>3, RefuseIsPaid DEF Overload, Says
<1>4. CASE Handle(q)
    <2>1. CASE parentGone
        BY <1>1, <1>4, <2>1, RefuseIsPaid DEF Handle, Says
    <2>2. CASE ~parentGone /\ req[q].asks = "issue"
        BY <1>1, <1>4, <2>2, IssueIsPaid DEF Handle
    <2>3. CASE ~parentGone /\ req[q].asks = "refresh"
        <3>1. CASE Reply(q, "Token expired", NoPair) /\ Unchanging
            BY <1>1, <3>1, RefuseIsPaid DEF Says
        <3>2. CASE Exchange(q)
            BY <1>1, <2>3, <3>2, ExchangeIsPaid
        <3>3. CASE Reuse(q)
            BY <1>1, <2>3, <3>3, ReuseIsPaid
        <3> QED
            BY <1>4, <2>3, <3>1, <3>2, <3>3 DEF Handle, Refresh
    <2> QED
        BY <1>2, <2>1, <2>2, <2>3
<1> QED
    BY <1>3, <1>4 DEF Serve

LEMMA RevokeSessionIsPaid ==
    ASSUME SessionInvariant, SessionsArePaid, NEW s \in Pair, RevokeSession(s)
    PROVE  SessionsArePaid'
<1> USE DEF client
<1>1. /\ live' = [z \in Pair |-> IF z \in {s} THEN NoPair ELSE live[z]]
      /\ opened' = opened
      /\ UNCHANGED <<now, claims, req, client, losses, lossy>>
    BY DEF RevokeSession, Chain!End
<1>2. Orphans' \subseteq Orphans /\ \A z : Held(z) => Held(z)'
    BY <1>1 DEF Orphans, Held, Answered
<1>3. RenewalsAreDue'
    BY <1>1 DEF SessionsArePaid, RenewalsAreDue, Answered, Near
<1> QED
    BY <1>1, <1>2, <1>3, EndingIsPaid

\* A token that was near its expiry stays so.
LEMMA EnvironmentIsPaid ==
    ASSUME SessionInvariant, SessionsArePaid, RevokeParent \/ Tick \/ UNCHANGED vars
    PROVE  SessionsArePaid'
<1>1. UNCHANGED <<service, req, client, ghost>> /\ now' \in Nat /\ now <= now'
    <2>1. now \in Nat
        BY DEF SessionInvariant, TypeOK
    <2>2. CASE RevokeParent
        BY <2>1, <2>2 DEF RevokeParent
    <2>3. CASE Tick
        BY <2>1, <2>3 DEF Tick
    <2>4. CASE UNCHANGED vars
        BY <2>1, <2>4 DEF vars
    <2> QED
        BY <2>2, <2>3, <2>4
<1> USE DEF SessionInvariant, service, client, ghost
<1>2. ASSUME NEW z \in Usable' PROVE z \in Usable
    BY <1>1, UsableBefore DEF Usable
<1>3. Orphans' \subseteq Orphans /\ \A z : Held(z)' = Held(z)
    BY <1>1 DEF Orphans, Held, Answered
<1>4. RenewalsAreDue'
    <2>1. ASSUME flight \in Request, req[flight].asks = "issue", current # NoPair
          PROVE  Near(claims[current].refresh)'
        <3>1. claims[current].refresh - now <= Window
            BY <2>1 DEF SessionsArePaid, RenewalsAreDue, Near
        <3>2. claims[current].refresh \in Nat /\ now \in Nat /\ Window \in Nat
            BY <2>1, TimesAssumption DEF TypeOK
        <3>3. claims[current].refresh - now' <= Window
            BY <1>1, <3>1, <3>2
        <3> QED
            BY <1>1, <3>3 DEF Near
    <2> QED
        BY <1>1, <2>1 DEF SessionsArePaid, RenewalsAreDue, Answered
<1> QED
    BY <1>1, <1>2, <1>3, <1>4, NothingComes DEF SessionsArePaid

LEMMA PaidHolds == Spec => []SessionsArePaid
<1>1. Init => SessionsArePaid
    <2> SUFFICES ASSUME Init PROVE SessionsArePaid
        OBVIOUS
    <2>1. Paid = {} /\ Orphans = {}
        BY DEF Init, Chain!Init, Paid, Usable, Orphans, Idle
    <2>2. Affords(losses, Paid, Orphans)
        BY <2>1, FS_EmptySet DEF Affords, Init
    <2>3. RenewalsAreDue
        BY NamesAssumption DEF Init, RenewalsAreDue, Answered
    <2> QED
        BY <2>2, <2>3 DEF SessionsArePaid
<1>2. SessionInvariant /\ SessionsArePaid /\ [Next]_vars => SessionsArePaid'
    <2> SUFFICES ASSUME SessionInvariant, SessionsArePaid, [Next]_vars
                 PROVE  SessionsArePaid'
        OBVIOUS
    <2>1. ASSUME NEW c \in Caller, GetTokenPair(c) \/ ForceRefresh(c)
          PROVE  SessionsArePaid'
        BY <2>1, CallIsPaid
    <2>2. ASSUME NEW q \in Request, Receive(q) \/ Break(q) \/ Serve(q)
          PROVE  SessionsArePaid'
        BY <2>2, ReceiveIsPaid, BreakIsPaid, ServeIsPaid
    <2>3. CASE Settle
        BY <2>3, SettleIsPaid
    <2>4. ASSUME NEW s \in Pair, RevokeSession(s)
          PROVE  SessionsArePaid'
        BY <2>4, RevokeSessionIsPaid
    <2>5. CASE RevokeParent \/ Tick \/ UNCHANGED vars
        BY <2>5, EnvironmentIsPaid
    <2> QED
        BY <2>1, <2>2, <2>3, <2>4, <2>5 DEF Next
<1> QED
    BY <1>1, <1>2, InvariantHolds, PTL DEF Spec

(* The client opens a session only when it cannot go on with the one it    *)
(* has: whatever callers, answers and orphaned requests interleave, of the *)
(* sessions that could still be renewed all but one are paid for by a      *)
(* broken connection.                                                      *)
THEOREM OneSessionIsUsable == Spec => []OneUsableSession
<1>1. SessionInvariant /\ SessionsArePaid => OneUsableSession
    <2> SUFFICES ASSUME SessionInvariant, SessionsArePaid PROVE OneUsableSession
        OBVIOUS
    <2>1. \E x : Usable \subseteq Paid \cup {x}
        <3>1. CASE Answered /\ req[flight].says = "pair"
            <4>1. \A s \in Usable : s \in Paid \/ s = claims[req[flight].pair].sid
                BY <3>1, OneIsHeld DEF Paid, Held, SessionsArePaid
            <4> QED
                BY <4>1
        <3>2. CASE ~(Answered /\ req[flight].says = "pair")
            <4>1. \A s \in Usable : s \in Paid \/ s = claims[current].sid
                BY <3>2 DEF Paid, Held
            <4> QED
                BY <4>1
        <3> QED
            BY <3>1, <3>2
    <2>2. PICK x : Usable \subseteq Paid \cup {x}
        BY <2>1
    <2>3. /\ losses \in Nat /\ losses + 1 \in Nat
          /\ Affords(losses, Paid, Orphans)
        BY TimesAssumption DEF SessionInvariant, TypeOK, SessionsArePaid
    <2>4. Affords(losses + 1, Usable, Orphans)
        BY <2>2, <2>3, AffordsMore, AffordsLess
    <2>5. Cardinality(Usable) \in Nat /\ Cardinality(Orphans) \in Nat
        BY <2>4, FS_CardinalityType DEF Affords
    <2> QED
        BY <2>3, <2>4, <2>5 DEF Affords, OneUsableSession
<1> QED
    BY <1>1, InvariantHolds, PaidHolds, PTL

-----------------------------------------------------------------------------
(* The service behind the client. *)

LEMMA ChainStutters ==
    ASSUME UNCHANGED <<live, opened, spent>>
    PROVE  UNCHANGED Chain!chain
BY DEF Chain!chain

LEMMA ChainStep == SessionInvariant /\ [Next]_vars => [Chain!Next]_(Chain!chain)
<1> SUFFICES ASSUME SessionInvariant, [Next]_vars
             PROVE  Chain!Next \/ UNCHANGED Chain!chain
    OBVIOUS
<1>1. ASSUME NEW c \in Caller, GetTokenPair(c) \/ ForceRefresh(c)
      PROVE  UNCHANGED Chain!chain
    BY <1>1, ChainStutters DEF GetTokenPair, ForceRefresh, Wait, service
<1>2. ASSUME NEW q \in Request, Receive(q) \/ Break(q)
      PROVE  UNCHANGED Chain!chain
    BY <1>2, ChainStutters DEF Receive, Break, service
<1>3. ASSUME Settle \/ RevokeParent \/ Tick \/ UNCHANGED vars
      PROVE  UNCHANGED Chain!chain
    BY <1>3, ChainStutters DEF Settle, RevokeParent, Tick, vars, service
<1>4. ASSUME NEW s \in Pair, RevokeSession(s)
      PROVE  Chain!Next
    <2>1. {s} \in SUBSET Pair /\ Chain!End({s})
        BY <1>4 DEF RevokeSession
    <2> QED
        BY <2>1 DEF Chain!Next
<1>5. ASSUME NEW q \in Request, Serve(q)
      PROVE  Chain!Next \/ UNCHANGED Chain!chain
    <2>1. req[q].at = "sent" /\ req[q].asks \in {"issue", "refresh"}
        BY <1>5 DEF Serve, SessionInvariant, TypeOK
    <2>2. CASE Unchanging
        BY <2>2, ChainStutters DEF Unchanging
    <2>3. CASE Issue(q)
        <3>1. NewPair \in Pair /\ Chain!Open(NewPair, NewPair)
            BY <2>3, FreshPair DEF Issue, SessionInvariant, TypeOK
        <3> QED
            BY <3>1 DEF Chain!Next
    <2>4. CASE req[q].asks = "refresh" /\ (Exchange(q) \/ Reuse(q))
        <3>1. Sid(q) \in Pair
            BY <2>1, <2>4 DEF SessionInvariant, PairsAreSigned, TypeOK, Sid
        <3>2. CASE Exchange(q)
            <4>1. NewPair \in Pair /\ Chain!Rotate(Sid(q), NewPair)
                BY <3>2, FreshPair DEF Exchange, SessionInvariant, TypeOK
            <4> QED
                BY <3>1, <4>1 DEF Chain!Next
        <3>3. CASE Reuse(q)
            <4>1. {Sid(q)} \in SUBSET Pair /\ Chain!End({Sid(q)})
                BY <3>1, <3>3 DEF Reuse
            <4> QED
                BY <4>1 DEF Chain!Next
        <3> QED
            BY <2>4, <3>2, <3>3
    <2> QED
        BY <1>5, <2>1, <2>2, <2>3, <2>4 DEF Serve, Handle, Overload, Refresh
<1> QED
    BY <1>1, <1>2, <1>3, <1>4, <1>5 DEF Next

(* Whatever the client asks, whenever a request arrives and whoever gave   *)
(* it up, the service does with a session what RefreshChain allows: so     *)
(* this module assumes of the service no more than TokenLifecycle is shown *)
(* to implement.                                                           *)
THEOREM ServiceIsRefreshChain == Spec => Chain!Spec
<1>1. Init => Chain!Init
    BY DEF Init
<1>2. SessionInvariant /\ [Next]_vars => [Chain!Next]_(Chain!chain)
    BY ChainStep
<1> QED
    BY <1>1, <1>2, InvariantHolds, PTL DEF Spec, Chain!Spec

=============================================================================
