------------------------- MODULE KeyRotation_proofs -------------------------
(***************************************************************************)
(* Proofs about KeyRotation, for any keys, calls and times.                *)
(*                                                                         *)
(* The argument: every copy of the key set, in the cache or on its way, is *)
(* dated by the request that fetched it.  A key in it was still published  *)
(* at that date, which bounds how long it can be used after its            *)
(* withdrawal; a key that signs and is missing from it was announced after *)
(* that date, and by then the copy has ended.                              *)
(***************************************************************************)
EXTENDS KeyRotation, TLAPS

\* k signs or has signed.
Signing(k) == k # NoKey /\ k \in {slots.current, slots.previous}
Used(k)    == Signing(k) \/ withdrawn[k] # Never

\* Each key is in one slot, and none that was withdrawn comes back.
SlotsApart ==
    /\ slots.current # slots.next /\ slots.current # slots.previous
    /\ slots.next # slots.previous \/ slots.next = NoKey
    /\ \A k \in Published(slots) : withdrawn[k] = Never

Dated ==
    /\ stagedAt <= now /\ promotedAt <= now
    /\ \A k \in Key : withdrawn[k] <= now /\ lastExp[k] <= now + Longest
    /\ slots.previous # NoKey => lastExp[slots.previous] <= promotedAt + Longest

IssuedByUsed == \A k \in Key : lastExp[k] > 0 \/ indefinite[k] => Used(k)

\* What a key signed has run out when the key is withdrawn.
Drained ==
    ~hurried => \A k \in Key : withdrawn[k] # Never => lastExp[k] <= now /\ ~indefinite[k]

CacheDated ==
    /\ cache.expiresAt <= now + CacheTTL
    /\ \A k \in cache.keys :
         withdrawn[k] # Never => cache.expiresAt <= withdrawn[k] + CacheTTL
    /\ ~hurried =>
         /\ \A k \in Key : Signing(k) => k \in cache.keys \/ cache.expiresAt <= now
         /\ slots.next # NoKey =>
              slots.next \in cache.keys \/ cache.expiresAt <= stagedAt + CacheTTL

CallDated(c) ==
    call[c].at # "idle" =>
        /\ call[c].since <= now /\ now <= call[c].since + Timeout
        /\ call[c].kid \in Key /\ Used(call[c].kid)
        /\ call[c].exp <= lastExp[call[c].kid] \/ call[c].exp = Forever

AnswerDated(c) ==
    call[c].at = "answered" =>
        /\ \A k \in call[c].keys : withdrawn[k] # Never => call[c].since <= withdrawn[k]
        /\ call[c].kid \notin call[c].keys => withdrawn[call[c].kid] # Never
        /\ ~hurried =>
             /\ \A k \in Key : Signing(k) => k \in call[c].keys \/ call[c].since + Wait <= now
             /\ slots.next # NoKey =>
                  slots.next \in call[c].keys \/ call[c].since <= stagedAt

Inductive ==
    /\ TypeOK /\ SlotsApart /\ Dated /\ IssuedByUsed /\ Drained /\ CacheDated
    /\ \A c \in Call : CallDated(c) /\ AnswerDated(c)
    /\ RetiredKeysDieOut /\ RotationRefusesNobody


LEMMA TickStep ==
  ASSUME Inductive, Tick
  PROVE  Inductive'
<1> USE KeyAssumption, TimeAssumption DEF Inductive, CallRecord, Tick, NoVerdict, service, tokens, verifier, Never
<1>1. TypeOK'
  BY DEF TypeOK, SlotsApart, Dated, IssuedByUsed, Drained, CacheDated, CallDated, AnswerDated, Signing, Used, Published
<1>2. SlotsApart'
  BY DEF TypeOK, SlotsApart, Dated, IssuedByUsed, Drained, CacheDated, CallDated, AnswerDated, Signing, Used, Published
<1>3. Dated'
  BY DEF TypeOK, SlotsApart, Dated, IssuedByUsed, Drained, CacheDated, CallDated, AnswerDated, Signing, Used, Published
<1>4. IssuedByUsed'
  BY DEF TypeOK, SlotsApart, Dated, IssuedByUsed, Drained, CacheDated, CallDated, AnswerDated, Signing, Used, Published
<1>5. Drained'
  BY DEF TypeOK, SlotsApart, Dated, IssuedByUsed, Drained, CacheDated, CallDated, AnswerDated, Signing, Used, Published
<1>6. CacheDated'
  BY DEF TypeOK, SlotsApart, Dated, IssuedByUsed, Drained, CacheDated, CallDated, AnswerDated, Signing, Used, Published
<1>7. ASSUME NEW c \in Call PROVE CallDated(c)'
  BY DEF TypeOK, SlotsApart, Dated, IssuedByUsed, Drained, CacheDated, CallDated, AnswerDated, Signing, Used, Published
<1>8. ASSUME NEW c \in Call PROVE AnswerDated(c)'
  BY DEF TypeOK, SlotsApart, Dated, IssuedByUsed, Drained, CacheDated, CallDated, AnswerDated, Signing, Used, Published
<1>9. (RetiredKeysDieOut /\ RotationRefusesNobody)'
  BY DEF TypeOK, SlotsApart, Dated, IssuedByUsed, Drained, CacheDated, CallDated, AnswerDated, Signing, Used, Published, Larger, RetiredKeysDieOut, RotationRefusesNobody
<1> QED
  BY <1>1, <1>2, <1>3, <1>4, <1>5, <1>6, <1>7, <1>8, <1>9

LEMMA SignStep ==
  ASSUME Inductive, NEW life \in Lifetime, Sign(life)
  PROVE  Inductive'
<1> USE KeyAssumption, TimeAssumption DEF Inductive, CallRecord, Sign, Larger, NoVerdict, service, tokens, verifier, Never
<1>1. TypeOK'
  BY DEF TypeOK, SlotsApart, Dated, IssuedByUsed, Drained, CacheDated, CallDated, AnswerDated, Signing, Used, Published
<1>2. SlotsApart'
  BY DEF TypeOK, SlotsApart, Dated, IssuedByUsed, Drained, CacheDated, CallDated, AnswerDated, Signing, Used, Published
<1>3. Dated'
  BY DEF TypeOK, SlotsApart, Dated, IssuedByUsed, Drained, CacheDated, CallDated, AnswerDated, Signing, Used, Published
<1>4. IssuedByUsed'
  BY DEF TypeOK, SlotsApart, Dated, IssuedByUsed, Drained, CacheDated, CallDated, AnswerDated, Signing, Used, Published
<1>5. Drained'
  BY DEF TypeOK, SlotsApart, Dated, IssuedByUsed, Drained, CacheDated, CallDated, AnswerDated, Signing, Used, Published
<1>6. CacheDated'
  BY DEF TypeOK, SlotsApart, Dated, IssuedByUsed, Drained, CacheDated, CallDated, AnswerDated, Signing, Used, Published
<1>7. ASSUME NEW c \in Call PROVE CallDated(c)'
  BY DEF TypeOK, SlotsApart, Dated, IssuedByUsed, Drained, CacheDated, CallDated, AnswerDated, Signing, Used, Published
<1>8. ASSUME NEW c \in Call PROVE AnswerDated(c)'
  BY DEF TypeOK, SlotsApart, Dated, IssuedByUsed, Drained, CacheDated, CallDated, AnswerDated, Signing, Used, Published
<1>9. (RetiredKeysDieOut /\ RotationRefusesNobody)'
  BY DEF TypeOK, SlotsApart, Dated, IssuedByUsed, Drained, CacheDated, CallDated, AnswerDated, Signing, Used, Published, Larger, RetiredKeysDieOut, RotationRefusesNobody
<1> QED
  BY <1>1, <1>2, <1>3, <1>4, <1>5, <1>6, <1>7, <1>8, <1>9

LEMMA SignIndefiniteStep ==
  ASSUME Inductive, SignIndefinite
  PROVE  Inductive'
<1> USE KeyAssumption, TimeAssumption DEF Inductive, CallRecord, SignIndefinite, NoVerdict, service, tokens, verifier, Never
<1>1. TypeOK'
  BY DEF TypeOK, SlotsApart, Dated, IssuedByUsed, Drained, CacheDated, CallDated, AnswerDated, Signing, Used, Published
<1>2. SlotsApart'
  BY DEF TypeOK, SlotsApart, Dated, IssuedByUsed, Drained, CacheDated, CallDated, AnswerDated, Signing, Used, Published
<1>3. Dated'
  BY DEF TypeOK, SlotsApart, Dated, IssuedByUsed, Drained, CacheDated, CallDated, AnswerDated, Signing, Used, Published
<1>4. IssuedByUsed'
  BY DEF TypeOK, SlotsApart, Dated, IssuedByUsed, Drained, CacheDated, CallDated, AnswerDated, Signing, Used, Published
<1>5. Drained'
  BY DEF TypeOK, SlotsApart, Dated, IssuedByUsed, Drained, CacheDated, CallDated, AnswerDated, Signing, Used, Published
<1>6. CacheDated'
  BY DEF TypeOK, SlotsApart, Dated, IssuedByUsed, Drained, CacheDated, CallDated, AnswerDated, Signing, Used, Published
<1>7. ASSUME NEW c \in Call PROVE CallDated(c)'
  BY DEF TypeOK, SlotsApart, Dated, IssuedByUsed, Drained, CacheDated, CallDated, AnswerDated, Signing, Used, Published
<1>8. ASSUME NEW c \in Call PROVE AnswerDated(c)'
  BY DEF TypeOK, SlotsApart, Dated, IssuedByUsed, Drained, CacheDated, CallDated, AnswerDated, Signing, Used, Published
<1>9. (RetiredKeysDieOut /\ RotationRefusesNobody)'
  BY DEF TypeOK, SlotsApart, Dated, IssuedByUsed, Drained, CacheDated, CallDated, AnswerDated, Signing, Used, Published, Larger, RetiredKeysDieOut, RotationRefusesNobody
<1> QED
  BY <1>1, <1>2, <1>3, <1>4, <1>5, <1>6, <1>7, <1>8, <1>9

LEMMA StageStep ==
  ASSUME Inductive, NEW k0 \in Key, Stage(k0)
  PROVE  Inductive'
<1> USE KeyAssumption, TimeAssumption DEF Inductive, CallRecord, Stage, NoVerdict, service, tokens, verifier, Never
<1>1. TypeOK'
  BY DEF TypeOK, SlotsApart, Dated, IssuedByUsed, Drained, CacheDated, CallDated, AnswerDated, Signing, Used, Published
<1>2. SlotsApart'
  BY DEF TypeOK, SlotsApart, Dated, IssuedByUsed, Drained, CacheDated, CallDated, AnswerDated, Signing, Used, Published
<1>3. Dated'
  BY DEF TypeOK, SlotsApart, Dated, IssuedByUsed, Drained, CacheDated, CallDated, AnswerDated, Signing, Used, Published
<1>4. IssuedByUsed'
  BY DEF TypeOK, SlotsApart, Dated, IssuedByUsed, Drained, CacheDated, CallDated, AnswerDated, Signing, Used, Published
<1>5. Drained'
  BY DEF TypeOK, SlotsApart, Dated, IssuedByUsed, Drained, CacheDated, CallDated, AnswerDated, Signing, Used, Published
<1>6. CacheDated'
  BY DEF TypeOK, SlotsApart, Dated, IssuedByUsed, Drained, CacheDated, CallDated, AnswerDated, Signing, Used, Published
<1>7. ASSUME NEW c \in Call PROVE CallDated(c)'
  BY DEF TypeOK, SlotsApart, Dated, IssuedByUsed, Drained, CacheDated, CallDated, AnswerDated, Signing, Used, Published
<1>8. ASSUME NEW c \in Call PROVE AnswerDated(c)'
  BY DEF TypeOK, SlotsApart, Dated, IssuedByUsed, Drained, CacheDated, CallDated, AnswerDated, Signing, Used, Published
<1>9. (RetiredKeysDieOut /\ RotationRefusesNobody)'
  BY DEF TypeOK, SlotsApart, Dated, IssuedByUsed, Drained, CacheDated, CallDated, AnswerDated, Signing, Used, Published, Larger, RetiredKeysDieOut, RotationRefusesNobody
<1> QED
  BY <1>1, <1>2, <1>3, <1>4, <1>5, <1>6, <1>7, <1>8, <1>9

LEMMA PromoteStep ==
  ASSUME Inductive, Promote
  PROVE  Inductive'
<1> USE KeyAssumption, TimeAssumption DEF Inductive, CallRecord, Promote, NoVerdict, service, tokens, verifier, Never
<1>1. TypeOK'
  BY DEF TypeOK, SlotsApart, Dated, IssuedByUsed, Drained, CacheDated, CallDated, AnswerDated, Signing, Used, Published
<1>2. SlotsApart'
  BY DEF TypeOK, SlotsApart, Dated, IssuedByUsed, Drained, CacheDated, CallDated, AnswerDated, Signing, Used, Published
<1>3. Dated'
  BY DEF TypeOK, SlotsApart, Dated, IssuedByUsed, Drained, CacheDated, CallDated, AnswerDated, Signing, Used, Published
<1>4. IssuedByUsed'
  BY DEF TypeOK, SlotsApart, Dated, IssuedByUsed, Drained, CacheDated, CallDated, AnswerDated, Signing, Used, Published
<1>5. Drained'
  BY DEF TypeOK, SlotsApart, Dated, IssuedByUsed, Drained, CacheDated, CallDated, AnswerDated, Signing, Used, Published
<1>6. CacheDated'
  <2>1. cache.expiresAt <= now + CacheTTL
        /\ \A k \in cache.keys :
             withdrawn[k] # Never => cache.expiresAt <= withdrawn[k] + CacheTTL
    BY DEF CacheDated
  <2>2. ASSUME ~hurried', NEW k \in Key, Signing(k)'
        PROVE  k \in cache.keys \/ cache.expiresAt <= now
    <3>1. ~hurried /\ stagedAt + Wait <= now
      <4>1. ~(hurried \/ now < stagedAt + Wait)
        BY <2>2, Zenon DEF Promote
      <4> QED
        BY <4>1 DEF TypeOK
    <3>2. CASE k = slots.next
      BY <3>1, <3>2 DEF CacheDated, TypeOK
    <3>3. CASE k = slots.current
      BY <2>2, <3>1, <3>3 DEF CacheDated, Signing, TypeOK
    <3> QED
      BY <2>2, <3>2, <3>3 DEF Signing
  <2> QED
    BY <2>1, <2>2 DEF CacheDated, TypeOK, Signing
<1>7. ASSUME NEW c \in Call PROVE CallDated(c)'
  BY DEF TypeOK, SlotsApart, Dated, IssuedByUsed, Drained, CacheDated, CallDated, AnswerDated, Signing, Used, Published
<1>8. ASSUME NEW c \in Call PROVE AnswerDated(c)'
  <2> SUFFICES ASSUME call[c].at = "answered" PROVE AnswerDated(c)'
    BY DEF AnswerDated
  <2>1. ASSUME ~hurried', NEW k \in Key, Signing(k)'
        PROVE  k \in call[c].keys \/ call[c].since + Wait <= now
    <3>1. ~hurried /\ stagedAt + Wait <= now
      <4>1. ~(hurried \/ now < stagedAt + Wait)
        BY <2>1, Zenon DEF Promote
      <4> QED
        BY <4>1 DEF TypeOK
    <3>2. CASE k = slots.next
      BY <3>1, <3>2 DEF AnswerDated, TypeOK
    <3>3. CASE k = slots.current
      BY <2>1, <3>1, <3>3 DEF AnswerDated, Signing, TypeOK
    <3> QED
      BY <2>1, <3>2, <3>3 DEF Signing
  <2> QED
    BY <2>1 DEF AnswerDated, TypeOK, Signing
<1>9. (RetiredKeysDieOut /\ RotationRefusesNobody)'
  BY DEF TypeOK, SlotsApart, Dated, IssuedByUsed, Drained, CacheDated, CallDated, AnswerDated, Signing, Used, Published, Larger, RetiredKeysDieOut, RotationRefusesNobody
<1> QED
  BY <1>1, <1>2, <1>3, <1>4, <1>5, <1>6, <1>7, <1>8, <1>9

LEMMA ReissueStep ==
  ASSUME Inductive, Reissue
  PROVE  Inductive'
<1> USE KeyAssumption, TimeAssumption DEF Inductive, CallRecord, Reissue, NoVerdict, service, tokens, verifier, Never
<1>1. TypeOK'
  BY DEF TypeOK, SlotsApart, Dated, IssuedByUsed, Drained, CacheDated, CallDated, AnswerDated, Signing, Used, Published
<1>2. SlotsApart'
  BY DEF TypeOK, SlotsApart, Dated, IssuedByUsed, Drained, CacheDated, CallDated, AnswerDated, Signing, Used, Published
<1>3. Dated'
  BY DEF TypeOK, SlotsApart, Dated, IssuedByUsed, Drained, CacheDated, CallDated, AnswerDated, Signing, Used, Published
<1>4. IssuedByUsed'
  BY DEF TypeOK, SlotsApart, Dated, IssuedByUsed, Drained, CacheDated, CallDated, AnswerDated, Signing, Used, Published
<1>5. Drained'
  BY DEF TypeOK, SlotsApart, Dated, IssuedByUsed, Drained, CacheDated, CallDated, AnswerDated, Signing, Used, Published
<1>6. CacheDated'
  BY DEF TypeOK, SlotsApart, Dated, IssuedByUsed, Drained, CacheDated, CallDated, AnswerDated, Signing, Used, Published
<1>7. ASSUME NEW c \in Call PROVE CallDated(c)'
  BY DEF TypeOK, SlotsApart, Dated, IssuedByUsed, Drained, CacheDated, CallDated, AnswerDated, Signing, Used, Published
<1>8. ASSUME NEW c \in Call PROVE AnswerDated(c)'
  BY DEF TypeOK, SlotsApart, Dated, IssuedByUsed, Drained, CacheDated, CallDated, AnswerDated, Signing, Used, Published
<1>9. (RetiredKeysDieOut /\ RotationRefusesNobody)'
  BY DEF TypeOK, SlotsApart, Dated, IssuedByUsed, Drained, CacheDated, CallDated, AnswerDated, Signing, Used, Published, Larger, RetiredKeysDieOut, RotationRefusesNobody
<1> QED
  BY <1>1, <1>2, <1>3, <1>4, <1>5, <1>6, <1>7, <1>8, <1>9

LEMMA RetireStep ==
  ASSUME Inductive, Retire
  PROVE  Inductive'
<1> USE KeyAssumption, TimeAssumption DEF Inductive, CallRecord, Retire, NoVerdict, service, tokens, verifier, Never
<1>1. TypeOK'
  BY DEF TypeOK, SlotsApart, Dated, IssuedByUsed, Drained, CacheDated, CallDated, AnswerDated, Signing, Used, Published
<1>2. SlotsApart'
  BY DEF TypeOK, SlotsApart, Dated, IssuedByUsed, Drained, CacheDated, CallDated, AnswerDated, Signing, Used, Published
<1>3. Dated'
  BY DEF TypeOK, SlotsApart, Dated, IssuedByUsed, Drained, CacheDated, CallDated, AnswerDated, Signing, Used, Published
<1>4. IssuedByUsed'
  BY DEF TypeOK, SlotsApart, Dated, IssuedByUsed, Drained, CacheDated, CallDated, AnswerDated, Signing, Used, Published
<1>5. Drained'
  <2> SUFFICES ASSUME ~hurried', NEW k \in Key, withdrawn'[k] # Never
               PROVE  lastExp[k] <= now /\ ~indefinite[k]
    BY DEF Drained
  <2>1. ~hurried /\ promotedAt + Longest <= now /\ ~indefinite[slots.previous]
    <3>1. ~(hurried \/ now < promotedAt + Longest \/ indefinite[slots.previous])
      BY Zenon DEF Retire
    <3> QED
      BY <3>1 DEF TypeOK
  <2>2. CASE k = slots.previous
    BY <2>1, <2>2 DEF Dated, TypeOK
  <2>3. CASE k # slots.previous
    BY <2>1, <2>3 DEF Drained, TypeOK
  <2> QED
    BY <2>2, <2>3
<1>6. CacheDated'
  BY DEF TypeOK, SlotsApart, Dated, IssuedByUsed, Drained, CacheDated, CallDated, AnswerDated, Signing, Used, Published
<1>7. ASSUME NEW c \in Call PROVE CallDated(c)'
  BY DEF TypeOK, SlotsApart, Dated, IssuedByUsed, Drained, CacheDated, CallDated, AnswerDated, Signing, Used, Published
<1>8. ASSUME NEW c \in Call PROVE AnswerDated(c)'
  BY DEF TypeOK, SlotsApart, Dated, IssuedByUsed, Drained, CacheDated, CallDated, AnswerDated, Signing, Used, Published
<1>9. (RetiredKeysDieOut /\ RotationRefusesNobody)'
  BY DEF TypeOK, SlotsApart, Dated, IssuedByUsed, Drained, CacheDated, CallDated, AnswerDated, Signing, Used, Published, Larger, RetiredKeysDieOut, RotationRefusesNobody
<1> QED
  BY <1>1, <1>2, <1>3, <1>4, <1>5, <1>6, <1>7, <1>8, <1>9

LEMMA BeginStep ==
  ASSUME Inductive, NEW c0 \in Call, NEW k0 \in Key, NEW e0 \in {lastExp[k0], Forever}, Begin(c0, k0, e0)
  PROVE  Inductive'
<1> USE KeyAssumption, TimeAssumption DEF Inductive, CallRecord, Begin, Judge, Accept, Fail, Fetch, Idle, NoVerdict, service, tokens, verifier, Never
<1>1. TypeOK'
  <2>1. k0 \in Key /\ e0 \in Nat /\ now \in Nat
    BY DEF TypeOK
  <2>2. call' \in [Call -> CallRecord]
    <3> DEFINE asked == [at |-> "fetching", kid |-> k0, exp |-> e0, since |-> now,
                         forced |-> (now < cache.expiresAt), keys |-> {}]
    <3>1. Idle \in CallRecord /\ asked \in CallRecord
      BY <2>1 DEF CallRecord, TypeOK
    <3>2. call' = [call EXCEPT ![c0] = Idle] \/ call' = [call EXCEPT ![c0] = asked]
      BY Zenon
    <3> HIDE DEF asked
    <3> QED
      BY <3>1, <3>2 DEF TypeOK
  <2>3. verdict' \in [result : {"none", "accepted", "unknown"},
                      kid : Key \cup {NoKey}, exp : Nat]
    BY <2>1 DEF TypeOK
  <2> QED
    BY <2>2, <2>3 DEF TypeOK
<1>2. SlotsApart'
  BY DEF TypeOK, SlotsApart, Dated, IssuedByUsed, Drained, CacheDated, CallDated, AnswerDated, Signing, Used, Published
<1>3. Dated'
  BY DEF TypeOK, SlotsApart, Dated, IssuedByUsed, Drained, CacheDated, CallDated, AnswerDated, Signing, Used, Published
<1>4. IssuedByUsed'
  BY DEF TypeOK, SlotsApart, Dated, IssuedByUsed, Drained, CacheDated, CallDated, AnswerDated, Signing, Used, Published
<1>5. Drained'
  BY DEF TypeOK, SlotsApart, Dated, IssuedByUsed, Drained, CacheDated, CallDated, AnswerDated, Signing, Used, Published
<1>6. CacheDated'
  BY DEF TypeOK, SlotsApart, Dated, IssuedByUsed, Drained, CacheDated, CallDated, AnswerDated, Signing, Used, Published
<1>7. ASSUME NEW c \in Call PROVE CallDated(c)'
  BY DEF TypeOK, SlotsApart, Dated, IssuedByUsed, Drained, CacheDated, CallDated, AnswerDated, Signing, Used, Published
<1>8. ASSUME NEW c \in Call PROVE AnswerDated(c)'
  <2>1. CASE c = c0
    BY <2>1 DEF AnswerDated, TypeOK
  <2>2. CASE c # c0
    BY <2>2 DEF AnswerDated, TypeOK, Signing
  <2> QED
    BY <2>1, <2>2
<1>9. (RetiredKeysDieOut /\ RotationRefusesNobody)'
  BY DEF TypeOK, SlotsApart, Dated, IssuedByUsed, Drained, CacheDated, CallDated, AnswerDated, Signing, Used, Published, Larger, RetiredKeysDieOut, RotationRefusesNobody
<1> QED
  BY <1>1, <1>2, <1>3, <1>4, <1>5, <1>6, <1>7, <1>8, <1>9

LEMMA AnswerStep ==
  ASSUME Inductive, NEW c0 \in Call, Answer(c0)
  PROVE  Inductive'
<1> USE KeyAssumption, TimeAssumption DEF Inductive, CallRecord, Answer, NoVerdict, service, tokens, verifier, Never
<1>1. TypeOK'
  <2>1. Published(slots) \in SUBSET Key
    BY DEF TypeOK, Published
  <2>2. call' \in [Call -> CallRecord]
    <3>1. call[c0] \in CallRecord
      BY DEF TypeOK
    <3>2. [call[c0] EXCEPT !.at = "answered", !.keys = Published(slots)] \in CallRecord
      BY <2>1, <3>1 DEF CallRecord
    <3> QED
      BY <3>2 DEF TypeOK
  <2> QED
    BY <2>2 DEF TypeOK
<1>2. SlotsApart'
  BY DEF TypeOK, SlotsApart, Dated, IssuedByUsed, Drained, CacheDated, CallDated, AnswerDated, Signing, Used, Published
<1>3. Dated'
  BY DEF TypeOK, SlotsApart, Dated, IssuedByUsed, Drained, CacheDated, CallDated, AnswerDated, Signing, Used, Published
<1>4. IssuedByUsed'
  BY DEF TypeOK, SlotsApart, Dated, IssuedByUsed, Drained, CacheDated, CallDated, AnswerDated, Signing, Used, Published
<1>5. Drained'
  BY DEF TypeOK, SlotsApart, Dated, IssuedByUsed, Drained, CacheDated, CallDated, AnswerDated, Signing, Used, Published
<1>6. CacheDated'
  BY DEF TypeOK, SlotsApart, Dated, IssuedByUsed, Drained, CacheDated, CallDated, AnswerDated, Signing, Used, Published
<1>7. ASSUME NEW c \in Call PROVE CallDated(c)'
  BY DEF TypeOK, SlotsApart, Dated, IssuedByUsed, Drained, CacheDated, CallDated, AnswerDated, Signing, Used, Published
<1>8. ASSUME NEW c \in Call PROVE AnswerDated(c)'
  BY DEF TypeOK, SlotsApart, Dated, IssuedByUsed, Drained, CacheDated, CallDated, AnswerDated, Signing, Used, Published
<1>9. (RetiredKeysDieOut /\ RotationRefusesNobody)'
  BY DEF TypeOK, SlotsApart, Dated, IssuedByUsed, Drained, CacheDated, CallDated, AnswerDated, Signing, Used, Published, Larger, RetiredKeysDieOut, RotationRefusesNobody
<1> QED
  BY <1>1, <1>2, <1>3, <1>4, <1>5, <1>6, <1>7, <1>8, <1>9

LEMMA ReceiveStep ==
  ASSUME Inductive, NEW c0 \in Call, Receive(c0)
  PROVE  Inductive'
<1> USE KeyAssumption, TimeAssumption DEF Inductive, CallRecord, Receive, Remember, MayInsist, Judge, Accept, UnknownKey, Fail, Fetch, Idle, NoVerdict, service, tokens, verifier, Never
<1>1. TypeOK'
  <2>1. call[c0].kid \in Key \cup {NoKey} /\ call[c0].exp \in Nat /\ now \in Nat
    BY DEF TypeOK
  <2>2. cache' \in [keys : SUBSET Key, expiresAt : Nat]
    BY DEF TypeOK
  <2>3. call' \in [Call -> CallRecord]
    <3>1. \E r \in CallRecord : call' = [call EXCEPT ![c0] = r]
      BY <2>1 DEF CallRecord, TypeOK
    <3> QED
      BY <3>1 DEF TypeOK
  <2>4. verdict' \in [result : {"none", "accepted", "unknown"},
                      kid : Key \cup {NoKey}, exp : Nat]
    BY <2>1 DEF TypeOK
  <2> QED
    BY <2>2, <2>3, <2>4 DEF TypeOK
<1>2. SlotsApart'
  BY DEF TypeOK, SlotsApart, Dated, IssuedByUsed, Drained, CacheDated, CallDated, AnswerDated, Signing, Used, Published
<1>3. Dated'
  BY DEF TypeOK, SlotsApart, Dated, IssuedByUsed, Drained, CacheDated, CallDated, AnswerDated, Signing, Used, Published
<1>4. IssuedByUsed'
  BY DEF TypeOK, SlotsApart, Dated, IssuedByUsed, Drained, CacheDated, CallDated, AnswerDated, Signing, Used, Published
<1>5. Drained'
  BY DEF TypeOK, SlotsApart, Dated, IssuedByUsed, Drained, CacheDated, CallDated, AnswerDated, Signing, Used, Published
<1>6. CacheDated'
  BY DEF TypeOK, SlotsApart, Dated, IssuedByUsed, Drained, CacheDated, CallDated, AnswerDated, Signing, Used, Published
<1>7. ASSUME NEW c \in Call PROVE CallDated(c)'
  BY DEF TypeOK, SlotsApart, Dated, IssuedByUsed, Drained, CacheDated, CallDated, AnswerDated, Signing, Used, Published
<1>8. ASSUME NEW c \in Call PROVE AnswerDated(c)'
  BY DEF TypeOK, SlotsApart, Dated, IssuedByUsed, Drained, CacheDated, CallDated, AnswerDated, Signing, Used, Published
<1>9. (RetiredKeysDieOut /\ RotationRefusesNobody)'
  BY DEF TypeOK, SlotsApart, Dated, IssuedByUsed, Drained, CacheDated, CallDated, AnswerDated, Signing, Used, Published, Larger, RetiredKeysDieOut, RotationRefusesNobody
<1> QED
  BY <1>1, <1>2, <1>3, <1>4, <1>5, <1>6, <1>7, <1>8, <1>9

LEMMA AbortStep ==
  ASSUME Inductive, NEW c0 \in Call, Abort(c0)
  PROVE  Inductive'
<1> USE KeyAssumption, TimeAssumption DEF Inductive, CallRecord, Abort, Fail, Idle, NoVerdict, service, tokens, verifier, Never
<1>1. TypeOK'
  BY DEF TypeOK, SlotsApart, Dated, IssuedByUsed, Drained, CacheDated, CallDated, AnswerDated, Signing, Used, Published
<1>2. SlotsApart'
  BY DEF TypeOK, SlotsApart, Dated, IssuedByUsed, Drained, CacheDated, CallDated, AnswerDated, Signing, Used, Published
<1>3. Dated'
  BY DEF TypeOK, SlotsApart, Dated, IssuedByUsed, Drained, CacheDated, CallDated, AnswerDated, Signing, Used, Published
<1>4. IssuedByUsed'
  BY DEF TypeOK, SlotsApart, Dated, IssuedByUsed, Drained, CacheDated, CallDated, AnswerDated, Signing, Used, Published
<1>5. Drained'
  BY DEF TypeOK, SlotsApart, Dated, IssuedByUsed, Drained, CacheDated, CallDated, AnswerDated, Signing, Used, Published
<1>6. CacheDated'
  BY DEF TypeOK, SlotsApart, Dated, IssuedByUsed, Drained, CacheDated, CallDated, AnswerDated, Signing, Used, Published
<1>7. ASSUME NEW c \in Call PROVE CallDated(c)'
  BY DEF TypeOK, SlotsApart, Dated, IssuedByUsed, Drained, CacheDated, CallDated, AnswerDated, Signing, Used, Published
<1>8. ASSUME NEW c \in Call PROVE AnswerDated(c)'
  BY DEF TypeOK, SlotsApart, Dated, IssuedByUsed, Drained, CacheDated, CallDated, AnswerDated, Signing, Used, Published
<1>9. (RetiredKeysDieOut /\ RotationRefusesNobody)'
  BY DEF TypeOK, SlotsApart, Dated, IssuedByUsed, Drained, CacheDated, CallDated, AnswerDated, Signing, Used, Published, Larger, RetiredKeysDieOut, RotationRefusesNobody
<1> QED
  BY <1>1, <1>2, <1>3, <1>4, <1>5, <1>6, <1>7, <1>8, <1>9

LEMMA InitInductive == Init => Inductive
<1> SUFFICES ASSUME Init PROVE Inductive
  OBVIOUS
<1> USE KeyAssumption, TimeAssumption DEF Init, Idle, NoVerdict, Never
<1>1. TypeOK
  <2>1. Idle \in CallRecord
    BY DEF CallRecord
  <2>2. 0 \in 0..MaxTime /\ 0 \in 0..(MaxTime + Longest)
    OBVIOUS
  <2> QED
    BY <2>1, <2>2 DEF TypeOK
<1>2. SlotsApart /\ Dated /\ IssuedByUsed /\ Drained
  BY DEF SlotsApart, Dated, IssuedByUsed, Drained, Published
<1>3. CacheDated
  BY DEF CacheDated
<1>4. (\A c \in Call : CallDated(c) /\ AnswerDated(c))
      /\ RetiredKeysDieOut /\ RotationRefusesNobody
  BY DEF CallDated, AnswerDated, RetiredKeysDieOut, RotationRefusesNobody
<1> QED
  BY <1>1, <1>2, <1>3, <1>4 DEF Inductive

LEMMA StutterStep ==
  ASSUME Inductive, UNCHANGED vars
  PROVE  Inductive'
BY DEF Inductive, vars, service, tokens, verifier, TypeOK, SlotsApart, Dated,
       IssuedByUsed, Drained, CacheDated, CallDated, AnswerDated, Signing, Used,
       Published, RetiredKeysDieOut, RotationRefusesNobody

\* Every copy of the key set is dated, and a key is withdrawn when all it
\* signed has run out, unless the operator hurried.
THEOREM InductiveInvariant == Spec => []Inductive
<1>1. Init => Inductive
  BY InitInductive
<1>2. Inductive /\ [Next]_vars => Inductive'
  <2> SUFFICES ASSUME Inductive, [Next]_vars PROVE Inductive'
    OBVIOUS
  <2>1. CASE Tick
    BY <2>1, TickStep
  <2>2. CASE \E life \in Lifetime : Sign(life)
    BY <2>2, SignStep
  <2>3. CASE SignIndefinite \/ Promote \/ Reissue \/ Retire
    BY <2>3, SignIndefiniteStep, PromoteStep, ReissueStep, RetireStep
  <2>4. CASE \E k \in Key : Stage(k)
    BY <2>4, StageStep
  <2>5. CASE \E c \in Call, k \in Key : Begin(c, k, lastExp[k]) \/ Begin(c, k, Forever)
    BY <2>5, BeginStep
  <2>6. CASE \E c \in Call : Settle(c)
    BY <2>6, AnswerStep, ReceiveStep, AbortStep DEF Settle
  <2>7. CASE UNCHANGED vars
    BY <2>7, StutterStep
  <2> QED
    BY <2>1, <2>2, <2>3, <2>4, <2>5, <2>6, <2>7 DEF Next
<1> QED
  BY <1>1, <1>2, PTL DEF Spec

\* Every variable keeps its type.
THEOREM TypeCorrect == Spec => []TypeOK
<1>1. Inductive => TypeOK
  BY DEF Inductive
<1> QED
  BY <1>1, InductiveInvariant, PTL

\* No verifier accepts a token on the word of a key that left the key set
\* longer ago than its cache lasts.
THEOREM RetiredKeysAreForgotten == Spec => []RetiredKeysDieOut
<1>1. Inductive => RetiredKeysDieOut
  BY DEF Inductive
<1> QED
  BY <1>1, InductiveInvariant, PTL

\* A rotation that keeps to the waits of the runbook never makes the key of a
\* valid token unknown to a verifier.
THEOREM RotationIsSeamless == Spec => []RotationRefusesNobody
<1>1. Inductive => RotationRefusesNobody
  BY DEF Inductive
<1> QED
  BY <1>1, InductiveInvariant, PTL

\* A key that signs is in every copy of the key set that is still in use.
THEOREM StagingSuffices == Spec => []StagedAhead
<1>1. Inductive => StagedAhead
  <2> SUFFICES ASSUME Inductive, ~hurried, now < cache.expiresAt,
                      NEW k \in Key, Valid(k)
               PROVE  k \in cache.keys
    BY DEF StagedAhead
  <2>1. withdrawn[k] = Never
    BY DEF Inductive, Drained, Valid, TypeOK
  <2>2. lastExp[k] > 0 \/ indefinite[k]
    BY DEF Inductive, TypeOK, Valid
  <2>3. Signing(k)
    BY <2>1, <2>2 DEF Inductive, IssuedByUsed, Used
  <2> QED
    BY <2>3 DEF Inductive, CacheDated, TypeOK
<1> QED
  BY <1>1, InductiveInvariant, PTL

=============================================================================
