-------------------------- MODULE SigningKeysProofs --------------------------
(***************************************************************************)
(* Proofs about SigningKeys: SigningIInv is inductive, and with it both     *)
(* properties of a rotation hold for any number of keys, isolates and       *)
(* requests and any lifetimes.                                              *)
(***************************************************************************)
EXTENDS SigningKeys, TLAPS

(* The history of a key in circulation never falls behind or goes back.     *)
LEMMA ObserveIsCurrent ==
    ASSUME TypeOK, KeySetsLapse, now' \in Time, now <= now', Observe
    PROVE  /\ published' \in [Kids -> Time]
           /\ \A k \in Kids : /\ published'[k] <= now'
                              /\ published[k] <= published'[k]
                              /\ Circulates(k)' => published'[k] = now'
<1>1. \A k \in Kids : published[k] \in Time /\ published[k] <= now
  BY DEF TypeOK, KeySetsLapse
<1>2. \A k \in Kids : published'[k] = IF Circulates(k)' THEN now' ELSE published[k]
  BY DEF Observe
<1>3. published' \in [Kids -> Time]
  BY <1>1 DEF Observe
<1> QED BY <1>1, <1>2, <1>3 DEF TypeOK, Time

(* What the operator deploys reaches no isolate yet; only which key may     *)
(* sign next changes, and which tokens are given up.                        *)
LEMMA DeployPreserves ==
    ASSUME SigningConstants, SigningIInv,
           DeploySecret \/ \E k \in Kids : AddKey(k) \/ Promote(k) \/ DropKey(k)
    PROVE  SigningIInv'
<1>1. UNCHANGED <<now, signer, cache, req, published>> /\ dropped \subseteq dropped'
  BY DEF DeploySecret, AddKey, Promote, DropKey, Deploy
<1>2. TypeOK'
  <2>1. deployed' \in KeyList /\ dropped' \subseteq Kids /\ valid' \in BOOLEAN
    <3>1. CASE DeploySecret
      BY <3>1 DEF SigningIInv, TypeOK, DeploySecret
    <3>2. CASE \E k \in Kids : AddKey(k)
      BY <3>2 DEF SigningIInv, TypeOK, KeyList, AddKey, Deploy
    <3>3. CASE \E k \in Kids : Promote(k)
      BY <3>3 DEF SigningIInv, TypeOK, KeyList, Promote, Deploy
    <3>4. CASE \E k \in Kids : DropKey(k)
      BY <3>4 DEF SigningIInv, TypeOK, KeyList, DropKey, Deploy
    <3> QED BY <3>1, <3>2, <3>3, <3>4
  <2> QED BY <1>1, <2>1 DEF SigningIInv, TypeOK
<1>3. /\ deployed'.active \in deployed'.keys
      /\ deployed'.keys \cap dropped' = {}
      /\ \A k \in Kids : k \in deployed.keys => k \in deployed'.keys \cup dropped'
  BY DEF SigningIInv, TypeOK, KeyList, SignersPublished, Everywhere,
         DeploySecret, AddKey, Promote, DropKey, Deploy
<1>4. \A k \in Kids : Everywhere(k) => k \in dropped' \/ Everywhere(k)'
  BY <1>1, <1>3 DEF Everywhere
<1>5. Everywhere(deployed.active)'
  <2>1. \A w \in Workers : signer[w] # NoSigner => deployed'.active \in signer[w].keys
    BY DEF SigningIInv, TypeOK, KeyList, SignersPublished, Everywhere,
           DeploySecret, AddKey, Promote, DropKey, Deploy
  <2> QED BY <1>1, <1>3, <2>1 DEF Everywhere
<1>6. SignersPublished'
  BY <1>1, <1>3, <1>4, <1>5 DEF SigningIInv, TypeOK, KeyList, SignersPublished
<1>7. TokensPublished'
  BY <1>1, <1>4 DEF SigningIInv, TypeOK, Request, NoToken, TokensPublished
<1>8. KeySetsLapse'
  BY <1>1 DEF SigningIInv, KeySetsLapse, Circulates
<1> QED BY <1>2, <1>6, <1>7, <1>8 DEF SigningIInv

(* A replaced isolate runs with the list deployed, which holds every key    *)
(* that is not dropped, or does not work.                                   *)
LEMMA RestartPreserves ==
    ASSUME SigningConstants, SigningIInv, NEW w \in Workers, Restart(w)
    PROVE  SigningIInv'
<1>1. now \in Time /\ UNCHANGED <<now, deployed, valid, cache, req, dropped>>
  BY DEF SigningIInv, TypeOK, Restart
<1>2. /\ published' \in [Kids -> Time]
      /\ \A k \in Kids : /\ published'[k] <= now'
                         /\ published[k] <= published'[k]
                         /\ Circulates(k)' => published'[k] = now'
  BY <1>1, ObserveIsCurrent DEF Restart, SigningIInv, Time
<1>3. \A v \in Workers : signer'[v] = signer[v] \/ signer'[v] = deployed \/ signer'[v] = NoSigner
  BY DEF Restart, SigningIInv, TypeOK
<1>4. TypeOK'
  BY <1>1, <1>2 DEF SigningIInv, TypeOK, Restart
<1>5. \A k \in Kids : Everywhere(k) => Everywhere(k)'
  BY <1>1, <1>3 DEF Everywhere
<1>6. SignersPublished'
  BY <1>1, <1>3, <1>5 DEF SigningIInv, TypeOK, KeyList, SignersPublished, Everywhere
<1>7. TokensPublished'
  BY <1>1, <1>5 DEF SigningIInv, TypeOK, Request, NoToken, TokensPublished
<1>8. KeySetsLapse'
  <2>1. \A a \in Apps : cache[a].keys \subseteq Kids /\ cache[a].expires \in Nat
    BY DEF SigningIInv, TypeOK
  <2>2. \A a \in Apps : \A k \in cache[a].keys : cache[a].expires <= published'[k] + JwksTTL
    BY <1>2, <2>1 DEF SigningIInv, KeySetsLapse, SigningConstants, TypeOK, Time
  <2> QED BY <1>1, <1>2, <2>2 DEF SigningIInv, KeySetsLapse
<1> QED BY <1>4, <1>6, <1>7, <1>8 DEF SigningIInv

LEMMA TickPreserves == ASSUME SigningConstants, SigningIInv, Tick PROVE SigningIInv'
<1>1. now' \in Time /\ now <= now' /\ UNCHANGED <<deployed, valid, signer, cache, req, dropped>>
  BY DEF SigningIInv, TypeOK, Tick, Time, SigningConstants
<1>2. /\ published' \in [Kids -> Time]
      /\ \A k \in Kids : /\ published'[k] <= now'
                         /\ published[k] <= published'[k]
                         /\ Circulates(k)' => published'[k] = now'
  BY <1>1, ObserveIsCurrent DEF Tick, SigningIInv
<1>3. TypeOK'
  BY <1>1, <1>2 DEF SigningIInv, TypeOK
<1>4. SignersPublished' /\ TokensPublished'
  BY <1>1 DEF SigningIInv, SignersPublished, TokensPublished, Everywhere
<1>5. KeySetsLapse'
  <2>1. \A a \in Apps : cache[a].keys \subseteq Kids /\ cache[a].expires \in Nat
    BY DEF SigningIInv, TypeOK
  <2>2. \A a \in Apps : \A k \in cache[a].keys : cache[a].expires <= published'[k] + JwksTTL
    BY <1>2, <2>1 DEF SigningIInv, KeySetsLapse, SigningConstants, TypeOK, Time
  <2>3. \A r \in Requests : req[r] # NoToken => req[r].start <= now'
    BY <1>1 DEF SigningIInv, KeySetsLapse, TypeOK, Request, NoToken, Time
  <2> QED BY <1>1, <1>2, <2>2, <2>3 DEF KeySetsLapse
<1> QED BY <1>3, <1>4, <1>5 DEF SigningIInv

LEMMA RestartAppPreserves ==
    ASSUME SigningConstants, SigningIInv, NEW a \in Apps, RestartApp(a)
    PROVE  SigningIInv'
<1>1. UNCHANGED <<now, deployed, valid, signer, req, dropped, published>>
  BY DEF RestartApp
<1>2. TypeOK'
  BY DEF SigningIInv, TypeOK, RestartApp
<1>3. SignersPublished' /\ TokensPublished'
  BY <1>1 DEF SigningIInv, SignersPublished, TokensPublished, Everywhere
<1>4. \A b \in Apps : cache'[b] = cache[b] \/ cache'[b].keys = {}
  BY DEF SigningIInv, TypeOK, RestartApp
<1>5. KeySetsLapse'
  BY <1>1, <1>4 DEF SigningIInv, KeySetsLapse, Circulates
<1> QED BY <1>2, <1>3, <1>5 DEF SigningIInv

(* A request that is not waiting for an answer changes nothing but itself:  *)
(* it is enough that its own record stays sound.                            *)
LEMMA RequestPreserves ==
    ASSUME SigningConstants, SigningIInv, NEW r \in Requests, NEW next \in Request,
           req' = [req EXCEPT ![r] = next],
           UNCHANGED <<now, deployed, valid, signer, cache, dropped, published>>,
           next.pc # "answer", next.start <= now,
           next.kid \in dropped \/ Everywhere(next.kid)
    PROVE  SigningIInv'
<1>1. \A q \in Requests : req'[q] = IF q = r THEN next ELSE req[q]
  BY DEF SigningIInv, TypeOK
<1>2. TypeOK'
  BY DEF SigningIInv, TypeOK
<1>3. \A k \in Kids : Everywhere(k)' = Everywhere(k)
  BY DEF Everywhere
<1>4. SignersPublished'
  BY DEF SigningIInv, SignersPublished, Everywhere
<1>5. TokensPublished'
  BY <1>1, <1>3 DEF SigningIInv, TokensPublished, TypeOK, Request, NoToken
<1>6. \A k \in Kids : Circulates(k)' => Circulates(k)
  BY <1>1 DEF Circulates
<1>7. KeySetsLapse'
  BY <1>1, <1>6 DEF SigningIInv, KeySetsLapse
<1> QED BY <1>2, <1>4, <1>5, <1>7 DEF SigningIInv
(* A token is signed by a key that is published everywhere, or dropped.     *)
LEMMA SignPreserves ==
    ASSUME SigningConstants, SigningIInv, NEW r \in Requests, NEW w \in Workers,
           NEW lifetime \in Lifetimes, Sign(r, w, lifetime)
    PROVE  SigningIInv'
<1>1. PICK a \in Apps :
        req' = [req EXCEPT ![r] =
            [pc |-> "held", kid |-> signer[w].active, exp |-> now + lifetime, app |-> a,
             forced |-> FALSE, start |-> 0, answer |-> {}]]
  BY DEF Sign, SigningKey
<1> DEFINE next == [pc |-> "held", kid |-> signer[w].active, exp |-> now + lifetime,
                    app |-> a, forced |-> FALSE, start |-> 0, answer |-> {}]
<1>2. signer[w] \in KeyList
  BY DEF Sign, SigningIInv, TypeOK
<1>3. now + lifetime \in Nat /\ 0 \in Time /\ 0 <= now
  BY DEF SigningIInv, TypeOK, SigningConstants, Time
<1>4. next \in Request
  BY <1>2, <1>3 DEF Request, KeyList, Ended
<1>5. next.kid \in dropped \/ Everywhere(next.kid)
  BY DEF Sign, SigningIInv, SignersPublished
<1>6. next.pc # "answer" /\ next.start <= now
  BY <1>3
<1>7. req' = [req EXCEPT ![r] = next]
  BY <1>1
<1> HIDE DEF next
<1> QED BY <1>4, <1>5, <1>6, <1>7, RequestPreserves DEF Sign

(* So are the steps that end a verification or go on to a fetch.            *)
LEMMA EndingPreserves ==
    ASSUME SigningConstants, SigningIInv, NEW r \in Requests, req[r] # NoToken,
           NEW pc \in Ended, req' = EndWith(r, pc),
           UNCHANGED <<now, deployed, valid, signer, cache, dropped, published>>
    PROVE  SigningIInv'
<1> DEFINE next == [req[r] EXCEPT !.pc = pc, !.forced = FALSE, !.start = 0, !.answer = {}]
<1>1. req[r] \in Request /\ 0 \in Time /\ 0 <= now
  BY DEF SigningIInv, TypeOK, SigningConstants, Time
<1>2. next \in Request /\ next.pc # "answer" /\ next.start <= now
  BY <1>1 DEF Request, Ended
<1>3. next.kid = req[r].kid
  BY <1>1 DEF Request
<1>4. next.kid \in dropped \/ Everywhere(next.kid)
  BY <1>3 DEF SigningIInv, TokensPublished
<1>5. req' = [req EXCEPT ![r] = next]
  BY DEF EndWith, SigningIInv, TypeOK
<1> HIDE DEF next
<1> QED BY <1>2, <1>4, <1>5, RequestPreserves

LEMMA FetchingPreserves ==
    ASSUME SigningConstants, SigningIInv, NEW r \in Requests, req[r] # NoToken,
           NEW forced \in BOOLEAN, req' = Fetching(r, forced),
           UNCHANGED <<now, deployed, valid, signer, cache, dropped, published>>
    PROVE  SigningIInv'
<1> DEFINE next == [req[r] EXCEPT !.pc = "fetch", !.forced = forced, !.start = now, !.answer = {}]
<1>1. req[r] \in Request /\ now \in Time /\ now <= now
  BY DEF SigningIInv, TypeOK, SigningConstants, Time
<1>2. next \in Request /\ next.pc # "answer" /\ next.start <= now
  BY <1>1 DEF Request, Ended
<1>3. next.kid = req[r].kid
  BY <1>1 DEF Request
<1>4. next.kid \in dropped \/ Everywhere(next.kid)
  BY <1>3 DEF SigningIInv, TokensPublished
<1>5. req' = [req EXCEPT ![r] = next]
  BY DEF Fetching, SigningIInv, TypeOK
<1> HIDE DEF next
<1> QED BY <1>2, <1>4, <1>5, RequestPreserves

LEMMA PresentPreserves ==
    ASSUME SigningConstants, SigningIInv, NEW r \in Requests, NEW a \in Apps, Present(r, a)
    PROVE  SigningIInv'
<1> DEFINE next == [req[r] EXCEPT !.pc = "verify", !.app = a]
<1>1. req[r] \in Request /\ req[r].start <= now
  BY DEF Present, SigningIInv, TypeOK, KeySetsLapse
<1>2. next \in Request /\ next.pc # "answer" /\ next.start <= now
  BY <1>1 DEF Request, Ended
<1>3. next.kid = req[r].kid
  BY <1>1 DEF Request
<1>4. next.kid \in dropped \/ Everywhere(next.kid)
  BY <1>3 DEF Present, SigningIInv, TokensPublished
<1>5. req' = [req EXCEPT ![r] = next]
  BY DEF Present, SigningIInv, TypeOK
<1> HIDE DEF next
<1> QED BY <1>2, <1>4, <1>5, RequestPreserves DEF Present

LEMMA VerifyPreserves ==
    ASSUME SigningConstants, SigningIInv, NEW r \in Requests,
           Verify(r) \/ \E w \in Workers : Manage(r, w)
    PROVE  SigningIInv'
<1>1. \/ \E pc \in Ended : req' = EndWith(r, pc)
      \/ \E forced \in BOOLEAN : req' = Fetching(r, forced)
  <2>1. Verdict(r) \in Ended
    BY DEF Verdict, Ended
  <2>2. CASE Verify(r)
    BY <2>1, <2>2 DEF Verify, Miss
  <2>3. CASE \E w \in Workers : Manage(r, w)
    BY <2>1, <2>3 DEF Manage, Ended
  <2> QED BY <2>2, <2>3
<1> QED BY <1>1, EndingPreserves, FetchingPreserves DEF Verify, Manage

(* An answer lists what its isolate publishes at that moment: the key of    *)
(* every token that exists and is not dropped.                              *)
LEMMA GetJwksPreserves ==
    ASSUME SigningConstants, SigningIInv, NEW r \in Requests, NEW w \in Workers, GetJwks(r, w)
    PROVE  SigningIInv'
<1>1. /\ now \in Time /\ UNCHANGED <<now, deployed, valid, signer, cache, dropped>>
      /\ req[r] # NoToken /\ req[r] \in Request
  BY DEF SigningIInv, TypeOK, GetJwks
<1>2. /\ published' \in [Kids -> Time]
      /\ \A k \in Kids : /\ published'[k] <= now'
                         /\ published[k] <= published'[k]
                         /\ Circulates(k)' => published'[k] = now'
  BY <1>1, ObserveIsCurrent DEF GetJwks, SigningIInv, Time
<1>3. /\ req'[r] \in Request
      /\ req'[r].kid = req[r].kid
      /\ req'[r].start <= now
      /\ req'[r].pc = "answer" => signer[w] # NoSigner /\ req'[r].answer = signer[w].keys
      /\ \A q \in Requests : q # r => req'[q] = req[q]
  <2>1. req[r].start <= now /\ 0 \in Time /\ 0 <= now
    BY <1>1 DEF SigningIInv, KeySetsLapse, SigningConstants, Time
  <2>2. CASE signer[w] = NoSigner
    BY <1>1, <2>1, <2>2 DEF GetJwks, EndWith, SigningIInv, TypeOK, Request, Ended
  <2>3. CASE signer[w] # NoSigner
    <3>1. signer[w].keys \subseteq Kids
      BY <2>3 DEF SigningIInv, TypeOK, KeyList
    <3> QED BY <1>1, <2>1, <2>3, <3>1 DEF GetJwks, SigningIInv, TypeOK, Request, Ended
  <2> QED BY <2>2, <2>3
<1>4. req' \in [Requests -> {NoToken} \cup Request]
  <2>1. req' = [req EXCEPT ![r] = req'[r]]
    BY DEF GetJwks, EndWith, SigningIInv, TypeOK
  <2> QED BY <1>3, <2>1 DEF SigningIInv, TypeOK
<1>5. TypeOK'
  BY <1>1, <1>2, <1>4 DEF SigningIInv, TypeOK
<1>6. \A k \in Kids : Everywhere(k)' = Everywhere(k)
  BY <1>1 DEF Everywhere
<1>7. SignersPublished'
  BY <1>1 DEF SigningIInv, SignersPublished, Everywhere
<1>8. TokensPublished'
  <2>1. req[r].kid \in Kids /\ (req[r].kid \in dropped \/ Everywhere(req[r].kid))
    BY <1>1 DEF SigningIInv, TokensPublished, Request
  <2>2. req'[r].pc = "answer" => req'[r].kid \in dropped \cup req'[r].answer
    BY <1>3, <2>1 DEF Everywhere
  <2>3. \A q \in Requests : req[q] # NoToken => req[q].kid \in Kids
    BY DEF SigningIInv, TypeOK, Request
  <2> QED BY <1>1, <1>3, <1>6, <2>1, <2>2, <2>3 DEF SigningIInv, TokensPublished
<1>9. KeySetsLapse'
  <2>1. \A a \in Apps : cache[a].keys \subseteq Kids /\ cache[a].expires \in Nat
    BY DEF SigningIInv, TypeOK
  <2>2. \A a \in Apps : \A k \in cache[a].keys : cache[a].expires <= published'[k] + JwksTTL
    BY <1>2, <2>1 DEF SigningIInv, KeySetsLapse, SigningConstants, TypeOK, Time
  <2>3. \A q \in Requests : req'[q] # NoToken => req'[q].start <= now
    BY <1>3 DEF SigningIInv, KeySetsLapse
  <2> QED BY <1>1, <1>2, <2>2, <2>3 DEF KeySetsLapse
<1> QED BY <1>5, <1>7, <1>8, <1>9 DEF SigningIInv

(* What is cached expires a TTL after its fetch began, and its keys were    *)
(* published no earlier.                                                    *)
LEMMA ReceivePreserves ==
    ASSUME SigningConstants, SigningIInv, NEW r \in Requests, Receive(r)
    PROVE  SigningIInv'
<1>1. /\ now \in Time /\ UNCHANGED <<now, deployed, valid, signer, dropped>>
      /\ req[r] # NoToken /\ req[r] \in Request /\ req[r].pc = "answer"
      /\ req[r].start <= now
  BY DEF SigningIInv, TypeOK, Receive, KeySetsLapse
<1>2. /\ published' \in [Kids -> Time]
      /\ \A k \in Kids : /\ published'[k] <= now'
                         /\ published[k] <= published'[k]
                         /\ Circulates(k)' => published'[k] = now'
  BY <1>1, ObserveIsCurrent DEF Receive, SigningIInv, Time
<1>3. /\ req'[r] \in Request
      /\ req'[r].kid = req[r].kid
      /\ req'[r].start <= now
      /\ req'[r].pc # "answer"
      /\ \A q \in Requests : q # r => req'[q] = req[q]
  <2>1. 0 \in Time /\ 0 <= now /\ now <= now
    BY <1>1 DEF SigningConstants, Time
  <2>2. ASSUME NEW pc \in Ended, req' = EndWith(r, pc)
        PROVE  <1>3
    BY <1>1, <2>1, <2>2 DEF EndWith, SigningIInv, TypeOK, Request, Ended
  <2>3. CASE req' = Fetching(r, TRUE)
    BY <1>1, <2>1, <2>3 DEF Fetching, SigningIInv, TypeOK, Request, Ended
  <2> QED BY <2>2, <2>3 DEF Receive, Miss, Verdict, Ended
<1>4. req' \in [Requests -> {NoToken} \cup Request]
  <2>1. req' = [req EXCEPT ![r] = req'[r]]
    BY DEF Receive, Miss, Fetching, EndWith, SigningIInv, TypeOK
  <2> QED BY <1>3, <2>1 DEF SigningIInv, TypeOK
<1>5. \A a \in Apps : cache'[a] = IF a = req[r].app
        THEN [keys |-> req[r].answer, expires |-> req[r].start + JwksTTL] ELSE cache[a]
  BY DEF Receive, SigningIInv, TypeOK
<1>6. cache' \in [Apps -> [keys : SUBSET Kids, expires : Nat]]
  BY <1>1 DEF Receive, SigningIInv, TypeOK, Request, Time, SigningConstants
<1>7. TypeOK'
  BY <1>1, <1>2, <1>4, <1>6 DEF SigningIInv, TypeOK
<1>8. SignersPublished'
  BY <1>1 DEF SigningIInv, SignersPublished, Everywhere
<1>9. TokensPublished'
  <2>1. \A k \in Kids : Everywhere(k)' = Everywhere(k)
    BY <1>1 DEF Everywhere
  <2>2. \A q \in Requests : req[q] # NoToken => req[q].kid \in Kids
    BY DEF SigningIInv, TypeOK, Request
  <2> QED BY <1>1, <1>3, <2>1, <2>2 DEF SigningIInv, TokensPublished
<1>10. KeySetsLapse'
  <2>1. \A a \in Apps : cache[a].keys \subseteq Kids /\ cache[a].expires \in Nat
    BY DEF SigningIInv, TypeOK
  <2>2. \A k \in req[r].answer : k \in Kids /\ published[k] = now
    BY <1>1 DEF SigningIInv, KeySetsLapse, Circulates, Request
  <2>3. \A k \in req[r].answer : req[r].start + JwksTTL <= published'[k] + JwksTTL
    BY <1>1, <1>2, <2>2 DEF Request, SigningIInv, TypeOK, SigningConstants, Time
  <2>4. \A a \in Apps : \A k \in cache'[a].keys : cache'[a].expires <= published'[k] + JwksTTL
    <3>1. \A a \in Apps : \A k \in cache[a].keys : cache[a].expires <= published'[k] + JwksTTL
      BY <1>2, <2>1 DEF SigningIInv, KeySetsLapse, SigningConstants, TypeOK, Time
    <3> QED BY <1>5, <2>3, <3>1
  <2>5. \A q \in Requests : req'[q] # NoToken => req'[q].start <= now
    BY <1>3 DEF SigningIInv, KeySetsLapse
  <2> QED BY <1>1, <1>2, <2>4, <2>5 DEF KeySetsLapse
<1> QED BY <1>7, <1>8, <1>9, <1>10 DEF SigningIInv

LEMMA InitSound == ASSUME SigningConstants, Init PROVE SigningIInv
<1>1. 0 \in Time /\ 0 + JwksTTL >= 0
  BY DEF SigningConstants, Time
<1>2. TypeOK
  BY <1>1 DEF Init, TypeOK, SigningConstants, KeyList
<1>3. SignersPublished /\ TokensPublished
  BY DEF Init, SignersPublished, TokensPublished, Everywhere
<1>4. KeySetsLapse
  BY <1>1 DEF Init, KeySetsLapse
<1> QED BY <1>2, <1>3, <1>4 DEF SigningIInv

LEMMA StepSound == ASSUME SigningConstants, SigningIInv, [Next]_vars PROVE SigningIInv'
<1>1. CASE DeploySecret \/ \E k \in Kids : AddKey(k) \/ Promote(k) \/ DropKey(k)
  BY <1>1, DeployPreserves
<1>2. CASE Tick \/ \E w \in Workers : Restart(w)
  BY <1>2, TickPreserves, RestartPreserves
<1>3. CASE \E a \in Apps : RestartApp(a)
  BY <1>3, RestartAppPreserves
<1>4. CASE \E r \in Requests, w \in Workers :
             GetJwks(r, w) \/ Manage(r, w) \/ \E t \in Lifetimes : Sign(r, w, t)
  BY <1>4, GetJwksPreserves, VerifyPreserves, SignPreserves
<1>5. CASE \E r \in Requests : Verify(r) \/ Receive(r) \/ \E a \in Apps : Present(r, a)
  BY <1>5, VerifyPreserves, ReceivePreserves, PresentPreserves
<1>6. CASE UNCHANGED vars
  BY <1>6 DEF vars, SigningIInv, TypeOK, SignersPublished, TokensPublished, Everywhere,
              KeySetsLapse, Circulates
<1> QED BY <1>1, <1>2, <1>3, <1>4, <1>5, <1>6 DEF Next

(* Every key that may sign, and that of every token not given up, is        *)
(* published by all isolates that work, and no key set is kept for longer   *)
(* than a TTL after its keys circulated.                                    *)
THEOREM SigningInvariant == Spec => []SigningIInv
<1>1. Init => SigningIInv
  BY InitSound, SigningConstants
<1>2. SigningIInv /\ [Next]_vars => SigningIInv'
  BY StepSound, SigningConstants
<1> QED BY <1>1, <1>2, PTL DEF Spec

(* The steps that end a verification, and how they decide.                  *)
LEMMA VerdictsAreSound ==
    ASSUME SigningConstants, SigningIInv, [Next]_vars, NEW r \in Requests, req[r] # NoToken
    PROVE  /\ Ends(r, "refused") => req[r].exp <= now \/ req[r].kid \in dropped
           /\ Ends(r, "accepted") => now < published[req[r].kid] + JwksTTL
<1>1. /\ now \in Nat /\ req[r] \in Request /\ req[r].exp \in Nat /\ req[r].kid \in Kids
      /\ req[r].kid \in dropped \/ Everywhere(req[r].kid)
      /\ req[r].pc = "answer" => req[r].kid \in dropped \cup req[r].answer
  BY DEF SigningIInv, TypeOK, Request, Time, TokensPublished
<1>2. Circulates(req[r].kid) => now < published[req[r].kid] + JwksTTL
  BY <1>1 DEF SigningIInv, KeySetsLapse, SigningConstants, TypeOK, Time
<1>3. CASE Verify(r)
  <2>1. req[r].app \in Apps
    BY <1>1 DEF Request
  <2>2. CASE ~ Fresh(req[r].app)
    <3>1. req' = Fetching(r, FALSE)
      BY <1>3, <2>2 DEF Verify
    <3> QED BY <1>1, <3>1 DEF Fetching, Ends, SigningIInv, TypeOK, Request
  <2>3. CASE Fresh(req[r].app) /\ req[r].kid \notin cache[req[r].app].keys
    BY <1>1, <1>3, <2>3 DEF Verify, Miss, Fetching, Ends, SigningIInv, TypeOK, Request
  <2>4. CASE Fresh(req[r].app) /\ req[r].kid \in cache[req[r].app].keys
    <3>1. now < published[req[r].kid] + JwksTTL
      BY <1>1, <2>1, <2>4 DEF Fresh, SigningIInv, KeySetsLapse, SigningConstants, TypeOK, Time
    <3>2. req'[r].pc = Verdict(r)
      <4>1. req' = EndWith(r, Verdict(r))
        BY <1>3, <2>4 DEF Verify
      <4> QED BY <1>1, <4>1 DEF EndWith, SigningIInv, TypeOK, Request
    <3> QED BY <1>1, <3>1, <3>2 DEF Verdict, Ends
  <2> QED BY <2>2, <2>3, <2>4
<1>4. CASE Receive(r)
  <2>1. CASE req[r].kid \in req[r].answer
    <3>1. req'[r].pc = Verdict(r)
      BY <1>1, <1>4, <2>1 DEF Receive, EndWith, SigningIInv, TypeOK, Request
    <3>2. Circulates(req[r].kid)
      BY <1>1, <1>4, <2>1 DEF Receive, Circulates
    <3> QED BY <1>1, <1>2, <3>1, <3>2 DEF Verdict, Ends
  <2>2. CASE req[r].kid \notin req[r].answer
    <3>1. req[r].kid \in dropped
      BY <1>1, <1>4, <2>2 DEF Receive
    <3>2. req'[r].pc # "accepted"
      BY <1>1, <1>4, <2>2 DEF Receive, Miss, EndWith, Fetching, SigningIInv, TypeOK, Request
    <3> QED BY <3>1, <3>2 DEF Ends
  <2> QED BY <2>1, <2>2
<1>5. ASSUME NEW w \in Workers, GetJwks(r, w)
      PROVE  ~ Ends(r, "refused") /\ ~ Ends(r, "accepted")
  BY <1>1, <1>5 DEF GetJwks, EndWith, Ends, SigningIInv, TypeOK, Request
<1>6. ASSUME NEW w \in Workers, Manage(r, w)
      PROVE  /\ Ends(r, "refused") => req[r].exp <= now \/ req[r].kid \in dropped
             /\ Ends(r, "accepted") => now < published[req[r].kid] + JwksTTL
  <2>1. CASE signer[w] = NoSigner
    BY <1>1, <1>6, <2>1 DEF Manage, EndWith, Ends, SigningIInv, TypeOK, Request
  <2>2. CASE signer[w] # NoSigner /\ req[r].kid \in signer[w].keys
    <3>1. req'[r].pc = Verdict(r)
      BY <1>1, <1>6, <2>2 DEF Manage, EndWith, SigningIInv, TypeOK, Request
    <3>2. Circulates(req[r].kid)
      BY <2>2 DEF Circulates
    <3> QED BY <1>1, <1>2, <3>1, <3>2 DEF Verdict, Ends
  <2>3. CASE signer[w] # NoSigner /\ req[r].kid \notin signer[w].keys
    <3>1. req[r].kid \in dropped
      BY <1>1, <2>3 DEF Everywhere
    <3>2. req'[r].pc = "refused"
      BY <1>1, <1>6, <2>3 DEF Manage, EndWith, SigningIInv, TypeOK, Request
    <3> QED BY <3>1, <3>2 DEF Ends
  <2> QED BY <2>1, <2>2, <2>3
<1>7. ASSUME NEW a \in Apps, Present(r, a)
      PROVE  ~ Ends(r, "refused") /\ ~ Ends(r, "accepted")
  BY <1>1, <1>7 DEF Present, Ends, SigningIInv, TypeOK, Request
<1>8. CASE req'[r] = req[r]
  BY <1>8 DEF Ends
<1>9. \/ req'[r] = req[r] \/ Verify(r) \/ Receive(r)
      \/ \E w \in Workers : GetJwks(r, w) \/ Manage(r, w)
      \/ \E a \in Apps : Present(r, a)
  <2>1. ASSUME NEW q \in Requests, q # r,
               \/ Verify(q) \/ Receive(q)
               \/ \E w \in Workers : GetJwks(q, w) \/ Manage(q, w)
               \/ \E w \in Workers, t \in Lifetimes : Sign(q, w, t)
               \/ \E a \in Apps : Present(q, a)
        PROVE  req'[r] = req[r]
    BY <2>1 DEF Verify, Receive, GetJwks, Manage, Sign, Present, Miss, EndWith, Fetching,
                SigningIInv, TypeOK
  <2>2. ASSUME NEW w \in Workers, NEW t \in Lifetimes PROVE ~ Sign(r, w, t)
    BY DEF Sign
  <2>3. CASE UNCHANGED req
    BY <2>3
  <2> QED BY <2>1, <2>2, <2>3 DEF Next, vars, AddKey, Promote, DropKey, Deploy, DeploySecret,
                                 Tick, Restart, RestartApp
<1> QED BY <1>3, <1>4, <1>5, <1>6, <1>7, <1>8, <1>9

(* A rotation refuses no token that is valid and whose key is kept.         *)
THEOREM RotationRefusesNothingValid == Spec => ValidTokensVerify
<1>1. SigningIInv /\ [Next]_vars =>
        \A r \in Requests : Ends(r, "refused") => req[r].exp <= now \/ req[r].kid \in dropped
  BY VerdictsAreSound, SigningConstants DEF Ends
<1> QED BY <1>1, SigningInvariant, PTL DEF Spec, ValidTokensVerify

(* No token is believed longer than a TTL after its key last circulated.    *)
THEOREM DroppedKeysStopVerifying == Spec => DroppedKeysLapse
<1>1. SigningIInv /\ [Next]_vars =>
        \A r \in Requests : Ends(r, "accepted") => now < published[req[r].kid] + JwksTTL
  BY VerdictsAreSound, SigningConstants DEF Ends
<1> QED BY <1>1, SigningInvariant, PTL DEF Spec, DroppedKeysLapse

(* A step that is observed and leaves the cached key sets alone is one of   *)
(* Leases; so is one that takes no key into circulation.                    *)
LEMMA CirculationImplements ==
    ASSUME SigningIInv, UNCHANGED cache,
           \/ Observe /\ UNCHANGED now
           \/ UNCHANGED <<now, published>> /\ \A k \in Kids : Circulates(k)' => Circulates(k)
    PROVE  KeyLease!LNext
<1>1. \A k \in Kids : Circulates(k) => published[k] = now
  BY DEF SigningIInv, KeySetsLapse
<1>2. KeyLease!Seen
  BY <1>1 DEF Observe, KeyLease!Seen, SigningIInv, TypeOK
<1> QED BY <1>2 DEF KeyLease!LNext, KeyLease!Alter

(* An app isolate that replaces its key set keeps keys for no longer than a *)
(* TTL after they circulated.                                               *)
LEMMA KeySetImplements ==
    ASSUME SigningConstants, SigningIInv, SigningIInv', NEW a \in Apps,
           UNCHANGED <<now, published>>,
           \A b \in Apps \ {a} : cache'[b] = cache[b],
           \A k \in Kids : Circulates(k)' => Circulates(k)
    PROVE  KeyLease!Renew(a)
<1> DEFINE Copies(c) == [b \in Apps |-> [k \in Kids |->
                           IF k \in c[b].keys THEN c[b].expires ELSE 0]]
<1>1. \A b \in Apps : cache'[b].expires \in Nat
  BY DEF SigningIInv, TypeOK
<1>2. Copies(cache') \in [Apps -> [Kids -> Nat]]
  BY <1>1
<1>3. \A k \in Kids : Copies(cache')[a][k] <= published[k] + JwksTTL
  <2> SUFFICES ASSUME NEW k \in Kids PROVE Copies(cache')[a][k] <= published[k] + JwksTTL
    OBVIOUS
  <2>1. published[k] \in Nat /\ JwksTTL \in Nat
    BY DEF SigningIInv, TypeOK, Time, SigningConstants
  <2>2. k \in cache'[a].keys => cache'[a].expires <= published[k] + JwksTTL
    BY DEF SigningIInv, KeySetsLapse
  <2>3. Copies(cache')[a][k] = IF k \in cache'[a].keys THEN cache'[a].expires ELSE 0
    OBVIOUS
  <2> QED BY <2>1, <2>2, <2>3
<1>4. \A b \in Apps \ {a} : Copies(cache')[b] = Copies(cache)[b]
  OBVIOUS
<1> QED BY <1>2, <1>3, <1>4 DEF KeyLease!Renew

(* The key sets the apps cache are leases of what the Worker publishes      *)
(* (jwks.ts, session.ts): the refinement of the abstract specification.     *)
THEOREM KeySetsImplementLeases == Spec => KeySetsAreLeases
<1>1. Init => KeyLease!LInit
  BY DEF Init, KeyLease!LInit
<1>2. SigningIInv /\ [Next]_vars => [KeyLease!LNext]_KeyLease!lvars
  <2> SUFFICES ASSUME SigningIInv, [Next]_vars PROVE [KeyLease!LNext]_KeyLease!lvars
    OBVIOUS
  <2>1. SigningIInv'
    BY StepSound, SigningConstants
  <2>2. CASE Tick
    <3>1. \A k \in Kids : Circulates(k)' => Circulates(k)
      BY <2>2 DEF Tick, Circulates
    <3>2. KeyLease!Seen
      BY <2>2 DEF Tick, Observe, KeyLease!Seen
    <3> QED BY <2>2, <3>1, <3>2 DEF Tick, KeyLease!LNext, KeyLease!Pass
  <2>3. CASE \/ \E w \in Workers : Restart(w)
             \/ \E r \in Requests, w \in Workers : GetJwks(r, w)
    BY <2>3, CirculationImplements DEF Restart, GetJwks
  <2>4. CASE \/ DeploySecret
             \/ \E k \in Kids : AddKey(k) \/ Promote(k) \/ DropKey(k)
    <3>1. \A k \in Kids : Circulates(k)' => Circulates(k)
      BY <2>4 DEF DeploySecret, AddKey, Promote, DropKey, Deploy, Circulates
    <3> QED BY <2>4, <3>1, CirculationImplements DEF DeploySecret, AddKey, Promote, DropKey, Deploy
  <2>5. ASSUME NEW r \in Requests,
               \/ Verify(r)
               \/ \E a \in Apps : Present(r, a)
               \/ \E w \in Workers : Manage(r, w) \/ \E t \in Lifetimes : Sign(r, w, t)
        PROVE  KeyLease!LNext
    <3>1. req'[r].pc # "answer" /\ \A q \in Requests : q # r => req'[q] = req[q]
      <4>1. CASE Verify(r)
        BY <2>5, <4>1 DEF Verify, Miss, EndWith, Fetching, Verdict, SigningIInv, TypeOK, Request, Ended
      <4>2. CASE \E a \in Apps : Present(r, a)
        BY <4>2 DEF Present, SigningIInv, TypeOK, Request
      <4>3. CASE \E w \in Workers : Manage(r, w)
        BY <4>3 DEF Manage, EndWith, Verdict, SigningIInv, TypeOK, Request
      <4>4. CASE \E w \in Workers, t \in Lifetimes : Sign(r, w, t)
        BY <4>4 DEF Sign, SigningIInv, TypeOK
      <4> QED BY <2>5, <4>1, <4>2, <4>3, <4>4
    <3>2. UNCHANGED <<now, signer, cache, published>>
      BY <2>5 DEF Verify, Present, Manage, Sign
    <3>3. \A k \in Kids : Circulates(k)' => Circulates(k)
      BY <3>1, <3>2 DEF Circulates
    <3> QED BY <3>2, <3>3, CirculationImplements
  <2>6. ASSUME NEW a \in Apps, RestartApp(a) PROVE KeyLease!LNext
    <3>1. \A b \in Apps \ {a} : cache'[b] = cache[b]
      BY <2>6 DEF RestartApp, SigningIInv, TypeOK
    <3>2. \A k \in Kids : Circulates(k)' => Circulates(k)
      BY <2>6 DEF RestartApp, Circulates
    <3>3. KeyLease!Renew(a)
      BY <2>1, <2>6, <3>1, <3>2, SigningConstants, KeySetImplements DEF RestartApp
    <3> QED BY <3>3 DEF KeyLease!LNext
  <2>7. ASSUME NEW r \in Requests, Receive(r) PROVE KeyLease!LNext
    <3>1. req'[r].pc # "answer" /\ \A q \in Requests : q # r => req'[q] = req[q]
      BY <2>7 DEF Receive, Miss, EndWith, Fetching, Verdict, SigningIInv, TypeOK, Request
    <3>2. \A k \in Kids : Circulates(k)' => Circulates(k)
      BY <2>7, <3>1 DEF Receive, Circulates
    <3>3. UNCHANGED <<now, published>>
      <4>1. \A k \in Kids : Circulates(k) => published[k] = now
        BY DEF SigningIInv, KeySetsLapse
      <4> QED BY <2>7, <3>2, <4>1 DEF Receive, Observe, SigningIInv, TypeOK
    <3>4. PICK a \in Apps : a = req[r].app
      BY <2>7 DEF Receive, SigningIInv, TypeOK, Request
    <3>5. \A b \in Apps \ {a} : cache'[b] = cache[b]
      BY <2>7, <3>4 DEF Receive, SigningIInv, TypeOK
    <3>6. KeyLease!Renew(a)
      BY <2>1, <3>2, <3>3, <3>5, SigningConstants, KeySetImplements
    <3> QED BY <3>6 DEF KeyLease!LNext
  <2>8. CASE UNCHANGED vars
    BY <2>8 DEF vars, KeyLease!lvars, Circulates
  <2> QED BY <2>2, <2>3, <2>4, <2>5, <2>6, <2>7, <2>8 DEF Next
<1> QED BY <1>1, <1>2, SigningInvariant, PTL DEF Spec, KeySetsAreLeases, KeyLease!LSpec
=============================================================================
