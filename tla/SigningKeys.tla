----------------------------- MODULE SigningKeys -----------------------------
(***************************************************************************)
(* Signing keys and their rotation: the Worker signs access tokens with the *)
(* first of its configured keys and publishes all of them                   *)
(* (worker/src/signing.ts, getJwks in worker/src/index.ts); the SDK of an   *)
(* app verifies tokens against a key set it fetched from some Worker        *)
(* isolate and caches (client/src/session.ts).                              *)
(*                                                                         *)
(* A deploy changes PROPUSTKA_SIGNING_KEYS for the isolates started from    *)
(* then on, so isolates with the old and with the new list serve side by    *)
(* side. Of a list only the first key and the set of all keys matter: a     *)
(* verifier finds a key by its kid. Operators rotate as signing.ts says: a  *)
(* key is published everywhere before it is promoted to sign.               *)
(***************************************************************************)
EXTENDS Integers

CONSTANTS
    Kids,        \* signing keys
    First,       \* the key of the first deployment
    Workers,     \* Worker isolates
    Apps,        \* SDK isolates, each with its jwksCache
    Requests,    \* each carries one token and presents it again and again
    JwksTTL,     \* JWKS_TTL_SECONDS
    Lifetimes,   \* token lifetimes
    MaxTime,     \* bound on the clock
    None

ASSUME SigningConstants ==
    /\ First \in Kids /\ None \notin Kids
    /\ JwksTTL \in Nat \ {0} /\ MaxTime \in Nat
    /\ Lifetimes \subseteq Nat

VARIABLES
    now,         \* the clock, in seconds
    deployed,    \* the key list deployed last
    valid,       \* FALSE while the deployed secret is empty or malformed
    signer,      \* signer[w]: the list isolate w runs with, or NoSigner
    cache,       \* cache[a]: the key set app isolate a keeps and its expiry
    req,         \* req[r]: a token and the progress of its verification
    dropped,     \* history: keys removed from the list
    published    \* published[k]: history; see DroppedKeysLapse

vars == <<now, deployed, valid, signer, cache, req, dropped, published>>

Time     == 0 .. MaxTime
NoSigner == [active |-> None, keys |-> {}]
KeyList  == [active : Kids, keys : SUBSET Kids]
NoToken  == [pc |-> "none"]
Ended    == {"accepted", "refused", "threw", "failed"}
Request  == [pc : {"held", "verify", "fetch", "answer"} \cup Ended, kid : Kids, exp : Nat,
             app : Apps, forced : BOOLEAN, start : Time, answer : SUBSET Kids]

TypeOK ==
    /\ now \in Time
    /\ deployed \in KeyList
    /\ valid \in BOOLEAN
    /\ signer \in [Workers -> KeyList \cup {NoSigner}]
    /\ cache \in [Apps -> [keys : SUBSET Kids, expires : Nat]]
    /\ req \in [Requests -> {NoToken} \cup Request]
    /\ dropped \subseteq Kids
    /\ published \in [Kids -> Time]

Init ==
    /\ now = 0
    /\ deployed = [active |-> First, keys |-> {First}]
    /\ valid = TRUE
    /\ signer = [w \in Workers |-> deployed]
    /\ cache = [a \in Apps |-> [keys |-> {}, expires |-> 0]]
    /\ req = [r \in Requests |-> NoToken]
    /\ dropped = {}
    /\ published = [k \in Kids |-> 0]

(* A key is in circulation while an isolate publishes it or an answer that  *)
(* lists it has not arrived.                                                *)
Circulates(k) ==
    \/ \E w \in Workers : k \in signer[w].keys
    \/ \E r \in Requests : req[r] # NoToken /\ req[r].pc = "answer" /\ k \in req[r].answer

Observe == published' = [k \in Kids |-> IF Circulates(k)' THEN now' ELSE published[k]]

-----------------------------------------------------------------------------
(* The operator and the platform                                            *)

Deploy(list) ==
    /\ deployed' = list
    /\ UNCHANGED <<now, valid, signer, cache, req, published>>

AddKey(k) ==
    /\ k \notin deployed.keys \cup dropped
    /\ Deploy([deployed EXCEPT !.keys = @ \cup {k}])
    /\ UNCHANGED dropped

Promote(k) ==
    /\ k \in deployed.keys
    /\ \A w \in Workers : k \in signer[w].keys
    /\ Deploy([deployed EXCEPT !.active = k])
    /\ UNCHANGED dropped

DropKey(k) ==
    /\ k \in deployed.keys \ {deployed.active}
    /\ Deploy([deployed EXCEPT !.keys = @ \ {k}])
    /\ dropped' = dropped \cup {k}

(* A deploy of a secret that parseSigningKeys rejects, and its repair.      *)
DeploySecret ==
    /\ valid' = ~ valid
    /\ UNCHANGED <<now, deployed, signer, cache, req, dropped, published>>

(* Isolate w is replaced. getSigner builds the Signer from the env of the   *)
(* isolate, which is the same on every call; it throws on a bad one.        *)
Restart(w) ==
    /\ signer' = [signer EXCEPT ![w] = IF valid THEN deployed ELSE NoSigner]
    /\ UNCHANGED <<now, deployed, valid, cache, req, dropped>>
    /\ Observe

RestartApp(a) ==
    /\ cache' = [cache EXCEPT ![a] = [keys |-> {}, expires |-> 0]]
    /\ UNCHANGED <<now, deployed, valid, signer, req, dropped, published>>

Tick ==
    /\ now < MaxTime
    /\ now' = now + 1
    /\ UNCHANGED <<deployed, valid, signer, cache, req, dropped>>
    /\ Observe

-----------------------------------------------------------------------------
(* Tokens and their verification                                            *)

SigningKeyLast(w) ==
    CHOOSE k \in signer[w].keys : signer[w].keys = {k} \/ k # signer[w].active
SigningKey(w) == signer[w].active

Sign(r, w, lifetime) ==
    /\ req[r] = NoToken
    /\ signer[w] # NoSigner
    /\ \E a \in Apps :
          req' = [req EXCEPT ![r] =
              [pc |-> "held", kid |-> SigningKey(w), exp |-> now + lifetime, app |-> a,
               forced |-> FALSE, start |-> 0, answer |-> {}]]
    /\ UNCHANGED <<now, deployed, valid, signer, cache, dropped, published>>

Present(r, a) ==
    /\ req[r] # NoToken
    /\ req[r].pc \in {"held"} \cup Ended
    /\ req' = [req EXCEPT ![r].pc = "verify", ![r].app = a]
    /\ UNCHANGED <<now, deployed, valid, signer, cache, dropped, published>>

(* jwtVerify: the key is looked up before the expiry is.                    *)
Verdict(r) == IF now < req[r].exp THEN "accepted" ELSE "refused"
EndWith(r, pc) == [req EXCEPT ![r].pc = pc, ![r].forced = FALSE,
                              ![r].start = 0, ![r].answer = {}]
Fetching(r, forced) == [req EXCEPT ![r].pc = "fetch", ![r].forced = forced,
                                   ![r].start = now, ![r].answer = {}]

FreshUnexpired(a) == cache[a].keys # {}
Fresh(a) == cache[a].expires > now

(* An unknown kid forces one fetch.                                         *)
MissGivesUp(r, forced) == EndWith(r, "refused")
Miss(r, forced) == IF forced THEN EndWith(r, "refused") ELSE Fetching(r, TRUE)

Verify(r) ==
    LET a == req[r].app IN
    /\ req[r] # NoToken
    /\ req[r].pc = "verify"
    /\ \/ ~ Fresh(a) /\ req' = Fetching(r, FALSE)
       \/ Fresh(a) /\ req[r].kid \in cache[a].keys /\ req' = EndWith(r, Verdict(r))
       \/ Fresh(a) /\ req[r].kid \notin cache[a].keys /\ req' = Miss(r, FALSE)
    /\ UNCHANGED <<now, deployed, valid, signer, cache, dropped, published>>

(* getJwks, answered by any isolate; its exception reaches the SDK's caller. *)
GetJwks(r, w) ==
    /\ req[r] # NoToken
    /\ req[r].pc = "fetch"
    /\ req' = IF signer[w] = NoSigner THEN EndWith(r, "threw")
              ELSE [req EXCEPT ![r].pc = "answer", ![r].answer = signer[w].keys]
    /\ UNCHANGED <<now, deployed, valid, signer, cache, dropped>>
    /\ Observe

(* The answer replaces what is cached, also when that was fetched later.    *)
Receive(r) ==
    /\ req[r] # NoToken
    /\ req[r].pc = "answer"
    /\ cache' = [cache EXCEPT ![req[r].app] =
          [keys |-> req[r].answer, expires |-> req[r].start + JwksTTL]]
    /\ req' = IF req[r].kid \in req[r].answer THEN EndWith(r, Verdict(r))
              ELSE Miss(r, req[r].forced)
    /\ UNCHANGED <<now, deployed, valid, signer, dropped>>
    /\ Observe

(* verifyAccessToken: a management call verifies with the isolate's own     *)
(* keys and fetches none; the RPC turns an exception into an answer.        *)
Manage(r, w) ==
    /\ req[r] # NoToken
    /\ req[r].pc = "verify"
    /\ req' = EndWith(r, IF signer[w] = NoSigner THEN "failed"
                         ELSE IF req[r].kid \in signer[w].keys THEN Verdict(r)
                         ELSE "refused")
    /\ UNCHANGED <<now, deployed, valid, signer, cache, dropped, published>>

Next ==
    \/ \E k \in Kids : AddKey(k) \/ Promote(k) \/ DropKey(k)
    \/ DeploySecret
    \/ Tick
    \/ \E w \in Workers : Restart(w)
    \/ \E a \in Apps : RestartApp(a)
    \/ \E r \in Requests, w \in Workers :
          GetJwks(r, w) \/ Manage(r, w) \/ \E t \in Lifetimes : Sign(r, w, t)
    \/ \E r \in Requests : Verify(r) \/ Receive(r) \/ \E a \in Apps : Present(r, a)

Spec == Init /\ [][Next]_vars

-----------------------------------------------------------------------------
(* Properties                                                               *)

Ends(r, pc) == req[r] # NoToken /\ req[r].pc # pc /\ req'[r].pc = pc

(* While keys are rotated as documented, no app and no management call      *)
(* refuses a token that has not expired and whose key was not dropped, and  *)
(* so no mint is followed by a forced login: not with a stale key set, nor  *)
(* when an older answer replaces a newer one, nor with isolates of several  *)
(* deployments serving at once.                                             *)
ValidTokensVerify ==
    [][\A r \in Requests :
          Ends(r, "refused") => req[r].exp <= now \/ req[r].kid \in dropped]_vars

(* A key dropped from the secret is believed for at most JWKS_TTL_SECONDS   *)
(* after the last isolate that publishes it is gone and the last answer     *)
(* that lists it has arrived, however long the tokens signed with it live.  *)
DroppedKeysLapse ==
    [][\A r \in Requests :
          Ends(r, "accepted") => now < published[req[r].kid] + JwksTTL]_vars

(* Why they hold: the keys of undropped tokens, and every key that may sign *)
(* the next one, are published by all isolates that work.                   *)
Everywhere(k) ==
    /\ k \in deployed.keys
    /\ \A w \in Workers : signer[w] # NoSigner => k \in signer[w].keys

SignersPublished ==
    /\ Everywhere(deployed.active)
    /\ deployed.keys \cap dropped = {}
    /\ \A w \in Workers :
          signer[w] # NoSigner =>
              /\ signer[w].active \in signer[w].keys
              /\ signer[w].active \in dropped \/ Everywhere(signer[w].active)

TokensPublished ==
    \A r \in Requests : req[r] # NoToken =>
        /\ req[r].kid \in dropped \/ Everywhere(req[r].kid)
        /\ req[r].pc = "answer" => req[r].kid \in dropped \cup req[r].answer

KeySetsLapse ==
    /\ \A k \in Kids : published[k] <= now /\ (Circulates(k) => published[k] = now)
    /\ \A a \in Apps : \A k \in cache[a].keys : cache[a].expires <= published[k] + JwksTTL
    /\ \A r \in Requests : req[r] # NoToken => req[r].start <= now

SigningIInv == TypeOK /\ SignersPublished /\ TokensPublished /\ KeySetsLapse

(* SigningKeys implements Leases: whatever key an app isolate believes is   *)
(* the copy of one that was published within the last JwksTTL seconds.      *)
KeyLease == INSTANCE Leases WITH
    Things <- Kids, Keepers <- Apps, Span <- JwksTTL,
    clock <- now, inForce <- {k \in Kids : Circulates(k)}, last <- published,
    until <- [a \in Apps |-> [k \in Kids |->
                 IF k \in cache[a].keys THEN cache[a].expires ELSE 0]]

KeySetsAreLeases == KeyLease!LSpec

(* session.ts: authenticate "Never throws", a failure is a typed result.    *)
AuthenticateNeverThrows == \A r \in Requests : req[r] # NoToken => req[r].pc # "threw"
=============================================================================
