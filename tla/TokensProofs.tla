----------------------------- MODULE TokensProofs -----------------------------
(***************************************************************************)
(* Proofs about Tokens: TokensIInv is inductive, and the two lifetime       *)
(* properties follow, for any lifetimes, clocks, holders and requests.      *)
(***************************************************************************)
EXTENDS Tokens, Leases, TLAPS

(* The history of a usable credential never falls behind or goes back.      *)
LEMMA ObserveIsCurrent ==
    ASSUME TypeOK, StandingIsCurrent, now' \in Time, now <= now', Observe
    PROVE  /\ standing' \in [Creds -> Time]
           /\ StandingIsCurrent'
           /\ \A c \in Creds : standing[c] <= standing'[c]
<1>1. \A c \in Creds : standing[c] \in Time /\ standing[c] <= now
  BY DEF TypeOK, StandingIsCurrent
<1>2. \A c \in Creds : standing'[c] = IF Usable(c)' THEN now' ELSE standing[c]
  BY DEF Observe
<1>3. standing' \in [Creds -> Time]
  BY <1>1 DEF Observe
<1>4. StandingIsCurrent'
  BY <1>1, <1>2 DEF StandingIsCurrent, Time, TypeOK
<1>5. \A c \in Creds : standing[c] <= standing'[c]
  BY <1>1, <1>2 DEF Time, TypeOK
<1> QED BY <1>3, <1>4, <1>5

(* The clock and the administrators move standing forward only, so a bound  *)
(* that held before holds after.                                            *)
LEMMA TickPreserves == ASSUME TokenConstants, TokensIInv, Tick PROVE TokensIInv'
<1>1. now' \in Time /\ now <= now'
  BY DEF Tick, TokensIInv, TypeOK, Time, TokenConstants
<1>2. /\ standing' \in [Creds -> Time]
      /\ StandingIsCurrent'
      /\ \A c \in Creds : standing[c] <= standing'[c]
  BY <1>1, ObserveIsCurrent DEF Tick, TokensIInv
<1>3. TypeOK'
  BY <1>1, <1>2 DEF TokensIInv, TypeOK, Tick
<1>4. \A c \in Creds, exp \in Nat : Bounded(c, exp) => Bounded(c, exp)'
  BY <1>2 DEF Bounded, Tick, TokensIInv, TypeOK, Time, TokenConstants
<1>5. \A h \in Holders, c \in Creds :
         Bounded(c, held[h][c])' /\ (row'[c] = "none" => held'[h][c] = 0)
  BY <1>4 DEF Tick, TokensIInv, TypeOK, Bounded
<1>6. \A r \in Requests : req'[r] # Fresh =>
         row'[req'[r].cred] # "none" /\ (req'[r].pc = "answer" => Bounded(req[r].cred, req[r].exp)')
  BY <1>4 DEF Tick, TokensIInv, TypeOK, Request, Fresh, Bounded
<1> QED BY <1>2, <1>3, <1>5, <1>6 DEF TokensIInv, Tick, Bounded

LEMMA CreatePreserves ==
    ASSUME TokenConstants, TokensIInv, NEW c \in Creds, NEW e \in Expiries, Create(c, e)
    PROVE  TokensIInv'
<1>1. now' \in Time /\ now <= now' /\ e \in Nat
  BY DEF Create, TokensIInv, TypeOK, Time, TokenConstants
<1>2. /\ standing' \in [Creds -> Time]
      /\ StandingIsCurrent'
      /\ \A d \in Creds : standing[d] <= standing'[d]
  BY <1>1, ObserveIsCurrent DEF Create, TokensIInv
<1>3. TypeOK'
  BY <1>1, <1>2 DEF TokensIInv, TypeOK, Create
<1>4. \A d \in Creds, exp \in Nat : Bounded(d, exp) /\ (d = c => exp = 0) => Bounded(d, exp)'
  <2>1. \A d \in Creds : expires'[d] = IF d = c THEN e ELSE expires[d]
    BY DEF Create, TokensIInv, TypeOK
  <2>2. \A d \in Creds : standing[d] \in Nat /\ standing'[d] \in Nat
    BY <1>2 DEF TokensIInv, TypeOK, Time
  <2> QED BY <1>1, <1>2, <2>1, <2>2 DEF Bounded, TokenConstants
<1>5. \A h \in Holders, d \in Creds :
         Bounded(d, held[h][d])' /\ (row'[d] = "none" => held'[h][d] = 0)
  BY <1>4 DEF Create, TokensIInv, TypeOK, Bounded
<1>6. \A r \in Requests : req'[r] # Fresh =>
         row'[req'[r].cred] # "none" /\ (req'[r].pc = "answer" => Bounded(req[r].cred, req[r].exp)')
  BY <1>4 DEF Create, TokensIInv, TypeOK, Request, Fresh, Bounded
<1> QED BY <1>2, <1>3, <1>5, <1>6 DEF TokensIInv, Create, Bounded

(* Withdrawing makes no credential usable; restoring is observed.           *)
LEMMA AdministratorsPreserve ==
    ASSUME TokenConstants, TokensIInv, NEW c \in Creds, Revoke(c) \/ Withdraw(c) \/ Restore(c)
    PROVE  TokensIInv'
<1>1. /\ standing' \in [Creds -> Time]
      /\ StandingIsCurrent'
      /\ \A d \in Creds : standing[d] <= standing'[d]
  <2>1. CASE Restore(c)
    BY <2>1, ObserveIsCurrent DEF Restore, TokensIInv, TypeOK, Time
  <2>2. CASE Revoke(c) \/ Withdraw(c)
    <3>1. \A d \in Creds : Usable(d)' => Usable(d)
      BY <2>2 DEF Revoke, Withdraw, Usable, InForce, Active, Minting, TokensIInv, TypeOK
    <3> QED BY <2>2, <3>1 DEF Revoke, Withdraw, TokensIInv, TypeOK, StandingIsCurrent, Time
  <2> QED BY <2>1, <2>2
<1>2. TypeOK'
  BY <1>1 DEF TokensIInv, TypeOK, Revoke, Withdraw, Restore
<1>3. \A d \in Creds : row'[d] = "none" <=> row[d] = "none"
  BY DEF TokensIInv, TypeOK, Revoke, Withdraw, Restore
<1>4. \A d \in Creds, exp \in Nat : Bounded(d, exp) => Bounded(d, exp)'
  BY <1>1 DEF Bounded, Revoke, Withdraw, Restore, TokensIInv, TypeOK, Time, TokenConstants
<1>5. \A h \in Holders, d \in Creds :
         Bounded(d, held[h][d])' /\ (row'[d] = "none" => held'[h][d] = 0)
  BY <1>3, <1>4 DEF Revoke, Withdraw, Restore, TokensIInv, TypeOK, Bounded
<1>6. \A r \in Requests : req'[r] # Fresh =>
         row'[req'[r].cred] # "none" /\ (req'[r].pc = "answer" => Bounded(req[r].cred, req[r].exp)')
  BY <1>3, <1>4 DEF Revoke, Withdraw, Restore, TokensIInv, TypeOK, Request, Fresh, Bounded
<1> QED BY <1>1, <1>2, <1>5, <1>6 DEF TokensIInv, Revoke, Withdraw, Restore, Bounded

(* The steps of a request before it is signed produce no token, and make no *)
(* credential usable that was not.                                          *)
LEMMA EarlyStepsPreserve ==
    ASSUME TokenConstants, TokensIInv, NEW r \in Requests,
           \/ ReadCredential(r)
           \/ Resolve(r)
           \/ \E h \in Holders, c \in Creds : Authenticate(r, h, c)
    PROVE  TokensIInv'
<1>1. TypeOK'
  <2>1. CASE \E h \in Holders, c \in Creds : Authenticate(r, h, c)
    BY <2>1 DEF TokensIInv, TypeOK, Request, Authenticate
  <2>2. CASE ReadCredential(r)
    BY <2>2 DEF TokensIInv, TypeOK, Request, Fresh, ReadCredential, Step
  <2>3. CASE Resolve(r)
    BY <2>3 DEF TokensIInv, TypeOK, Request, Fresh, Resolve, Step
  <2> QED BY <2>1, <2>2, <2>3
<1>2. \A d \in Creds : Usable(d)' => Usable(d)
  BY DEF TokensIInv, TypeOK, Request, Fresh, ReadCredential, Resolve, Step, Authenticate,
         Usable, InForce, Active, Minting
<1>3. StandingIsCurrent'
  BY <1>2 DEF StandingIsCurrent, TokensIInv, ReadCredential, Resolve, Step, Authenticate
<1>4. \A s \in Requests : req'[s] # Fresh =>
         row[req'[s].cred] # "none" /\ (req'[s].pc = "answer" => Bounded(req'[s].cred, req'[s].exp))
  BY DEF TokensIInv, TypeOK, Request, Fresh, ReadCredential, Resolve, Step, Authenticate
<1> QED
  BY <1>1, <1>3, <1>4 DEF TokensIInv, Bounded, ReadCredential, Resolve, Step, Authenticate

(* The signature puts the token's end within bounds: the credential is      *)
(* still standing then.                                                     *)
LEMMA SignPreserves ==
    ASSUME TokenConstants, TokensIInv, NEW r \in Requests, Sign(r) PROVE TokensIInv'
<1>1. req[r] \in Request /\ req[r].cred \in Creds /\ now \in Nat
  BY DEF Sign, TokensIInv, TypeOK, Request, Fresh, Time
<1>2. TokenExpiry(req[r].cred) \in Nat
  BY <1>1 DEF TokenExpiry, TokensIInv, TypeOK, TokenConstants
<1>3. standing[req[r].cred] = now
  BY <1>1 DEF Sign, TokensIInv, StandingIsCurrent, Usable, Minting
<1>4. Bounded(req[r].cred, TokenExpiry(req[r].cred))
  BY <1>1, <1>3 DEF Bounded, TokenExpiry, TokensIInv, TypeOK, TokenConstants
<1>5. TypeOK'
  BY <1>1, <1>2 DEF TokensIInv, TypeOK, Request, Sign
<1>6. \A d \in Creds : Usable(d)' => Usable(d)
  BY DEF Sign, Usable, InForce, Active, Minting, TokensIInv, TypeOK, Fresh
<1>7. StandingIsCurrent'
  BY <1>6 DEF StandingIsCurrent, TokensIInv, Sign
<1>8. \A s \in Requests : req'[s] # Fresh =>
         row[req'[s].cred] # "none" /\ (req'[s].pc = "answer" => Bounded(req'[s].cred, req'[s].exp))
  BY <1>1, <1>4 DEF Sign, TokensIInv, TypeOK, Fresh, Request
<1> QED BY <1>5, <1>7, <1>8 DEF TokensIInv, Bounded, Sign

(* What a holder keeps is the token it was answered with.                   *)
LEMMA ReceivePreserves ==
    ASSUME TokenConstants, TokensIInv, NEW r \in Requests, Receive(r) PROVE TokensIInv'
<1>1. /\ req[r] \in Request
      /\ req[r].cred \in Creds /\ req[r].holder \in Holders /\ req[r].exp \in Nat
      /\ Bounded(req[r].cred, req[r].exp) /\ row[req[r].cred] # "none"
  BY DEF Receive, TokensIInv, TypeOK, Request, Fresh
<1>2. /\ req' \in [Requests -> {Fresh} \cup Request]
      /\ \A s \in Requests : s # r => req'[s] = req[s]
      /\ req'[r] \in Request /\ req'[r].pc \in {"accepted", "refused"}
      /\ UNCHANGED <<now, row, expires, allowed, standing>>
  <2>1. PICK end \in {"accepted", "refused"} : req' = [req EXCEPT ![r].pc = end]
    BY DEF Receive
  <2>2. req \in [Requests -> {Fresh} \cup Request]
    BY DEF TokensIInv, TypeOK
  <2>3. [req[r] EXCEPT !.pc = end] \in Request /\ [req[r] EXCEPT !.pc = end].pc = end
    BY <1>1 DEF Request
  <2>4. req'[r] = [req[r] EXCEPT !.pc = end] /\ \A s \in Requests : s # r => req'[s] = req[s]
    BY <2>1, <2>2
  <2>5. req' \in [Requests -> {Fresh} \cup Request]
    BY <2>1, <2>2, <2>3
  <2> QED BY <2>3, <2>4, <2>5 DEF Receive
<1>3. \A h \in Holders, d \in Creds :
         \/ held'[h][d] = held[h][d]
         \/ h = req[r].holder /\ d = req[r].cred /\ held'[h][d] = req[r].exp
  BY <1>1 DEF Receive, TokensIInv, TypeOK
<1>4. TypeOK' /\ StandingIsCurrent'
  <2>1. held' \in [Holders -> [Creds -> Nat]]
    <3>1. CASE held' = held
      BY <3>1 DEF TokensIInv, TypeOK
    <3>2. CASE held' = [held EXCEPT ![req[r].holder][req[r].cred] = req[r].exp]
      BY <1>1, <3>2 DEF TokensIInv, TypeOK
    <3> QED BY <3>1, <3>2 DEF Receive
  <2>2. \A d \in Creds : Usable(d)' => Usable(d)
    BY <1>2 DEF Usable, InForce, Active, Minting
  <2> QED BY <1>2, <2>1, <2>2 DEF TokensIInv, TypeOK, StandingIsCurrent
<1>5. \A h \in Holders, d \in Creds :
         Bounded(d, held'[h][d]) /\ (row[d] = "none" => held'[h][d] = 0)
  BY <1>1, <1>3 DEF TokensIInv
<1>6. \A s \in Requests : req'[s] # Fresh =>
         row[req'[s].cred] # "none" /\ (req'[s].pc = "answer" => Bounded(req'[s].cred, req'[s].exp))
  <2>1. req'[r].cred = req[r].cred
    BY <1>1 DEF Receive, TokensIInv, TypeOK, Request
  <2> QED BY <1>1, <1>2, <2>1 DEF TokensIInv
<1> QED BY <1>2, <1>4, <1>5, <1>6 DEF TokensIInv, Bounded

(* TokensIInv holds in every reachable state.                               *)
THEOREM TokensInvariant == Spec => []TokensIInv
<1>1. Init => TokensIInv
  BY TokenConstants DEF Init, TokensIInv, TypeOK, StandingIsCurrent, Bounded, Usable, InForce,
     Active, Minting, Time, Fresh
<1>2. TokensIInv /\ [Next]_vars => TokensIInv'
  <2> SUFFICES ASSUME TokensIInv, [Next]_vars PROVE TokensIInv' OBVIOUS
  <2>1. CASE Tick BY <2>1, TokenConstants, TickPreserves
  <2>2. ASSUME NEW c \in Creds, NEW e \in Expiries, Create(c, e) PROVE TokensIInv'
    BY <2>2, TokenConstants, CreatePreserves
  <2>3. ASSUME NEW c \in Creds, Revoke(c) \/ Withdraw(c) \/ Restore(c) PROVE TokensIInv'
    BY <2>3, TokenConstants, AdministratorsPreserve
  <2>4. ASSUME NEW r \in Requests, NEW h \in Holders, NEW c \in Creds, Authenticate(r, h, c)
        PROVE  TokensIInv'
    BY <2>4, TokenConstants, EarlyStepsPreserve
  <2>5. ASSUME NEW r \in Requests, ReadCredential(r) \/ Resolve(r) PROVE TokensIInv'
    BY <2>5, TokenConstants, EarlyStepsPreserve
  <2>6. ASSUME NEW r \in Requests, Sign(r) PROVE TokensIInv'
    BY <2>6, TokenConstants, SignPreserves
  <2>7. ASSUME NEW r \in Requests, Receive(r) PROVE TokensIInv'
    BY <2>7, TokenConstants, ReceivePreserves
  <2>8. CASE UNCHANGED vars
    BY <2>8 DEF vars, TokensIInv, TypeOK, StandingIsCurrent, Bounded, Usable, InForce, Active, Minting
  <2> QED BY <2>1, <2>2, <2>3, <2>4, <2>5, <2>6, <2>7, <2>8 DEF Next
<1> QED BY <1>1, <1>2, PTL DEF Spec

(* A step that accepts a request does so with an unexpired token whose end  *)
(* is bounded.                                                              *)
LEMMA AcceptedTokenIsBounded ==
    ASSUME TokenConstants, TokensIInv, [Next]_vars, NEW r \in Requests, Accepts(r)
    PROVE  /\ now < standing[req'[r].cred] + TTL
           /\ req'[r].cred \in Keys => now < expires[req'[r].cred]
<1>1. ASSUME NEW h \in Holders, NEW c \in Creds, Authenticate(r, h, c)
      PROVE  now < held[h][c] /\ req'[r].cred = c
  BY <1>1 DEF Authenticate, Accepts, Verifies, TokensIInv, TypeOK
<1>2. ASSUME Receive(r)
      PROVE  now < req[r].exp /\ req'[r].cred = req[r].cred
             /\ req[r].cred \in Creds /\ req[r].exp \in Nat /\ Bounded(req[r].cred, req[r].exp)
  BY <1>2 DEF Receive, Accepts, Verifies, TokensIInv, TypeOK, Request, Fresh
<1>3. \/ \E h \in Holders, c \in Creds : Authenticate(r, h, c)
      \/ Receive(r)
  <2>1. ASSUME NEW s \in Requests, s # r,
               \/ ReadCredential(s) \/ Resolve(s) \/ Sign(s) \/ Receive(s)
               \/ \E h \in Holders, c \in Creds : Authenticate(s, h, c)
        PROVE  FALSE
    BY <2>1 DEF ReadCredential, Resolve, Sign, Receive, Step, Authenticate, Accepts, TokensIInv, TypeOK
  <2>2. ~ (ReadCredential(r) \/ Resolve(r) \/ Sign(r))
    BY DEF ReadCredential, Resolve, Sign, Step, Accepts, TokensIInv, TypeOK, Request
  <2>3. req' # req
    BY DEF Accepts
  <2> QED BY <2>1, <2>2, <2>3 DEF Next, vars, Tick, Create, Revoke, Withdraw, Restore
<1>4. \A c \in Creds, exp \in Nat : now < exp /\ Bounded(c, exp) =>
         now < standing[c] + TTL /\ (c \in Keys => now < expires[c])
  BY DEF Bounded, TokensIInv, TypeOK, Time, TokenConstants
<1>5. \A h \in Holders, c \in Creds : held[h][c] \in Nat /\ Bounded(c, held[h][c])
  BY DEF TokensIInv, TypeOK
<1> QED BY <1>1, <1>2, <1>3, <1>4, <1>5

(* Withdrawn permissions lapse within the lifetime of a token.              *)
THEOREM PermissionsLapse == Spec => LapsesWithinTTL
<1> DEFINE Lapse == \A r \in Requests : Accepts(r) => now < standing[req'[r].cred] + TTL
<1>1. TokensIInv /\ [Next]_vars => Lapse
  BY TokenConstants, AcceptedTokenIsBounded
<1> QED BY <1>1, TokensInvariant, PTL DEF Spec, LapsesWithinTTL

(* No request is accepted with a key that has expired.                      *)
THEOREM ExpiredKeysAreRefused == Spec => KeyExpiryIsFinal
<1> DEFINE Final == \A r \in Requests :
        Accepts(r) /\ req'[r].cred \in Keys => now < expires[req'[r].cred]
<1>1. TokensIInv /\ [Next]_vars => Final
  BY TokenConstants, AcceptedTokenIsBounded
<1> QED BY <1>1, TokensInvariant, PTL DEF Spec, KeyExpiryIsFinal

(* A copy that is still honoured is of something that was in force within   *)
(* Span, in any system that behaves like Leases.                            *)
THEOREM CopiesLapse == LSpec /\ Span \in Nat => []HonouredWithinSpan
<1> DEFINE Inv == /\ Span \in Nat /\ clock \in Nat
                  /\ inForce \subseteq Things
                  /\ last \in [Things -> Nat]
                  /\ until \in [Keepers -> [Things -> Nat]]
                  /\ \A x \in Things : last[x] <= clock
                  /\ \A k \in Keepers, x \in Things : until[k][x] <= last[x] + Span
<1>1. LInit /\ Span \in Nat => Inv
  BY DEF LInit
<1>2. Inv /\ [LNext]_lvars => Inv'
  <2> SUFFICES ASSUME Inv, [LNext]_lvars PROVE Inv'
    OBVIOUS
  <2>1. ASSUME Seen, clock' \in Nat, clock <= clock', inForce' \subseteq Things, UNCHANGED until
        PROVE  Inv'
    <3>1. \A x \in Things : last'[x] = IF x \in inForce' THEN clock' ELSE last[x]
      BY <2>1 DEF Seen
    <3>2. last' \in [Things -> Nat]
      BY <2>1 DEF Seen
    <3>3. \A x \in Things : last[x] <= last'[x] /\ last'[x] <= clock'
      BY <2>1, <3>1
    <3>4. \A k \in Keepers, x \in Things : until'[k][x] <= last'[x] + Span
      BY <2>1, <3>2, <3>3
    <3> QED BY <2>1, <3>2, <3>3, <3>4
  <2>2. CASE Pass   BY <2>1, <2>2 DEF Pass
  <2>3. CASE Alter  BY <2>1, <2>3 DEF Alter
  <2>4. ASSUME NEW k \in Keepers, Renew(k) PROVE Inv'
    BY <2>4 DEF Renew
  <2>5. CASE UNCHANGED lvars
    BY <2>5 DEF lvars
  <2> QED BY <2>2, <2>3, <2>4, <2>5 DEF LNext
<1>3. Inv => HonouredWithinSpan
  BY DEF HonouredWithinSpan
<1> QED BY <1>1, <1>2, <1>3, PTL DEF LSpec

(* A step that is observed, keeps the clock or advances it, and leaves what *)
(* is kept alone is one of Leases; so is one that touches none of it.       *)
LEMMA ObservedStepImplements ==
    ASSUME TokensIInv, Observe, UNCHANGED held,
           \/ UNCHANGED now
           \/ now' = now + 1 /\ \A c \in Creds : Usable(c)' => Usable(c)
    PROVE  Lease!LNext
<1>1. Lease!Seen
  BY DEF Observe, Lease!Seen
<1>2. CASE UNCHANGED now
  BY <1>1, <1>2 DEF Lease!LNext, Lease!Alter
<1>3. CASE now' = now + 1 /\ \A c \in Creds : Usable(c)' => Usable(c)
  BY <1>1, <1>3 DEF Lease!LNext, Lease!Pass
<1> QED BY <1>2, <1>3

LEMMA WithdrawalImplements ==
    ASSUME TokensIInv, UNCHANGED <<now, held, standing>>,
           \A c \in Creds : Usable(c)' => Usable(c)
    PROVE  Lease!LNext
<1>1. \A c \in Creds : Usable(c)' => standing[c] = now
  BY DEF TokensIInv, StandingIsCurrent
<1>2. Lease!Seen
  BY <1>1 DEF Lease!Seen, TokensIInv, TypeOK
<1> QED BY <1>2 DEF Lease!LNext, Lease!Alter

(* The answer a holder keeps ends within TTL of the credential's authority, *)
(* which the signature guaranteed and nothing since can have shortened.     *)
LEMMA ReceiptImplements ==
    ASSUME TokenConstants, TokensIInv, NEW r \in Requests, Receive(r)
    PROVE  Lease!LNext
<1>1. /\ req[r].cred \in Creds /\ req[r].holder \in Holders /\ req[r].exp \in Nat
      /\ req[r].exp <= standing[req[r].cred] + TTL
      /\ req[r] \in Request
  BY DEF Receive, TokensIInv, TypeOK, Request, Fresh, Bounded
<1>2. \A c \in Creds : Usable(c)' => Usable(c)
  <2>1. PICK end \in {"accepted", "refused"} : req' = [req EXCEPT ![r].pc = end]
    BY DEF Receive
  <2>2. /\ \A s \in Requests : s # r => req'[s] = req[s]
        /\ req'[r].pc = end
    BY <1>1, <2>1 DEF TokensIInv, TypeOK, Request
  <2> QED BY <2>2 DEF Receive, Usable, InForce, Active, Minting
<1>3. CASE UNCHANGED held
  BY <1>2, <1>3, WithdrawalImplements DEF Receive
<1>4. CASE held' = [held EXCEPT ![req[r].holder][req[r].cred] = req[r].exp]
  <2>1. /\ held' \in [Holders -> [Creds -> Nat]]
        /\ \A h \in Holders \ {req[r].holder} : held'[h] = held[h]
        /\ \A c \in Creds : held'[req[r].holder][c] = IF c = req[r].cred THEN req[r].exp
                                                      ELSE held[req[r].holder][c]
    BY <1>1, <1>4 DEF TokensIInv, TypeOK
  <2>2. \A c \in Creds : held'[req[r].holder][c] <= standing[c] + TTL
    BY <1>1, <2>1 DEF TokensIInv, Bounded
  <2>3. Lease!Renew(req[r].holder)
    BY <1>2, <2>1, <2>2 DEF Receive, Lease!Renew
  <2> QED BY <1>1, <2>3 DEF Lease!LNext
<1> QED BY <1>3, <1>4 DEF Receive

(* The tokens an app's SDK keeps are leases of their credentials' authority *)
(* (session.ts, tokens.ts): the refinement of the abstract specification.   *)
THEOREM TokensImplementLeases == Spec => ImplementsLeases
<1>1. Init => Lease!LInit
  BY DEF Init, Lease!LInit
<1>2. TokensIInv /\ [Next]_vars => [Lease!LNext]_Lease!lvars
  <2> SUFFICES ASSUME TokensIInv, [Next]_vars PROVE [Lease!LNext]_Lease!lvars
    OBVIOUS
  <2>1. CASE Tick
    <3>1. \A c \in Creds : Usable(c)' => Usable(c)
      BY <2>1, TokenConstants DEF Tick, Usable, InForce, Active, Minting, TokensIInv, TypeOK, Time
    <3> QED BY <2>1, <3>1, ObservedStepImplements DEF Tick
  <2>2. ASSUME NEW c \in Creds, Restore(c) \/ \E e \in Expiries : Create(c, e)
        PROVE  Lease!LNext
    BY <2>2, ObservedStepImplements DEF Restore, Create
  <2>3. ASSUME NEW c \in Creds, Revoke(c) \/ Withdraw(c) PROVE Lease!LNext
    <3>1. \A d \in Creds : Usable(d)' => Usable(d)
      BY <2>3 DEF Revoke, Withdraw, Usable, InForce, Active, Minting, TokensIInv, TypeOK
    <3> QED BY <2>3, <3>1, WithdrawalImplements DEF Revoke, Withdraw
  <2>4. ASSUME NEW r \in Requests,
               \/ \E h \in Holders, c \in Creds : Authenticate(r, h, c)
               \/ ReadCredential(r) \/ Resolve(r)
        PROVE  Lease!LNext
    <3>1. \A d \in Creds : Usable(d)' => Usable(d)
      BY <2>4 DEF TokensIInv, TypeOK, Request, Fresh, ReadCredential, Resolve, Step, Authenticate,
                  Usable, InForce, Active, Minting
    <3> QED BY <2>4, <3>1, WithdrawalImplements DEF Authenticate, ReadCredential, Resolve, Step
  <2>5. ASSUME NEW r \in Requests, Sign(r) PROVE Lease!LNext
    <3>1. \A d \in Creds : Usable(d)' => Usable(d)
      BY <2>5 DEF Sign, Usable, InForce, Active, Minting, TokensIInv, TypeOK, Fresh
    <3> QED BY <2>5, <3>1, WithdrawalImplements DEF Sign
  <2>6. ASSUME NEW r \in Requests, Receive(r) PROVE Lease!LNext
    BY <2>6, TokenConstants, ReceiptImplements
  <2>7. CASE UNCHANGED vars
    BY <2>7 DEF vars, Lease!lvars, Usable, InForce, Active, Minting
  <2> QED BY <2>1, <2>2, <2>3, <2>4, <2>5, <2>6, <2>7 DEF Next
<1> QED BY <1>1, <1>2, TokensInvariant, PTL DEF Spec, ImplementsLeases, Lease!LSpec

(* So no holder ever has a token to use TTL after its credential lost its   *)
(* authority for good.                                                      *)
THEOREM HeldTokensAreRecent == Spec => []Lease!HonouredWithinSpan
<1>1. TokensIInv => Lease!HonouredWithinSpan
  BY TokenConstants DEF TokensIInv, TypeOK, Bounded, Time, Lease!HonouredWithinSpan
<1> QED BY <1>1, TokensInvariant, PTL
=============================================================================
