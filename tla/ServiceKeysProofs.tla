-------------------------- MODULE ServiceKeysProofs --------------------------
(***************************************************************************)
(* Proofs about ServiceKeys: KeysIInv is inductive, and the three promises  *)
(* about revoked, retired and expiring keys follow, for any services, keys, *)
(* concurrent requests and clocks.                                          *)
(***************************************************************************)
EXTENDS ServiceKeys, TLAPS

(* A request that begins lists the keys its service has, and changes no     *)
(* row.                                                                     *)
LEMMA BeginPreserves ==
    ASSUME ServiceKeyConstants, KeysIInv, NEW r \in Requests,
           NEW op \in {"provision", "issueService", "issueBound", "revoke", "rotate"},
           NEW pc \in {"service", "credential", "strip", "creds"},
           NEW s \in Services \cup {None}, NEW e \in Expiries,
           Begin(r, op, pc, s, e),
           pc = "service" <=> s = None,
           pc # "service" => s \in services,
           pc = "service" <=> op \in {"provision", "issueService"},
           pc = "strip" => op = "revoke",
           pc = "creds" => op \in {"revoke", "rotate"},
           pc = "credential" => op # "rotate"
    PROVE  KeysIInv'
<1> DEFINE mine == [op |-> op, pc |-> pc, service |-> s, expires |-> e,
                    old |-> {c \in Creds : cred[c] # NoCred /\ cred[c].owner = s}]
<1>1. mine \in Job /\ mine # Idle
  BY DEF Job, Idle, ServiceKeyConstants
<1>2. \A q \in Requests : job'[q] = IF q = r THEN mine ELSE job[q]
  BY DEF Begin, KeysIInv, TypeOK
<1>3. TypeOK'
  BY <1>1 DEF Begin, KeysIInv, TypeOK, rows, history
<1>4. mine.old = {} \/ s \in Services
  BY DEF KeysIInv, TypeOK, NoCred, Cred, ServiceKeyConstants
<1>5. JobsMakeSense'
  <2>1. SoundJob(job[r])'
    <3>1. /\ mine.pc = pc /\ mine.op = op /\ mine.service = s /\ mine.pc # "idle"
          /\ mine.old = {d \in Creds : cred[d] # NoCred /\ cred[d].owner = s}
      OBVIOUS
    <3>2. cred' = cred /\ services' = services /\ until' = until
      BY DEF Begin, rows, history
    <3> HIDE DEF mine
    <3>3. mine.old \subseteq Creds /\ \A d \in mine.old : cred[d] # NoCred /\ cred[d].owner = s
      BY <3>1
    <3>4. s = None => mine.old = {}
      BY <3>1, <1>4 DEF KeysIInv, TypeOK, NoCred, Cred, ServiceKeyConstants
    <3> QED BY <1>1, <1>2, <3>1, <3>2, <3>3, <3>4 DEF SoundJob
  <2>2. cred' = cred /\ services' = services /\ until' = until
    BY DEF Begin, rows, history
  <2> HIDE DEF mine
  <2> QED BY <1>2, <2>1, <2>2 DEF KeysIInv, JobsMakeSense, SoundJob
<1>6. OldAreRevoked'
  BY <1>2 DEF Begin, KeysIInv, OldAreRevoked, At, rows, history
<1>7. GrantsAreBounded' /\ RevocationsHold' /\ OwnersExist'
  BY DEF Begin, KeysIInv, GrantsAreBounded, RevocationsHold, OwnersExist, rows, history
<1> QED BY <1>3, <1>5, <1>6, <1>7 DEF KeysIInv

LEMMA BeginningsPreserve ==
    ASSUME ServiceKeyConstants, KeysIInv, NEW r \in Requests,
           \/ \E e \in Expiries : Provision(r, e) \/ IssueService(r, e)
           \/ \E e \in Expiries, s \in Services : IssueBound(r, s, e)
           \/ \E s \in Services : Revoke(r, s) \/ Rotate(r, s)
    PROVE  KeysIInv'
<1>1. None \notin Services /\ Never \in Expiries
  BY DEF ServiceKeyConstants
<1>2. CASE \E e \in Expiries : Provision(r, e) \/ IssueService(r, e)
  BY <1>1, <1>2, BeginPreserves DEF Provision, IssueService
<1>3. CASE \E e \in Expiries, s \in Services : IssueBound(r, s, e)
  <2>1. PICK e \in Expiries, s \in Services : IssueBound(r, s, e)
    BY <1>3
  <2>2. s \in services
    BY <2>1 DEF IssueBound, Active, KeysIInv, OwnersExist
  <2> QED BY <1>1, <2>1, <2>2, BeginPreserves DEF IssueBound
<1>4. CASE \E s \in Services : Revoke(r, s) \/ Rotate(r, s)
  BY <1>1, <1>4, BeginPreserves DEF Revoke, Rotate
<1> QED BY <1>2, <1>3, <1>4

(* What the invariant says of the service a request under way works on.     *)
LEMMA JobFacts ==
    ASSUME ServiceKeyConstants, KeysIInv, NEW r \in Requests
    PROVE  /\ job[r] \in Job
           /\ job[r].pc \notin {"idle", "service"} => job[r].service \in services
           /\ job[r].old \subseteq Creds
           /\ services \subseteq Services
           /\ job[r].expires \in Nat
           /\ \A s \in Services : until[s] \in Nat
BY DEF KeysIInv, TypeOK, JobsMakeSense, SoundJob, Job

LEMMA CreateServicePreserves ==
    ASSUME ServiceKeyConstants, KeysIInv, NEW r \in Requests, NEW s \in Services, CreateService(r, s)
    PROVE  KeysIInv'
<1> DEFINE mine == [job[r] EXCEPT !.pc = "grant", !.service = s]
<1>1. job' = [job EXCEPT ![r] = mine]
  BY DEF CreateService, KeysIInv, TypeOK
<1>2. /\ mine \in Job /\ mine # Idle /\ mine.pc = "grant" /\ mine.service = s
      /\ mine.expires = job[r].expires /\ mine.op = job[r].op /\ mine.old = {}
      /\ job[r].op \in {"provision", "issueService"}
  BY JobFacts DEF CreateService, KeysIInv, JobsMakeSense, SoundJob, At, Job, Idle
<1>3. \A q \in Requests : job'[q] = IF q = r THEN mine ELSE job[q]
  BY <1>1 DEF KeysIInv, TypeOK
<1>4. \A t \in Services : until'[t] = IF t = s THEN job[r].expires ELSE until[t]
  BY DEF CreateService, KeysIInv, TypeOK
<1>5. TypeOK'
  <2>1. job' \in [Requests -> Job]
    BY <1>1, <1>2 DEF KeysIInv, TypeOK
  <2>2. until' \in [Services -> Nat]
    BY JobFacts DEF CreateService, KeysIInv, TypeOK
  <2> QED BY <2>1, <2>2 DEF CreateService, KeysIInv, TypeOK
<1> HIDE DEF mine
<1>6. JobsMakeSense'
  <2> SUFFICES ASSUME NEW q \in Requests PROVE SoundJob(job[q])'
    BY DEF JobsMakeSense
  <2>0. services' = services \cup {s} /\ cred' = cred /\ s \notin services
    BY DEF CreateService
  <2>1. CASE q = r
    BY <1>2, <1>3, <1>4, <2>0, <2>1 DEF SoundJob
  <2>2. CASE q # r
    <3>1. SoundJob(job[q]) /\ job'[q] = job[q]
      BY <1>3, <2>2 DEF KeysIInv, JobsMakeSense
    <3>2. job[q].pc = "grant" => job[q].service \in Services /\ job[q].service # s
      BY <3>1, JobFacts DEF CreateService, SoundJob
    <3> QED BY <1>4, <2>0, <3>1, <3>2 DEF SoundJob
  <2> QED BY <2>1, <2>2
<1>7. OldAreRevoked'
  BY <1>2, <1>3 DEF CreateService, KeysIInv, OldAreRevoked, At
<1>8. GrantsAreBounded' /\ RevocationsHold' /\ OwnersExist'
  BY <1>4 DEF CreateService, KeysIInv, GrantsAreBounded, RevocationsHold, OwnersExist, TypeOK
<1> QED BY <1>5, <1>6, <1>7, <1>8 DEF KeysIInv

(* A request that only moves on to its next statement.                      *)
LEMMA MovingOnPreserves ==
    ASSUME ServiceKeyConstants, KeysIInv, NEW r \in Requests,
           NEW pc \in {"credential", "disable", "creds", "audit"}, Goto(r, pc),
           job[r].pc \notin {"idle", "service"},
           services' = services, until' = until,
           \A c \in Creds : cred[c] # NoCred => cred'[c] # NoCred /\ cred'[c].owner = cred[c].owner,
           pc = "disable" => job[r].op = "revoke",
           pc = "creds" => job[r].op = "revoke"
    PROVE  JobsMakeSense' /\ job' \in [Requests -> Job]
<1> DEFINE mine == [job[r] EXCEPT !.pc = pc]
<1>1. job' = [job EXCEPT ![r] = mine]
  BY DEF Goto, KeysIInv, TypeOK
<1>2. /\ mine \in Job /\ mine # Idle /\ mine.pc = pc /\ mine.service = job[r].service
      /\ mine.op = job[r].op /\ mine.old = job[r].old
  BY JobFacts DEF Job, Idle
<1>3. \A q \in Requests : job'[q] = IF q = r THEN mine ELSE job[q]
  BY <1>1 DEF KeysIInv, TypeOK
<1> HIDE DEF mine
<1>4. JobsMakeSense'
  <2> SUFFICES ASSUME NEW q \in Requests PROVE SoundJob(job[q])'
    BY DEF JobsMakeSense
  <2>1. SoundJob(job[r]) /\ SoundJob(job[q])
    BY DEF KeysIInv, JobsMakeSense
  <2>2. CASE q = r
    BY <1>2, <1>3, <2>1, <2>2, JobFacts DEF SoundJob
  <2>3. CASE q # r
    BY <1>3, <2>1, <2>3, JobFacts DEF SoundJob
  <2> QED BY <2>2, <2>3
<1> QED BY <1>1, <1>2, <1>4 DEF KeysIInv, TypeOK

LEMMA CreateOwnGrantPreserves ==
    ASSUME ServiceKeyConstants, KeysIInv, NEW r \in Requests, CreateOwnGrant(r)
    PROVE  KeysIInv'
<1> DEFINE own == job[r].service
<1>1. /\ job[r].service \in Services /\ job[r].service \in services
      /\ job[r].op # "rotate"
      /\ job[r].expires = until[own] /\ job[r].expires \in Nat
  BY JobFacts DEF CreateOwnGrant, At, KeysIInv, JobsMakeSense, SoundJob
<1>2. \A t \in Services :
         grants'[t] = IF t = own THEN grants[t] \cup {until[own]} ELSE grants[t]
  BY <1>1 DEF CreateOwnGrant, GrantExpiry, KeysIInv, TypeOK
<1>3. JobsMakeSense' /\ job' \in [Requests -> Job]
  BY MovingOnPreserves DEF CreateOwnGrant, At
<1>4. TypeOK'
  BY <1>1, <1>3 DEF CreateOwnGrant, GrantExpiry, KeysIInv, TypeOK
<1>5. OldAreRevoked'
  BY <1>1, JobFacts DEF CreateOwnGrant, Goto, KeysIInv, TypeOK, OldAreRevoked, At, Job
<1>6. GrantsAreBounded'
  <2>1. until' = until /\ regranted' = regranted
    BY DEF CreateOwnGrant
  <2>2. until[own] <= until[own]
    BY <1>1
  <2> QED BY <1>2, <2>1, <2>2 DEF KeysIInv, GrantsAreBounded
<1>7. RevocationsHold' /\ OwnersExist'
  BY <1>1, <1>2 DEF CreateOwnGrant, KeysIInv, RevocationsHold, OwnersExist, TypeOK
<1> QED BY <1>3, <1>4, <1>5, <1>6, <1>7 DEF KeysIInv

LEMMA CreateCredentialPreserves ==
    ASSUME ServiceKeyConstants, KeysIInv, NEW r \in Requests, NEW c \in Creds, CreateCredential(r, c)
    PROVE  KeysIInv'
<1> DEFINE fresh == [owner |-> job[r].service, live |-> TRUE, expires |-> job[r].expires]
<1>1. /\ job[r].service \in Services /\ job[r].service \in services
      /\ fresh \in Cred /\ fresh # NoCred
  BY JobFacts DEF CreateCredential, At, Cred, NoCred, ServiceKeyConstants
<1>2. \A d \in Creds : cred'[d] = IF d = c THEN fresh ELSE cred[d]
  BY DEF CreateCredential, KeysIInv, TypeOK
<1>3. cred[c] = NoCred /\ c \notin retired /\ \A q \in Requests : c \notin job[q].old
  BY DEF CreateCredential, KeysIInv, OldAreRevoked, JobsMakeSense, SoundJob
<1>4. JobsMakeSense' /\ job' \in [Requests -> Job]
  <2>1. CASE Goto(r, "audit")
    BY <1>1, <1>2, <1>3, <2>1, MovingOnPreserves DEF CreateCredential, At, history
  <2>2. CASE job' = [job EXCEPT ![r] = Idle]
    <3>1. Idle \in Job
      BY DEF Idle, Job, ServiceKeyConstants
    <3>2. \A q \in Requests : job'[q] = IF q = r THEN Idle ELSE job[q]
      BY <2>2 DEF KeysIInv, TypeOK
    <3>3. JobsMakeSense'
      <4> SUFFICES ASSUME NEW q \in Requests PROVE SoundJob(job[q])'
        BY DEF JobsMakeSense
      <4>1. SoundJob(job[q]) /\ job[q].old \subseteq Creds
        BY JobFacts DEF KeysIInv, JobsMakeSense
      <4>2. services' = services /\ until' = until
        BY DEF CreateCredential, history
      <4>3. CASE q = r
        BY <3>2, <4>3 DEF SoundJob, Idle
      <4>4. CASE q # r
        BY <1>2, <1>3, <3>2, <4>1, <4>2, <4>4 DEF SoundJob
      <4> QED BY <4>3, <4>4
    <3> QED BY <2>2, <3>1, <3>3 DEF KeysIInv, TypeOK
  <2> QED BY <2>1, <2>2 DEF CreateCredential
<1>5. TypeOK'
  BY <1>1, <1>4 DEF CreateCredential, KeysIInv, TypeOK, history
<1>6. OldAreRevoked'
  <2>1. \A q \in Requests :
           /\ job'[q].old \subseteq job[q].old
           /\ At(q, "audit")' \/ (At(q, "credential")' /\ job'[q].op = "rotate")
                 => \/ At(q, "audit") \/ (At(q, "credential") /\ job[q].op = "rotate")
                    \/ q = r /\ job[r].op = "provision" /\ job[r].old = {}
    BY JobFacts DEF CreateCredential, Goto, KeysIInv, TypeOK, JobsMakeSense, SoundJob, At, Idle, Job
  <2> QED BY <1>2, <1>3, <2>1 DEF CreateCredential, KeysIInv, OldAreRevoked, history
<1>7. GrantsAreBounded' /\ RevocationsHold' /\ OwnersExist'
  BY <1>1, <1>2 DEF CreateCredential, KeysIInv, GrantsAreBounded, RevocationsHold, OwnersExist, history
<1> QED BY <1>4, <1>5, <1>6, <1>7 DEF KeysIInv

LEMMA DeleteGrantsPreserves ==
    ASSUME ServiceKeyConstants, KeysIInv, NEW r \in Requests, DeleteGrants(r)
    PROVE  KeysIInv'
<1> DEFINE own == job[r].service
<1>1. own \in Services /\ job[r].op = "revoke" /\ job[r].pc = "strip"
  BY JobFacts DEF DeleteGrants, At, KeysIInv, JobsMakeSense, SoundJob
<1>2. \A t \in Services : grants'[t] = IF t = own THEN {} ELSE grants[t]
  BY <1>1 DEF DeleteGrants, KeysIInv, TypeOK
<1>3. JobsMakeSense' /\ job' \in [Requests -> Job]
  BY <1>1, MovingOnPreserves DEF DeleteGrants
<1>4. TypeOK'
  BY <1>1, <1>3 DEF DeleteGrants, KeysIInv, TypeOK
<1>5. OldAreRevoked'
  BY <1>1, JobFacts DEF DeleteGrants, Goto, KeysIInv, TypeOK, OldAreRevoked, At, Job
<1>6. GrantsAreBounded'
  BY <1>2 DEF DeleteGrants, KeysIInv, GrantsAreBounded
<1>7. RevocationsHold' /\ OwnersExist'
  BY <1>1, <1>2 DEF DeleteGrants, KeysIInv, RevocationsHold, OwnersExist, TypeOK
<1> QED BY <1>3, <1>4, <1>5, <1>6, <1>7 DEF KeysIInv

LEMMA DisableServicePreserves ==
    ASSUME ServiceKeyConstants, KeysIInv, NEW r \in Requests, DisableService(r)
    PROVE  KeysIInv'
<1>1. job[r].service \in Services /\ job[r].op = "revoke" /\ job[r].pc = "disable"
  BY JobFacts DEF DisableService, At, KeysIInv, JobsMakeSense, SoundJob
<1>2. JobsMakeSense' /\ job' \in [Requests -> Job]
  BY <1>1, MovingOnPreserves DEF DisableService
<1>3. TypeOK'
  BY <1>1, <1>2 DEF DisableService, KeysIInv, TypeOK
<1>4. OldAreRevoked'
  BY <1>1, JobFacts DEF DisableService, Goto, KeysIInv, TypeOK, OldAreRevoked, At, Job
<1>5. GrantsAreBounded' /\ RevocationsHold' /\ OwnersExist'
  BY DEF DisableService, KeysIInv, GrantsAreBounded, RevocationsHold, OwnersExist
<1> QED BY <1>2, <1>3, <1>4, <1>5 DEF KeysIInv

(* The statement that revokes every key of the service covers those listed  *)
(* when the request began.                                                  *)
LEMMA RevokeCredentialsPreserves ==
    ASSUME ServiceKeyConstants, KeysIInv, NEW r \in Requests, RevokeCredentials(r)
    PROVE  KeysIInv'
<1> DEFINE own == job[r].service
           next == IF job[r].op = "rotate" THEN "credential" ELSE "audit"
<1>1. own \in Services /\ job[r].pc = "creds" /\ Goto(r, next)
      /\ job[r].op \in {"revoke", "rotate"} /\ next \in {"credential", "audit"}
  BY JobFacts DEF RevokeCredentials, At, KeysIInv, JobsMakeSense, SoundJob
<1>2. \A c \in Creds :
         /\ cred[c] = NoCred => cred'[c] = NoCred
         /\ cred[c] # NoCred =>
               /\ cred[c] \in Cred /\ cred'[c] \in Cred /\ cred'[c] # NoCred
               /\ cred'[c].owner = cred[c].owner
               /\ ~ cred[c].live \/ cred[c].owner = own => ~ cred'[c].live
  <2> SUFFICES ASSUME NEW c \in Creds
               PROVE  /\ cred[c] = NoCred => cred'[c] = NoCred
                      /\ cred[c] # NoCred =>
                            /\ cred[c] \in Cred /\ cred'[c] \in Cred /\ cred'[c] # NoCred
                            /\ cred'[c].owner = cred[c].owner
                            /\ ~ cred[c].live \/ cred[c].owner = own => ~ cred'[c].live
    OBVIOUS
  <2>1. cred'[c] = IF cred[c].owner = own THEN [cred[c] EXCEPT !.live = FALSE] ELSE cred[c]
    BY DEF RevokeCredentials, Hit
  <2>2. cred[c] = NoCred \/ cred[c] \in Cred
    BY DEF KeysIInv, TypeOK
  <2>3. NoCred.owner # own
    BY <1>1 DEF NoCred, ServiceKeyConstants
  <2> HIDE DEF own
  <2> QED BY <2>1, <2>2, <2>3 DEF Cred, NoCred, ServiceKeyConstants
<1>3. cred' \in [Creds -> {NoCred} \cup Cred]
  <2>1. cred' = [c \in Creds |-> cred'[c]]
    BY DEF RevokeCredentials
  <2> QED BY <1>2, <2>1 DEF KeysIInv, TypeOK
<1>4. JobsMakeSense' /\ job' \in [Requests -> Job]
  <2>1. services' = services /\ until' = until
    BY DEF RevokeCredentials, history
  <2> HIDE DEF next
  <2> QED BY <1>1, <1>2, <2>1, MovingOnPreserves
<1>5. TypeOK'
  BY <1>3, <1>4 DEF RevokeCredentials, KeysIInv, TypeOK, history
<1>6. OldAreRevoked'
  <2>1. SoundJob(job[r])
    BY DEF KeysIInv, JobsMakeSense
  <2>2. \A c \in job[r].old : c \in Creds /\ cred[c] # NoCred /\ ~ cred'[c].live
    BY <1>2, <2>1, JobFacts DEF SoundJob
  <2>3. \A q \in Requests : job'[q].old = job[q].old /\ job[q].old \subseteq Creds
                             /\ (q # r => job'[q] = job[q])
    BY JobFacts, <1>1 DEF Goto, KeysIInv, TypeOK, Job
  <2>4. \A c \in retired : c \in Creds /\ cred[c] # NoCred /\ ~ cred[c].live
    BY DEF KeysIInv, TypeOK, OldAreRevoked
  <2>5. \A c \in retired' : cred'[c] # NoCred /\ ~ cred'[c].live
    BY <1>2, <2>4 DEF RevokeCredentials, history
  <2>6. ASSUME NEW q \in Requests, At(q, "audit")' \/ (At(q, "credential")' /\ job'[q].op = "rotate"),
               NEW c \in job'[q].old
        PROVE  ~ cred'[c].live
    <3>1. CASE q = r
      BY <2>2, <2>3, <3>1
    <3>2. CASE q # r
      <4>1. c \in job[q].old /\ ~ cred[c].live
        BY <2>3, <2>6, <3>2 DEF KeysIInv, OldAreRevoked, At
      <4>2. cred[c] # NoCred /\ c \in Creds
        BY <2>3, <4>1 DEF KeysIInv, JobsMakeSense, SoundJob
      <4> QED BY <1>2, <4>1, <4>2
    <3> QED BY <3>1, <3>2
  <2> QED BY <2>5, <2>6 DEF OldAreRevoked
<1>7. GrantsAreBounded' /\ RevocationsHold' /\ OwnersExist'
  BY <1>2 DEF RevokeCredentials, KeysIInv, GrantsAreBounded, RevocationsHold, OwnersExist, history
<1> QED BY <1>4, <1>5, <1>6, <1>7 DEF KeysIInv

(* A request that ends, whether it answered or failed.                      *)
LEMMA EndingPreserves ==
    ASSUME ServiceKeyConstants, KeysIInv, NEW r \in Requests, Answer(r) \/ Fail(r)
    PROVE  KeysIInv'
<1>1. job' = [job EXCEPT ![r] = Idle] /\ Idle \in Job
  BY DEF Answer, Fail, Idle, Job, ServiceKeyConstants
<1>2. \A q \in Requests : job'[q] = IF q = r THEN Idle ELSE job[q]
  BY <1>1 DEF KeysIInv, TypeOK
<1>3. /\ now' = now /\ services' = services /\ disabled' = disabled /\ grants' = grants
      /\ cred' = cred /\ until' = until /\ regranted' = regranted
      /\ stripped' = stripped /\ barred' = barred
  BY DEF Answer, Fail, rows, history
<1>4. \A c \in retired' : c \in Creds /\ cred[c] # NoCred /\ ~ cred[c].live
  <2>1. \A c \in retired : c \in Creds /\ cred[c] # NoCred /\ ~ cred[c].live
    BY DEF KeysIInv, TypeOK, OldAreRevoked
  <2>2. CASE Answer(r)
    <3>1. \A c \in job[r].old : c \in Creds /\ cred[c] # NoCred /\ ~ cred[c].live
      BY <2>2, JobFacts DEF Answer, At, KeysIInv, OldAreRevoked, JobsMakeSense, SoundJob
    <3> QED BY <2>1, <2>2, <3>1 DEF Answer
  <2>3. CASE Fail(r)
    BY <2>1, <2>3 DEF Fail, history
  <2> QED BY <2>2, <2>3
<1>5. TypeOK'
  BY <1>1, <1>3, <1>4 DEF KeysIInv, TypeOK
<1>6. JobsMakeSense'
  <2> SUFFICES ASSUME NEW q \in Requests PROVE SoundJob(job[q])'
    BY DEF JobsMakeSense
  <2>1. CASE q = r
    BY <1>2, <2>1 DEF SoundJob, Idle
  <2>2. CASE q # r
    BY <1>2, <1>3, <2>2 DEF KeysIInv, JobsMakeSense, SoundJob
  <2> QED BY <2>1, <2>2
<1>7. OldAreRevoked'
  BY <1>2, <1>3, <1>4 DEF KeysIInv, OldAreRevoked, At, Idle
<1>8. GrantsAreBounded' /\ RevocationsHold' /\ OwnersExist'
  BY <1>3 DEF KeysIInv, GrantsAreBounded, RevocationsHold, OwnersExist
<1> QED BY <1>5, <1>6, <1>7, <1>8 DEF KeysIInv

(* The single-statement requests, and the clock.                            *)
LEMMA GrantingPreserves ==
    ASSUME ServiceKeyConstants, KeysIInv, NEW s \in Services, NEW e \in Expiries,
           CreateGrant(s, e) \/ DeleteGrant(s, e)
    PROVE  KeysIInv'
<1>1. /\ now' = now /\ services' = services /\ disabled' = disabled /\ cred' = cred
      /\ job' = job /\ until' = until /\ barred' = barred /\ retired' = retired
      /\ (stripped' = stripped \/ stripped' = stripped \ {s})
      /\ (regranted' = regranted \/ regranted' = regranted \cup {s})
  BY DEF CreateGrant, DeleteGrant, history
<1>2. JobsMakeSense' /\ OldAreRevoked'
  BY <1>1 DEF KeysIInv, JobsMakeSense, SoundJob, OldAreRevoked, At
<1>3. CASE CreateGrant(s, e)
  <2>1. \A t \in Services : grants'[t] = IF t = s THEN grants[t] \cup {e} ELSE grants[t]
    BY <1>3 DEF CreateGrant, KeysIInv, TypeOK
  <2>2. TypeOK'
    BY <1>1, <1>3 DEF CreateGrant, KeysIInv, TypeOK, ServiceKeyConstants
  <2> QED BY <1>1, <1>2, <1>3, <2>1, <2>2
          DEF CreateGrant, KeysIInv, GrantsAreBounded, RevocationsHold, OwnersExist, TypeOK
<1>4. CASE DeleteGrant(s, e)
  <2>1. \A t \in Services : grants'[t] \subseteq grants[t]
    BY <1>4 DEF DeleteGrant, KeysIInv, TypeOK
  <2>2. TypeOK'
    BY <1>1, <1>4 DEF DeleteGrant, KeysIInv, TypeOK
  <2>3. regranted' = regranted /\ stripped' = stripped
    BY <1>4 DEF DeleteGrant, history
  <2>4. GrantsAreBounded' /\ RevocationsHold' /\ OwnersExist'
    BY <1>1, <2>1, <2>3 DEF KeysIInv, GrantsAreBounded, RevocationsHold, OwnersExist, TypeOK
  <2> QED BY <1>2, <2>2, <2>4 DEF KeysIInv
<1> QED BY <1>3, <1>4

LEMMA AdministrationPreserves ==
    ASSUME ServiceKeyConstants, KeysIInv,
           (\E s \in Services : Disable(s) \/ Enable(s)) \/ Tick \/ UNCHANGED vars
    PROVE  KeysIInv'
<1>1. /\ services' = services /\ grants' = grants /\ cred' = cred /\ job' = job
      /\ until' = until /\ regranted' = regranted /\ stripped' = stripped /\ retired' = retired
  BY DEF Disable, Enable, Tick, vars, rows, history
<1>2. now' \in 0 .. MaxTime /\ disabled' \subseteq Services /\ barred' \subseteq Services
      /\ barred' \subseteq disabled'
  BY DEF Disable, Enable, Tick, vars, rows, history, KeysIInv, TypeOK, RevocationsHold,
         ServiceKeyConstants
<1> QED
  BY <1>1, <1>2 DEF KeysIInv, TypeOK, JobsMakeSense, SoundJob, OldAreRevoked, At,
                    GrantsAreBounded, RevocationsHold, OwnersExist

LEMMA RevokeKeyPreserves ==
    ASSUME ServiceKeyConstants, KeysIInv, NEW c \in Creds, RevokeKey(c)
    PROVE  KeysIInv'
<1>1. /\ now' = now /\ services' = services /\ disabled' = disabled /\ grants' = grants
      /\ job' = job /\ until' = until /\ regranted' = regranted /\ stripped' = stripped
      /\ barred' = barred /\ retired' = retired
  BY DEF RevokeKey, history
<1>2. cred[c] \in Cred
  BY DEF RevokeKey, KeysIInv, TypeOK
<1>3. \A d \in Creds :
         /\ cred[d] = NoCred => cred'[d] = NoCred
         /\ cred[d] # NoCred =>
               /\ cred'[d] # NoCred
               /\ cred'[d].owner = cred[d].owner
               /\ ~ cred[d].live => ~ cred'[d].live
  BY <1>2 DEF RevokeKey, KeysIInv, TypeOK, Cred, NoCred, ServiceKeyConstants
<1>4. TypeOK'
  BY <1>1, <1>2 DEF RevokeKey, KeysIInv, TypeOK, Cred
<1>5. JobsMakeSense'
  BY <1>1, <1>3, JobFacts DEF KeysIInv, JobsMakeSense, SoundJob
<1>6. OldAreRevoked'
  BY <1>1, <1>3, JobFacts DEF KeysIInv, TypeOK, OldAreRevoked, JobsMakeSense, SoundJob, At
<1>7. GrantsAreBounded' /\ RevocationsHold' /\ OwnersExist'
  BY <1>1, <1>3 DEF KeysIInv, GrantsAreBounded, RevocationsHold, OwnersExist
<1> QED BY <1>4, <1>5, <1>6, <1>7 DEF KeysIInv

(* Key management keeps its invariant: the requests under way are           *)
(* well-formed, the keys they list stay revoked, grants end with the        *)
(* service, and a revocation holds until somebody undoes it.                *)
THEOREM KeysInvariant == Spec => []KeysIInv
<1>1. Init => KeysIInv
  BY ServiceKeyConstants
     DEF Init, KeysIInv, TypeOK, JobsMakeSense, SoundJob, OldAreRevoked, GrantsAreBounded,
         RevocationsHold, OwnersExist, At, Idle, Job
<1>2. KeysIInv /\ [Next]_vars => KeysIInv'
  <2> SUFFICES ASSUME KeysIInv, [Next]_vars PROVE KeysIInv'
    OBVIOUS
  <2> USE ServiceKeyConstants
  <2>1. ASSUME NEW r \in Requests, NEW e \in Expiries,
               Provision(r, e) \/ IssueService(r, e) \/ \E s \in Services : IssueBound(r, s, e)
        PROVE  KeysIInv'
    BY <2>1, BeginningsPreserve
  <2>2. ASSUME NEW r \in Requests, NEW s \in Services,
               Revoke(r, s) \/ Rotate(r, s) \/ CreateService(r, s)
        PROVE  KeysIInv'
    BY <2>2, BeginningsPreserve, CreateServicePreserves
  <2>3. ASSUME NEW r \in Requests, NEW c \in Creds, CreateCredential(r, c)
        PROVE  KeysIInv'
    BY <2>3, CreateCredentialPreserves
  <2>4. ASSUME NEW r \in Requests,
               \/ CreateOwnGrant(r) \/ DeleteGrants(r) \/ DisableService(r)
               \/ RevokeCredentials(r) \/ Answer(r) \/ Fail(r)
        PROVE  KeysIInv'
    BY <2>4, CreateOwnGrantPreserves, DeleteGrantsPreserves, DisableServicePreserves,
       RevokeCredentialsPreserves, EndingPreserves
  <2>5. ASSUME NEW s \in Services, NEW e \in Expiries, CreateGrant(s, e) \/ DeleteGrant(s, e)
        PROVE  KeysIInv'
    BY <2>5, GrantingPreserves
  <2>6. ASSUME (\E s \in Services : Disable(s) \/ Enable(s)) \/ Tick \/ UNCHANGED vars
        PROVE  KeysIInv'
    BY <2>6, AdministrationPreserves
  <2>7. ASSUME NEW c \in Creds, RevokeKey(c)
        PROVE  KeysIInv'
    BY <2>7, RevokeKeyPreserves
  <2> QED BY <2>1, <2>2, <2>3, <2>4, <2>5, <2>6, <2>7 DEF Next
<1> QED BY <1>1, <1>2, PTL DEF Spec

(* Revocation takes hold with the first statement that succeeds: no key of  *)
(* a service whose grants were deleted, or which a revocation disabled,     *)
(* does anything until the service is granted anew or enabled again.        *)
THEOREM RevocationHolds == Spec => []RevokedKeysDoNothing
<1>1. KeysIInv => RevokedKeysDoNothing
  BY DEF KeysIInv, RevocationsHold, RevokedKeysDoNothing, Works, Granted
<1> QED BY <1>1, KeysInvariant, PTL

(* A key that a completed rotation or revocation retired never works again. *)
THEOREM RotatedKeysStayRetired == Spec => []RetiredForGood
<1>1. KeysIInv => RetiredForGood
  BY DEF KeysIInv, OldAreRevoked, RetiredForGood, Works, Active
<1> QED BY <1>1, KeysInvariant, PTL

(* A key with an expiry is dead after it however often it is rotated, unless *)
(* the service was given a grant of its own.                                 *)
THEOREM ExpiryOutlivesRotation == Spec => []NothingAfterExpiry
<1>1. KeysIInv => NothingAfterExpiry
  <2> SUFFICES ASSUME KeysIInv, NEW c \in Creds, Works(c)
               PROVE  now < until[cred[c].owner] \/ cred[c].owner \in regranted
    BY DEF NothingAfterExpiry
  <2> DEFINE s == cred[c].owner
  <2>1. s \in Services
    BY DEF Works, Active, KeysIInv, TypeOK, Cred
  <2>2. PICK e \in grants[s] : e > now
    BY DEF Works, Granted
  <2>3. e \in Nat /\ until[s] \in Nat /\ now \in Nat
    BY <2>1, <2>2 DEF KeysIInv, TypeOK
  <2>4. s \in regranted \/ e <= until[s]
    BY <2>1, <2>2 DEF KeysIInv, GrantsAreBounded
  <2> QED BY <2>2, <2>3, <2>4
<1> QED BY <1>1, KeysInvariant, PTL
=============================================================================
