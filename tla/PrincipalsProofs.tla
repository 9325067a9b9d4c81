--------------------------- MODULE PrincipalsProofs ---------------------------
(***************************************************************************)
(* The safety properties of Principals, for any number of logins,          *)
(* administrators, subjects and emails.                                    *)
(***************************************************************************)
EXTENDS Integers, Principals, Accounts, TLAPS

LEMMA InitIInv == Init => IInv
  BY DistinctNames DEF Init, IInv, TypeOK, UniqueRows, IdsInOrder, LoginsKnowTheirRow,
     BarredAreDisabled, SessionIdentity, NoSessionForBarred, Ids, Todo, Idle, Resolving, Ended

LEMMA StepType == TypeOK /\ [Next]_vars => TypeOK'
  <1> SUFFICES ASSUME TypeOK, [Next]_vars PROVE TypeOK'
    OBVIOUS
  <1> USE DEF TypeOK, Ids, Resolving, Ended, rows, logins, Goto, Serve, UsersBySub, UsersByEmail
  <1>1. ASSUME NEW l \in Logins, NEW s \in Subs, NEW e \in Emails, Callback(l, s, e)
        PROVE  TypeOK'
    BY <1>1 DEF Callback
  <1>2. ASSUME NEW l \in Logins, LoginStep(l) PROVE TypeOK'
    <2>1. CASE AdmitBySub(l)     BY <2>1 DEF AdmitBySub
    <2>2. CASE AdmitByEmail(l)   BY <2>2 DEF AdmitByEmail
    <2>3. CASE LookupBySub(l)    BY <2>3 DEF LookupBySub
    <2>4. CASE RefreshLabel(l)   BY <2>4 DEF RefreshLabel
    <2>5. CASE LookupByEmail(l)  BY <2>5 DEF LookupByEmail
    <2>6. CASE ClaimInvited(l)   BY <2>6 DEF ClaimInvited
    <2>7. CASE CreateUser(l)     BY <2>7 DEF CreateUser, Insertable
    <2>8. CASE Reread(l)         BY <2>8 DEF Reread
    <2>9. CASE CreateSession(l)  BY <2>9 DEF CreateSession
    <2>10. QED
      BY <1>2, <2>1, <2>2, <2>3, <2>4, <2>5, <2>6, <2>7, <2>8, <2>9 DEF LoginStep
  <1>3. ASSUME NEW l \in Logins, Logout(l) PROVE TypeOK'
    BY <1>3 DEF Logout
  <1>4. ASSUME NEW a \in Admins, AdminStep(a) PROVE TypeOK'
    <2> USE DEF Todo, Idle, Decide, Settle
    <2>1. CASE \E e \in Emails : InviteCheck(a, e)  BY <2>1 DEF InviteCheck
    <2>2. CASE \E i \in Ids : DeleteRead(a, i)      BY <2>2 DEF DeleteRead
    <2>3. CASE \E i \in Ids, op \in {"disable", "enable"} : PatchRead(a, i, op)
      BY <2>3 DEF PatchRead
    <2>4. CASE \E i \in InviteIds : InviteInsert(a, i)  BY <2>4 DEF InviteInsert
    <2>5. CASE HardDelete(a)     BY <2>5 DEF HardDelete
    <2>6. CASE Disable(a)        BY <2>6 DEF Disable
    <2>7. CASE Enable(a)         BY <2>7 DEF Enable
    <2>8. QED
      BY <1>4, <2>1, <2>2, <2>3, <2>4, <2>5, <2>6, <2>7 DEF AdminStep
  <1>5. CASE UNCHANGED vars
    BY <1>5 DEF vars
  <1>6. QED
    BY <1>1, <1>2, <1>3, <1>4, <1>5 DEF Next

(* The other parts of IInv, one step per action. Where one leaf is too much, *)
(* the parts are split into those the action disturbs and those it leaves.   *)
LEMMA StepIInv == IInv /\ [Next]_vars => IInv'
  <1> SUFFICES ASSUME IInv, [Next]_vars PROVE IInv'
    OBVIOUS
  <1> TypeOK'
    BY StepType DEF IInv
  <1>0. \A a \in Admins : todo[a] # Idle /\ todo[a].op # "invite" => todo[a].id \in Ids
    BY DEF IInv, TypeOK, Todo, Idle
  <1> USE DistinctNames
      DEF IInv, TypeOK, UniqueRows, IdsInOrder, LoginsKnowTheirRow, BarredAreDisabled,
          SessionIdentity, NoSessionForBarred, Ids, Resolving, Ended, rows, logins,
          Goto, Serve, UsersBySub, UsersByEmail
  <1>1. ASSUME NEW l \in Logins, NEW s \in Subs, NEW e \in Emails, Callback(l, s, e)
        PROVE  IInv'
    <2> USE <1>1 DEF Callback
    <2>1. status[l] = "unused" /\ session[l] = None
      OBVIOUS
    <2>2. IdsInOrder'           BY <2>1
    <2>3. LoginsKnowTheirRow'   BY <2>1
    <2>4. BarredAreDisabled'    OBVIOUS
    <2>5. SessionIdentity' /\ NoSessionForBarred'  BY <2>1
    <2>6. QED                   BY <2>2, <2>3, <2>4, <2>5
  <1>2. ASSUME NEW l \in Logins, LoginStep(l) PROVE IInv'
    <2>1. CASE AdmitBySub(l)     BY <2>1 DEF AdmitBySub
    <2>2. CASE AdmitByEmail(l)   BY <2>2 DEF AdmitByEmail
    <2>3. CASE LookupBySub(l)
      <3> USE <2>3 DEF LookupBySub
      <3>1. IdsInOrder'          OBVIOUS
      <3>2. LoginsKnowTheirRow'  OBVIOUS
      <3>3. QED                  BY <3>1, <3>2
    <2>4. CASE RefreshLabel(l)   BY <2>4 DEF RefreshLabel
    <2>5. CASE LookupByEmail(l)
      <3> USE <2>5 DEF LookupByEmail
      <3>1. IdsInOrder'          OBVIOUS
      <3>2. LoginsKnowTheirRow'  OBVIOUS
      <3>3. QED                  BY <3>1, <3>2
    <2>6. CASE ClaimInvited(l)
      <3> USE <2>6 DEF ClaimInvited, Claimable
      <3>1. UniqueRows'          OBVIOUS
      <3>2. LoginsKnowTheirRow'  OBVIOUS
      <3>3. SessionIdentity'     OBVIOUS
      <3>4. IdsInOrder'
        <4>1. \A i \in Ids : status'[i] # "live" => externalId'[i] = None /\ i \notin disabled'
          OBVIOUS
        <4>2. \A m \in Logins : status'[m] # "unused" => pc'[m] \in {"session"} \cup Ended
          OBVIOUS
        <4>3. QED                BY <4>1, <4>2
      <3>5. QED                  BY <3>1, <3>2, <3>3, <3>4
    <2>7. CASE CreateUser(l)
      <3> USE <2>7 DEF CreateUser, Insertable
      <3>1. l \in Ids /\ status[l] = "unused" /\ session[l] = None
        OBVIOUS
      <3>2. \A m \in Logins : l \notin barred[m] /\ session[m] # l
        BY <3>1
      <3>3. UniqueRows'          BY <3>1
      <3>4. IdsInOrder'
        <4>1. \A i \in Ids : status'[i] # "live" => externalId'[i] = None /\ i \notin disabled'
          BY <3>1
        <4>2. \A m \in Logins : status'[m] # "unused" => pc'[m] \in {"session"} \cup Ended
          BY <3>1
        <4>3. \A a \in Admins : todo'[a] # Idle /\ todo'[a].op # "invite"
                                  => status'[todo'[a].id] # "unused"
          BY <1>0, <3>1
        <4>4. QED                BY <4>1, <4>2, <4>3
      <3>5. LoginsKnowTheirRow'  BY <3>1, <3>2
      <3>6. BarredAreDisabled'   BY <3>1, <3>2
      <3>7. SessionIdentity'     BY <3>1, <3>2
      <3>8. QED                  BY <3>3, <3>4, <3>5, <3>6, <3>7
    <2>8. CASE Reread(l)         BY <2>8 DEF Reread
    <2>9. CASE CreateSession(l)
      <3> USE <2>9 DEF CreateSession
      <3>1. IdsInOrder'          OBVIOUS
      <3>2. LoginsKnowTheirRow'  OBVIOUS
      <3>3. SessionIdentity'     OBVIOUS
      <3>4. NoSessionForBarred'  OBVIOUS
      <3>5. QED                  BY <3>1, <3>2, <3>3, <3>4
    <2>10. QED
      BY <1>2, <2>1, <2>2, <2>3, <2>4, <2>5, <2>6, <2>7, <2>8, <2>9 DEF LoginStep
  <1>3. ASSUME NEW l \in Logins, Logout(l) PROVE IInv'
    BY <1>3 DEF Logout
  <1>4. ASSUME NEW a \in Admins, AdminStep(a) PROVE IInv'
    <2> USE DEF Idle, Decide, Settle
    <2>1. ASSUME NEW e \in Emails, InviteCheck(a, e) PROVE IInv'
      BY <2>1 DEF InviteCheck
    <2>2. ASSUME NEW i \in Ids, DeleteRead(a, i) PROVE IInv'
      BY <2>2 DEF DeleteRead
    <2>3. ASSUME NEW i \in Ids, NEW op \in {"disable", "enable"}, PatchRead(a, i, op)
          PROVE  IInv'
      BY <2>3 DEF PatchRead
    <2>4. ASSUME NEW i \in InviteIds, InviteInsert(a, i) PROVE IInv'
      <3> USE <2>4 DEF InviteInsert
      <3>1. i \in Ids /\ i \notin Logins /\ status[i] = "unused"
        OBVIOUS
      <3>2. UniqueRows'          BY <3>1
      <3>3. IdsInOrder'
        <4>1. \A j \in Ids : status'[j] # "live" => externalId'[j] = None /\ j \notin disabled'
          BY <3>1
        <4>2. \A m \in Logins : status'[m] # "unused" => pc'[m] \in {"session"} \cup Ended
          BY <3>1
        <4>3. \A b \in Admins : todo'[b] # Idle /\ todo'[b].op # "invite"
                                  => status'[todo'[b].id] # "unused"
          BY <1>0, <3>1
        <4>4. QED                BY <4>1, <4>2, <4>3
      <3>4. LoginsKnowTheirRow'  BY <3>1
      <3>5. BarredAreDisabled'   BY <3>1
      <3>6. SessionIdentity'     BY <3>1
      <3>7. QED                  BY <3>2, <3>3, <3>4, <3>5, <3>6
    <2>5. CASE HardDelete(a)     BY <2>5 DEF HardDelete
    <2>6. CASE Disable(a)        BY <2>6 DEF Disable
    <2>7. CASE Enable(a)         BY <2>7 DEF Enable
    <2>8. QED
      BY <1>4, <2>1, <2>2, <2>3, <2>4, <2>5, <2>6, <2>7 DEF AdminStep
  <1>5. CASE UNCHANGED vars
    BY <1>5 DEF vars
  <1>6. QED
    BY <1>1, <1>2, <1>3, <1>4, <1>5 DEF Next

(* The inductive invariant holds in every reachable state of the login,     *)
(* invite and principal handlers (resolve.ts, routes.ts, admin/handlers.ts).*)
THEOREM InductiveInvariant == Spec => []IInv
  BY InitIInv, StepIInv, PTL DEF Spec

(* Whatever the interleaving of callbacks and admin requests, a session     *)
(* names a principal bound to the subject that logged in (routes.ts         *)
(* handleCallback over resolveUserPrincipal).                               *)
THEOREM SessionsNameTheirSubject == Spec => []SessionIdentity
  <1>1. IInv => SessionIdentity  BY DEF IInv
  <1>2. QED                      BY <1>1, InductiveInvariant, PTL

(* All the sessions of one subject name one principal, however its racing   *)
(* logins claimed, created or re-read it (resolve.ts, the recovery paths).  *)
THEOREM SubjectsHaveOnePrincipal == Spec => []OnePrincipalPerSub
  <1>1. IInv => OnePrincipalPerSub
    <2> SUFFICES ASSUME IInv, NEW l \in Logins, NEW m \in Logins,
                        session[l] # None, session[m] # None, sub[l] = sub[m]
                 PROVE  session[l] = session[m]
      BY DEF OnePrincipalPerSub
    <2>1. session[l] \in Ids /\ session[m] \in Ids
      BY DEF IInv, TypeOK
    <2>2. sub[l] # None
      BY DistinctNames DEF IInv, LoginsKnowTheirRow
    <2>3. QED
      BY <2>1, <2>2 DEF IInv, SessionIdentity, UniqueRows
  <1>2. QED
    BY <1>1, InductiveInvariant, PTL

(* A principal disabled since before a callback arrived gets no session     *)
(* from it: every path of resolveUserPrincipal checks disabled_at.          *)
THEOREM BarredGetNoSession == Spec => []NoSessionForBarred
  <1>1. IInv => NoSessionForBarred  BY DEF IInv
  <1>2. QED                         BY <1>1, InductiveInvariant, PTL

(* No step rebinds an existing principal: claimInvitedUser is the only      *)
(* UPDATE of external_id and its WHERE clause spares bound rows (db.ts).    *)
THEOREM IdentityIsStable == Spec => IdentityStable
  <1> DEFINE Stays == \A i \in Ids :
          status[i] = "live" /\ status'[i] = "live" /\ externalId[i] # None
              => externalId'[i] = externalId[i]
  <1>1. IInv /\ [Next]_vars => Stays
    <2> SUFFICES ASSUME IInv, [Next]_vars, NEW i \in Ids,
                        status[i] = "live", status'[i] = "live", externalId[i] # None
                 PROVE  externalId'[i] = externalId[i]
      OBVIOUS
    <2>1. externalId \in [Ids -> Subs \cup {None}] /\ row \in [Logins -> Ids \cup {None}]
      BY DEF IInv, TypeOK
    <2>2. CASE externalId' = externalId
      BY <2>2
    <2>3. CASE \E l \in Logins : ClaimInvited(l)
      BY <2>1, <2>3 DEF ClaimInvited, Claimable
    <2>4. CASE \E l \in Logins : CreateUser(l)
      BY <2>1, <2>4 DEF CreateUser, Insertable, UsersBySub, Ids, IInv, IdsInOrder, Ended
    <2>5. CASE \E a \in Admins : HardDelete(a)
      BY <2>1, <2>5 DEF HardDelete, IInv, TypeOK
    <2>6. QED
      BY <2>2, <2>3, <2>4, <2>5
         DEF Next, vars, rows, LoginStep, AdminStep, Callback, AdmitBySub, AdmitByEmail,
             LookupBySub, RefreshLabel, LookupByEmail, Reread, CreateSession, Logout,
             InviteCheck, DeleteRead, PatchRead, Decide, InviteInsert, Disable, Enable
  <1>2. QED
    BY <1>1, InductiveInvariant, PTL DEF Spec, IdentityStable

(* What the account abstraction says, for any accounts, persons and         *)
(* clients: it lets nobody own two accounts, and nobody sit on an account    *)
(* that is not theirs, however accounts are bound and closed.               *)
THEOREM AccountsArePersonal == ASpec /\ NoOne \notin Persons => []Personal
  <1> DEFINE Inv == /\ NoOne \notin Persons
                    /\ stage \in [AccountIds -> {"unborn", "vacant", "owned", "gone"}]
                    /\ owner \in [AccountIds -> Persons \cup {NoOne}]
                    /\ person \in [Clients -> Persons \cup {NoOne}]
                    /\ seat \in [Clients -> AccountIds \cup {NoOne}]
                    /\ \A a \in AccountIds : stage[a] = "owned" => owner[a] \in Persons
                    /\ Personal
  <1> USE DEF Personal, Owns
  <1>1. AInit /\ NoOne \notin Persons => Inv
    BY DEF AInit
  <1>2. Inv /\ [ANext]_avars => Inv'
    <2> SUFFICES ASSUME Inv, [ANext]_avars PROVE Inv'
      OBVIOUS
    <2>1. ASSUME NEW c \in Clients, NEW p \in Persons, Arrive(c, p) PROVE Inv'
      BY <2>1 DEF Arrive
    <2>2. ASSUME NEW a \in AccountIds, Open(a) PROVE Inv'
      BY <2>2 DEF Open
    <2>3. ASSUME NEW a \in AccountIds, Close(a) PROVE Inv'
      BY <2>3 DEF Close
    <2>4. ASSUME NEW a \in AccountIds, NEW p \in Persons, Bind(a, p) PROVE Inv'
      BY <2>4 DEF Bind
    <2>5. ASSUME NEW c \in Clients, NEW a \in AccountIds, SignIn(c, a) PROVE Inv'
      BY <2>5 DEF SignIn
    <2>6. CASE UNCHANGED avars
      BY <2>6 DEF avars
    <2> QED BY <2>1, <2>2, <2>3, <2>4, <2>5, <2>6 DEF ANext
  <1>3. Inv => Personal
    OBVIOUS
  <1> QED BY <1>1, <1>2, <1>3, PTL DEF ASpec

(* So it is with user principals: a person has one at most, and a browser's *)
(* session is for the principal of the person who signed in (resolve.ts).   *)
THEOREM PrincipalsArePersonal == Spec => []Identity!Personal
  <1>1. IInv => Identity!Personal
    <2> SUFFICES ASSUME IInv PROVE Identity!Personal
      OBVIOUS
    <2>1. \A i \in Ids : StageOf(i) = "owned" <=> status[i] = "live" /\ externalId[i] # None
      BY DEF IInv, TypeOK, StageOf
    <2>2. \A l \in Logins : session[l] # None => session[l] \in Ids /\ sub[l] # None
      BY DistinctNames DEF IInv, TypeOK, LoginsKnowTheirRow
    <2> QED BY <2>1, <2>2, DistinctNames DEF IInv, UniqueRows, SessionIdentity, Identity!Personal, Identity!Owns
  <1> QED BY <1>1, InductiveInvariant, PTL

(* How far a login has come. The two ways through resolveUserPrincipal, by  *)
(* subject and by email, meet again at the session.                         *)
Stage(at) == CASE at = "idle" -> 0
               [] at = "admitBySub" -> 1
               [] at = "admitByEmail" -> 2
               [] at = "bySub" -> 3
               [] at \in {"refresh", "byEmail"} -> 4
               [] at \in {"claim", "create"} -> 5
               [] at = "reread" -> 6
               [] at = "session" -> 7
               [] at \in Ended -> 8

(* No race sends a login back: each of its statements takes it further, so  *)
(* that it executes at most seven, and no other request moves it at all     *)
(* (resolve.ts, where a lost claim or insert re-reads once and never        *)
(* retries). It is what LoginTerminates needs besides fairness.             *)
THEOREM LoginsOnlyAdvance ==
    Spec => [][\A l \in Logins :
                  /\ pc'[l] # pc[l] => Stage(pc[l]) < Stage(pc'[l])
                  /\ LoginStep(l) => pc'[l] # pc[l]]_vars
  <1> DEFINE Onward(l, next) == pc' = [pc EXCEPT ![l] = next] /\ Stage(pc[l]) < Stage(next)
             Moves(l) == /\ pc'[l] # pc[l] => Stage(pc[l]) < Stage(pc'[l])
                         /\ LoginStep(l) => pc'[l] # pc[l]
  <1>1. ASSUME NEW l \in Logins, LoginStep(l) PROVE \E next : Onward(l, next)
    <2> USE DEF Goto, Serve, Stage, Ended
    <2>1. CASE AdmitBySub(l)     BY <2>1 DEF AdmitBySub
    <2>2. CASE AdmitByEmail(l)   BY <2>2 DEF AdmitByEmail
    <2>3. CASE LookupBySub(l)    BY <2>3 DEF LookupBySub
    <2>4. CASE RefreshLabel(l)
      <3>1. Onward(l, "session") BY <2>4 DEF RefreshLabel
      <3> QED BY <3>1
    <2>5. CASE LookupByEmail(l)  BY <2>5 DEF LookupByEmail
    <2>6. CASE ClaimInvited(l)   BY <2>6 DEF ClaimInvited
    <2>7. CASE CreateUser(l)     BY <2>7 DEF CreateUser
    <2>8. CASE Reread(l)         BY <2>8 DEF Reread
    <2>9. CASE CreateSession(l)  BY <2>9 DEF CreateSession
    <2> QED BY <1>1, <2>1, <2>2, <2>3, <2>4, <2>5, <2>6, <2>7, <2>8, <2>9 DEF LoginStep
  <1>2. ASSUME NEW l \in Logins, NEW s \in Subs, NEW e \in Emails, Callback(l, s, e)
        PROVE  \E next : Onward(l, next)
    <2>1. Stage("idle") = 0 /\ Stage("bySub") = 3 /\ Stage("admitBySub") = 1
      BY DEF Stage, Ended
    <2>2. Onward(l, IF e \in Allowlisted THEN "bySub" ELSE "admitBySub")
      BY <1>2, <2>1 DEF Callback
    <2> QED BY <2>2
  <1>3. TypeOK => \A l \in Logins : Stage(pc[l]) \in 0 .. 8
    BY DEF TypeOK, Stage, Resolving, Ended
  <1> HIDE DEF Onward
  <1>4. ASSUME TypeOK, NEW m \in Logins, NEW next, Onward(m, next)
        PROVE  /\ pc'[m] # pc[m] /\ Stage(pc[m]) < Stage(pc'[m])
               /\ \A l \in Logins \ {m} : pc'[l] = pc[l]
    <2>1. pc'[m] = next /\ Stage(pc[m]) < Stage(next) /\ Stage(pc[m]) \in 0 .. 8
      BY <1>3, <1>4 DEF Onward, TypeOK
    <2>2. \A l \in Logins \ {m} : pc'[l] = pc[l]
      BY <1>4 DEF Onward, TypeOK
    <2> QED BY <2>1, <2>2
  <1>5. TypeOK /\ [Next]_vars => [\A l \in Logins : Moves(l)]_vars
    <2> SUFFICES ASSUME TypeOK, Next, NEW l \in Logins PROVE Moves(l)
      BY DEF vars
    <2>1. LoginStep(l) => pc'[l] # pc[l]
      BY <1>1, <1>4
    <2>2. ASSUME pc'[l] # pc[l] PROVE \E m \in Logins : \E next : Onward(m, next)
      <3>1. ASSUME NEW a \in Admins, AdminStep(a) PROVE pc' = pc
        BY <3>1 DEF AdminStep, InviteCheck, DeleteRead, PatchRead, Decide, InviteInsert, HardDelete,
                    Disable, Enable, logins
      <3>2. \A m \in Logins : Logout(m) => pc' = pc
        BY DEF Logout, logins
      <3> QED BY <1>1, <1>2, <2>2, <3>1, <3>2 DEF Next
    <2>3. pc'[l] # pc[l] => Stage(pc[l]) < Stage(pc'[l])
      BY <1>4, <2>2
    <2> QED BY <2>1, <2>3
  <1>6. IInv => TypeOK
    BY DEF IInv
  <1> QED BY <1>5, <1>6, InductiveInvariant, PTL DEF Spec

(* Every step of the handlers is a step of the account abstraction, or none. *)
LEMMA StepImplements == IInv /\ IInv' /\ [Next]_vars => [Identity!ANext]_(Identity!avars)
  <1> SUFFICES ASSUME IInv, IInv', [Next]_vars
               PROVE  Identity!ANext \/ UNCHANGED Identity!avars
    OBVIOUS
  <1> USE DistinctNames DEF Identity!avars
  <1>0. TypeOK /\ \A i \in Ids : status[i] # "live" => externalId[i] = None
    BY DEF IInv, IdsInOrder
  <1>1. CASE UNCHANGED <<status, externalId, sub, session>>
    BY <1>1 DEF StageOf
  <1>2. ASSUME NEW l \in Logins, NEW s \in Subs, NEW e \in Emails, Callback(l, s, e)
        PROVE  Identity!Arrive(l, s)
    <2>1. sub[l] = None
      BY <1>2 DEF Callback, IInv, LoginsKnowTheirRow
    <2>2. QED
      BY <1>2, <2>1 DEF Callback, rows, Identity!Arrive, StageOf
  <1>3. ASSUME NEW l \in Logins, ClaimInvited(l), externalId' # externalId
        PROVE  Identity!Bind(row[l], sub[l])
    <2>1. /\ row[l] \in Ids /\ sub[l] # None /\ status[row[l]] = "live"
          /\ externalId[row[l]] = None /\ UsersBySub(sub[l]) = {}
          /\ externalId' = [externalId EXCEPT ![row[l]] = sub[l]]
      BY <1>3 DEF ClaimInvited, Claimable, IInv, LoginsKnowTheirRow
    <2>2. [i \in Ids |-> StageOf(i)]' = [[i \in Ids |-> StageOf(i)] EXCEPT ![row[l]] = "owned"]
      BY <1>0, <1>3, <2>1 DEF ClaimInvited, StageOf, TypeOK
    <2>3. \A i \in Ids : ~ Identity!Owns(sub[l], i)
      BY <1>0, <2>1 DEF Identity!Owns, StageOf, UsersBySub, TypeOK
    <2>4. QED
      BY <1>3, <2>1, <2>2, <2>3 DEF Identity!Bind, ClaimInvited, Goto, StageOf
  <1>4. ASSUME NEW l \in Logins, CreateUser(l), status' # status
        PROVE  Identity!Bind(l, sub[l])
    <2>1. /\ l \in Ids /\ sub[l] # None /\ status[l] = "unused"
          /\ UsersBySub(sub[l]) = {}
          /\ status' = [status EXCEPT ![l] = "live"]
          /\ externalId' = [externalId EXCEPT ![l] = sub[l]]
      BY <1>0, <1>4 DEF CreateUser, Insertable, IInv, LoginsKnowTheirRow, IdsInOrder, Ids, Ended, TypeOK
    <2>2. [i \in Ids |-> StageOf(i)]' = [[i \in Ids |-> StageOf(i)] EXCEPT ![l] = "owned"]
      BY <1>0, <2>1 DEF StageOf, TypeOK
    <2>3. \A i \in Ids : ~ Identity!Owns(sub[l], i)
      BY <1>0, <2>1 DEF Identity!Owns, StageOf, UsersBySub, TypeOK
    <2>4. QED
      BY <1>4, <2>1, <2>2, <2>3 DEF Identity!Bind, CreateUser, Serve, StageOf
  <1>5. ASSUME NEW l \in Logins, CreateSession(l), session' # session
        PROVE  Identity!SignIn(l, row[l])
    <2>1. /\ row[l] \in Ids /\ sub[l] # None /\ status[row[l]] = "live"
          /\ externalId[row[l]] = sub[l] /\ session[l] = None
          /\ session' = [session EXCEPT ![l] = row[l]]
      BY <1>5 DEF CreateSession, IInv, LoginsKnowTheirRow
    <2>2. QED
      BY <1>5, <2>1 DEF Identity!SignIn, Identity!Owns, CreateSession, Goto, rows, StageOf
  <1>6. ASSUME NEW a \in Admins, NEW i \in InviteIds, InviteInsert(a, i), status' # status
        PROVE  Identity!Open(i)
    <2>1. /\ i \in Ids /\ status[i] = "unused" /\ externalId[i] = None
          /\ status' = [status EXCEPT ![i] = "live"] /\ externalId' = externalId
      BY <1>0, <1>6 DEF InviteInsert, Ids
    <2>2. [j \in Ids |-> StageOf(j)]' = [[j \in Ids |-> StageOf(j)] EXCEPT ![i] = "vacant"]
      BY <1>0, <2>1 DEF StageOf, TypeOK
    <2>3. QED
      BY <1>6, <2>1, <2>2 DEF Identity!Open, InviteInsert, logins, StageOf
  <1>7. ASSUME NEW a \in Admins, HardDelete(a)
        PROVE  \/ Identity!Close(todo[a].id)
               \/ UNCHANGED <<status, externalId, sub, session>>
    <2> DEFINE i == todo[a].id
    <2>1. i \in Ids /\ status[i] # "unused"
      BY <1>0, <1>7 DEF HardDelete, IInv, IdsInOrder, TypeOK, Todo, Idle
    <2>2. CASE status[i] = "deleted"
      <3>1. status' = status /\ externalId' = externalId
        BY <1>0, <1>7, <2>1, <2>2 DEF HardDelete, TypeOK
      <3>2. session' = session
        <4>1. \A l \in Logins : session[l] # i
          BY <2>1, <2>2 DEF IInv, SessionIdentity, Ids
        <4>2. QED  BY <1>0, <1>7, <4>1 DEF HardDelete, TypeOK
      <3>3. QED    BY <1>7, <3>1, <3>2 DEF HardDelete, logins
    <2>3. CASE status[i] = "live"
      <3>1. [j \in Ids |-> StageOf(j)]' = [[j \in Ids |-> StageOf(j)] EXCEPT ![i] = "gone"]
        BY <1>0, <1>7, <2>1, <2>3 DEF HardDelete, StageOf, TypeOK
      <3>2. QED
        BY <1>7, <2>1, <2>3, <3>1 DEF HardDelete, Identity!Close, logins, StageOf
    <2>4. QED
      BY <1>0, <2>1, <2>2, <2>3 DEF TypeOK
  <1>8. ASSUME NEW l \in Logins, LoginStep(l) \/ Logout(l)
        PROVE  Identity!ANext \/ UNCHANGED Identity!avars
    <2>1. CASE ClaimInvited(l)
      <3>1. CASE externalId' = externalId
        BY <1>1, <2>1, <3>1 DEF ClaimInvited, Goto
      <3>2. CASE externalId' # externalId
        <4>1. row[l] \in Ids /\ sub[l] \in Subs
          BY <1>0, <2>1 DEF ClaimInvited, IInv, LoginsKnowTheirRow, TypeOK
        <4>2. QED  BY <1>3, <2>1, <3>2, <4>1 DEF Identity!ANext
      <3>3. QED    BY <3>1, <3>2
    <2>2. CASE CreateUser(l)
      <3>1. CASE status' = status
        BY <1>0, <1>1, <2>2, <3>1 DEF CreateUser, Insertable, Goto, IInv, IdsInOrder, Ended, TypeOK, Ids
      <3>2. CASE status' # status
        <4>1. l \in Ids /\ sub[l] \in Subs
          BY <1>0, <2>2 DEF CreateUser, Insertable, IInv, LoginsKnowTheirRow, TypeOK, Ids
        <4>2. QED  BY <1>4, <2>2, <3>2, <4>1 DEF Identity!ANext
      <3>3. QED    BY <3>1, <3>2
    <2>3. CASE CreateSession(l)
      <3>1. CASE session' = session
        BY <1>1, <2>3, <3>1 DEF CreateSession, Goto, rows
      <3>2. CASE session' # session
        <4>1. row[l] \in Ids
          BY <2>3 DEF CreateSession, IInv, LoginsKnowTheirRow
        <4>2. QED  BY <1>5, <2>3, <3>2, <4>1 DEF Identity!ANext
      <3>3. QED    BY <3>1, <3>2
    <2>4. CASE AdmitBySub(l) \/ AdmitByEmail(l) \/ LookupBySub(l) \/ RefreshLabel(l)
               \/ LookupByEmail(l) \/ Reread(l) \/ Logout(l)
      <3>1. UNCHANGED <<status, externalId, sub, session>>
        BY <2>4 DEF AdmitBySub, AdmitByEmail, LookupBySub, RefreshLabel, LookupByEmail,
                    Reread, Logout, Goto, Serve, rows, logins
      <3>2. QED    BY <1>1, <3>1
    <2>5. QED
      BY <1>8, <2>1, <2>2, <2>3, <2>4 DEF LoginStep
  <1>9. ASSUME NEW a \in Admins, AdminStep(a)
        PROVE  Identity!ANext \/ UNCHANGED Identity!avars
    <2>1. CASE \E i \in InviteIds : InviteInsert(a, i)
      <3>1. PICK i \in InviteIds : InviteInsert(a, i)
        BY <2>1
      <3>2. CASE status' = status
        BY <1>1, <3>1, <3>2 DEF InviteInsert, logins
      <3>3. CASE status' # status
        BY <1>6, <3>1, <3>3 DEF Identity!ANext, Ids
      <3>4. QED    BY <3>2, <3>3
    <2>2. CASE HardDelete(a)
      <3>1. todo[a].id \in Ids
        BY <1>0, <2>2 DEF HardDelete, TypeOK, Todo
      <3>2. QED    BY <1>1, <1>7, <2>2, <3>1 DEF Identity!ANext
    <2>3. CASE \/ \E e \in Emails : InviteCheck(a, e)
               \/ \E i \in Ids : DeleteRead(a, i)
               \/ \E i \in Ids, op \in {"disable", "enable"} : PatchRead(a, i, op)
               \/ Disable(a)
               \/ Enable(a)
      <3>1. UNCHANGED <<status, externalId, sub, session>>
        BY <2>3 DEF InviteCheck, DeleteRead, PatchRead, Decide, Disable, Enable, rows, logins
      <3>2. QED    BY <1>1, <3>1
    <2>4. QED
      BY <1>9, <2>1, <2>2, <2>3 DEF AdminStep
  <1>10. CASE UNCHANGED vars
    BY <1>1, <1>10 DEF vars, rows, logins
  <1>11. ASSUME NEW l \in Logins, NEW s \in Subs, NEW e \in Emails, Callback(l, s, e)
         PROVE  Identity!ANext
    BY <1>2, <1>11 DEF Identity!ANext
  <1>12. QED
    BY <1>8, <1>9, <1>10, <1>11 DEF Next

(* The login flow implements the account abstraction: an account is bound   *)
(* once and for good, nobody owns two, and a client is signed in only to    *)
(* the account of the person who came back from the identity provider.      *)
THEOREM PrincipalsImplementAccounts == Spec => ImplementsAccounts
  <1>1. Init => Identity!AInit
    BY DEF Init, Identity!AInit, StageOf
  <1>2. QED
    BY <1>1, InductiveInvariant, StepImplements, PTL DEF Spec, ImplementsAccounts, Identity!ASpec
=============================================================================
