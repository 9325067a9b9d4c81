------------------------------ MODULE Principals ------------------------------
(***************************************************************************)
(* User principals, logins and SSO sessions of the propustka Worker        *)
(* (worker/src/resolve.ts, worker/src/auth/routes.ts, the principal        *)
(* handlers of worker/src/admin/handlers.ts, over the statements of        *)
(* worker/src/db.ts).                                                      *)
(*                                                                         *)
(* D1 executes one statement at a time and a handler awaits each of them,  *)
(* so a request is a sequence of atomic steps, one per statement, that     *)
(* interleave freely with the statements of every other request.           *)
(*                                                                         *)
(* Data that no property tells apart is abstracted: a user row's label     *)
(* always equals its email; ids are values never used twice (uuidv7), the  *)
(* row that login l would insert being named by l itself.                  *)
(***************************************************************************)
CONSTANTS
    Logins,      \* /auth/callback requests; each one runs once
    Admins,      \* concurrent admin requests; each slot serves many in turn
    InviteIds,   \* ids available to invites
    Subs,        \* IdP subjects
    Emails,      \* verified emails
    Allowlisted, \* emails that admitted() accepts (allowlist or bootstrap)
    None         \* SQL NULL, or "nothing read yet"

ASSUME DistinctNames ==
    /\ Logins \cap InviteIds = {}
    /\ None \notin Logins \cup InviteIds \cup Subs \cup Emails
    /\ Allowlisted \subseteq Emails

Ids == Logins \cup InviteIds

VARIABLES
    status,      \* status[i]: "unused", "live" (a row exists) or "deleted"
    externalId,  \* externalId[i]: the bound sub, None while only invited
    emailOf,     \* emailOf[i]: the row's email
    disabled,    \* ids whose disabled_at is set
    pc,          \* pc[l]: next statement of login l, or how it ended
    sub, mail,   \* sub[l], mail[l]: the identity the IdP vouched for
    row,         \* row[l]: the principal row login l has read or written
    session,     \* session[l]: principal of the session row l created, or None
    revoked,     \* logins whose session has revoked_at set
    todo,        \* todo[a]: pending write of admin request a
    barred       \* barred[l]: history; see NoSessionForBarred

rows    == <<status, externalId, emailOf, disabled>>
logins  == <<pc, sub, mail, row>>
vars    == <<rows, logins, session, revoked, todo, barred>>

Resolving == {"admitBySub", "admitByEmail", "bySub", "refresh", "byEmail",
              "claim", "reread", "create", "session"}
Ended     == {"done", "disabled", "unknown_principal", "refused", "failed"}

Todo == [op : {"none"}]
        \cup [op : {"invite"}, email : Emails]
        \cup [op : {"delete", "disable", "enable"}, id : Ids]
Idle == [op |-> "none"]

TypeOK ==
    /\ status \in [Ids -> {"unused", "live", "deleted"}]
    /\ externalId \in [Ids -> Subs \cup {None}]
    /\ emailOf \in [Ids -> Emails \cup {None}]
    /\ disabled \subseteq Ids
    /\ pc \in [Logins -> {"idle"} \cup Resolving \cup Ended]
    /\ sub \in [Logins -> Subs \cup {None}]
    /\ mail \in [Logins -> Emails \cup {None}]
    /\ row \in [Logins -> Ids \cup {None}]
    /\ session \in [Logins -> Ids \cup {None}]
    /\ revoked \subseteq Logins
    /\ todo \in [Admins -> Todo]
    /\ barred \in [Logins -> SUBSET Ids]

Init ==
    /\ status = [i \in Ids |-> "unused"]
    /\ externalId = [i \in Ids |-> None]
    /\ emailOf = [i \in Ids |-> None]
    /\ disabled = {}
    /\ pc = [l \in Logins |-> "idle"]
    /\ sub = [l \in Logins |-> None]
    /\ mail = [l \in Logins |-> None]
    /\ row = [l \in Logins |-> None]
    /\ session = [l \in Logins |-> None]
    /\ revoked = {}
    /\ todo = [a \in Admins |-> Idle]
    /\ barred = [l \in Logins |-> {}]

-----------------------------------------------------------------------------
(* The SELECTs: the rows a statement sees now.                              *)

UsersBySub(s)   == {i \in Ids : status[i] = "live" /\ externalId[i] = s}
UsersByEmail(e) == {i \in Ids : status[i] = "live" /\ emailOf[i] = e}

(* principalStatus(row) = 'invited'                                         *)
Invited(i) == i \notin disabled /\ externalId[i] = None

(* The WHERE clause of claimInvitedUser. *)
ClaimableRebinds(i) == status[i] = "live"
Claimable(i) == status[i] = "live" /\ externalId[i] = None

(* The two unique indexes an inserted user row has to pass. *)
InsertableByEmail(l) == UsersByEmail(mail[l]) = {}
Insertable(l) == UsersBySub(sub[l]) = {} /\ UsersByEmail(mail[l]) = {}

Goto(l, next) ==
    /\ pc' = [pc EXCEPT ![l] = next]
    /\ UNCHANGED <<sub, mail, row>>

(* Serve(l, i): the resolution answers with row i.                          *)
Serve(l, i, next) ==
    /\ pc' = [pc EXCEPT ![l] = next]
    /\ row' = [row EXCEPT ![l] = i]
    /\ UNCHANGED <<sub, mail>>

-----------------------------------------------------------------------------
(* A login: handleCallback, then resolveUserPrincipal, then the session.    *)

Callback(l, s, e) ==
    /\ pc[l] = "idle"
    /\ sub' = [sub EXCEPT ![l] = s]
    /\ mail' = [mail EXCEPT ![l] = e]
    /\ pc' = [pc EXCEPT ![l] = IF e \in Allowlisted THEN "bySub" ELSE "admitBySub"]
    /\ barred' = [barred EXCEPT ![l] = disabled]
    /\ UNCHANGED <<rows, row, session, revoked, todo>>

AdmitBySub(l) ==
    /\ pc[l] = "admitBySub"
    /\ Goto(l, IF UsersBySub(sub[l]) = {} THEN "admitByEmail" ELSE "bySub")
    /\ UNCHANGED <<rows, session, revoked, todo, barred>>

AdmitByEmail(l) ==
    /\ pc[l] = "admitByEmail"
    /\ Goto(l, IF UsersByEmail(mail[l]) = {} THEN "refused" ELSE "bySub")
    /\ UNCHANGED <<rows, session, revoked, todo, barred>>

LookupBySub(l) ==
    /\ pc[l] = "bySub"
    /\ \/ /\ UsersBySub(sub[l]) = {}
          /\ Goto(l, "byEmail")
       \/ \E i \in UsersBySub(sub[l]) :
             \/ i \in disabled /\ Goto(l, "disabled")
             \/ i \notin disabled /\ emailOf[i] # mail[l] /\ Serve(l, i, "refresh")
             \/ i \notin disabled /\ emailOf[i] = mail[l] /\ Serve(l, i, "session")
    /\ UNCHANGED <<rows, session, revoked, todo, barred>>

(* The UPDATE hits the unique-email index when another row has the email;   *)
(* the code swallows that error and serves the row it read.                 *)
RefreshLabel(l) ==
    /\ pc[l] = "refresh"
    /\ emailOf' = IF status[row[l]] = "live" /\ UsersByEmail(mail[l]) = {}
                  THEN [emailOf EXCEPT ![row[l]] = mail[l]]
                  ELSE emailOf
    /\ Goto(l, "session")
    /\ UNCHANGED <<status, externalId, disabled, session, revoked, todo, barred>>

LookupByEmailRetries(l) ==
    /\ pc[l] = "byEmail"
    /\ \/ /\ UsersByEmail(mail[l]) = {}
          /\ Goto(l, "create")
       \/ \E i \in UsersByEmail(mail[l]) :
             \/ externalId[i] # None /\ Goto(l, "bySub")
             \/ externalId[i] = None /\ i \in disabled /\ Goto(l, "disabled")
             \/ externalId[i] = None /\ i \notin disabled /\ Serve(l, i, "claim")
    /\ UNCHANGED <<rows, session, revoked, todo, barred>>

LookupByEmail(l) ==
    /\ pc[l] = "byEmail"
    /\ \/ /\ UsersByEmail(mail[l]) = {}
          /\ Goto(l, "create")
       \/ \E i \in UsersByEmail(mail[l]) :
             \/ externalId[i] # None /\ Goto(l, "unknown_principal")
             \/ externalId[i] = None /\ i \in disabled /\ Goto(l, "disabled")
             \/ externalId[i] = None /\ i \notin disabled /\ Serve(l, i, "claim")
    /\ UNCHANGED <<rows, session, revoked, todo, barred>>

(* UPDATE ... WHERE id = ? AND external_id IS NULL RETURNING *. A row bound  *)
(* or deleted since the read matches nothing; binding a sub that another    *)
(* row has meanwhile violates the unique index, and nothing catches that.   *)
ClaimInvited(l) ==
    LET i == row[l] IN
    /\ pc[l] = "claim"
    /\ \/ /\ Claimable(i) /\ UsersBySub(sub[l]) = {}
          /\ externalId' = [externalId EXCEPT ![i] = sub[l]]
          /\ Goto(l, "session")
       \/ /\ Claimable(i) /\ UsersBySub(sub[l]) # {}
          /\ Goto(l, "failed")
          /\ UNCHANGED externalId
       \/ /\ ~ Claimable(i)
          /\ Goto(l, "reread")
          /\ UNCHANGED externalId
    /\ UNCHANGED <<status, emailOf, disabled, session, revoked, todo, barred>>

(* INSERT ... RETURNING *; either unique index may reject it.               *)
CreateUser(l) ==
    /\ pc[l] = "create"
    /\ \/ /\ Insertable(l)
          /\ status' = [status EXCEPT ![l] = "live"]
          /\ externalId' = [externalId EXCEPT ![l] = sub[l]]
          /\ emailOf' = [emailOf EXCEPT ![l] = mail[l]]
          /\ Serve(l, l, "session")
       \/ /\ ~ Insertable(l)
          /\ Goto(l, "reread")
          /\ UNCHANGED <<status, externalId, emailOf>>
    /\ UNCHANGED <<disabled, session, revoked, todo, barred>>

(* Both lost races, of the claim and of the insert, recover the same way.   *)
RereadServesAny(l) ==
    /\ pc[l] = "reread"
    /\ \/ UsersBySub(sub[l]) = {} /\ Goto(l, "unknown_principal")
       \/ \E i \in UsersBySub(sub[l]) : Serve(l, i, "session")
    /\ UNCHANGED <<rows, session, revoked, todo, barred>>

Reread(l) ==
    /\ pc[l] = "reread"
    /\ \/ UsersBySub(sub[l]) = {} /\ Goto(l, "unknown_principal")
       \/ \E i \in UsersBySub(sub[l]) :
             \/ i \in disabled /\ Goto(l, "disabled")
             \/ i \notin disabled /\ Serve(l, i, "session")
    /\ UNCHANGED <<rows, session, revoked, todo, barred>>

(* The session row references the principal: the foreign key rejects it     *)
(* when the principal was deleted meanwhile.                                *)
CreateSession(l) ==
    /\ pc[l] = "session"
    /\ \/ /\ status[row[l]] = "live"
          /\ session' = [session EXCEPT ![l] = row[l]]
          /\ Goto(l, "done")
       \/ /\ status[row[l]] # "live"
          /\ Goto(l, "failed")
          /\ UNCHANGED session
    /\ UNCHANGED <<rows, revoked, todo, barred>>

Logout(l) ==
    /\ session[l] # None /\ l \notin revoked
    /\ revoked' = revoked \cup {l}
    /\ UNCHANGED <<rows, logins, session, todo, barred>>

LoginStep(l) ==
    \/ AdmitBySub(l)   \/ AdmitByEmail(l)
    \/ LookupBySub(l)  \/ RefreshLabel(l)
    \/ LookupByEmail(l) \/ ClaimInvited(l)
    \/ CreateUser(l)   \/ Reread(l)
    \/ CreateSession(l)

-----------------------------------------------------------------------------
(* Admin requests: the read that decides, then the write. A request whose   *)
(* read ends it (404, 409) writes nothing and is not a step.                *)

Decide(a, write) ==
    /\ todo[a] = Idle
    /\ todo' = [todo EXCEPT ![a] = write]
    /\ UNCHANGED <<rows, logins, session, revoked, barred>>

Settle(a) == todo' = [todo EXCEPT ![a] = Idle]

InviteCheck(a, e) ==
    /\ UsersByEmail(e) = {}
    /\ Decide(a, [op |-> "invite", email |-> e])

DeleteRead(a, i) ==
    /\ status[i] = "live"
    /\ Decide(a, [op |-> IF Invited(i) THEN "delete" ELSE "disable", id |-> i])

PatchRead(a, i, op) ==
    /\ status[i] = "live"
    /\ Decide(a, [op |-> op, id |-> i])

InviteInsert(a, i) ==
    /\ todo[a].op = "invite"
    /\ status[i] = "unused"
    /\ IF UsersByEmail(todo[a].email) = {}
       THEN /\ status' = [status EXCEPT ![i] = "live"]
            /\ emailOf' = [emailOf EXCEPT ![i] = todo[a].email]
       ELSE UNCHANGED <<status, emailOf>>
    /\ Settle(a)
    /\ UNCHANGED <<externalId, disabled, logins, session, revoked, barred>>

(* DELETE FROM principals WHERE id = ?: the sessions go with the row.       *)
HardDelete(a) ==
    /\ todo[a].op = "delete"
    /\ LET i == todo[a].id IN
          /\ status' = [status EXCEPT ![i] = "deleted"]
          /\ externalId' = [externalId EXCEPT ![i] = None]
          /\ emailOf' = [emailOf EXCEPT ![i] = None]
          /\ disabled' = disabled \ {i}
          /\ session' = [l \in Logins |-> IF session[l] = i THEN None ELSE session[l]]
    /\ Settle(a)
    /\ UNCHANGED <<logins, revoked, barred>>

Disable(a) ==
    /\ todo[a].op = "disable"
    /\ disabled' = IF status[todo[a].id] = "live"
                   THEN disabled \cup {todo[a].id} ELSE disabled
    /\ Settle(a)
    /\ UNCHANGED <<status, externalId, emailOf, logins, session, revoked, barred>>

Enable(a) ==
    /\ todo[a].op = "enable"
    /\ disabled' = disabled \ {todo[a].id}
    /\ barred' = [l \in Logins |-> barred[l] \ {todo[a].id}]
    /\ Settle(a)
    /\ UNCHANGED <<status, externalId, emailOf, logins, session, revoked>>

AdminStep(a) ==
    \/ \E e \in Emails : InviteCheck(a, e)
    \/ \E i \in Ids : DeleteRead(a, i)
    \/ \E i \in Ids, op \in {"disable", "enable"} : PatchRead(a, i, op)
    \/ \E i \in InviteIds : InviteInsert(a, i)
    \/ HardDelete(a)
    \/ Disable(a)
    \/ Enable(a)

Next ==
    \/ \E l \in Logins, s \in Subs, e \in Emails : Callback(l, s, e)
    \/ \E l \in Logins : LoginStep(l) \/ Logout(l)
    \/ \E a \in Admins : AdminStep(a)

(* The runtime keeps executing a request it has accepted; nothing makes a   *)
(* user start a login or an administrator act.                              *)
Spec == Init /\ [][Next]_vars /\ \A l \in Logins : WF_vars(LoginStep(l))

-----------------------------------------------------------------------------
(* Properties                                                               *)

(* A session always belongs to a principal that exists and that is bound to *)
(* the very IdP subject that logged in: no interleaving of claims, lazy     *)
(* creations, label refreshes and deletions hands a browser somebody else's *)
(* principal (routes.ts stores the resolved id and the token's sub).        *)
SessionIdentity ==
    \A l \in Logins : session[l] # None =>
        status[session[l]] = "live" /\ externalId[session[l]] = sub[l]

(* Two logins of one subject end on one principal, whichever of the claim,  *)
(* lazy-create and re-read paths each of them took.                         *)
OnePrincipalPerSub ==
    \A l, m \in Logins :
        session[l] # None /\ session[m] # None /\ sub[l] = sub[m]
            => session[l] = session[m]

(* A principal that was disabled when a login began, and was never enabled  *)
(* since, gets no session from that login: every path of                    *)
(* resolveUserPrincipal re-reads disabled_at before it serves a row.        *)
NoSessionForBarred == \A l \in Logins : session[l] \notin barred[l]

(* The external_id of an existing principal never changes once it is set:   *)
(* grants and audit rows reference the id and mean that person.             *)
IdentityStable ==
    [][\A i \in Ids :
          status[i] = "live" /\ status'[i] = "live" /\ externalId[i] # None
              => externalId'[i] = externalId[i]]_vars

(* An accepted callback always comes to an end: no race sends the           *)
(* resolution back to an earlier lookup for ever.                           *)
LoginTerminates ==
    \A l \in Logins : pc[l] \in Resolving ~> pc[l] \in Ended

(* handlers.ts deletePrincipal: a claimed principal is soft-disabled, only  *)
(* an unclaimed invite is hard-deleted.                                     *)
OnlyInvitesAreDeleted ==
    [][\A i \in Ids :
          status[i] = "live" /\ status'[i] = "deleted" => externalId[i] = None]_vars

(* The login flow implements the account abstraction: what Accounts calls   *)
(* vacant is an invite, what it calls owned is a claimed user row.          *)
StageOf(i) == CASE status[i] = "unused"  -> "unborn"
                [] status[i] = "deleted" -> "gone"
                [] status[i] = "live"    -> IF externalId[i] = None THEN "vacant" ELSE "owned"

Identity == INSTANCE Accounts WITH
    AccountIds <- Ids, Persons <- Subs, Clients <- Logins, NoOne <- None,
    stage <- [i \in Ids |-> StageOf(i)],
    owner <- externalId, person <- sub, seat <- session

ImplementsAccounts == Identity!ASpec

(* Why these hold: an inductive invariant.                                  *)
UniqueRows ==
    \A i, j \in Ids : status[i] = "live" /\ status[j] = "live" /\ i # j =>
        /\ emailOf[i] # emailOf[j]
        /\ externalId[i] = None \/ externalId[i] # externalId[j]

IdsInOrder ==
    /\ \A i \in Ids : status[i] # "live" => externalId[i] = None /\ i \notin disabled
    /\ \A l \in Logins : status[l] # "unused" => pc[l] \in {"session"} \cup Ended
    /\ \A a \in Admins : todo[a] # Idle /\ todo[a].op # "invite" => status[todo[a].id] # "unused"

LoginsKnowTheirRow ==
    \A l \in Logins :
        /\ pc[l] = "idle" <=> sub[l] = None
        /\ pc[l] = "idle" <=> mail[l] = None
        /\ pc[l] # "done" => session[l] = None
        /\ pc[l] \in {"claim", "refresh", "session"} =>
              /\ row[l] \in Ids
              /\ status[row[l]] # "unused"
              /\ row[l] \notin barred[l]
        /\ pc[l] \in {"refresh", "session"} /\ status[row[l]] = "live" =>
              externalId[row[l]] = sub[l]

BarredAreDisabled ==
    \A l \in Logins : \A i \in barred[l] :
        status[i] # "unused" /\ (status[i] = "live" => i \in disabled)

IInv ==
    /\ TypeOK
    /\ UniqueRows
    /\ IdsInOrder
    /\ LoginsKnowTheirRow
    /\ BarredAreDisabled
    /\ SessionIdentity
    /\ NoSessionForBarred
=============================================================================
