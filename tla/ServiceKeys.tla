----------------------------- MODULE ServiceKeys -----------------------------
(***************************************************************************)
(* API keys of service principals: provisionApiKey, revokeApiKey and        *)
(* rotateApiKey (worker/src/admin/handlers.ts) and the two ways issueKey    *)
(* (worker/src/issue.ts) binds a key to a service. Each is a sequence of    *)
(* D1 statements without a transaction: other requests come in between, and *)
(* a request may end after any of them (a rejected statement, an evicted    *)
(* isolate) with the rest never done.                                       *)
(*                                                                         *)
(* What a grant permits and whom the delegation rule lets issue is left to  *)
(* module Credentials: a grant is its expiry here. A service principal is   *)
(* never hard-deleted, so the handlers that only check that it exists       *)
(* before one write (createGrant, patchPrincipal, deleteGrant) are a step.  *)
(***************************************************************************)
EXTENDS Integers

CONSTANTS
    Services,     \* ids for service principals
    Creds,        \* ids for px_ credentials
    Requests,     \* concurrent requests; each slot serves many in turn
    Expiries,     \* the expiresAt a request may ask for
    Never,        \* no expiry; later than any time
    MaxTime,      \* bound on the clock
    None

ASSUME ServiceKeyConstants ==
    /\ MaxTime \in Nat /\ Never \in Nat /\ Never > MaxTime
    /\ Expiries \subseteq Nat /\ Never \in Expiries
    /\ None \notin Services

VARIABLES
    now,        \* unixepoch()
    services,   \* service principals that have a row
    disabled,   \* those with disabled_at set
    grants,     \* grants[s]: the expiries of the grants of s
    cred,       \* cred[c]: a credentials row, or NoCred
    job,        \* job[r]: what request r is doing
    until,      \* history: until[s], the expiry s was provisioned with
    regranted,  \* history: services given a grant by createGrant
    stripped,   \* history: services whose grants were deleted, none written since
    barred,     \* history: services that a revocation disabled, not enabled since
    retired     \* history: see RetiredForGood

rows    == <<services, disabled, grants, cred>>
history == <<until, regranted, stripped, barred, retired>>
vars    == <<now, services, disabled, grants, cred, job, until, regranted, stripped, barred, retired>>

NoCred == [owner |-> None, live |-> FALSE, expires |-> 0]
Cred   == [owner : Services, live : BOOLEAN, expires : Nat]

Idle == [op |-> "idle", pc |-> "idle", service |-> None, expires |-> 0, old |-> {}]
Job  == [op : {"idle", "provision", "issueService", "issueBound", "revoke", "rotate"},
         pc : {"idle", "service", "grant", "credential", "strip", "disable", "creds", "audit"},
         service : Services \cup {None}, expires : Nat, old : SUBSET Creds]

TypeOK ==
    /\ now \in 0 .. MaxTime
    /\ services \subseteq Services
    /\ disabled \subseteq Services
    /\ grants \in [Services -> SUBSET Nat]
    /\ cred \in [Creds -> {NoCred} \cup Cred]
    /\ job \in [Requests -> Job]
    /\ until \in [Services -> Nat]
    /\ regranted \subseteq Services
    /\ stripped \subseteq Services
    /\ barred \subseteq Services
    /\ retired \subseteq Creds

Init ==
    /\ now = 0
    /\ services = {}
    /\ disabled = {}
    /\ grants = [s \in Services |-> {}]
    /\ cred = [c \in Creds |-> NoCred]
    /\ job = [r \in Requests |-> Idle]
    /\ until = [s \in Services |-> 0]
    /\ regranted = {}
    /\ stripped = {}
    /\ barred = {}
    /\ retired = {}

-----------------------------------------------------------------------------
(* What a key can do: mintFromKey signs a token with at least one           *)
(* permission.                                                              *)

Active(c)  == cred[c] # NoCred /\ cred[c].live /\ cred[c].expires > now
Granted(s) == \E e \in grants[s] : e > now

WorksWhenDisabled(c) == Active(c) /\ Granted(cred[c].owner)
Works(c) == Active(c) /\ cred[c].owner \notin disabled /\ Granted(cred[c].owner)

-----------------------------------------------------------------------------
(* Requests begin, and go on to their next statement                        *)

Begin(r, op, pc, s, e) ==
    /\ job[r] = Idle
    /\ job' = [job EXCEPT ![r] =
          [op |-> op, pc |-> pc, service |-> s, expires |-> e,
           old |-> {c \in Creds : cred[c] # NoCred /\ cred[c].owner = s}]]
    /\ UNCHANGED <<now, rows, history>>

(* provisionApiKey refuses an expiry in the past; issueKey does not look.   *)
Provision(r, e)    == e > now /\ Begin(r, "provision", "service", None, e)
IssueService(r, e) == Begin(r, "issueService", "service", None, e)

(* issueKey with the caller's own principalId: the caller presents a key.   *)
IssueBound(r, s, e) ==
    /\ \E c \in Creds : Active(c) /\ cred[c].owner = s /\ s \notin disabled
    /\ Begin(r, "issueBound", "credential", s, e)

(* Neither handler looks at disabled_at.                                    *)
Revoke(r, s) == s \in services /\ Begin(r, "revoke", "strip", s, Never)
Rotate(r, s) == s \in services /\ Begin(r, "rotate", "creds", s, Never)

At(r, pc) == job[r].pc = pc
Goto(r, pc) == job' = [job EXCEPT ![r].pc = pc]

CreateService(r, s) ==
    /\ At(r, "service")
    /\ s \notin services
    /\ services' = services \cup {s}
    /\ until' = [until EXCEPT ![s] = job[r].expires]
    /\ job' = [job EXCEPT ![r].pc = "grant", ![r].service = s]
    /\ UNCHANGED <<now, disabled, grants, cred, regranted, stripped, barred, retired>>

GrantExpiryUnbounded(r) == Never
GrantExpiry(r) == job[r].expires

CreateOwnGrant(r) ==
    /\ At(r, "grant")
    /\ grants' = [grants EXCEPT ![job[r].service] = @ \cup {GrantExpiry(r)}]
    /\ stripped' = stripped \ {job[r].service}
    /\ Goto(r, "credential")
    /\ UNCHANGED <<now, services, disabled, cred, until, regranted, barred, retired>>

(* A rotated key gets no expiry of its own. Only the admin handlers await   *)
(* an audit write before they answer.                                       *)
CreateCredential(r, c) ==
    /\ At(r, "credential")
    /\ cred[c] = NoCred
    /\ cred' = [cred EXCEPT ![c] =
          [owner |-> job[r].service, live |-> TRUE, expires |-> job[r].expires]]
    /\ IF job[r].op \in {"provision", "rotate"}
       THEN Goto(r, "audit")
       ELSE job' = [job EXCEPT ![r] = Idle]
    /\ UNCHANGED <<now, services, disabled, grants, history>>

DeleteGrants(r) ==
    /\ At(r, "strip")
    /\ grants' = [grants EXCEPT ![job[r].service] = {}]
    /\ stripped' = stripped \cup {job[r].service}
    /\ Goto(r, "disable")
    /\ UNCHANGED <<now, services, disabled, cred, until, regranted, barred, retired>>

DisableService(r) ==
    /\ At(r, "disable")
    /\ disabled' = disabled \cup {job[r].service}
    /\ barred' = barred \cup {job[r].service}
    /\ Goto(r, "creds")
    /\ UNCHANGED <<now, services, grants, cred, until, regranted, stripped, retired>>

(* The WHERE clause of revokeCredentialsForPrincipal.                       *)
HitUnlessDisabled(c, s) == cred[c].owner = s /\ s \notin disabled
Hit(c, s) == cred[c].owner = s

RevokeCredentials(r) ==
    /\ At(r, "creds")
    /\ cred' = [c \in Creds |-> IF Hit(c, job[r].service)
                                THEN [cred[c] EXCEPT !.live = FALSE] ELSE cred[c]]
    /\ Goto(r, IF job[r].op = "rotate" THEN "credential" ELSE "audit")
    /\ UNCHANGED <<now, services, disabled, grants, history>>

Answer(r) ==
    /\ At(r, "audit")
    /\ job' = [job EXCEPT ![r] = Idle]
    /\ retired' = retired \cup job[r].old
    /\ UNCHANGED <<now, rows, until, regranted, stripped, barred>>

Fail(r) ==
    /\ job[r] # Idle
    /\ job' = [job EXCEPT ![r] = Idle]
    /\ UNCHANGED <<now, rows, history>>

-----------------------------------------------------------------------------
(* Single-statement requests and the clock                                  *)

CreateGrant(s, e) ==
    /\ s \in services
    /\ grants' = [grants EXCEPT ![s] = @ \cup {e}]
    /\ regranted' = regranted \cup {s}
    /\ stripped' = stripped \ {s}
    /\ UNCHANGED <<now, services, disabled, cred, job, until, barred, retired>>

DeleteGrant(s, e) ==
    /\ e \in grants[s]
    /\ grants' = [grants EXCEPT ![s] = @ \ {e}]
    /\ UNCHANGED <<now, services, disabled, cred, job, history>>

Disable(s) ==
    /\ s \in services
    /\ disabled' = disabled \cup {s}
    /\ UNCHANGED <<now, services, grants, cred, job, history>>

Enable(s) ==
    /\ s \in disabled
    /\ disabled' = disabled \ {s}
    /\ barred' = barred \ {s}
    /\ UNCHANGED <<now, services, grants, cred, job, until, regranted, stripped, retired>>

(* revokeKey, by the credential's id. *)
RevokeKey(c) ==
    /\ cred[c] # NoCred
    /\ cred' = [cred EXCEPT ![c].live = FALSE]
    /\ UNCHANGED <<now, services, disabled, grants, job, history>>

Tick ==
    /\ now < MaxTime
    /\ now' = now + 1
    /\ UNCHANGED <<rows, job, history>>

Next ==
    \/ \E r \in Requests, e \in Expiries :
          Provision(r, e) \/ IssueService(r, e) \/ \E s \in Services : IssueBound(r, s, e)
    \/ \E r \in Requests, s \in Services : Revoke(r, s) \/ Rotate(r, s) \/ CreateService(r, s)
    \/ \E r \in Requests, c \in Creds : CreateCredential(r, c)
    \/ \E r \in Requests :
          \/ CreateOwnGrant(r) \/ DeleteGrants(r) \/ DisableService(r)
          \/ RevokeCredentials(r) \/ Answer(r) \/ Fail(r)
    \/ \E s \in Services, e \in Expiries : CreateGrant(s, e) \/ DeleteGrant(s, e)
    \/ \E s \in Services : Disable(s) \/ Enable(s)
    \/ \E c \in Creds : RevokeKey(c)
    \/ Tick

Spec == Init /\ [][Next]_vars

-----------------------------------------------------------------------------
(* Properties                                                               *)

(* However far a revocation got before it failed, and whatever rotation or  *)
(* issue it raced with, no key of the service works: not before somebody    *)
(* writes it a new grant (when only the grants were deleted), or enables it *)
(* again (once it is disabled), even if a fresh key was created meanwhile.  *)
RevokedKeysDoNothing ==
    \A c \in Creds : cred[c].owner \in stripped \cup barred => ~ Works(c)

(* A key that existed when a rotation or a revocation began never works     *)
(* again once that request has answered: enabling the service and granting  *)
(* it anew does not bring the old key back.                                 *)
RetiredForGood == \A c \in retired : ~ Works(c)

(* A service provisioned with an expiry does nothing from then on, even     *)
(* with a rotated key, which has no expiry of its own, unless it was given  *)
(* another grant.                                                           *)
NothingAfterExpiry ==
    \A c \in Creds :
        Works(c) => now < until[cred[c].owner] \/ cred[c].owner \in regranted

(* Why they hold.                                                           *)
SoundJob(j) ==
    /\ j.pc = "idle" <=> j = Idle
    /\ j.pc = "service" => j.service = None
    /\ j.pc \in {"service", "grant"} => j.op \in {"provision", "issueService"}
    /\ j.pc \notin {"idle", "service"} => j.service \in services
    /\ j.pc = "grant" => j.expires = until[j.service]
    /\ j.pc \in {"strip", "disable"} => j.op = "revoke"
    /\ j.pc = "creds" => j.op \in {"revoke", "rotate"}
    /\ j.op \in {"provision", "issueService"} => j.old = {}
    /\ \A c \in j.old : cred[c] # NoCred /\ cred[c].owner = j.service

JobsMakeSense == \A r \in Requests : SoundJob(job[r])

OldAreRevoked ==
    /\ \A c \in retired : cred[c] # NoCred /\ ~ cred[c].live
    /\ \A r \in Requests :
          At(r, "audit") \/ (At(r, "credential") /\ job[r].op = "rotate")
              => \A c \in job[r].old : ~ cred[c].live

GrantsAreBounded ==
    \A s \in Services : s \in regranted \/ \A e \in grants[s] : e <= until[s]

RevocationsHold ==
    /\ \A s \in stripped : grants[s] = {}
    /\ barred \subseteq disabled

OwnersExist ==
    /\ \A c \in Creds : cred[c] # NoCred => cred[c].owner \in services
    /\ \A s \in Services \ services : grants[s] = {}

KeysIInv ==
    /\ TypeOK
    /\ JobsMakeSense
    /\ OldAreRevoked
    /\ GrantsAreBounded
    /\ RevocationsHold
    /\ OwnersExist

(* handlers.ts, provisionApiKey: a failure partway leaves "an orphan        *)
(* principal at worst", and "it holds no live credential".                  *)
FailedProvisionIsHarmless ==
    [][\A r \in Requests :
          job[r].op = "provision" /\ Fail(r) =>
              ~ \E c \in Creds : cred[c].owner = job[r].service /\ cred[c].live]_vars
=============================================================================
