-------------------------------- MODULE Admin ---------------------------------
(***************************************************************************)
(* Requests to the admin API: the same-origin check, the resolution of the  *)
(* caller and the iam.admin gate (worker/src/admin/router.ts, resolveCaller *)
(* in worker/src/auth.ts), a handler that makes its change and writes an    *)
(* audit event (worker/src/admin/handlers.ts), and the reading of the audit *)
(* and the authentication log page by page while they grow and are pruned   *)
(* (worker/src/db.ts and the admin UI's audit pages). Every await is a      *)
(* point where other requests come in between and where D1 may throw.       *)
(*                                                                         *)
(* What the handlers change is the subject of other modules (Principals,    *)
(* Grants, ServiceKeys): here a change is made or not, in one statement.    *)
(***************************************************************************)
EXTENDS Integers, FiniteSetsExt, SequencesExt

CONSTANTS
    Callers,
    Kind,        \* Kind[c]: what c presents
    Scopes,      \* where they may have iam.admin at the beginning
    Arrivals,    \* what a request may be: its caller, method and origin
    Requests,    \* concurrent requests; each runs once
    PerMs,       \* bound on the audit ids drawn within a millisecond
    MaxMs,       \* bound on the clock
    Limit,       \* the page size of a reader
    Retention,   \* of auth_log, in clock units
    MaxEvents    \* bound on changes of the callers' authority and rows of auth_log

Kinds == {"session", "key", "link", "token", "provisioning", "nothing"}

StateChanging == {"POST", "PATCH", "DELETE"}
Where   == {"none", "one app", "global"}
Arrival == [caller : Callers, method : StateChanging \cup {"PUT"}, sameOrigin : BOOLEAN]

ASSUME AdminConstants ==
    /\ Kind \in [Callers -> Kinds]
    /\ {PerMs, MaxMs, Limit} \subseteq Nat \ {0}
    /\ {Retention, MaxEvents} \subseteq Nat
    /\ Arrivals \subseteq Arrival
    /\ Scopes \subseteq [Callers -> Where]

VARIABLES
    ms,         \* the clock
    local,      \* ENVIRONMENT=local and no signing keys
    row,        \* callers whose session, key or token is active
    disabled,   \* callers whose principal is disabled
    scope,      \* scope[c]: where c has iam.admin: "none", "one app", "global"
    req,        \* req[r]: a request
    changed,    \* requests whose change is in the database
    audit,      \* audit_events: [id, of], of the request
    authLog,    \* auth_log: [id, at]
    events,     \* so far
    walk        \* a reader of one of the logs

callers   == <<local, row, disabled, scope>>
logs      == <<audit, authLog, events>>
adminVars == <<ms, callers, req, changed, logs, walk>>

(* id: the audit id that was drawn. held (history): what has been true of   *)
(* the caller at some time since the request came.                          *)
Fresh == [pc |-> "fresh", id |-> 0, status |-> 0]
Request ==
    [pc : {"row", "principal", "permissions", "dispatch"}, id : {0}, status : {0},
     is : Arrival, held : SUBSET {"row", "enabled", "global"}]
Finished == [pc : {"audit", "insert", "answered"}, id : Nat, status : Nat]

(* table: the log that is read. seen: the ids on the pages so far. before:  *)
(* the cursor, 0 for none. start (history): the rows when the walk began,   *)
(* less those pruned since.                                                 *)
Unopened == [table |-> "none"]
Walk == [table : {"audit", "auth"}, before : Nat, seen : Seq(Nat), start : SUBSET Nat, over : BOOLEAN]

AdminTypeOK ==
    /\ ms \in 1 .. MaxMs
    /\ local \in BOOLEAN
    /\ row \subseteq Callers
    /\ disabled \subseteq Callers
    /\ scope \in [Callers -> Where]
    /\ events \in 0 .. MaxEvents
    /\ req \in [Requests -> {Fresh} \cup Request \cup Finished]
    /\ changed \subseteq Requests
    /\ audit \subseteq [id : Nat \ {0}, of : Requests]
    /\ authLog \subseteq [id : Nat \ {0}, at : 1 .. MaxMs]
    /\ walk = Unopened \/ walk \in Walk

AdminInit ==
    /\ ms = 1
    /\ local \in BOOLEAN
    /\ row = Callers
    /\ disabled = {}
    /\ scope \in Scopes
    /\ events = 0
    /\ req = [r \in Requests |-> Fresh]
    /\ changed = {}
    /\ audit = {}
    /\ authLog = {}
    /\ walk = Unopened

-----------------------------------------------------------------------------
(* A request goes on: those under way see the authority of their callers.   *)

Resolved == {"fresh", "audit", "insert", "answered"}

Holds(c) ==
    {f \in {"row", "enabled", "global"} :
        \/ f = "row" /\ c \in row
        \/ f = "enabled" /\ c \notin disabled
        \/ f = "global" /\ scope[c] = "global"}

All(q) == req' = [r \in Requests |->
    IF {req[r].pc, q[r].pc} \cap Resolved # {} THEN q[r]
    ELSE [q[r] EXCEPT !.held = @ \cup Holds(q[r].is.caller)]]
To(r, q) == All([req EXCEPT ![r] = q])

At(r, pc) == req[r].pc = pc
Goto(q, pc) == [q EXCEPT !.pc = pc]
Respond(q, status) == [pc |-> "answered", id |-> q.id, status |-> status]
Idly == UNCHANGED <<ms, callers, changed, logs, walk>>

-----------------------------------------------------------------------------
(* rejectCrossOrigin, then resolveAdmin and the iam.admin gate              *)

CrossOrigin(is) == is.method \in StateChanging /\ ~is.sameOrigin

(* The provisioning key and the local bypass are not in the database.       *)
Resolving(q) ==
    CASE Kind[q.is.caller] = "provisioning" -> Goto(q, "dispatch")
      [] Kind[q.is.caller] = "nothing" -> IF local THEN Goto(q, "dispatch") ELSE Respond(q, 401)
      [] OTHER -> q

Arrive(r, is) ==
    /\ req[r] = Fresh
    /\ LET q == [pc |-> "row", id |-> 0, status |-> 0, is |-> is, held |-> {}]
       IN  To(r, IF CrossOrigin(is) THEN Respond(q, 403) ELSE Resolving(q))
    /\ Idly

IsAdminSomewhere(c) == scope[c] # "none"
IsAdmin(c) == scope[c] = "global"

Permit(q) == IF IsAdmin(q.is.caller) THEN Goto(q, "dispatch") ELSE Respond(q, 403)

(* getActiveSessionByHash, getActiveCredentialByHash, verifyAccessToken. A  *)
(* token brings its permissions with it; a link has no principal.           *)
ReadRow(r) ==
    /\ At(r, "row")
    /\ To(r, IF req[r].is.caller \notin row THEN Respond(req[r], 401)
             ELSE CASE Kind[req[r].is.caller] = "link"  -> Respond(req[r], 403)
                    [] Kind[req[r].is.caller] = "token" -> Permit(req[r])
                    [] OTHER -> Goto(req[r], "principal"))
    /\ Idly

ReadPrincipal(r) ==
    /\ At(r, "principal")
    /\ To(r, IF req[r].is.caller \in disabled THEN Respond(req[r], 403) ELSE Goto(req[r], "permissions"))
    /\ Idly

ReadPermissions(r) == At(r, "permissions") /\ To(r, Permit(req[r])) /\ Idly

-----------------------------------------------------------------------------
(* dispatch and the handler                                                 *)

(* No such route or method, a body that does not parse, a conflict.         *)
Refuse(r) == At(r, "dispatch") /\ To(r, Respond(req[r], 400)) /\ Idly

AuditedLater(q) == Respond(q, 200)
Audited(q) == [Fresh EXCEPT !.pc = "audit"]

Change(r) ==
    /\ At(r, "dispatch")
    /\ changed' = changed \cup {r}
    /\ To(r, Audited(req[r]))
    /\ UNCHANGED <<ms, callers, logs, walk>>

(* uuidv7(): in the order of the milliseconds, in any order within one.     *)
IdsOf(t) == (t - 1) * PerMs + 1 .. t * PerMs

DrawId(r, i) ==
    /\ At(r, "audit")
    /\ i \in IdsOf(ms)
    /\ \A u \in Requests : req[u].id # i
    /\ To(r, [Goto(req[r], "insert") EXCEPT !.id = i])
    /\ Idly

(* The statement takes effect; its result arrives, or not. An event is that *)
(* of one change: provisionApiKey, which makes two, writes two one after    *)
(* the other (module ServiceKeys has its statements).                       *)
WriteAuditEvent(r) ==
    /\ At(r, "insert")
    /\ audit' = audit \cup {[id |-> req[r].id, of |-> r]}
    /\ \E status \in {200, 500} : To(r, Respond(req[r], status))
    /\ UNCHANGED <<ms, callers, changed, authLog, events, walk>>

Throw(r) == req[r].pc \notin {"fresh", "answered"} /\ To(r, Respond(req[r], 500)) /\ Idly

Handle(r) ==
    \/ ReadRow(r) \/ ReadPrincipal(r) \/ ReadPermissions(r) \/ Refuse(r) \/ Change(r)
    \/ WriteAuditEvent(r) \/ Throw(r)
    \/ \E i \in IdsOf(ms) : DrawId(r, i)

-----------------------------------------------------------------------------
(* auth_log: its ids follow the highest one there is, and begin again when  *)
(* all of it is pruned.                                                     *)

IdsIn(table) == {entry.id : entry \in IF table = "audit" THEN audit ELSE authLog}

WriteAuthLog ==
    /\ events < MaxEvents
    /\ events' = events + 1
    /\ authLog' = authLog \cup {[id |-> Max(IdsIn("auth") \cup {0}) + 1, at |-> ms]}
    /\ UNCHANGED <<ms, callers, req, changed, audit, walk>>

PruneAuthLog ==
    /\ authLog' = {entry \in authLog : entry.at >= ms - Retention}
    /\ authLog' # authLog
    /\ walk' = IF walk.table = "auth"
               THEN [walk EXCEPT !.start = @ \ {entry.id : entry \in authLog \ authLog'}] ELSE walk
    /\ UNCHANGED <<ms, callers, req, changed, audit, events>>

(* A reader opens a log and follows nextCursor, starting again when the     *)
(* filters change: one walk is followed here. What the walk owes it is what *)
(* has been answered by then.                                               *)
Open(table) ==
    /\ walk = Unopened
    /\ walk' = [table |-> table, before |-> 0, seen |-> <<>>, over |-> FALSE,
                start |-> IF table = "auth" THEN IdsIn("auth")
                          ELSE {req[r].id : r \in {u \in Requests : req[u].status = 200}}]
    /\ UNCHANGED <<ms, callers, req, changed, logs>>

BeforeOrAt(id, cursor) == cursor = 0 \/ id <= cursor
Before(id, cursor) == cursor = 0 \/ id < cursor

(* ORDER BY id DESC                                                         *)
Descending(S) ==
    CHOOSE ids \in [1 .. Cardinality(S) -> S] : \A i, j \in DOMAIN ids : i < j => ids[i] > ids[j]

Page(table, cursor) ==
    LET behind == Descending({id \in IdsIn(table) : Before(id, cursor)})
    IN  SubSeq(behind, 1, Min({Limit, Len(behind)}))

ReadPage ==
    /\ walk # Unopened
    /\ ~walk.over
    /\ LET page == Page(walk.table, walk.before) IN
       walk' = [walk EXCEPT !.seen = @ \o page, !.over = Len(page) < Limit,
                            !.before = IF page = <<>> THEN @ ELSE Last(page)]
    /\ UNCHANGED <<ms, callers, req, changed, logs>>

-----------------------------------------------------------------------------
(* The clock, and other administrators                                      *)

Tick == ms < MaxMs /\ ms' = ms + 1 /\ UNCHANGED <<callers, req, changed, logs, walk>>

Around ==
    /\ events < MaxEvents
    /\ events' = events + 1
    /\ All(req)
    /\ UNCHANGED <<ms, local, changed, audit, authLog, walk>>

HasRow(c)       == Kind[c] \notin {"provisioning", "nothing"}
HasPrincipal(c) == Kind[c] \in {"session", "key"}

Revoke(c) == HasRow(c) /\ c \in row /\ row' = row \ {c} /\ UNCHANGED <<disabled, scope>> /\ Around

Disable(c) == HasPrincipal(c) /\ c \notin disabled /\ disabled' = disabled \cup {c} /\ UNCHANGED <<row, scope>> /\ Around
Enable(c)  == c \in disabled /\ disabled' = disabled \ {c} /\ UNCHANGED <<row, scope>> /\ Around

SetScope(c, where) ==
    /\ HasPrincipal(c) /\ where # scope[c]
    /\ scope' = [scope EXCEPT ![c] = where]
    /\ UNCHANGED <<row, disabled>>
    /\ Around

Step ==
    \/ \E r \in Requests : Handle(r)
    \/ \E r \in Requests, is \in Arrivals : Arrive(r, is)
    \/ WriteAuthLog \/ PruneAuthLog \/ ReadPage \/ Tick
    \/ \E table \in {"audit", "auth"} : Open(table)
    \/ \E c \in Callers :
          Revoke(c) \/ Disable(c) \/ Enable(c) \/ \E where \in Where : SetScope(c, where)

AdminSpec == AdminInit /\ [][Step]_adminVars

-----------------------------------------------------------------------------
(* Properties                                                               *)

(* What the gate asks for: no POST, PATCH or DELETE from another origin; an *)
(* active session or key, an enabled principal and a global iam.admin; a    *)
(* token stands for its principal; the provisioning key and the local       *)
(* bypass for themselves.                                                   *)
Authorized(is, held) ==
    /\ ~CrossOrigin(is)
    /\ CASE Kind[is.caller] \in {"session", "key"} -> held = {"row", "enabled", "global"}
         [] Kind[is.caller] = "token" -> {"row", "global"} \subseteq held
         [] Kind[is.caller] = "nothing" -> local
         [] OTHER -> Kind[is.caller] = "provisioning"

(* A change is made for a caller that has had all that the gate asks for    *)
(* while the request was under way, though not at one moment; nobody else   *)
(* changes anything (handleAdmin, resolveAdmin).                            *)
NoChangeWithoutAuthority ==
    [][\A r \in changed' \ changed :
          Authorized(req[r].is, req[r].held \cup Holds(req[r].is.caller))]_adminVars

(* An answer tells what happened: a change that was answered with success   *)
(* is in the audit log once, and a request that was refused has changed     *)
(* nothing and left no event; only a 500 leaves it open (adminAudit, which  *)
(* every handler awaits before it answers).                                 *)
AnswersTellTheTruth == \A r \in Requests :
    /\ req[r].status = 200 => r \in changed /\ Cardinality({entry \in audit : entry.of = r}) = 1
    /\ req[r].status \in 400 .. 499 => r \notin changed
    /\ r \notin changed => \A entry \in audit : entry.of # r

(* A reader who follows the cursors to the end, while changes are made and  *)
(* old rows pruned, sees every row that was there to begin with and still   *)
(* is, and no row twice; the audit event of every change answered before it *)
(* began is among them, although ids are drawn before they are inserted     *)
(* (listAuditEvents, listAuthLog, nextCursor).                              *)
WalkMissesNothing == walk # Unopened =>
    /\ \A i, j \in DOMAIN walk.seen : i < j => walk.seen[i] > walk.seen[j]
    /\ walk.over => walk.start \subseteq Range(walk.seen)
    /\ walk.table = "audit" => walk.start \subseteq IdsIn("audit")

(* Why they hold: each read of resolveAdmin has found what it asks for.     *)
UnderWay == {"row", "principal", "permissions", "dispatch"}

Resolves(r) ==
    LET q == req[r] IN
    q.pc \in UnderWay =>
        /\ ~CrossOrigin(q.is)
        /\ q.pc = "row" => HasRow(q.is.caller)
        /\ q.pc \in {"principal", "permissions"} => HasPrincipal(q.is.caller) /\ "row" \in q.held
        /\ q.pc = "permissions" => "enabled" \in q.held
        /\ q.pc = "dispatch" => Authorized(q.is, q.held)

(* The event of a change is written once, after it and before the answer.   *)
Recorded(r) ==
    LET q == req[r]
        entries == {entry \in audit : entry.of = r}
    IN  /\ q.pc \in {"fresh"} \cup UnderWay => r \notin changed
        /\ q.pc \in {"audit", "insert"} => r \in changed /\ entries = {} /\ q.status = 0
        /\ q.pc = "insert" => q.id # 0
        /\ q.status = 200 => r \in changed /\ entries = {[id |-> q.id, of |-> r]}
        /\ q.status \in 400 .. 499 => r \notin changed
        /\ r \notin changed => entries = {}

(* What a walk still owes its reader is in the log, before its cursor.      *)
OnTrack ==
    walk # Unopened =>
        /\ walk.before = 0 => walk.seen = <<>>
        /\ \A i \in DOMAIN walk.seen : walk.seen[i] >= walk.before
        /\ \A id \in walk.start : id \in Range(walk.seen) \/ Before(id, walk.before)
        /\ walk.start \subseteq IdsIn(walk.table)

AdminInv ==
    /\ AdminTypeOK
    /\ IsFiniteSet(audit) /\ IsFiniteSet(authLog)
    /\ \A r \in Requests : Resolves(r) /\ Recorded(r)
    /\ AnswersTellTheTruth
    /\ OnTrack /\ WalkMissesNothing
===============================================================================
