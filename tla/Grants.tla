-------------------------------- MODULE Grants --------------------------------
(***************************************************************************)
(* Grants over one app's vocabulary: createGrant and deleteGrant            *)
(* (worker/src/admin/handlers.ts) while deploys reconcile the vocabulary    *)
(* and administrators edit policies (module AppSchema), and the answer of a *)
(* deploy's PUT, which reads the vocabulary back.                           *)
(*                                                                         *)
(* The other writer of the table is issueKey in its service mode            *)
(* (worker/src/issue.ts): it consults no catalog, only the permissions of   *)
(* its caller.                                                              *)
(*                                                                         *)
(* A request awaits one statement after another; each is a step. Grants of  *)
(* other apps never meet this app's tables and are left out, and so are     *)
(* scopes and expiries, which are stored as they come. provisionApiKey      *)
(* checks and inserts a grant as createGrant does.                          *)
(***************************************************************************)
EXTENDS AppSchema

CONSTANTS
    People,      \* principals an administrator may invite
    Services,    \* principals that issueKey may create
    GrantRows,   \* the grants an administrator may ask for
    ServiceRows, \* the grants with which a caller of issueKey may ask for a service
    Askers       \* grant requests in flight at once

(* A grant names a role or, as "inline", carries patterns of its own; app   *)
(* is "this" one or "all" (null); by says which writer inserted it.         *)
Row == [to : People \cup Services, app : {"this", "all"}, role : RoleKeys \cup {"inline"},
        permissions : SUBSET Seq(Segments), by : {"createGrant", "issueKey"}]
AllRows == GrantRows \cup ServiceRows

ASSUME GrantConstants ==
    /\ Builtin = {"admin"} /\ "inline" \notin RoleKeys
    /\ AllRows \subseteq Row /\ People \cap Services = {}
    /\ \A g \in AllRows : g.role = "inline" => g.permissions # {}
    /\ \A g \in GrantRows : g.by = "createGrant"
    /\ \A g \in ServiceRows :
          g.by = "issueKey" /\ g.to \in Services /\ g.app = "this" /\ g.role = "inline"

VARIABLES
    people,    \* principals with a row
    grants,    \* the grant rows
    asked,     \* asked[q]: progress of a grant request
    answer,    \* the answer to a PUT no other reconcile has met, as far as it is read
    ever,      \* history: every action the app has ever declared
    vouched    \* history: patterns of createGrant's grants that a caller of issueKey relied on

grantVars == <<people, grants, asked, answer, ever, vouched>>

NotAsked == [op |-> "none"]
Creation == [op : {"create"}, pc : {"vocabulary", "principal", "insert"}, row : GrantRows]
Deletion == [op : {"delete"}, row : AllRows]
Issue    == [op : {"issue"}, pc : {"roles", "principal", "insert"}, row : ServiceRows,
             held : SUBSET AllRows]
NoAnswer == [pc |-> "none"]
Answer   == [pc : {"scopes", "actions", "roles", "sent"}, of : Schemas,
             scopes : SUBSET ScopeTypes, actions : SUBSET Seq(Segments),
             roles : SUBSET (RoleKeys \X SUBSET Seq(Segments))]

GrantsTypeOK ==
    /\ people \subseteq People \cup Services
    /\ grants \subseteq AllRows
    /\ asked \in [Askers -> {NotAsked} \cup Creation \cup Deletion \cup Issue]
    /\ answer \in {NoAnswer} \cup Answer
    /\ ever \subseteq Seq(Segments)
    /\ vouched \subseteq Seq(Segments \cup {Star})

GrantsInit ==
    /\ Init
    /\ people = {}
    /\ grants = {}
    /\ asked = [q \in Askers |-> NotAsked]
    /\ answer = NoAnswer
    /\ ever = {}
    /\ vouched = {}

-----------------------------------------------------------------------------
(* A deploy and the answer of its PUT: readAppSchemaDto                     *)

Deploy(s) ==
    /\ PutAppSchema(s)
    /\ ever' = ever \cup s.actions
    /\ answer' = IF answer.pc \in {"none", "sent"}
                 THEN [pc |-> "scopes", of |-> s, scopes |-> {}, actions |-> {}, roles |-> {}]
                 ELSE NoAnswer
    /\ UNCHANGED <<people, grants, asked, vouched>>

(* Every role, not only those of origin 'app'. *)
DeclaredRolesOfAnyOrigin == {<<k, roles[k].permissions>> : k \in {k \in RoleKeys : roles[k] # NoRole}}
DeclaredRoles == {<<k, roles[k].permissions>> : k \in {k \in RoleKeys : roles[k].origin = "app"}}

Read(pc, next) == answer.pc = pc /\ answer' = next /\ UNCHANGED <<vars, people, grants, asked, ever, vouched>>
ReadScopes  == Read("scopes", [answer EXCEPT !.pc = "actions", !.scopes = scopes])
ReadActions == Read("actions", [answer EXCEPT !.pc = "roles", !.actions = catalog])
ReadRoles   == Read("roles", [answer EXCEPT !.pc = "sent", !.roles = DeclaredRoles])

-----------------------------------------------------------------------------
(* createGrant and deleteGrant                                              *)

(* The app, when one is named, must be known. *)
AskGrant(q, g) ==
    /\ asked[q] = NotAsked
    /\ g.app = "this" => Known
    /\ asked' = [asked EXCEPT ![q] = [op |-> "create", pc |-> "vocabulary", row |-> g]]
    /\ UNCHANGED <<vars, people, grants, answer, ever, vouched>>

Proceed(q, from, holds, next) ==
    /\ asked[q].op = "create"
    /\ asked[q].pc = from
    /\ asked' = [asked EXCEPT ![q] = IF holds THEN [@ EXCEPT !.pc = next] ELSE NotAsked]
    /\ UNCHANGED <<vars, people, grants, answer, ever, vouched>>

IsKnownRole(role, app) == role \in Builtin \/ (app = "this" /\ roles[role] # NoRole)

ValidPatternsUnchecked(g) == g.role # "inline" => IsKnownRole(g.role, g.app)
ValidWhateverTheApp(g) ==
    IF g.role # "inline" THEN IsKnownRole(g.role, "this") ELSE AllAllowed(g.permissions, catalog)

(* parseRoleOrInline: across all apps only the built-in roles and '*' exist. *)
ValidRoleOrInline(g) ==
    IF g.role # "inline" THEN IsKnownRole(g.role, g.app)
    ELSE AllAllowed(g.permissions, IF g.app = "all" THEN {} ELSE catalog)

CheckVocabulary(q) == Proceed(q, "vocabulary", ValidRoleOrInline(asked[q].row), "principal")
CheckPrincipal(q)  == Proceed(q, "principal", asked[q].row.to \in people, "insert")

(* The INSERT fails when the invite was cancelled meanwhile (foreign key).  *)
InsertedUnchecked(g) == grants \cup {g}
Inserted(g) == IF g.to \in people THEN grants \cup {g} ELSE grants

InsertGrant(q) ==
    /\ asked[q].op = "create" /\ asked[q].pc = "insert"
    /\ grants' = Inserted(asked[q].row)
    /\ asked' = [asked EXCEPT ![q] = NotAsked]
    /\ UNCHANGED <<vars, people, answer, ever, vouched>>

AskDeletion(q, g) ==
    /\ asked[q] = NotAsked
    /\ g \in grants
    /\ asked' = [asked EXCEPT ![q] = [op |-> "delete", row |-> g]]
    /\ UNCHANGED <<vars, people, grants, answer, ever, vouched>>

DeleteGrant(q) ==
    /\ asked[q].op = "delete"
    /\ grants' = grants \ {asked[q].row}
    /\ asked' = [asked EXCEPT ![q] = NotAsked]
    /\ UNCHANGED <<vars, people, answer, ever, vouched>>

(* Cancelling an invite deletes the principal and, by cascade, its grants.  *)
Invite(p) == people' = people \cup {p} /\ UNCHANGED <<vars, grants, asked, answer, ever, vouched>>
CancelInvite(p) ==
    /\ people' = people \ {p}
    /\ grants' = {g \in grants : g.to # p}
    /\ UNCHANGED <<vars, asked, answer, ever, vouched>>

-----------------------------------------------------------------------------
(* issueKey for a service                                                   *)

(* What a grant gives its holder when this app resolves it (resolve.ts).    *)
Gives(g) == Expand([k \in RoleKeys |-> roles[k].permissions], g)
GivenBy(rows) == UNION {Gives(g) : g \in rows}

(* resolveCaller reads the grants of caller p, then the roles they name.    *)
(* Whoever holds '*' otherwise (a bootstrap administrator, the provisioning *)
(* key) is like the holder of a grant of '*' for all apps, and a token like *)
(* a request that rests after it was resolved.                              *)
AskService(q, p, g) ==
    /\ asked[q] = NotAsked
    /\ p \in people
    /\ asked' = [asked EXCEPT ![q] = [op |-> "issue", pc |-> "roles", row |-> g,
                                     held |-> {h \in grants : h.to = p}]]
    /\ UNCHANGED <<vars, people, grants, answer, ever, vouched>>

DelegableUnchecked(held, g) == TRUE
Delegable(held, g) ==
    \A wanted \in g.permissions : \E p \in GivenBy(held) : MatchAction(p, wanted)

ResolveIssuer(q) ==
    /\ asked[q].op = "issue" /\ asked[q].pc = "roles"
    /\ \/ /\ Delegable(asked[q].held, asked[q].row)
          /\ asked' = [asked EXCEPT ![q].pc = "principal", ![q].held = {}]
          /\ vouched' = vouched \cup
                {p \in GivenBy({h \in asked[q].held : h.by = "createGrant"}) :
                    \E wanted \in asked[q].row.permissions : MatchAction(p, wanted)}
       \/ /\ ~ Delegable(asked[q].held, asked[q].row)
          /\ asked' = [asked EXCEPT ![q] = NotAsked]
          /\ UNCHANGED vouched
    /\ UNCHANGED <<vars, people, grants, answer, ever>>

(* The id of the new principal is fresh.                                    *)
CreateService(q) ==
    /\ asked[q].op = "issue" /\ asked[q].pc = "principal"
    /\ asked[q].row.to \notin people
    /\ people' = people \cup {asked[q].row.to}
    /\ asked' = [asked EXCEPT ![q].pc = "insert"]
    /\ UNCHANGED <<vars, grants, answer, ever, vouched>>

InsertServiceGrant(q) ==
    /\ asked[q].op = "issue" /\ asked[q].pc = "insert"
    /\ grants' = Inserted(asked[q].row)
    /\ asked' = [asked EXCEPT ![q] = NotAsked]
    /\ UNCHANGED <<vars, people, answer, ever, vouched>>

GrantsNext ==
    \/ \E s \in Schemas : Deploy(s)
    \/ PolicyNext /\ UNCHANGED grantVars
    \/ ReadScopes \/ ReadActions \/ ReadRoles
    \/ \E q \in Askers :
          \/ \E g \in GrantRows : AskGrant(q, g)
          \/ \E g \in AllRows : AskDeletion(q, g)
          \/ \E p \in People \cup Services, g \in ServiceRows : AskService(q, p, g)
          \/ ResolveIssuer(q) \/ CreateService(q) \/ InsertServiceGrant(q)
          \/ CheckVocabulary(q) \/ CheckPrincipal(q) \/ InsertGrant(q) \/ DeleteGrant(q)
    \/ \E p \in People : Invite(p) \/ CancelInvite(p)

GrantsSpec == GrantsInit /\ [][GrantsNext]_<<vars, grantVars>>

-----------------------------------------------------------------------------
(* Properties                                                               *)

(* Whether the admin pages flag a grant as dangling (RoleKnownCache).       *)
Dangling(g) == g.role # "inline" /\ ~ IsKnownRole(g.role, g.app)

(* A grant shown as dangling gives nothing. The flag of a cross-app grant   *)
(* looks at the built-in roles alone, resolution looks the key up in the    *)
(* app's roles: the two agree because of what createGrant lets through.     *)
DanglingGrantsAreInert == \A g \in grants : Dangling(g) => Gives(g) = {}

(* However deploys, policy edits and grants interleave, no grant made by    *)
(* createGrant gives a pattern other than '*' that no schema of the app     *)
(* ever had an action for: a check against a catalog of the past lets only  *)
(* the past through. A service's grant may, for issueKey checks no catalog, *)
(* but only within a pattern of such a grant, however many services have    *)
(* issued one another and whatever became of that grant and its role.       *)
NothingInvented ==
    /\ AllAllowed(vouched, ever)
    /\ \A g \in grants : \A p \in Gives(g) :
          \/ IsActionAllowed(p, ever)
          \/ g.by = "issueKey" /\ \E v \in vouched : MatchAction(v, p)

(* A cross-app grant gives everything or what the app itself cannot change. *)
(* A redeploy may not change what a grant for all apps means.               *)
CrossAppGrantsAreFixed == [][\A g \in grants : g.app = "all" => Gives(g)' = Gives(g)]_<<vars, grantVars>>

(* A PUT that no other reconcile and no overtaken policy request met is     *)
(* answered with the schema it sent, though the answer is read back by      *)
(* three statements after the commit, among custom policies being edited.   *)
PutEchoes ==
    answer.pc = "sent" /\ torn = {} =>
        /\ answer.scopes = answer.of.scopes
        /\ answer.actions = answer.of.actions
        /\ answer.roles = {<<k, answer.of.roles[k]>> : k \in DOMAIN answer.of.roles}

(* Grants belong to existing principals, also when an invite is cancelled   *)
(* between createGrant's check and its INSERT.                              *)
GrantsHaveHolders == \A g \in grants : g.to \in people

(* Why they hold: whatever has passed a check of the catalog is allowed by  *)
(* what was ever declared, and only built-in roles are granted across apps. *)
CheckedPolicy(t) ==
    \/ t.op = "create" /\ t.pc \in {"read", "write"}
    \/ t.op = "update" /\ t.pc = "write"

Backed(g) == \A p \in g.permissions : \E v \in vouched : MatchAction(v, p)

Bounded(g) ==
    /\ g.role = "inline" => AllAllowed(g.permissions, IF g.app = "all" THEN {} ELSE ever)
    /\ g.role # "inline" /\ g.app = "all" => g.role \in Builtin

Accounted(g) == IF g.by = "issueKey" THEN Backed(g) ELSE Bounded(g)

WithinEver ==
    /\ catalog \subseteq ever
    /\ \A k \in RoleKeys : AllAllowed(roles[k].permissions, ever)
    /\ \A a \in Admins : CheckedPolicy(todo[a]) => AllAllowed(todo[a].permissions, ever)
    /\ AllAllowed(vouched, ever)
    /\ \A g \in grants : Accounted(g)
    /\ \A q \in Askers :
          /\ asked[q].op = "create" => asked[q].pc = "vocabulary" \/ Bounded(asked[q].row)
          /\ asked[q].op = "issue" =>
                IF asked[q].pc # "roles" THEN Backed(asked[q].row)
                ELSE \A g \in asked[q].held : Accounted(g)

AnswerFollows ==
    answer.pc # "none" /\ torn = {} =>
        /\ declared = answer.of.roles /\ catalog = answer.of.actions /\ scopes = answer.of.scopes
        /\ answer.pc # "scopes" => answer.scopes = answer.of.scopes
        /\ answer.pc \in {"roles", "sent"} => answer.actions = answer.of.actions
        /\ answer.pc = "sent" =>
              answer.roles = {<<k, answer.of.roles[k]>> : k \in DOMAIN answer.of.roles}

GrantsIInv == SchemaIInv /\ GrantsTypeOK /\ WithinEver /\ AnswerFollows /\ GrantsHaveHolders
=============================================================================
