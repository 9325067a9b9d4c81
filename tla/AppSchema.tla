------------------------------ MODULE AppSchema ------------------------------
(***************************************************************************)
(* One app's vocabulary in D1 (tables app_scopes, app_actions and roles):   *)
(* the reconcile an app's deploy runs (putAppSchema, db.reconcileAppSchema) *)
(* and the policy handlers an administrator uses on the same roles table    *)
(* (createPolicy, updatePolicy, deletePolicy in worker/src/admin/           *)
(* handlers.ts).                                                            *)
(*                                                                         *)
(* A reconcile is one D1 batch, hence one step. A policy request awaits one *)
(* statement after another: each is a step, and a reconcile or another      *)
(* request may come in between. Labels, names and descriptions are left     *)
(* out; a role is its patterns and its origin.                              *)
(***************************************************************************)
EXTENDS Permissions

CONSTANTS
    Segments,      \* what actions and patterns are made of
    RoleKeys,      \* role keys
    Builtin,       \* the keys of BUILTIN_ROLES
    ScopeTypes,    \* scope dimensions
    Schemas,       \* the schemas the app's deploys may send
    PatternSets,   \* the pattern sets a policy may ask for
    Admins         \* administrators; each has one policy request in flight

ASSUME AppSchemaConstants ==
    /\ Builtin \subseteq RoleKeys
    /\ PatternSets \subseteq (SUBSET Seq(Segments)) \ {{}}
    /\ \A s \in Schemas :
          /\ s.actions \subseteq Seq(Segments)
          /\ s.scopes \subseteq ScopeTypes
          /\ DOMAIN s.roles \subseteq RoleKeys
          /\ \A k \in DOMAIN s.roles : s.roles[k] \subseteq Seq(Segments)

VARIABLES
    catalog,   \* app_actions
    scopes,    \* app_scopes
    roles,     \* roles[k]: the row with role_key k, or NoRole
    todo,      \* todo[a]: progress of a's policy request
    declared,  \* history: the roles of the last schema reconciled
    outrun,    \* history: administrators a reconcile overtook in mid-request
    torn       \* history: keys such a request wrote since the last reconcile

tables  == <<catalog, scopes, roles>>
history == <<declared, outrun, torn>>
vars    == <<catalog, scopes, roles, todo, declared, outrun, torn>>

NoRole == [origin |-> "none", permissions |-> {}]
Role(origin, permissions) == [origin |-> origin, permissions |-> permissions]

Idle    == [op |-> "idle"]
Policy  == [op : {"create", "update"}, pc : {"read", "catalog", "write"},
            key : RoleKeys, permissions : PatternSets]
Removal == [op : {"delete"}, pc : {"read", "write"}, key : RoleKeys]

TypeOK ==
    /\ catalog \subseteq Seq(Segments)
    /\ scopes \subseteq ScopeTypes
    /\ roles \in [RoleKeys -> [origin : {"none", "app", "custom"}, permissions : SUBSET Seq(Segments)]]
    /\ todo \in [Admins -> {Idle} \cup Policy \cup Removal]
    /\ DOMAIN declared \subseteq RoleKeys
    /\ outrun \subseteq Admins
    /\ torn \subseteq RoleKeys

Init ==
    /\ catalog = {}
    /\ scopes = {}
    /\ roles = [k \in RoleKeys |-> NoRole]
    /\ todo = [a \in Admins |-> Idle]
    /\ declared = [k \in {} |-> {}]
    /\ outrun = {}
    /\ torn = {}

(* The app is known once any of its three tables has a row for it.          *)
Known == catalog # {} \/ scopes # {} \/ \E k \in RoleKeys : roles[k] # NoRole

AllAllowed(permissions, actions) == \A p \in permissions : IsActionAllowed(p, actions)

-----------------------------------------------------------------------------
(* The reconcile                                                            *)

(* A body is checked against the actions it declares itself.                *)
WellFormed(s) == \A k \in DOMAIN s.roles : AllAllowed(s.roles[k], s.actions)

ReconciledUnpruned(s) ==
    [k \in RoleKeys |-> IF k \in DOMAIN s.roles THEN Role("app", s.roles[k]) ELSE roles[k]]

ReconciledPruningAll(s) ==
    [k \in RoleKeys |-> IF k \in DOMAIN s.roles THEN Role("app", s.roles[k]) ELSE NoRole]

(* Upsert what is declared, then drop the app's own roles that are not.     *)
Reconciled(s) ==
    [k \in RoleKeys |->
        IF k \in DOMAIN s.roles THEN Role("app", s.roles[k])
        ELSE IF roles[k].origin = "app" THEN NoRole
        ELSE roles[k]]

PutAppSchema(s) ==
    /\ WellFormed(s)
    /\ catalog' = s.actions
    /\ scopes' = s.scopes
    /\ roles' = Reconciled(s)
    /\ declared' = s.roles
    /\ outrun' = {a \in Admins : todo[a] # Idle}
    /\ torn' = {}
    /\ UNCHANGED todo

-----------------------------------------------------------------------------
(* Policy requests                                                          *)

Accept(a, request) ==
    /\ todo[a] = Idle
    /\ Known
    /\ todo' = [todo EXCEPT ![a] = request]
    /\ UNCHANGED <<tables, history>>

(* createPolicy validates its patterns before it looks for the key; a       *)
(* built-in key is refused. updatePolicy looks for the policy first.        *)
CreatePolicy(a, k, permissions) ==
    /\ k \notin Builtin
    /\ Accept(a, [op |-> "create", pc |-> "catalog", key |-> k, permissions |-> permissions])
UpdatePolicy(a, k, permissions) ==
    Accept(a, [op |-> "update", pc |-> "read", key |-> k, permissions |-> permissions])
DeletePolicy(a, k) ==
    Accept(a, [op |-> "delete", pc |-> "read", key |-> k])

(* A check that fails ends the request (400, 404 or 409).                   *)
Check(a, from, holds, next) ==
    /\ todo[a] # Idle
    /\ todo[a].pc = from
    /\ todo' = [todo EXCEPT ![a] = IF holds THEN [@ EXCEPT !.pc = next] ELSE Idle]
    /\ outrun' = IF holds THEN outrun ELSE outrun \ {a}
    /\ UNCHANGED <<tables, declared, torn>>

CheckCatalog(a) ==
    Check(a, "catalog", AllAllowed(todo[a].permissions, catalog),
          IF todo[a].op = "create" THEN "read" ELSE "write")

(* What the row read must be for the request to go on.                      *)
AcceptableAnyOrigin(op, row) == IF op = "create" THEN row = NoRole ELSE row # NoRole
Acceptable(op, row) == IF op = "create" THEN row = NoRole ELSE row.origin = "custom"

ReadRole(a) ==
    Check(a, "read", Acceptable(todo[a].op, roles[todo[a].key]),
          IF todo[a].op = "update" THEN "catalog" ELSE "write")

(* The upsert and the DELETE match on the key alone.                        *)
Put(a, row) ==
    /\ todo[a].pc = "write"
    /\ roles' = [roles EXCEPT ![todo[a].key] = row]
    /\ torn' = IF a \in outrun THEN torn \cup {todo[a].key} ELSE torn
    /\ todo' = [todo EXCEPT ![a] = Idle]
    /\ outrun' = outrun \ {a}
    /\ UNCHANGED <<catalog, scopes, declared>>

Upsert(a) ==
    /\ todo[a].op \in {"create", "update"}
    /\ Put(a, Role("custom", todo[a].permissions))

Delete(a) ==
    /\ todo[a].op = "delete"
    /\ Put(a, NoRole)

PolicyNext ==
    \/ \E a \in Admins, k \in RoleKeys :
          \/ \E permissions \in PatternSets :
                CreatePolicy(a, k, permissions) \/ UpdatePolicy(a, k, permissions)
          \/ DeletePolicy(a, k)
    \/ \E a \in Admins : CheckCatalog(a) \/ ReadRole(a) \/ Upsert(a) \/ Delete(a)

Next == (\E s \in Schemas : PutAppSchema(s)) \/ PolicyNext

Spec == Init /\ [][Next]_vars

-----------------------------------------------------------------------------
(* Properties                                                               *)

(* An app-origin role never names an action outside the catalog in force:   *)
(* no order of deploys and policy edits leaves a role of an earlier schema  *)
(* behind with the actions of a later one.                                  *)
AppRolesWithinCatalog ==
    \A k \in RoleKeys : roles[k].origin = "app" => AllAllowed(roles[k].permissions, catalog)

(* The roles an app declared are in force as declared, whatever the policy  *)
(* handlers do, except where a policy request that had begun before the     *)
(* reconcile wrote after it.                                                *)
DeclaredInForce ==
    \A k \in (DOMAIN declared) \ torn : roles[k] = Role("app", declared[k])

(* A custom policy survives a redeploy that does not declare its key.       *)
CustomSurvivesRedeploy ==
    [][\A s \in Schemas, k \in RoleKeys :
          PutAppSchema(s) /\ k \notin DOMAIN s.roles /\ roles[k].origin = "custom"
              => roles'[k] = roles[k]]_vars

(* Why the first two hold: a request that no reconcile overtook saw the     *)
(* role it is about to write, and it was not one of the app's.              *)
WriterSawNoAppRole ==
    \A a \in Admins \ outrun :
        todo[a] # Idle =>
            \/ todo[a].op \in {"update", "delete"} /\ todo[a].pc = "read"
            \/ todo[a].op = "create" /\ todo[a].pc \in {"read", "catalog"}
            \/ todo[a].key \in torn \/ todo[a].key \notin DOMAIN declared

AppRolesAreDeclared ==
    \A k \in RoleKeys :
        roles[k].origin = "app" => k \in DOMAIN declared /\ roles[k].permissions = declared[k]

DeclaredWithinCatalog == \A k \in DOMAIN declared : AllAllowed(declared[k], catalog)

SchemaIInv ==
    /\ TypeOK
    /\ DeclaredInForce
    /\ WriterSawNoAppRole
    /\ AppRolesAreDeclared
    /\ DeclaredWithinCatalog
=============================================================================
