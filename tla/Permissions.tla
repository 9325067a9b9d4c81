----------------------------- MODULE Permissions -----------------------------
(***************************************************************************)
(* The permission algebra of propustka: core/src/permissions.ts, the pure   *)
(* computePermissions of worker/src/resolve.ts, the downscope of            *)
(* worker/src/tokens.ts and the delegation check of worker/src/issue.ts.    *)
(*                                                                         *)
(* An action or an action pattern is the sequence of its segments between   *)
(* the dots: "project.settings.*" is <<"project", "settings", Star>>. The   *)
(* string tests of the code read off it directly: endsWith('.*') is a last  *)
(* segment Star after another one, startsWith("project.") is a first        *)
(* segment "project" with something behind it.                              *)
(*                                                                         *)
(* Entries are records with an action and a scope (more fields do no harm); *)
(* a list of entries is the set of them, for no operation here depends on   *)
(* their order.                                                             *)
(***************************************************************************)
EXTENDS Integers, Sequences

CONSTANTS
    Star,    \* the segment '*'
    Global   \* the scope null; every other scope is [type, value]

AnyAction == <<Star>>

IsNamespace(pattern) == Len(pattern) > 1 /\ pattern[Len(pattern)] = Star

(* action.startsWith(the pattern without its '*')                           *)
Within(pattern, action) ==
    /\ Len(action) >= Len(pattern)
    /\ \A k \in 1 .. Len(pattern) - 1 : action[k] = pattern[k]

MatchAction(pattern, action) ==
    \/ pattern = AnyAction
    \/ IsNamespace(pattern) /\ Within(pattern, action)
    \/ pattern = action

-----------------------------------------------------------------------------
(* can(), scopedTo() and the catalog check                                  *)

PermitsAnywhere(entries, action, scope) ==
    \E e \in entries : MatchAction(e.action, action)

Permits(entries, action, scope) ==
    \E e \in entries : e.scope \in {Global, scope} /\ MatchAction(e.action, action)

Matching(entries, action) == {e \in entries : MatchAction(e.action, action)}

(* A null answer of the code is [all |-> TRUE].                             *)
ScopedValuesAnyDimension(entries, action, dimension) ==
    LET found == Matching(entries, action)
    IN  IF \E e \in found : e.scope = Global
        THEN [all |-> TRUE, values |-> {}]
        ELSE [all |-> FALSE, values |-> {e.scope.value : e \in found}]

ScopedValues(entries, action, dimension) ==
    LET found  == Matching(entries, action)
        scoped == {e \in found : e.scope # Global /\ e.scope.type = dimension}
    IN  IF \E e \in found : e.scope = Global
        THEN [all |-> TRUE, values |-> {}]
        ELSE [all |-> FALSE, values |-> {e.scope.value : e \in scoped}]

IsActionAllowed(pattern, catalog) ==
    \/ pattern = AnyAction
    \/ pattern \in catalog
    \/ IsNamespace(pattern) /\ \E action \in catalog : Within(pattern, action)

-----------------------------------------------------------------------------
(* Resolution, downscope and delegation                                     *)

(* A grant row names a role or carries patterns of its own; roles[key] is   *)
(* the role's patterns, empty when the key dangles. The built-in admin role *)
(* cannot be shadowed by an app's.                                          *)
RolePermissions(roles, key) == IF key = "admin" THEN {AnyAction} ELSE roles[key]

Expand(roles, grant) ==
    IF grant.role # "inline" THEN RolePermissions(roles, grant.role) ELSE grant.permissions

ComputePermissions(grants, bootstrap, roles) ==
    (UNION {[action : Expand(roles, g), scope : {g.scope}] : g \in grants})
    \cup (IF bootstrap THEN {[action |-> AnyAction, scope |-> Global]} ELSE {})

DownscopeSwapped(resolved, inline) ==
    IF inline = {} THEN resolved
    ELSE {e \in inline : \E h \in resolved :
              h.scope \in {Global, e.scope} /\ MatchAction(e.action, h.action)}

Downscope(resolved, inline) ==
    IF inline = {} THEN resolved
    ELSE {e \in inline : Permits(resolved, e.action, e.scope)}

Covered(held, grants) == \A g \in grants : Permits(held, g.action, g.scope)
=============================================================================
