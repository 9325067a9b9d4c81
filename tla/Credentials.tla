----------------------------- MODULE Credentials -----------------------------
(***************************************************************************)
(* Resolving a presented credential, and minting, issuing and revoking with *)
(* it: mintToken, mintFromKey and resolveCredential (worker/src/tokens.ts), *)
(* resolveCaller (worker/src/auth.ts), issueKey, issueJwt and revokeKey     *)
(* (worker/src/issue.ts, called by worker/src/index.ts), for one calling    *)
(* app; and createShareLink and revokeShareLink (worker/src/admin/          *)
(* handlers.ts), whose calling app is propustka itself. Each statement that *)
(* reads or writes D1 is a step of its own; the inline grants of a key      *)
(* never change, so they are read with its row.                             *)
(*                                                                         *)
(* Time is left out here: a minted token stays usable, as it does for its   *)
(* TTL. issueKey's service mode, which makes a new principal, is left out.  *)
(***************************************************************************)
EXTENDS Permissions

CONSTANTS
    Principals, Bootstrap,   \* principals; those whose email is a bootstrap admin's
    Keys,                    \* ids for px_ credentials
    Requests,                \* RPC calls; each runs once
    Segments,                \* what actions and patterns are made of
    RoleKeys, RoleDefs,      \* the app's roles and the pattern sets they may have
    GrantRows,               \* the grant rows an administrator may add
    Inlines,                 \* the sets of inline grants a request may ask for
    Actions, Scopes,         \* what can() is asked about
    AdminAction,             \* iam.admin
    None

Entry == [action : Seq(Segments), scope : Scopes]

ASSUME CredentialConstants ==
    /\ None \notin Principals \cup Keys
    /\ Principals \cap Keys = {}
    /\ Star \in Segments /\ Global \in Scopes
    /\ \A s \in Scopes \ {Global} : s = [type |-> s.type, value |-> s.value]
    /\ Actions \subseteq Seq(Segments)
    /\ RoleDefs \subseteq SUBSET Seq(Segments)
    /\ Inlines \subseteq SUBSET Entry
    /\ GrantRows \subseteq [to : Principals, role : RoleKeys \cup {"admin", "inline"},
                            permissions : SUBSET Seq(Segments), scope : Scopes]

VARIABLES
    grants,    \* the grant rows
    roles,     \* roles[k]: patterns of role k, {} when there is no such role
    disabled,  \* principals with disabled_at set
    key,       \* key[k]: a credential row, or NoKey
    req,       \* req[r]: progress of a request
    token,     \* token[r]: the access token request r returned, or NoToken
    barred     \* barred[r]: history; see BarredGetsNoToken

vars == <<grants, roles, disabled, key, req, token, barred>>

(* owner: the bound principal, None for an anonymous key. root (history):   *)
(* what the accountable principal had resolved to when the key was issued.  *)
NoKey   == [exists |-> FALSE]
NoToken == [sub |-> None, perms |-> {}, root |-> {}]

(* A request that presents key k (or None) and acts for sub.                *)
Fresh == [pc |-> "idle", via |-> "none", key |-> None, sub |-> None, inline |-> {},
          rows |-> {}, root |-> {}, perms |-> {}]

PrincipalOrNone == Principals \cup {None}
KeyRow   == [exists : {TRUE}, live : BOOLEAN, owner : PrincipalOrNone, issuer : Principals,
             inline : SUBSET Entry, root : SUBSET Entry]
Call     == [pc : {"idle", "principal", "grants", "roles", "ready", "refused", "done"},
             via : {"none", "session", "key", "token"}, key : Keys \cup {None},
             sub : PrincipalOrNone, inline : SUBSET Entry, rows : SUBSET GrantRows,
             root : SUBSET Entry, perms : SUBSET Entry]
Token    == [sub : PrincipalOrNone, perms : SUBSET Entry, root : SUBSET Entry]

TypeOK ==
    /\ grants \subseteq GrantRows
    /\ roles \in [RoleKeys -> SUBSET Seq(Segments)]
    /\ disabled \subseteq Principals
    /\ key \in [Keys -> {NoKey} \cup KeyRow]
    /\ req \in [Requests -> Call]
    /\ token \in [Requests -> Token]
    /\ barred \in [Requests -> SUBSET (Principals \cup Keys)]

Init ==
    /\ grants = {}
    /\ roles = [k \in RoleKeys |-> {}]
    /\ disabled = {}
    /\ key = [k \in Keys |-> NoKey]
    /\ req = [r \in Requests |-> Fresh]
    /\ token = [r \in Requests |-> NoToken]
    /\ barred = [r \in Requests |-> {}]

RevokedKeys == {k \in Keys : key[k].exists /\ ~ key[k].live}

-----------------------------------------------------------------------------
(* Presenting a credential                                                  *)

Begin(r, state) ==
    /\ req[r].pc = "idle"
    /\ req' = [req EXCEPT ![r] = state]
    /\ barred' = [barred EXCEPT ![r] = disabled \cup RevokedKeys]
    /\ UNCHANGED <<grants, roles, disabled, key, token>>

(* A session row names its principal. *)
PresentSession(r, p) ==
    Begin(r, [Fresh EXCEPT !.pc = "principal", !.via = "session", !.sub = p])

PresentKey(r, k) ==
    /\ key[k].exists /\ key[k].live
    /\ Begin(r, IF key[k].owner = None
                THEN [Fresh EXCEPT !.pc = "ready", !.via = "key", !.key = k,
                                   !.perms = key[k].inline, !.root = key[k].root]
                ELSE [Fresh EXCEPT !.pc = "principal", !.via = "key", !.key = k,
                                   !.sub = key[k].owner, !.inline = key[k].inline])

(* A px_token is verified without D1; its perms claim is the caller's.      *)
PresentToken(r, s) ==
    /\ token[s] # NoToken
    /\ Begin(r, [Fresh EXCEPT !.pc = "ready", !.via = "token", !.sub = token[s].sub,
                              !.perms = token[s].perms, !.root = token[s].root])

-----------------------------------------------------------------------------
(* Resolving a principal's permissions                                      *)

Step(r, from, state) ==
    /\ req[r].pc = from
    /\ req' = [req EXCEPT ![r] = state]
    /\ UNCHANGED <<grants, roles, disabled, key, token, barred>>

ReadPrincipalUnchecked(r) ==
    Step(r, "principal", [req[r] EXCEPT !.pc = "grants"])

ReadPrincipal(r) ==
    Step(r, "principal",
         [req[r] EXCEPT !.pc = IF req[r].sub \in disabled THEN "refused" ELSE "grants"])

ReadGrants(r) ==
    Step(r, "grants",
         [req[r] EXCEPT !.pc = "roles", !.rows = {g \in grants : g.to = req[r].sub}])

ReadRoles(r) ==
    LET resolved == ComputePermissions(req[r].rows, req[r].sub \in Bootstrap, roles)
    IN  Step(r, "roles",
             [req[r] EXCEPT !.pc = "ready", !.rows = {}, !.root = resolved,
                            !.perms = Downscope(resolved, req[r].inline)])

-----------------------------------------------------------------------------
(* Acting on the resolved permissions                                       *)

Finish(r, via) ==
    /\ req[r].pc = "ready"
    /\ req[r].via \in via
    /\ req' = [req EXCEPT ![r].pc = "done"]
    /\ UNCHANGED <<grants, roles, disabled, barred>>

Mint(r) ==
    /\ Finish(r, {"session", "key"})
    /\ token' = [token EXCEPT ![r] = [sub |-> req[r].sub, perms |-> req[r].perms,
                                      root |-> req[r].root]]
    /\ UNCHANGED key

(* The management calls: the caller must be a principal, and hold what it   *)
(* hands out.                                                               *)
MayIssueAnyScope(r, wanted) ==
    req[r].sub # None /\ \A g \in wanted : PermitsAnywhere(req[r].perms, g.action, g.scope)
MayIssue(r, wanted) == req[r].sub # None /\ Covered(req[r].perms, wanted)

IssueKey(r, k, wanted, owner) ==
    /\ ~ key[k].exists
    /\ owner \in {None, req[r].sub}
    /\ owner = None => wanted # {}
    /\ MayIssue(r, wanted)
    /\ Finish(r, {"key", "token"})
    /\ key' = [key EXCEPT ![k] = [exists |-> TRUE, live |-> TRUE, owner |-> owner,
                                  issuer |-> req[r].sub, inline |-> wanted,
                                  root |-> req[r].root]]
    /\ UNCHANGED token

(* A share link is an anonymous key made on the admin surface, whose caller *)
(* is a principal that holds iam.admin globally; the delegation rule applies*)
(* to administrators too, but not to their revoking a link.                 *)
ActsAsAdmin(r) ==
    /\ req[r].sub # None
    /\ Permits(req[r].perms, AdminAction, Global)
    /\ Finish(r, {"session", "key", "token"})
    /\ UNCHANGED token

CreateShareLink(r, k, wanted) ==
    /\ ~ key[k].exists
    /\ wanted # {}
    /\ MayIssue(r, wanted)
    /\ ActsAsAdmin(r)
    /\ key' = [key EXCEPT ![k] = [exists |-> TRUE, live |-> TRUE, owner |-> None,
                                  issuer |-> req[r].sub, inline |-> wanted,
                                  root |-> req[r].root]]

RevokeShareLink(r, k) ==
    /\ key[k].exists
    /\ key[k].owner = None
    /\ ActsAsAdmin(r)
    /\ key' = [key EXCEPT ![k].live = FALSE]

IssueJwt(r, wanted) ==
    /\ wanted # {}
    /\ MayIssue(r, wanted)
    /\ Finish(r, {"key", "token"})
    /\ token' = [token EXCEPT ![r] = [sub |-> None, perms |-> wanted, root |-> req[r].root]]
    /\ UNCHANGED key

MayRevoke(r, k) ==
    \/ key[k].issuer = req[r].sub
    \/ key[k].owner = None /\ Covered(req[r].perms, key[k].inline)

RevokeKey(r, k) ==
    /\ key[k].exists
    /\ req[r].sub # None
    /\ MayRevoke(r, k)
    /\ Finish(r, {"key", "token"})
    /\ key' = [key EXCEPT ![k].live = FALSE]
    /\ UNCHANGED token

-----------------------------------------------------------------------------
(* What the administrators change meanwhile                                 *)

Administer == UNCHANGED <<key, req, token>>

AddGrant(g)    == Administer /\ grants' = grants \cup {g} /\ UNCHANGED <<roles, disabled, barred>>
RemoveGrant(g) == Administer /\ grants' = grants \ {g} /\ UNCHANGED <<roles, disabled, barred>>
SetRole(k, permissions) ==
    Administer /\ roles' = [roles EXCEPT ![k] = permissions] /\ UNCHANGED <<grants, disabled, barred>>
Disable(p) == Administer /\ disabled' = disabled \cup {p} /\ UNCHANGED <<grants, roles, barred>>
Enable(p)  ==
    /\ Administer
    /\ disabled' = disabled \ {p}
    /\ barred' = [r \in Requests |-> barred[r] \ {p}]
    /\ UNCHANGED <<grants, roles>>

Next ==
    \/ \E r \in Requests, p \in Principals : PresentSession(r, p)
    \/ \E r \in Requests, k \in Keys : PresentKey(r, k) \/ RevokeKey(r, k) \/ RevokeShareLink(r, k)
    \/ \E r, s \in Requests : PresentToken(r, s)
    \/ \E r \in Requests : ReadPrincipal(r) \/ ReadGrants(r) \/ ReadRoles(r) \/ Mint(r)
    \/ \E r \in Requests, wanted \in Inlines :
          \/ IssueJwt(r, wanted)
          \/ \E k \in Keys : \/ CreateShareLink(r, k, wanted)
                           \/ \E o \in Principals \cup {None} : IssueKey(r, k, wanted, o)
    \/ \E g \in GrantRows : AddGrant(g) \/ RemoveGrant(g)
    \/ \E k \in RoleKeys, d \in RoleDefs : SetRole(k, d)
    \/ \E p \in Principals : Disable(p) \/ Enable(p)

Spec == Init /\ [][Next]_vars

-----------------------------------------------------------------------------
(* Properties                                                               *)

Exceeds(entries, bound) ==
    \E a \in Actions, s \in Scopes : Permits(entries, a, s) /\ ~ Permits(bound, a, s)

(* No chain of minting, issuing and re-presenting yields a token or a key   *)
(* that permits an action which the principal accountable for it had not    *)
(* resolved to: patterns are compared with patterns all along the chain     *)
(* (issue.ts findUncoveredGrant, tokens.ts resolveCredential).              *)
WithinAccountable ==
    /\ \A r \in Requests : ~ Exceeds(token[r].perms, token[r].root)
    /\ \A k \in Keys : key[k].exists /\ key[k].owner = None => ~ Exceeds(key[k].inline, key[k].root)

(* A key bound to a principal and carrying inline grants never resolves to  *)
(* more than these grants, nor to more than the principal's own set.        *)
DownscopeRestricts ==
    \A r \in Requests :
        req[r].via = "key" /\ req[r].sub # None /\ req[r].pc \in {"ready", "done"} =>
            /\ ~ Exceeds(req[r].perms, req[r].root)
            /\ req[r].inline # {} => ~ Exceeds(req[r].perms, req[r].inline)

(* scopedTo() lists a scope of a permission set, or says "all", exactly     *)
(* when can() permits the action there.                                     *)
ScopedToAgreesWithCan ==
    \A r \in Requests, a \in Actions, s \in Scopes \ {Global} :
        LET found == ScopedValues(token[r].perms, a, s.type)
        IN  found.all \/ s.value \in found.values <=> Permits(token[r].perms, a, s)

(* A principal disabled, or a key revoked, before a call began (and not     *)
(* enabled since) gets no access token out of that call.                    *)
BarredGetsNoToken ==
    \A r \in Requests : token[r] # NoToken /\ req[r].via \in {"session", "key"} =>
        {req[r].sub, req[r].key} \cap barred[r] = {}

(* Why they hold: what a call acts with is within its root, and within the  *)
(* inline grants of the key it presented.                                   *)
SoundCall(c) ==
    c.pc \in {"ready", "done"} =>
        /\ ~ Exceeds(c.perms, c.root)
        /\ c.via = "key" /\ c.sub # None /\ c.inline # {} => ~ Exceeds(c.perms, c.inline)

CredentialsSound == TypeOK /\ WithinAccountable /\ \A r \in Requests : SoundCall(req[r])

(* What was barred when a call began is barred still, or was let in again;  *)
(* the call got past the read of its key only with a key that lived, and    *)
(* past the read of its principal only for one that was not disabled.       *)
BarredStaysOut(r) ==
    /\ token[r] # NoToken => req[r].pc = "done"
    /\ barred[r] \cap Principals \subseteq disabled
    /\ req[r].via \in {"session", "key"} =>
          /\ req[r].key \notin barred[r]
          /\ req[r].pc \in {"grants", "roles", "ready", "done"} => req[r].sub \notin barred[r]

CredentialsIInv == CredentialsSound /\ \A r \in Requests : BarredStaysOut(r)
=============================================================================
