# propustka in TLA+

propustka is an authorization service: one Cloudflare Worker that owns a D1
database of principals, roles, grants, credentials and sessions, logs users in
through an OIDC provider, and hands out short-lived signed access tokens; and an
SDK with which other Workers verify these tokens locally. This directory holds
TLA+ modules of its core logic, TLC configurations that check them on small
instances, and theorems about them that TLAPS checks for every instance.

Paths below are relative to `src/packages/`.

Contents: [inventory](#1-inventory) · [modules and code](#2-modules-and-code) ·
[runs](#3-runs) · [divergences found](#4-what-the-code-does-differently) ·
[fairness](#5-fairness) · [proofs](#6-proofs) ·
[only model-checked](#7-what-is-only-model-checked) ·
[not modelled](#8-what-is-not-modelled) · [plan](#9-plan)

## 1. Inventory

### How the parts interact

    browser ──/auth/*──────────▶ Worker (routes.ts ─ resolve.ts ─ db.ts) ──▶ D1
    browser ──request──▶ app Worker (SDK session.ts)
                            │ service binding: mintToken, mintFromKey, getJwks,
                            │ issueKey, issueJwt, revokeKey, check
                            ▼
                         Worker (index.ts ─ tokens.ts, auth.ts, issue.ts) ─▶ D1
    admin UI / app CI ──/admin/*──▶ Worker (admin/router.ts ─ handlers.ts) ──▶ D1
    cron ──scheduled──▶ Worker (index.ts) ──▶ D1

All durable state is in D1. D1 runs one statement (or one batch) at a time;
between two awaited statements of a handler any other request may run, in the
same isolate or another. There are no transactions except batches. Besides D1
there is state in isolate memory (the Worker's `Signer`; the SDK's JWKS cache
and key-token cache) and in the browser (session and token cookies).

### Components

| component | state | operations | what makes it hard | what makes it correct |
|---|---|---|---|---|
| principals and login (`worker/src/resolve.ts`, `auth/routes.ts`, principal handlers of `admin/handlers.ts`) | `principals`, `sessions` | callback: admission, lookup by sub and by email, claim of an invite, lazy creation, session; logout; invite, delete, disable, enable | two first logins of one person; a claim against a cancellation; unique indexes; a delete in mid-login | a session belongs to its subject; one principal per subject; a bound subject never changes; disabled users get no session; a login ends |
| permission algebra (`core/src/permissions.ts`, `worker/src/roles.ts`, `resolve.ts`, parts of `tokens.ts` and `issue.ts`) | none | matching, `can`, `scopedTo`, resolution, downscope, delegation check | patterns are compared with patterns, not only with actions | delegation and downscope never widen; list view and detail check agree |
| tokens and issuing (`tokens.ts`, `auth.ts`, `issue.ts`, `index.ts`) | `credentials`, `credential_grants` | `mintToken`, `mintFromKey`, `resolveCaller`, `issueKey`, `issueJwt`, `revokeKey` | chains of issued credentials while grants and roles change | nobody exceeds the principal accountable for a credential |
| token lifetimes (`client/src/session.ts`, `tokens.ts`) | cookies, `keyTokenCache`, `expires_at` | mint, cache, refresh ahead of expiry | revocation, expiry and withdrawal while a mint runs or a token is cached | a key's expiry is final; everything else lapses within a token lifetime |
| signing keys and JWKS (`signing.ts`, `session.ts`) | the deployed key list, a `Signer` per isolate, `jwksCache` | deploy, isolate restart, sign, `getJwks`, verify with refetch | isolates of several deployments; stale and reordered key sets | rotation refuses no valid token; a dropped key lapses |
| app schema and policies (`putAppSchema`, `createPolicy`, `updatePolicy`, `deletePolicy`) | `app_scopes`, `app_actions`, `roles` | reconcile on deploy, policy CRUD | a deploy between the statements of a policy request | app roles stay within the catalog; declared roles are in force; custom policies survive |
| service keys (`provisionApiKey`, `rotateApiKey`, `revokeApiKey`, `issueKey`) | service principals, their grants and credentials | as named | no transaction: each request may stop after any statement and overlaps others | a revocation holds from its first statement; retired keys stay dead; an expiry outlives rotation |
| grants (`createGrant`, `deleteGrant`, `RoleKnownCache`; `issueKey` for a service) | `grants` | as named | two writers: one validates against roles and catalog of the moment, the other against its caller's permissions alone; a holder that is cancelled meanwhile | dangling grants give nothing; `createGrant` grants, besides `*`, nothing that no schema ever declared, and a service's grant stays within such a grant; a redeploy does not change a cross-app grant |
| share links (`createShareLink`, `revokeShareLink`) | anonymous credentials | as named | as issuing | as issuing |
| admin gate (`admin/router.ts`, `admin/http.ts`, `auth.ts`) | none | same-origin check, resolution of the caller, `iam.admin`, dispatch | the session, the principal and the grants are read at three moments; any statement may throw | no change without every part of the authority; an answer tells what happened |
| gates (`client/src/session.ts`, `iam.ts`, `middleware.ts`) | `keyTokenCache`, `px_token` | the walk through an app's path rules; user, API-key and capability middlewares; dev personas | credentials lapse between two rules; earlier misses remembered; cookies set late | the first rule not passed over decides; a handler hears only of callers whose credential was of use |
| OIDC client and sign-in (`oidc.ts`, `auth/routes.ts`, `auth/cookies.ts`) | `px_oidc`, `px_session`, metadata cache | `/auth/login`, `/auth/callback`, `/auth/logout`, code exchange | all tabs share one flight cookie; answers overtake each other; reloads | a tab lands on its own page with its own session; only guests get one; no endless redirects |
| audit and cron (`index.ts`, `db.ts`, audit pages of `admin-ui`) | `audit_events`, `auth_log` | append, page by cursor, prune | an id is drawn before its row is inserted; rows come and go under a reader | a success is audited once; a reader misses nothing |
| SDK clients, core types, Worker plumbing, admin UI, deploy scripts | none of their own | wrappers, declarations, configuration | – | – |

The list of hazards, each at its line and with the properties that would catch
it, is in `PROJECT.json`.

## 2. Modules and code

| module | models | checked by | proofs |
|---|---|---|---|
| `Accounts` | abstract: what the login flow promises | refinement in `logins_race` | `PrincipalsProofs` |
| `Principals` | login, sessions, principal handlers | `MCPrincipals` | `PrincipalsProofs` |
| `Permissions` | the algebra, as operators | through its users | `CredentialsProofs` |
| `Credentials` (extends `Permissions`) | minting, issuing, share links | `MCCredentials` | `CredentialsProofs` |
| `AppSchema` (extends `Permissions`) | reconcile and policies | `MCGrants` | `AdminProofs` |
| `Grants` (extends `AppSchema`) | both writers of grants over that vocabulary, the answer of a PUT | `MCGrants` | `AdminProofs` |
| `SignIn` | tabs, cookies, `/auth/*` and the provider | `MCSignIn` | `SignInProofs` |
| `Gates` | the middlewares in front of an app | `MCGates` | `GatesProofs` |
| `Leases` | abstract: what the SDK's caches promise | refinements proved, no run | `TokensProofs`, `SigningKeysProofs` |
| `Admin` | the admin gate, audit and paging | `MCAdmin` | `AdminProofs` |
| `Tokens` | tokens over time | `MCTokens` | `TokensProofs` |
| `SigningKeys` | key rotation and the JWKS cache | `MCSigningKeys` | `SigningKeysProofs` |
| `ServiceKeys` | API keys of services | `MCServiceKeys` | `ServiceKeysProofs` |

In all of them **one awaited D1 statement or RPC is one step**, for that is where
other requests come in; a batch is one step. `None` is SQL `NULL`. Every
definition that stands for code is listed with its lines in `PROJECT.json`.
Components that share state are composed by extension (`Credentials` and
`AppSchema` over `Permissions`, `Grants` over `AppSchema`); the others meet at an
interface that one side reduces to its outcome: in `SignIn` a verified identity is
its principal (`Principals` has the rest), in `Gates` a credential is good, lapsed
or barred and a token live or not (`Tokens` has how they become so), in `Admin` a
handler is one change and one audit event (`Principals`, `Grants`, `ServiceKeys`
have the changes).

Operators whose name repeats another one's with a suffix (`ClaimableRebinds`,
`MissGivesUp`, ...) are the plausible mistakes with which each property was shown
to be able to fail; no specification uses them.

**Principals.** A login goes through `pc`: `admitBySub` and `admitByEmail`
(`admitted` in routes.ts), `bySub`, `refresh`, `byEmail`, `claim`, `reread`,
`create` (`resolveUserPrincipal`), `session` (`createSession`). `Claimable`,
`Insertable`, `UsersBySub`, `UsersByEmail` are the WHERE clauses and unique
indexes. An administrator's request reads (`InviteCheck`, `DeleteRead`,
`PatchRead`) and later writes (`Settle`: `InviteInsert`, `HardDelete`, `Disable`,
`Enable`). A label always equals its email; the id that login `l` would insert is
named `l`. Left out: foreign keys without `ON DELETE CASCADE`, service principals,
session expiry (module Tokens).

**Accounts** is the promise: an account is opened vacant or born bound, is bound
once and for good, and a client is signed in only to the account its person owns;
`Personal` is what follows, that no person comes to own two or to sit on another's.
`Principals!ImplementsAccounts` maps an unclaimed invite to a vacant account and a
claimed row to an owned one.

**Permissions.** An action is the sequence of its segments, so `endsWith('.*')`
and `startsWith(prefix)` are about the last and first elements. Lists of entries
are sets: no operation depends on their order.

**Credentials.** A call presents a session, a key or a token (`Begin`,
`PresentSession`, `PresentKey`, `PresentToken`), reads the principal, the grants
and the roles in separate steps, and then mints, issues a key or a token, or
revokes (`Finish`). A caller with a global `iam.admin` creates and revokes share
links, which are anonymous keys with inline grants. `barred[r]` is history: the
disabled principals and revoked keys of the moment a call began, less those enabled
since, and `BarredGetsNoToken` is about calls that present a session or a key: a token
minted before its principal was disabled can still issue until it expires, for nobody
looks its principal up. `root` is history: what the accountable principal had resolved
to; it is copied along every link of a chain. One app; time is left out (a minted
token stays usable here, and lapses in Tokens).

**AppSchema.** `PutAppSchema` is the D1 batch of `reconcileAppSchema`. Policy
requests read, check the catalog and write in separate steps. `outrun`, `torn` and
`declared` are history: which requests a deploy overtook, which keys these wrote
since, and what the last deploy declared. The `key` in an update's body, which the
handler ignores, is left out.

**Grants.** Askers create a grant (`createGrant` reads the vocabulary, then the
holder, then inserts) or delete one; a grant is for this app or for all. The other
writer is `issueKey` in its service mode (`AskService`, `ResolveIssuer`,
`CreateService`, `InsertServiceGrant`): it consults no catalog, but lets a caller give
only what the caller's own permissions match (`Delegable`), so the holder of `doc.*`
may make a service with `doc.nonexistent`, and the holder of `*` one with anything. A
bootstrap administrator or the provisioning key is here a holder of `*` for all apps,
a call with a token one that rests between its check and its writes; `provisionApiKey`
checks and inserts as `createGrant` does. `answer` is the PUT that reads its schema back
by three statements after the commit. History: `ever`, every action the app has
declared, and `vouched`, the patterns of `createGrant`'s grants by which a service's
grant passed the delegation check. `NothingInvented` bounds the first writer by `ever`
and the second by `vouched`, which `ever` bounds. `GrantsSpec` implements
`AppSchema!Spec`, whose properties therefore hold under it.

**Leases** is what every cache of something that can be withdrawn promises: time passes,
things go out of force and come back, and a keeper takes or drops copies, none of which
ends more than `Span` after its original was last in force. In
`Tokens!ImplementsLeases` the things are credentials with their authority and the copies
held tokens; in `SigningKeys!KeySetsAreLeases` they are published keys and the key sets
of app isolates.

**Tokens.** One app and one permission, a token is its expiry. `held[h][c]` is the
SDK's `keyTokenCache` or a browser's `px_token`. A mint reads the credential, then
the principal, then signs with the clock of that moment, then its answer arrives,
with any time in between. `standing[c]` is history: the last moment the credential
could be used or a mint that had read it was running.

**SigningKeys.** Of `PROPUSTKA_SIGNING_KEYS` only the first key and the set of all
matter, for a verifier picks by kid. `Deploy` changes the list, `Restart` replaces
one isolate (by one with the new list, or with no Signer when the secret is
malformed), so isolates of several deployments serve at once. A verification is
`Verify`, `GetJwks`, `Receive`, with the one forced refetch on an unknown kid, and
the answer replaces whatever is cached, also something newer. `Promote` requires
that every isolate publishes the key: that is the procedure signing.ts 6-8 and
env.ts 34-35 describe, an assumption about the operator. The ephemeral key of local
development is left out.

**ServiceKeys.** `provisionApiKey`, `issueKey` for a service, `issueKey` bound to
the caller, `revokeApiKey` and `rotateApiKey` as jobs that advance one statement at
a time and that `Fail` may end between any two. A grant is its expiry.

**SignIn.** A tab is at `page` (an app behind a human gate), `login`, `provider`,
`callback` with its `exchange`, `resolve` and `land`, `logout`, and ends `shown` or
in `error`. A request carries the cookies of the moment it is sent, its answer
changes them when it arrives. A flight (state and verifier) is named after its
tab. From outside come `Fail`, `Reload` of a failed callback, `ExpireFlight`,
`ExpireSession`, `Disable` and `Logout`; of all but `Fail` there are `MaxUpsets`. `crossed` is history: another
tab's answer, or time, has taken this tab's cookie.

**Gates.** A request passes the `Pipelines` of its path: `auth` is
`authMiddleware` with `PropustkaAuth.authenticate`, `key` is `apiKeyMiddleware`,
`capability` is `capabilityMiddleware`. A rule is the set of paths its pattern
matches, its kind and the place of its credential. `Service` and `Human` stop at the
awaited `mintFromKey` and `mintToken` (`KeyAnswer`, `SessionAnswer`), `Throw` is a
rejected call. `Around` is what happens meanwhile: credentials lapse, principals are
disabled and enabled, tokens expire, the browser signs in and out. `stood` and
`fell` (history) are the carried credentials that were good, or bad, at some time
since the request came. Assumed at the interface to `Tokens` and `SigningKeys`: a token
that has just been minted verifies. The code refuses one that does not
(session.ts 168-171, 207-211: as an invalid key, or as if there were no session), and
`DecidedByTheRules` says nothing of that case.

**Admin.** A request is cross-origin or not, its caller is resolved by up to three
reads (`row`, `principal`, `permissions`), passes the `iam.admin` gate, changes
something, draws an audit id and inserts it; each statement may throw. A reader walks
one log by cursors while it grows and is pruned. `held` (history) is which parts of
the authority the caller has had since the request came. A request makes one change
and writes its one event; a handler of several statements is one change, and the two
events of `provisionApiKey` (handlers.ts 882, 888) stand as one, so that "audited once"
is meant of a change.

## 3. Runs

Nine runs pass; `TLC` finishes each of them. `CHECK_DEADLOCK FALSE` is set
everywhere because the systems may really stop: logins and calls are one-shot, ids
and credentials run out, and clocks and events are bounded.

| run | instance | properties | shows |
|---|---|---|---|
| `logins_race` | 2 logins, 2 subjects, 2 emails (one allowlisted), 1 administrator, 1 invite; 78 484 states | `IInv`, `OnePrincipalPerSub`, `SessionIdentity`, `NoSessionForBarred`, `IdentityStable`, `ImplementsAccounts`, `LoginTerminates` | whatever two logins and an administrator interleave, accounts are as promised |
| `credentials` | 1 principal, 1 key, 3 calls, 3 patterns, 3 scopes; 165 144 states | `CredentialsIInv`, `WithinAccountable`, `DownscopeRestricts`, `ScopedToAgreesWithCan`, `BarredGetsNoToken` | no chain of three calls exceeds its principal |
| `grants` | 3 schemas, 1 role key and the built-in one, 1 pattern set for policies, 1 policy request, 1 grant request, 1 invite, 1 service; 700 914 states | `GrantsIInv`, `DanglingGrantsAreInert`, `NothingInvented`, `CrossAppGrantsAreFixed`, `PutEchoes`, `DeclaredInForce`, `AppRolesWithinCatalog`, `CustomSurvivesRedeploy` | deploys between the statements of policy and grant requests keep vocabulary and grants consistent; nothing is granted that was never declared or delegated |
| `tokens` | 1 key, 1 session, 1 holder, 2 requests, lifetime 2, skew 1, clock to 5; 2.8 M states | `TokensIInv`, `KeyExpiryIsFinal`, `LapsesWithinTTL` | the two bounds on how long a token works |
| `service_keys` | 1 service, 2 keys, 2 requests that may fail anywhere, expiry at 1 or never, clock to 2 | `KeysIInv`, `RevokedKeysDoNothing`, `RetiredForGood`, `NothingAfterExpiry` | a partial revocation holds, old keys stay dead, rotation does not extend an expiry |
| `signing_keys` | 2 keys, 2 Worker isolates, 1 app isolate, 2 requests, JWKS lifetime 1, token lifetime 2, clock to 2; 1.3 M states | `SigningIInv`, `ValidTokensVerify`, `DroppedKeysLapse` | rotation refuses nothing valid, dropped keys lapse |
| `sign_in` | 2 tabs, 2 people, 4 pages, 3 sessions, 1 upset | `SignInIInv`, `LandsAsItsOwn`, `OnlyGuests`, `RefusedOnlyIfCrossed`, `SignInEnds` | no tab takes another's sign-in, every visit ends |
| `gates` | 5 app configurations, 6 paths, 1 key, 1 passthrough token, 2 sessions, 3 events; 1.78 M states | `GatesInv`, `DecidedByTheRules` | the rules decide, in their order, whatever lapses meanwhile |
| `admin_audit` | 6 kinds of caller, 2 requests, 2 ids per millisecond, clock to 2, page size 1, 2 events; 2.5 M states | `AdminInv`, `WalkMissesNothing`, `NoChangeWithoutAuthority` | no change without authority, a success is audited, a reader misses nothing |

Why these bounds are enough to see the interesting cases:

* *logins_race*: a race in `resolveUserPrincipal` is between two logins (the same
  subject with one email or with two, or two subjects with one email) and one
  write of an administrator; a third login meets a row that one of the two has
  already written. One email outside the allowlist exercises the refusals.
* *credentials*: three calls are a chain (issue, present the key, present the
  token). The patterns are one namespace, one action it covers and one action,
  the bare prefix `doc`, that it does not; the scopes are the global one and two
  dimensions *with the same value*, so that mixing up dimensions shows.
* *grants*: the schemas drop an action and a role, try to declare the built-in
  `admin`, and withdraw everything. One grant request and one policy request are the
  pair that can overtake each other; deploys come in between without a bound. The
  service's pattern is in no schema, so that it can only come by delegation. Services
  that issue one another need a second service, with which TLC would take too long:
  chains of them are the theorem's.
* *tokens*: the clock passes two lifetimes plus a key's expiry in between; two
  requests share one holder, so an older mint can answer after a newer one.
* *service_keys*: two requests are the overlap; two keys are the one that a service has
  and the one that a rotation or an overlapping request makes; the clock passes the
  only expiry.
* *signing_keys*: a second key to promote, a deployment per isolate, a token that
  outlives a cached key set, two requests whose answers overtake each other.
* *sign_in*: two tabs share the cookies, which is all that tabs share; a third would
  be another one that takes them. The pages are one in the domain, one outside, one
  on localhost and propustka's own. One upset, any number of
  visits and failures and the answers of the other tab meet in every order.
* *gates*: one request slot, which serves one request after another: requests that
  run at the same time touch each other only through the isolate's cache, the live
  tokens and the browser's cookies, all of which `Around` and earlier requests change
  too (the theorems are for any number of requests at once). The rules have services
  before people, people before services, a public rule behind a human one and
  services alone; three events are a lapse, an expiry and a change of the browser's
  session during one request.
* *admin_audit*: two requests draw ids in one millisecond in either order and insert
  them in the other; two events take a part of the authority away and give it back.
  Every kind of caller comes with a PUT from another origin, which is let through, and a
  session also with a POST from the same origin and a DELETE from another.

Symmetry is used over requests, keys, isolates and administrators in the runs that
check safety only; the runs with a liveness property use none.

## 4. What the code does differently

Three runs check one statement that a comment of the code makes and TLC refutes.

| run | statement | what happens |
|---|---|---|
| `claimed_is_deleted` | handlers.ts 334, 339: only an unclaimed invite is hard-deleted | an invite claimed between the read and the `DELETE` is deleted with its session and grants |
| `failed_provision` | handlers.ts 831: a failure partway leaves no live credential | the audit writes come after the credential; when one fails the request fails and the key is live |
| `authenticate_throws` | session.ts 84: `authenticate` never throws | `verifyWith` awaits `getJwks` before its `try`; a Worker that cannot build its Signer makes `authenticate` reject |

What was met while modelling, without a run of its own:

* Logins. Of two concurrent first logins of one person the slower one may be refused:
  it misses by sub, finds the row the faster one has bound meanwhile, and takes it for
  a *different* sub's (resolve.ts 173). A retry succeeds.
* Policies. A deploy that declares the key of a custom policy overwrites it and makes
  it the app's, though `origin='custom'` roles are said never to be touched (db.ts
  521). A role created between `createPolicy`'s check and its upsert is overwritten; a
  role that a deploy made the app's between `deletePolicy`'s check and its `DELETE` is
  deleted (`DeclaredInForce` excepts exactly the keys written this way).
* Restricted credentials. An inline pattern wider than what the principal holds is
  dropped as a whole, so a downscope can be smaller than the intersection tokens.ts 157
  speaks of. A self-bound key without inline grants resolves to all that its principal
  holds, also when the credential that issued it was restricted (issue.ts 117).
* Caches. "The old key stops working immediately." and "Effective immediately." (the
  admin UI's api-keys and share-links pages) hold for mints; an isolate goes on
  accepting the token it has cached for such a key until the token nears its expiry
  (`LapsesWithinTTL` is the bound that does hold). `keyTokenCache` evicts nothing.
* The flight cookie is called single-use (routes.ts 71), but only a sign-in that
  succeeds clears it. `exchangeCode` is said to return null on any failure (oidc.ts
  102), but a rejection of `metadata()` or `fetch` passes through it.
* Middlewares. `capabilityMiddleware` answers 404 on ANY failure (iam.ts 446), except
  that `redeemKey` may reject; a malformed escape in the header's `sentry_key` makes
  `extractApiKey` throw out of `decodeURIComponent` (iam.ts 286-288). In dev mode `authMiddleware` ignores the gates.
* Signing out, or in as somebody else, leaves the app's `px_token` alone: requests
  run as the principal of the former session until it nears its expiry.
* An app on localhost whose issuer is elsewhere is redirected to but never gets the
  session cookie, and redirects without end; `SignInEnds` excepts it.
* Admin. `resolveAdmin` reads the session, the principal and the grants at three
  moments; a caller may pass who had all of it, but never at once
  (`NoChangeWithoutAuthority` says what does hold). The same-origin check leaves out
  PUT, which `putAppSchema` uses.
* Logs. Ids of `auth_log` are called monotonic (db.ts 860); without AUTOINCREMENT SQLite
  reuses the highest ones once all rows are pruned. `scheduled()` never calls
  `pruneSessions`, though 0004_sessions.sql 25 has the daily cron delete rows.

## 5. Fairness

Two specifications have fairness, both weak and per actor. `Principals!Spec`: each
`LoginStep(l)`, the next statement of an accepted `/auth/callback`. `SignIn!Spec`:
each `Answer(t)`, the next thing that happens to a tab with a request, a redirect or
the provider's form on its way. The runtime keeps executing a request it has
accepted, D1 and the provider answer, and a browser follows a redirect; an answer may
also be a failure, and a user at the provider may give up. Nothing obliges a user to
visit, reload or log out, an administrator to act, an operator to deploy, a session
to expire or an isolate to restart. The other specifications are safety only: their
requests may stop anywhere, as they may in the code.

`SignInEnds` needs more than fairness: that a session created during a sign-in is
still good when the browser comes back to the app, which `MaxUpsets` bounds, and that
its cookie gets there, which is why the page must be in the domain.

## 6. Proofs

Each `*Proofs` module is checked by `tlapm` to its last leaf. The assumptions are
the named `ASSUME`s on constants: `DistinctNames` (ids, subjects and emails are not
`None`), `CredentialConstants`, `AppSchemaConstants`, `GrantConstants`,
`TokenConstants` (the skew is below the lifetime; "never" is later than any time),
`ServiceKeyConstants`, `SigningConstants`, `SignInConstants`, `GatesConstants` (rules
and pipelines are sequences, a pipeline is not empty, the kinds of credentials are
disjoint), `AdminConstants` (the bounds are positive). No set is assumed finite: that a
log is, which `ORDER BY` needs, is part of Admin's invariant.

* **Principals** — `InductiveInvariant`, `SessionsNameTheirSubject`,
  `SubjectsHaveOnePrincipal`, `BarredGetNoSession`, `IdentityIsStable`,
  `PrincipalsImplementAccounts`. `SessionIdentity` alone is not inductive: that
  `createSession` stores a row of the right subject depends on what the login knew
  when it read the row (`LoginsKnowTheirRow`), on the unique indexes (`UniqueRows`),
  on ids not being used twice (`IdsInOrder`), and for `NoSessionForBarred` on a
  barred row being disabled or gone ever since (`BarredAreDisabled`). The refinement
  is proved from the invariant, action by action. `LoginsOnlyAdvance` is the half of
  `LoginTerminates` that is not fairness: every statement of a login takes it to a later
  `Stage`, and no other request moves it.
* **Accounts** — `AccountsArePersonal`: the abstract specification by itself, for any
  accounts, persons and clients, lets nobody own two accounts or sit on another's;
  `PrincipalsArePersonal` says it of user principals and sessions, through the mapping.
* **Permissions** — `MatchIsTransitive` (a pattern that covers a second one covers
  whatever that matches), from it `DelegationIsSound` and `DownscopeIsSound`;
  `AllowedMeansMatching`; `ScopedValuesAgree`. `DelegationIsExact` is the converse of
  the first: whoever is permitted every action that a grant will ever permit, actions and
  scopes that come later included, may give it. The actions it speaks of have no wildcard
  in them (`ActionsOver`), so the patterns are compared by what they permit and not with
  each other; the wanted patterns have theirs at the end (`WildOnlyLast`), for one
  elsewhere is no wildcard to the matcher. A pattern stands for one least action, itself
  with a new segment in place of its star, and whatever matches that matches the pattern
  (`LeastActionDecides`). They open `CredentialsProofs`.
* **Credentials** — `CredentialsInvariant`, `NobodyExceedsAPrincipal`,
  `DownscopedKeysStayWithin`, `BarredGetNoToken`, `ListViewsAgreeWithChecks`. Inductive
  because a call in progress acts within its root and within its key's inline grants
  (`SoundCall`); each link of a chain is one use of `DelegationIsSound` or
  `DownscopeIsSound`, composed by transitivity. For `BarredGetNoToken` a call that
  has passed a read of its credential or principal keeps it out of `barred`
  (`BarredStaysOut`).
* **AppSchema** — `SchemaInvariant`, `DeclaredRolesInForce`,
  `AppRolesStayWithinCatalog`, `CustomPoliciesSurvive`. The strengthening says that a
  request no deploy overtook saw that its key was not the app's
  (`WriterSawNoAppRole`).
* **Grants** — `GrantsImplementSchema` carries these over to the larger specification;
  `GrantsInvariant`, `DanglingGrantsGiveNothing`, `NothingIsInvented`,
  `CrossAppGrantsStayFixed`, `PutsAreEchoed`. What passed a check of some catalog is
  within what was ever declared (`Bounded`), also while it waits to be written. A
  service's grant is matched by a pattern that a grant of the first kind vouched for
  (`Backed`): its issuer's own, or the one that backs its issuer's, matching being
  transitive (`DelegationIsBacked`). Both are in `WithinEver`; the
  part of an answer read so far follows the schema it is for (`AnswerFollows`).
* **Admin** — `AdminInvariant`, `AuthorityHolds`, `AnswersAreTrue`,
  `ReadersMissNothing`, for any number of requests, callers, milliseconds and events.
  A request that has passed a read of the gate has, at some time since it came, had what
  the read asks for (`Resolves`), and authority once had is never lost from the history,
  so that what holds at one read holds at the change. The event of a change is written
  once, after it and before the answer (`Recorded`). What a walk still owes its reader is
  in the log and before its cursor (`OnTrack`), for a page shows the largest ids before
  the cursor. That a finite log can be listed in descending order at all is proved by ranking its ids
  (`DescendingExists`). The proofs of AppSchema, Grants and Admin share the module
  `AdminProofs`.
* **Tokens** — `TokensInvariant`, `PermissionsLapse`, `ExpiredKeysAreRefused`: every
  token kept or in flight ends within a lifetime of the credential's last standing
  and no later than the key. `TokensImplementLeases` is the refinement: a signature is
  within bounds when it is made, and nothing that happens before the answer is kept can
  take the bound back. `HeldTokensAreRecent` is what it comes to.
* **Leases** — `CopiesLapse`: in any system of this kind whoever honours a copy does so
  within `Span` of the last time the original was in force. `TokensProofs` and
  `SigningKeysProofs` show two systems of this kind.
* **SigningKeys** — `SigningInvariant`, `RotationRefusesNothingValid`,
  `DroppedKeysStopVerifying`. A key that may sign, now or after the next restart, is
  listed by every isolate that works (`SignersPublished`), so a forced refetch,
  whoever answers it, knows every undropped token's key (`TokensPublished`); a cached
  set ends within its lifetime of the last time its keys were published
  (`KeySetsLapse`). For `KeySetsImplementLeases` a key is in force
  while it is published or an answer that lists it is on its way, so that what is cached
  from a late answer is a copy of something in force.
* **ServiceKeys** — `KeysInvariant`, `RevocationHolds`, `RotatedKeysStayRetired`,
  `ExpiryOutlivesRotation`. What a half-done request may rely on (`JobsMakeSense`,
  `OldAreRevoked`) is part of the invariant, because any statement may be its last.
* **SignIn** — `SignInInvariant`, `SignInLandsAsItsOwn`, `SessionsAreOfGuests`,
  `RefusalsHaveACause`. The flight that a tab's callback names, in the cookie or sent
  by the tab, goes to that tab's page (`OwnFlights`); whoever comes to the admission
  has been vetted (`Vetted`); the cookie is there for a tab nobody has crossed
  (`FlightKept`); while nothing disturbs, every session the browser refers to is good for
  a token (`SessionsWork`). From the last, `NobodySignsInTwice`: undisturbed, a page asked
  for with a session is not answered with the login, the part of `SignInEnds` that is not
  fairness.
* **Gates** — `GatesInvariant`, `RulesDecide`, for every list of rules, every pipeline
  and any number of concurrent requests. A request is `Placed` (a walk has passed over
  every rule before the one it is at, and remembers whether one asked for a person:
  `Walking`), `Known` (what the last middleware found) and `OnCourse` (the verdict it
  carries is the one the rules call for). The history only grows, and so does what
  follows from it (`Monotone`), so a step proves its request `Sound` for any later
  standing (`MoveSound`). That `Min` is a minimum comes from the well-foundedness of `<`
  on the naturals.

## 7. What is only model-checked

`LoginTerminates` and `SignInEnds`: liveness under fairness and `ENABLED` are beyond the
prover. What they rest on besides fairness is proved (`LoginsOnlyAdvance`,
`NobodySignsInTwice`). Every invariant and action property that the passing runs check is
a theorem. No module declares a `RECURSIVE` operator and nothing is
proved by induction over data: entries are sets and patterns are compared index by
index, so nothing needs it.

## 8. What is not modelled

* cryptography, HTTP parsing, HTML, logging and DTO formatting: no property is about
  them. A verified signature is a token found under its kid, a path pattern the set of
  paths it matches;
* the OIDC provider and the id_token's signature: an exchange gives the identity that
  signed in, or fails;
* `pruneSessions`, which nothing calls, the filters of the audit lists and the audit
  RPC of apps;
* the admin UI beyond its audit pages, the deploy scripts and the example app: no
  authoritative state;
* multi-app interaction: a token's `aud` confines it to one app, and Credentials and
  AppSchema model one app each. Cross-app issuing by the provisioning key is planned.

## 9. Plan

Done, in this order: login and accounts, permissions and issuing, app schema, tokens,
service keys, signing keys, grants and share links, sign-in, gates, the admin gate with
audit and paging. Next:

1. ServiceKeys as a third implementation of Leases, with a service's rotated keys as the
   copies, once its clock and the SDK's token cache are composed.
2. `issueJwt`'s `ttl` clamping and cross-app issuing by the provisioning key.
3. Sessions over time in Principals, and SignIn composed with it, so that the identity a
   sign-in lands with is a row of the database.
