-------------------------------- MODULE Gates ---------------------------------
(***************************************************************************)
(* The front door of an app: the middlewares that createIam makes           *)
(* (client/src/iam.ts) and the walk through the gate rules behind           *)
(* authMiddleware (PropustkaAuth in client/src/session.ts), for requests    *)
(* that run at the same time while credentials lapse and principals are     *)
(* disabled, the browser signs in and out, and answers fail to come.        *)
(*                                                                         *)
(* How a token is minted and how long it is reused is the subject of module *)
(* Tokens: here a token is live while it is far enough from its expiry to   *)
(* be used without another mint, and there is one per credential. That a    *)
(* fresh token verifies, on which its minting isolate and this one agree,   *)
(* is assumed (SigningKeys and Tokens say when it does). What a context     *)
(* lets its holder do is that of module Permissions.                        *)
(***************************************************************************)
EXTENDS Integers, Sequences, FiniteSetsExt

CONSTANTS
    Paths,
    Keys,         \* px_ credentials
    Jwts,         \* passthrough tokens
    Sessions,     \* px_session cookies
    Personas,     \* devPersonas
    Apps,         \* the configurations of an app, its gate rules among them
    Pipelines,    \* Pipelines[p]: the middlewares in front of the handler of p
    Loads,        \* what a request may carry beside the browser's own cookies
    MaxEvents,    \* bound on what happens to credentials and in the browser
    Requests,     \* concurrent requests; each slot serves many in turn
    None,         \* nothing there, or an empty value
    Junk          \* something that is no credential; no bearer, in "authorization"

Creds  == Keys \cup Jwts \cup Sessions
Places == {"authorization", "header", "query", "token", "opice_read", "__as", "persona"}

(* A rule: the paths that its pattern matches, its kind, and where a        *)
(* service credential is declared to be (by default "authorization").       *)
Rule == [paths : SUBSET Paths, kind : {"public", "service", "human"}, at : Places]

ASSUME GatesConstants ==
    /\ \A a \in Apps :
          /\ a.gates \in Seq(Rule)
          /\ a.unmatched \in {"public", "deny"} /\ a.onError \in BOOLEAN
          /\ a.dev \in BOOLEAN /\ a.persona \in Personas \cup {None}
    /\ Pipelines \in [Paths -> Seq({"auth", "key", "capability"}) \ {<<>>}]
    /\ Loads \subseteq [Places -> Creds \cup Personas \cup {None, Junk}]
    /\ MaxEvents \in Nat
    /\ {None, Junk, "anonymous", "machine", "open"} \cap (Creds \cup Personas) = {}
    /\ None # "open"
    /\ Keys \cap Jwts = {} /\ Sessions \cap (Keys \cup Jwts) = {} /\ Personas \cap Creds = {}

VARIABLES
    app,       \* the app's configuration
    standing,  \* standing[c]: "good", "lapsed" (revoked or expired) or "barred" (disabled)
    live,      \* credentials with a live token; a passthrough token is its own
    cache,     \* keys that have a token in keyTokenCache
    jar,       \* the browser's px_session, and px_token by the session it was minted from
    req,       \* req[r]: what request r has come to
    events     \* those that have happened so far

vars == <<app, standing, live, cache, jar, req, events>>

Jar == [session : Sessions \cup {None}, token : Sessions \cup {None}]

(* missed: a human rule has been tried in vain. cred: what mintFromKey is   *)
(* asked for. fresh: the session of the px_token to be set. result: why the *)
(* request was refused, or what was answered. History: stood and fell, the  *)
(* carried credentials that have been of use, and those that have been of   *)
(* none, at some time since the request came.                               *)
Results == {"", "no_rule", "no_session", "unknown_principal", "no_credential", "login", "invalid_key",
            "disabled", "override", "redirect", "served", "401", "404", "500"}

Free == [pc |-> "free"]
Request ==
    [pc : {"middleware", "rules", "key", "session", "refused", "done"},
     path : Paths, load : Loads, jar : Jar, html : BOOLEAN,
     stage : Nat, rule : Nat, missed : BOOLEAN, cred : Keys \cup {None},
     ctx : Creds \cup Personas \cup {None, "anonymous", "machine", "open"},
     fresh : Sessions \cup {None}, result : Results,
     stood : SUBSET Creds, fell : SUBSET Creds]

TypeOK ==
    /\ app \in Apps
    /\ standing \in [Keys \cup Sessions -> {"good", "lapsed", "barred"}]
    /\ live \subseteq Creds
    /\ cache \subseteq Keys
    /\ jar \in Jar
    /\ events \in 0 .. MaxEvents
    /\ req \in [Requests -> {Free} \cup Request]

Init ==
    /\ app \in Apps
    /\ standing = [c \in Keys \cup Sessions |-> "good"]
    /\ live = Jwts
    /\ cache = {}
    /\ jar = [session |-> None, token |-> None]
    /\ req = [r \in Requests |-> Free]
    /\ events = 0

Good == {c \in Keys \cup Sessions : standing[c] = "good"}
Live == Jwts \cap live

(* What becomes of the requests, which see how the credentials they carry   *)
(* stand as long as they are under way.                                     *)
Carried(q) == ({q.load[p] : p \in Places} \cup {q.jar.session, q.jar.token}) \cap Creds
All(q) == req' = [r \in Requests |->
    IF req[r].pc \in {"free", "done"} THEN q[r]
    ELSE [q[r] EXCEPT !.stood = @ \cup (Carried(q[r]) \cap (Good \cup live)),
                      !.fell  = @ \cup (Carried(q[r]) \ (Good \cup Live))]]

-----------------------------------------------------------------------------
(* A request comes, with the cookies of the moment when a browser sends it, *)
(* and goes through the middlewares of its path.                            *)

Send(r, p, load, by) ==
    /\ req[r] = Free
    /\ UNCHANGED <<app, standing, live, cache, jar, events>>
    /\ All([req EXCEPT ![r] =
          [pc |-> "middleware", path |-> p, load |-> load,
           jar |-> IF by # "machine" THEN jar ELSE [session |-> None, token |-> None],
           html |-> by = "navigation", stage |-> 1, rule |-> 1, missed |-> FALSE, cred |-> None,
           ctx |-> None, fresh |-> None, result |-> "", stood |-> {}, fell |-> {}]])

At(r, pc) == req[r].pc = pc
Stage(r)  == LET line == Pipelines[req[r].path] \o <<"handler">> IN line[req[r].stage]

Refused(q, why)  == [q EXCEPT !.pc = "refused", !.result = why]
Admitted(q, who) == [q EXCEPT !.pc = "middleware", !.stage = @ + 1, !.ctx = who]
Answered(q, what) == [q EXCEPT !.pc = "done", !.result = what]

To(r, q)   == All([req EXCEPT ![r] = q])
Step(r, q) == To(r, q) /\ UNCHANGED <<app, standing, live, cache, jar, events>>

(* The first that matches of the rules from number i on, or the number      *)
(* behind the last one.                                                     *)
Applicable(p) == {i \in 1 .. Len(app.gates) : p \in app.gates[i].paths}
FirstAfter(p, i) == Min({j \in Applicable(p) : j > i} \cup {Len(app.gates) + 1})
FirstFrom(p, i) == Min({j \in Applicable(p) : j >= i} \cup {Len(app.gates) + 1})
Onward(q) == [q EXCEPT !.pc = "rules", !.rule = FirstFrom(q.path, @ + 1)]
Walk(q)   == [q EXCEPT !.pc = "rules", !.rule = FirstFrom(q.path, 1), !.missed = FALSE]

Bearer(q) == IF q.load["authorization"] = Junk THEN None ELSE q.load["authorization"]
Presented(q, rule) == IF rule.at = "authorization" THEN Bearer(q) ELSE q.load[rule.at]

(* Authorization: Bearer, the header (with a sentry_key list), the query.   *)
ApiKey(q) ==
    IF Bearer(q) # None THEN Bearer(q)
    ELSE IF q.load["header"] # None THEN q.load["header"] ELSE q.load["query"]
Token(q) == IF q.load["token"] # None THEN q.load["token"] ELSE q.load["opice_read"]

Persona(q) ==
    IF q.load["__as"] # None THEN q.load["__as"]
    ELSE IF q.load["persona"] # None THEN q.load["persona"] ELSE app.persona

DevAuth(r) ==
    /\ At(r, "middleware")
    /\ Stage(r) = "auth"
    /\ app.dev
    /\ LET who == Persona(req[r]) IN
       Step(r, IF who \in Personas THEN Admitted(req[r], who)
               ELSE Refused(req[r], IF who = None THEN "no_session" ELSE "unknown_principal"))

Auth(r) ==
    /\ At(r, "middleware")
    /\ Stage(r) = "auth"
    /\ ~app.dev
    /\ Step(r, IF Applicable(req[r].path) = {} THEN Refused(req[r], "no_rule") ELSE Walk(req[r]))

(* A px_ key is answered for by its live token, if the isolate has one, and *)
(* by propustka; a passthrough token answers for itself; anything else is   *)
(* no token.                                                                *)
CachedAtAll(c) == c \in cache
Cached(c) == c \in cache /\ c \in live

Redeemed(q, c) ==
    IF c \in Keys /\ ~Cached(c) THEN [q EXCEPT !.pc = "key", !.cred = c]
    ELSE IF c \in Keys \cup (Jwts \cap live) THEN Admitted(q, c)
    ELSE Refused(q, "invalid_key")

AtRule(r, kind) ==
    /\ At(r, "rules")
    /\ req[r].rule \in DOMAIN app.gates
    /\ app.gates[req[r].rule].kind = kind

Public(r) == AtRule(r, "public") /\ Step(r, Admitted(req[r], "anonymous"))

Service(r) ==
    /\ AtRule(r, "service")
    /\ LET c == Presented(req[r], app.gates[req[r].rule]) IN
       Step(r, IF c = None THEN Onward(req[r]) ELSE Redeemed(req[r], c))

Human(r) ==
    /\ AtRule(r, "human")
    /\ Step(r, IF req[r].jar.token \in live THEN Admitted(req[r], req[r].jar.token)
               ELSE [req[r] EXCEPT !.pc = "session"])

NoRuleLeft(r) ==
    /\ At(r, "rules")
    /\ req[r].rule \notin DOMAIN app.gates
    /\ Step(r, Refused(req[r], IF req[r].missed THEN "login" ELSE "no_credential"))

Why(c) == IF standing[c] = "lapsed" THEN "invalid_key" ELSE "disabled"

(* The answers of mintFromKey and of mintToken. The code verifies the token *)
(* it is answered with, and refuses one that does not verify, as invalid_key *)
(* or as a session in vain; here a fresh token always does.                 *)
KeyAnswer(r) ==
    /\ At(r, "key")
    /\ UNCHANGED <<app, standing, jar, events>>
    /\ LET c == req[r].cred IN
       IF c \in Good
       THEN /\ live' = live \cup {c} /\ cache' = cache \cup {c}
            /\ To(r, Admitted(req[r], c))
       ELSE /\ UNCHANGED <<live, cache>>
            /\ To(r, Refused(req[r], Why(c)))

SessionAnswer(r) ==
    /\ At(r, "session")
    /\ UNCHANGED <<app, standing, cache, jar, events>>
    /\ LET s == req[r].jar.session IN
       IF s \in Good
       THEN /\ live' = live \cup {s}
            /\ To(r, [Admitted(req[r], s) EXCEPT !.fresh = s])
       ELSE /\ UNCHANGED live
            /\ To(r, Onward([req[r] EXCEPT !.missed = TRUE]))

(* What authMiddleware and capabilityMiddleware make of a refusal.          *)
Verdict(r) ==
    /\ At(r, "refused")
    /\ Stage(r) = "auth"
    /\ \/ app.onError /\ Step(r, Answered(req[r], "override"))
       \/ /\ req[r].result = "no_rule" /\ app.unmatched = "public"
          /\ Step(r, Admitted(req[r], "anonymous"))
       \/ /\ ~ (req[r].result = "no_rule" /\ app.unmatched = "public")
          /\ Step(r, Answered(req[r], IF req[r].result = "login" /\ req[r].html
                                      THEN "redirect" ELSE req[r].result))

NotFound(r) ==
    /\ At(r, "refused")
    /\ Stage(r) = "capability"
    /\ Step(r, Answered(req[r], "404"))

(* Both overwrite what an earlier middleware has found. resolve is the      *)
(* app's own (external): it may know the key or not.                        *)
ApiKeyAuth(r) ==
    /\ At(r, "middleware")
    /\ Stage(r) = "key"
    /\ \/ ApiKey(req[r]) # None /\ Step(r, Admitted(req[r], "machine"))
       \/ Step(r, Answered(req[r], "401"))

Capability(r) ==
    /\ At(r, "middleware")
    /\ Stage(r) = "capability"
    /\ LET c == Token(req[r]) IN
       Step(r, IF c = None THEN Answered(req[r], "404")
               ELSE IF app.dev THEN Admitted(req[r], "open") ELSE Redeemed(req[r], c))

Handle(r) ==
    /\ At(r, "middleware")
    /\ Stage(r) = "handler"
    /\ Step(r, Answered(req[r], "served"))

(* A call of the binding rejects, getJwks for a verification among them:    *)
(* the exception leaves the middleware.                                     *)
Verifying(r) ==
    \/ AtRule(r, "service") /\ Presented(req[r], app.gates[req[r].rule]) # None
    \/ AtRule(r, "human") /\ req[r].jar.token # None
    \/ At(r, "middleware") /\ Stage(r) = "capability" /\ ~app.dev /\ Token(req[r]) # None

Throw(r) ==
    /\ req[r].pc \in {"key", "session"} \/ Verifying(r)
    /\ Step(r, [Answered(req[r], "500") EXCEPT !.fresh = None])

(* The answer reaches the browser, with Set-Cookie.                         *)
Receive(r) ==
    /\ At(r, "done")
    /\ jar' = IF req[r].fresh = None THEN jar ELSE [jar EXCEPT !.token = req[r].fresh]
    /\ UNCHANGED <<app, standing, live, cache, events>>
    /\ To(r, Free)

Serve(r) ==
    \/ DevAuth(r) \/ Auth(r) \/ Public(r) \/ Service(r) \/ Human(r) \/ NoRuleLeft(r)
    \/ KeyAnswer(r) \/ SessionAnswer(r) \/ Verdict(r) \/ NotFound(r)
    \/ ApiKeyAuth(r) \/ Capability(r) \/ Handle(r) \/ Throw(r) \/ Receive(r)

-----------------------------------------------------------------------------
(* Around the requests                                                      *)

Around ==
    /\ events < MaxEvents
    /\ events' = events + 1
    /\ UNCHANGED <<app, cache>>
    /\ All(req)

Lapse(c) == standing' = [standing EXCEPT ![c] = "lapsed"] /\ UNCHANGED <<live, jar>> /\ Around

Disable(c) ==
    /\ standing[c] = "good"
    /\ standing' = [standing EXCEPT ![c] = "barred"]
    /\ UNCHANGED <<live, jar>> /\ Around

Enable(c) ==
    /\ standing[c] = "barred"
    /\ standing' = [standing EXCEPT ![c] = "good"]
    /\ UNCHANGED <<live, jar>> /\ Around

Expire(c) == c \in live /\ live' = live \ {c} /\ UNCHANGED <<standing, jar>> /\ Around

(* Signing in replaces px_session and leaves px_token, a cookie of the app, *)
(* alone; so does signing out, which revokes the session.                   *)
SignIn(s) ==
    /\ s \in Good /\ s # jar.session
    /\ jar' = [jar EXCEPT !.session = s]
    /\ UNCHANGED <<standing, live>> /\ Around

SignOut ==
    /\ jar.session # None
    /\ jar' = [jar EXCEPT !.session = None]
    /\ standing' = [standing EXCEPT ![jar.session] = "lapsed"]
    /\ UNCHANGED live /\ Around

Next ==
    \/ \E r \in Requests : Serve(r)
    \/ \E r \in Requests, p \in Paths, load \in Loads, by \in {"machine", "fetch", "navigation"} :
          Send(r, p, load, by)
    \/ \E c \in Keys \cup Sessions : Lapse(c) \/ Disable(c) \/ Enable(c)
    \/ \E c \in Creds : Expire(c)
    \/ \E s \in Sessions : SignIn(s)
    \/ SignOut

Spec == Init /\ [][Next]_vars

-----------------------------------------------------------------------------
(* Properties                                                               *)

(* What the rules of an app say of a request, without walking them: a rule  *)
(* is passed over when the request carries nothing for it, or a session     *)
(* that was of no use at some time while the request was under way.         *)
PassedOver(q, i) ==
    LET rule == app.gates[i] IN
    \/ rule.kind = "service" /\ Presented(q, rule) = None
    \/ rule.kind = "human" /\ (q.jar.session = None \/ q.jar.session \in q.fell)

LetsIn(q, i) ==
    LET rule == app.gates[i] IN
    \/ rule.kind = "public"
    \/ rule.kind = "service" /\ Presented(q, rule) \in q.stood
    \/ rule.kind = "human" /\ {q.jar.session, q.jar.token} \cap q.stood # {}

TurnsAway(q, i) ==
    LET c == Presented(q, app.gates[i]) IN
    app.gates[i].kind = "service" /\ c # None /\ (c \notin Creds \/ c \in q.fell \cup Sessions)

DecidedBy(q, Decides(_, _)) ==
    \E i \in Applicable(q.path) :
        Decides(q, i) /\ \A j \in Applicable(q.path) : j < i => PassedOver(q, j)

Exhausted(q) ==
    /\ Applicable(q.path) # {}
    /\ \A i \in Applicable(q.path) : PassedOver(q, i)

Humans(q) == {i \in Applicable(q.path) : app.gates[i].kind = "human"}

(* With authMiddleware alone in front of a handler, the order of the rules  *)
(* decides, whatever happens to the credentials meanwhile: a request is     *)
(* served only if the first rule that is not passed over lets it in, is     *)
(* refused for its credential only by such a rule and never falls through   *)
(* to a later one, and is sent to sign in only when every rule was passed   *)
(* over and one of them asks for a person (PropustkaAuth.authenticate).     *)
DecidedByTheRules == \A r \in Requests :
    LET q == req[r] IN
    q.pc = "done" /\ ~app.dev /\ Pipelines[q.path] = <<"auth">> =>
      CASE q.result = "served" ->
             IF Applicable(q.path) = {} THEN app.unmatched = "public" ELSE DecidedBy(q, LetsIn)
        [] q.result \in {"invalid_key", "disabled"} -> DecidedBy(q, TurnsAway)
        [] q.result \in {"login", "redirect"} -> Exhausted(q) /\ Humans(q) # {}
        [] q.result = "no_credential" -> Exhausted(q) /\ Humans(q) = {}
        [] q.result = "no_rule" -> Applicable(q.path) = {} /\ app.unmatched = "deny"
        [] OTHER -> q.result \in {"override", "500"}

(* A handler is only told of a caller whose credential, or a token minted   *)
(* from it, has been of use while the request was under way, and which the  *)
(* request carries where the last middleware in front of the handler looks. *)
(* A dev persona appears only in dev, and the surface for capabilities      *)
(* answers 404, 500 or what the handler does (authMiddleware,               *)
(* capabilityMiddleware).                                                   *)
KnownByWhatItCarries == \A r \in Requests :
    LET q == req[r]
        last == Pipelines[q.path][Len(Pipelines[q.path])]
    IN  q.pc = "done" =>
          /\ q.ctx \in Creds => q.ctx \in q.stood
          /\ q.ctx \in Personas \cup {"open"} => app.dev
          /\ q.result = "served" /\ last = "capability" => q.ctx \in {Token(q), "open"}
          /\ q.result = "served" /\ last = "key" => q.ctx = "machine" /\ ApiKey(q) # None
          /\ Pipelines[q.path] = <<"capability">> => q.result \in {"served", "404", "500"}

(* Why they hold. A walk has passed over all rules before the one it is at, *)
(* and remembers whether one of them asked for a person.                    *)
Walking(q) ==
    /\ q.rule \in Applicable(q.path) \cup {Len(app.gates) + 1}
    /\ \A j \in Applicable(q.path) : j < q.rule => PassedOver(q, j)
    /\ q.missed <=> \E j \in Humans(q) : j < q.rule
    /\ Applicable(q.path) # {}

InARule(q, kind) == q.rule \in Applicable(q.path) /\ app.gates[q.rule].kind = kind

Placed(q) ==
    LET line == Pipelines[q.path] IN
    /\ q.stage \in 1 .. Len(line) + 1
    /\ q.pc \in {"rules", "key", "session", "refused"} => q.stage <= Len(line)
    /\ q.pc \in {"rules", "session"} => line[q.stage] = "auth"
    /\ q.pc \in {"key", "refused"} => line[q.stage] \in {"auth", "capability"}
    /\ q.pc \in {"rules", "key", "session"} =>
          ~app.dev /\ (line[q.stage] = "auth" => Walking(q))
    /\ q.pc = "session" => InARule(q, "human")
    /\ q.pc = "key" =>
          /\ q.cred \in Keys
          /\ line[q.stage] = "auth" =>
                InARule(q, "service") /\ q.cred = Presented(q, app.gates[q.rule])
          /\ line[q.stage] = "capability" => q.cred = Token(q)

(* What the middleware m, when it lets a request pass, has found.           *)
FoundBy(q, m) ==
    /\ m = "capability" => q.ctx \in {Token(q), "open"}
    /\ m = "key" => q.ctx = "machine" /\ ApiKey(q) # None

Known(q) ==
    LET line == Pipelines[q.path] IN
    /\ q.ctx \in Creds => q.ctx \in q.stood
    /\ q.ctx \in Personas \cup {"open"} => app.dev
    /\ q.pc = "middleware" /\ q.stage > 1 => FoundBy(q, line[q.stage - 1])
    /\ q.pc = "refused" => q.result # "served"
    /\ q.pc = "done" /\ q.result = "served" => FoundBy(q, line[Len(line)])
    /\ q.pc = "done" /\ line = <<"capability">> => q.result \in {"served", "404", "500"}

RightlyServed(q) ==
    IF Applicable(q.path) = {} THEN app.unmatched = "public" ELSE DecidedBy(q, LetsIn)

RightlyRefused(q) ==
    \/ q.result \in {"invalid_key", "disabled"} /\ DecidedBy(q, TurnsAway)
    \/ q.result = "login" /\ Exhausted(q) /\ Humans(q) # {}
    \/ q.result = "no_credential" /\ Exhausted(q) /\ Humans(q) = {}
    \/ q.result = "no_rule" /\ Applicable(q.path) = {}

RightlyAnswered(q) ==
    \/ q.result = "served" /\ RightlyServed(q)
    \/ q.result # "no_rule" /\ RightlyRefused(q)
    \/ q.result = "no_rule" /\ Applicable(q.path) = {} /\ app.unmatched = "deny"
    \/ q.result = "redirect" /\ Exhausted(q) /\ Humans(q) # {}
    \/ q.result \in {"override", "500"}

OnCourse(q) ==
    ~app.dev /\ Pipelines[q.path] = <<"auth">> =>
        /\ q.pc = "middleware" /\ q.stage > 1 => RightlyServed(q)
        /\ q.pc = "refused" => RightlyRefused(q)
        /\ q.pc = "done" => RightlyAnswered(q)

Sound(q) == Placed(q) /\ Known(q) /\ OnCourse(q)

GatesInv ==
    /\ TypeOK
    /\ KnownByWhatItCarries
    /\ \A r \in Requests : req[r] # Free => Sound(req[r])
===============================================================================
