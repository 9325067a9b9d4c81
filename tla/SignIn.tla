-------------------------------- MODULE SignIn --------------------------------
(***************************************************************************)
(* Signing in with a browser: a page behind a human gate (authenticate-     *)
(* Session in client/src/session.ts), /auth/login, /auth/callback and       *)
(* /auth/logout (worker/src/auth/routes.ts) and the OIDC provider, which is *)
(* external. The tabs of one browser share its cookies: a request carries   *)
(* the cookies of the moment it is sent, its answer sets cookies when it    *)
(* arrives, and other tabs' requests come in between.                       *)
(*                                                                         *)
(* A flight is what /auth/login draws at random, state and verifier, and is *)
(* named after the tab it is drawn for: of a tab's flights only the last is *)
(* ever compared with anything. How a verified identity becomes a principal *)
(* is module Principals: here a person is the identity and its principal.   *)
(***************************************************************************)
EXTENDS Integers, FiniteSets

CONSTANTS
    Tabs,       \* the tabs of the browser
    Pages,      \* addresses the browser may visit, each behind a human gate
    Domain,     \* those within the session cookie's domain
    Local,      \* those on localhost, where a redirect may always go
    Home,       \* propustka's own, which has no gate
    People,     \* identities at the provider
    Verified,   \* Verified[p]: the claim email_verified, "true", "false" or "absent"
    RequireVerifiedEmail,
    Admitted,   \* people on the allowlist, or known when they come
    SessionIds,   \* one that no browser refers to any more is drawn again
    MaxUpsets,  \* bound on what disturbs a sign-in from outside
    None

ASSUME SignInConstants ==
    /\ Verified \in [People -> {"true", "false", "absent"}]
    /\ RequireVerifiedEmail \in BOOLEAN
    /\ Admitted \subseteq People
    /\ Domain \subseteq Pages /\ Local \subseteq Pages /\ Home \in Domain
    /\ None \notin Pages \cup People \cup Tabs \cup SessionIds
    /\ MaxUpsets \in Nat

VARIABLES
    cookies,   \* the browser's: px_oidc and px_session
    tab,       \* tab[t]: where a tab is
    sessions,  \* sessions[s]: the person of a live session row, or None
    disabled,  \* people whose principal is disabled
    upsets     \* disturbances so far

vars == <<cookies, tab, sessions, disabled, upsets>>

NoFlight == [of |-> None, redirect |-> None]
Flight   == [of : Tabs, redirect : Pages] \cup {NoFlight}

(* at: what the tab waits for; page: what its user has asked for. session:  *)
(* the cookie that its request for the page carries. state and code: the    *)
(* flight that the callback's URL names and the person its code is for;     *)
(* spent: the provider has redeemed the code. flight: what the callback was *)
(* sent as px_oidc. crossed (history): another tab has taken the flight     *)
(* cookie away, or it has expired.                                          *)
Shown == [at |-> "shown", page |-> None, session |-> None, state |-> None,
         code |-> None, spent |-> FALSE, flight |-> NoFlight, crossed |-> FALSE]

Orn(S) == S \cup {None}
Tab == [at : {"page", "login", "provider", "callback", "exchange", "resolve",
              "land", "shown", "error", "logout"},
        page : Orn(Pages), session : Orn(SessionIds),
        state : Orn(Tabs), code : Orn(People), spent : BOOLEAN, flight : Flight, crossed : BOOLEAN]

TypeOK ==
    /\ cookies \in [oidc : Flight, session : Orn(SessionIds)]
    /\ tab \in [Tabs -> Tab]
    /\ sessions \in [SessionIds -> Orn(People)]
    /\ disabled \subseteq People
    /\ upsets \in 0 .. MaxUpsets

Init ==
    /\ cookies = [oidc |-> NoFlight, session |-> None]
    /\ tab = [t \in Tabs |-> Shown]
    /\ sessions = [s \in SessionIds |-> None]
    /\ disabled = {}
    /\ upsets = 0

(* px_session has the parent domain.                                        *)
SentHomeOnly(page) == page = Home
Sent(page) == page \in Domain

Asking(page, jar) ==
    [Shown EXCEPT !.at = "page", !.page = page,
                 !.session = IF Sent(page) THEN jar.session ELSE None]

SafeRedirectAny(page) == page
SafeRedirect(page) == IF page \in Domain \cup Local THEN page ELSE Home

Goto(t, from, next) == tab[t].at = from /\ tab' = [tab EXCEPT ![t] = next]
(* The URL of a failed callback matters as long as it may be reloaded.      *)
Error(t) ==
    IF tab[t].code = None \/ upsets = MaxUpsets THEN [Shown EXCEPT !.at = "error"]
    ELSE [tab[t] EXCEPT !.at = "error", !.flight = NoFlight, !.session = None]

(* The tabs after an answer to t sets or clears px_oidc: those with a       *)
(* sign-in under way have lost the flight that they need.                   *)
Crossed(t, next) ==
    [u \in Tabs |-> IF u = t THEN next ELSE [tab[u] EXCEPT !.crossed = @ \/ tab[u].state # None]]

-----------------------------------------------------------------------------
(* The app, for a request without a valid px_token (module Tokens has those *)
(* with one): px_session is exchanged for one.                              *)

Visit(t, page) ==
    /\ page # Home
    /\ tab[t].at \in {"shown", "error"}
    /\ tab' = [tab EXCEPT ![t] = Asking(page, cookies)]
    /\ UNCHANGED <<cookies, sessions, disabled, upsets>>

ShowHome(t) ==
    /\ tab[t].page = Home
    /\ Goto(t, "page", Shown)
    /\ UNCHANGED <<cookies, sessions, disabled, upsets>>

(* mintToken: a live session of a principal that is not disabled.           *)
Mints(s) == s # None /\ sessions[s] # None /\ sessions[s] \notin disabled

ShowBySession(t) ==
    LET s == tab[t].session
    IN  /\ tab[t].page # Home
        /\ Mints(s)
        /\ Goto(t, "page", Shown)
        /\ UNCHANGED <<cookies, sessions, disabled, upsets>>

SendToLogin(t) ==
    /\ tab[t].page # Home
    /\ ~ Mints(tab[t].session)
    /\ Goto(t, "page", [Shown EXCEPT !.at = "login", !.page = tab[t].page])
    /\ UNCHANGED <<cookies, sessions, disabled, upsets>>

-----------------------------------------------------------------------------
(* /auth/login and the provider                                             *)

StartFlight(t, f) ==
    /\ tab[t].at = "login"
    /\ tab' = Crossed(t, [tab[t] EXCEPT !.at = "provider", !.state = f])
    /\ cookies' = [cookies EXCEPT !.oidc = [of |-> f, redirect |-> SafeRedirect(tab[t].page)]]
    /\ UNCHANGED <<sessions, disabled, upsets>>

LoginKeepingFlight(t) == StartFlight(t, IF cookies.oidc = NoFlight THEN t ELSE cookies.oidc.of)
Login(t) == StartFlight(t, t)

(* The provider's answer is a cross-site navigation: a SameSite=Lax cookie  *)
(* comes with it, a Strict one would not.                                   *)
FlightSentStrict == NoFlight
FlightSent == cookies.oidc

SignInAt(t, p) ==
    /\ Goto(t, "provider", [tab[t] EXCEPT !.at = "callback", !.code = p, !.flight = FlightSent])
    /\ UNCHANGED <<cookies, sessions, disabled, upsets>>

GiveUp(t) ==
    /\ Goto(t, "provider", Error(t))
    /\ UNCHANGED <<cookies, sessions, disabled, upsets>>

-----------------------------------------------------------------------------
(* /auth/callback                                                           *)

CallbackStep == UNCHANGED <<cookies, disabled, upsets>>

StateUnchecked(t) == tab[t].flight.of # None
StateMatches(t) == tab[t].flight.of # None /\ tab[t].flight.of = tab[t].state

CheckState(t) ==
    /\ Goto(t, "callback", IF StateMatches(t) THEN [tab[t] EXCEPT !.at = "exchange"] ELSE Error(t))
    /\ CallbackStep /\ UNCHANGED sessions

(* The provider redeems a code once, and for its own verifier (external).   *)
Redeems(t) == ~ tab[t].spent /\ tab[t].flight.of = tab[t].state

AcceptableLoosely(p) == Verified[p] # "false"
AcceptableEmail(p) == IF RequireVerifiedEmail THEN Verified[p] = "true" ELSE Verified[p] # "false"

ExchangeCode(t) ==
    /\ Goto(t, "exchange",
          IF ~ Redeems(t) THEN Error(t)
          ELSE IF AcceptableEmail(tab[t].code) THEN [tab[t] EXCEPT !.at = "resolve", !.spent = TRUE]
          ELSE [Error(t) EXCEPT !.spent = TRUE])
    /\ CallbackStep /\ UNCHANGED sessions

Held == {cookies.session} \cup {tab[t].session : t \in Tabs}
Welcome(p) == p \in Admitted \ disabled

(* Admission, the principal and the new session row. Rows that no browser   *)
(* can name any more are forgotten.                                         *)
CreateSession(t) ==
    LET s == CHOOSE s \in SessionIds : s \notin Held
        p == tab[t].code
    IN  /\ SessionIds \ Held # {}
        /\ Goto(t, "resolve", IF Welcome(p) THEN [tab[t] EXCEPT !.at = "land", !.session = s] ELSE Error(t))
        /\ sessions' = [x \in SessionIds |->
              IF x = s /\ Welcome(p) THEN p ELSE IF x \in Held THEN sessions[x] ELSE None]
        /\ CallbackStep

Land(t) ==
    LET jar == [cookies EXCEPT !.session = tab[t].session, !.oidc = NoFlight]
    IN  /\ tab[t].at = "land"
        /\ tab' = Crossed(t, Asking(SafeRedirect(tab[t].flight.redirect), jar))
        /\ cookies' = jar
        /\ UNCHANGED <<sessions, disabled, upsets>>

(* A fetch that rejects, a D1 statement that fails: 500, cookies as they    *)
(* were.                                                                    *)
Fail(t) ==
    /\ tab[t].at \in {"page", "login", "exchange", "resolve", "logout"}
    /\ tab' = [tab EXCEPT ![t] = Error(t)]
    /\ UNCHANGED <<cookies, sessions, disabled, upsets>>

-----------------------------------------------------------------------------
(* What disturbs: a callback sent again, a logout, what expires or is       *)
(* revoked meanwhile.                                                       *)

Upset == upsets < MaxUpsets /\ upsets' = upsets + 1

Reload(t) ==
    /\ Upset
    /\ tab[t].state # None /\ tab[t].code # None
    /\ Goto(t, "error", [tab[t] EXCEPT !.at = "callback", !.flight = FlightSent])
    /\ UNCHANGED <<cookies, sessions, disabled>>

Logout(t) ==
    /\ Upset
    /\ tab[t].at = "shown"
    /\ tab' = [tab EXCEPT ![t] = [Shown EXCEPT !.at = "logout"]]
    /\ sessions' = IF cookies.session = None THEN sessions ELSE [sessions EXCEPT ![cookies.session] = None]
    /\ UNCHANGED <<cookies, disabled>>

LoggedOut(t) ==
    /\ Goto(t, "logout", Shown)
    /\ cookies' = [cookies EXCEPT !.session = None]
    /\ UNCHANGED <<sessions, disabled, upsets>>

ExpireSession(s) ==
    /\ Upset
    /\ sessions' = [sessions EXCEPT ![s] = None]
    /\ UNCHANGED <<cookies, tab, disabled>>

ExpireFlight ==
    /\ Upset
    /\ cookies' = [cookies EXCEPT !.oidc = NoFlight]
    /\ tab' = [t \in Tabs |-> [tab[t] EXCEPT !.crossed = @ \/ tab[t].state # None]]
    /\ UNCHANGED <<sessions, disabled>>

Disable(p) ==
    /\ Upset
    /\ disabled' = disabled \cup {p}
    /\ UNCHANGED <<cookies, tab, sessions>>

Answer(t) ==
    \/ ShowHome(t) \/ ShowBySession(t) \/ SendToLogin(t)
    \/ Login(t) \/ GiveUp(t) \/ \E p \in People : SignInAt(t, p)
    \/ CheckState(t) \/ ExchangeCode(t) \/ CreateSession(t) \/ Land(t)
    \/ LoggedOut(t)

Next ==
    \/ \E t \in Tabs : Answer(t) \/ Fail(t) \/ Reload(t) \/ Logout(t) \/ \E page \in Pages : Visit(t, page)
    \/ \E s \in SessionIds : ExpireSession(s)
    \/ ExpireFlight
    \/ \E p \in People : Disable(p)

Spec == Init /\ [][Next]_vars /\ \A t \in Tabs : WF_vars(Answer(t))

-----------------------------------------------------------------------------
(* Properties                                                               *)

(* A sign-in that completes takes the tab to the page it had asked for, as  *)
(* far as that is within the domain, with a session of the person who       *)
(* signed in in that tab: no tab finishes the flight of another, though     *)
(* all share one px_oidc cookie.                                            *)
LandsAsItsOwn ==
    \A t \in Tabs : tab[t].at = "land" =>
        /\ tab[t].flight.redirect = SafeRedirect(tab[t].page)
        /\ tab[t].session # None /\ sessions[tab[t].session] \in {tab[t].code, None}

(* Nobody has a session without an address the provider vouches for and an  *)
(* admission, along any path of redirects, reloads and overtaken answers.   *)
Guest(p) == p \in Admitted /\ Verified[p] # "false" /\ (RequireVerifiedEmail => Verified[p] = "true")
OnlyGuests == \A s \in SessionIds : sessions[s] # None => Guest(sessions[s])

(* A callback is refused for its state only when another tab's sign-in has  *)
(* replaced or cleared the flight cookie, or it has expired.                *)
RefusedOnlyIfCrossed ==
    [][\A t \in Tabs : tab[t].at = "callback" /\ tab'[t].at = "error" => tab[t].crossed]_vars

(* Every visit ends with a page or an error message, never in redirects     *)
(* between the app, propustka and the provider without end. (An app on      *)
(* localhost with an issuer elsewhere is redirected to but gets no cookie.) *)
SignInEnds ==
    \A t \in Tabs :
        tab[t].at = "page" /\ tab[t].page \notin Local \ Domain ~> tab[t].at \in {"shown", "error"}

(* Why the first holds: the flight that a tab's callback names, in the      *)
(* cookie or sent by the tab, goes to that tab's page.                      *)
FlightIsTheTabs(f, t) == f.of = tab[t].state /\ f.of # None => f.redirect = SafeRedirect(tab[t].page)

OwnFlights ==
    \A t \in Tabs :
        /\ FlightIsTheTabs(cookies.oidc, t)
        /\ FlightIsTheTabs(tab[t].flight, t)
        /\ tab[t].state \in {t, None}
        /\ tab[t].at = "login" => tab[t].flight = NoFlight
        /\ tab[t].at \in {"provider", "callback"} => tab[t].state = t
        /\ tab[t].at \in {"exchange", "resolve", "land"} =>
              tab[t].flight.of = tab[t].state /\ tab[t].state # None

(* Why the second: whoever comes to the admission has been vetted.          *)
Vetted ==
    \A t \in Tabs :
        /\ tab[t].at \in {"callback", "exchange", "resolve"} => tab[t].code # None
        /\ tab[t].at = "resolve" => AcceptableEmail(tab[t].code)

(* Why the third: the cookie is there for a tab that nobody has crossed.    *)
FlightKept ==
    \A t \in Tabs : tab[t].state # None /\ ~ tab[t].crossed =>
        /\ cookies.oidc.of = t
        /\ tab[t].at = "callback" => tab[t].flight.of = t

(* Why a sign-in ends: as long as nothing disturbs, every session that the  *)
(* browser refers to is good for a token, so nobody is sent to log in twice. *)
SessionsWork == upsets = 0 => \A s \in Held \ {None} : Mints(s)

SignInIInv ==
    /\ TypeOK /\ OwnFlights /\ LandsAsItsOwn /\ Vetted /\ FlightKept /\ OnlyGuests
    /\ SessionsWork
=============================================================================
