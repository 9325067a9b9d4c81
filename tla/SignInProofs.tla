----------------------------- MODULE SignInProofs -----------------------------
(***************************************************************************)
(* Proofs about SignIn: SignInIInv is inductive for any number of tabs,     *)
(* pages, people and disturbances. It is a type and, for each tab on its    *)
(* own, what its record owes to the cookies and the session rows: a step    *)
(* changes one record, and of the rest only what other records do not need. *)
(***************************************************************************)
EXTENDS SignIn, TLAPS

Sound(t, v, jar, rows) ==
    /\ v.state \in {t, None}
    /\ v.at = "login" => v.flight = NoFlight
    /\ v.at \in {"provider", "callback"} => v.state = t
    /\ v.state # None /\ jar.oidc.of = t => jar.oidc.redirect = SafeRedirect(v.page)
    /\ v.state # None /\ v.flight.of = t => v.flight.redirect = SafeRedirect(v.page)
    /\ v.at \in {"exchange", "resolve", "land"} => v.flight.of = t /\ v.state = t
    /\ v.at = "land" => v.session # None /\ rows[v.session] \in {v.code, None}
    /\ v.at \in {"callback", "exchange", "resolve"} => v.code # None
    /\ v.at = "resolve" => AcceptableEmail(v.code)
    /\ v.state # None /\ ~ v.crossed => jar.oidc.of = t /\ (v.at = "callback" => v.flight.of = t)

AllSound == TypeOK /\ OnlyGuests /\ \A t \in Tabs : Sound(t, tab[t], cookies, sessions)

(* The invariant, tab by tab.                                               *)
LEMMA InvariantIsPerTab == ASSUME SignInConstants PROVE SignInIInv <=> AllSound /\ SessionsWork
<1>1. None \notin Tabs
  BY DEF SignInConstants
<1>2. ASSUME SignInIInv PROVE AllSound /\ SessionsWork
  <2>1. \A t \in Tabs : tab[t].state \in {t, None}
    BY <1>2 DEF SignInIInv, OwnFlights
  <2> QED BY <1>1, <1>2, <2>1 DEF SignInIInv, AllSound, Sound, OwnFlights, FlightIsTheTabs,
                                 LandsAsItsOwn, Vetted, FlightKept
<1>3. ASSUME AllSound, SessionsWork PROVE SignInIInv
  <2>1. \A t \in Tabs : Sound(t, tab[t], cookies, sessions)
    BY <1>3 DEF AllSound
  <2>2. OwnFlights /\ LandsAsItsOwn
    BY <1>1, <2>1 DEF Sound, OwnFlights, FlightIsTheTabs, LandsAsItsOwn
  <2>3. Vetted /\ FlightKept
    BY <2>1 DEF Sound, Vetted, FlightKept
  <2> QED BY <1>3, <2>2, <2>3 DEF SignInIInv, AllSound
<1> QED BY <1>2, <1>3

(* A record without a sign-in owes nothing.                                 *)
Idle(v) == v.state = None /\ v.flight = NoFlight /\ v.at \notin {"provider", "callback", "exchange", "resolve", "land"}

LEMMA IdleIsSound == ASSUME NEW t, NEW v, Idle(v), NEW jar, NEW rows PROVE Sound(t, v, jar, rows)
BY DEF Idle, Sound

LEMMA ErrorIsSound ==
    ASSUME SignInConstants, AllSound, NEW t \in Tabs
    PROVE  Error(t) \in Tab /\ Sound(t, Error(t), cookies, sessions)
<1>1. tab[t] \in Tab /\ Sound(t, tab[t], cookies, sessions) /\ None \notin Tabs
  BY DEF AllSound, TypeOK, SignInConstants
<1>2. CASE Error(t) = [Shown EXCEPT !.at = "error"]
  BY <1>2, IdleIsSound DEF Idle, Shown, Tab, Flight, NoFlight, Orn
<1>3. ASSUME NEW v, v = [tab[t] EXCEPT !.at = "error", !.flight = NoFlight, !.session = None]
      PROVE  v \in Tab /\ Sound(t, v, cookies, sessions)
  <2>1. v \in Tab
    BY <1>1, <1>3 DEF Tab, Flight, Orn
  <2>2. /\ v.at = "error" /\ v.page = tab[t].page /\ v.state = tab[t].state
        /\ v.crossed = tab[t].crossed /\ v.flight = NoFlight
    BY <1>1, <1>3 DEF Tab
  <2>3. v.flight.of # t
    BY <1>1, <2>2 DEF NoFlight
  <2> QED BY <1>1, <2>1, <2>2, <2>3 DEF Sound
<1> QED BY <1>2, <1>3 DEF Error

(* A step that changes the record of one tab and neither cookies nor rows.  *)
LEMMA TabStep ==
    ASSUME SignInConstants, AllSound, NEW t \in Tabs, NEW v \in Tab,
           Sound(t, v, cookies, sessions), tab' = [tab EXCEPT ![t] = v],
           UNCHANGED <<cookies, sessions>>, upsets' \in 0 .. MaxUpsets, disabled' \subseteq People
    PROVE  AllSound'
<1>1. \A u \in Tabs : tab'[u] = IF u = t THEN v ELSE tab[u]
  BY DEF AllSound, TypeOK
<1>2. \A u \in Tabs : Sound(u, tab'[u], cookies, sessions)
  BY <1>1 DEF AllSound
<1>3. \A u \in Tabs : Sound(u, tab[u], cookies, sessions)'
  BY <1>2 DEF Sound
<1> QED BY <1>3 DEF AllSound, TypeOK, OnlyGuests

LEMMA AskingIsIdle ==
    ASSUME SignInConstants, NEW page \in Pages, NEW jar, jar.session \in Orn(SessionIds)
    PROVE  Asking(page, jar) \in Tab /\ Idle(Asking(page, jar))
BY DEF SignInConstants, Asking, Shown, Tab, Orn, Flight, NoFlight, Idle, Sent

LEMMA ShownIsIdle == Shown \in Tab /\ Idle(Shown) /\ [Shown EXCEPT !.at = "logout"] \in Tab
                     /\ Idle([Shown EXCEPT !.at = "logout"])
BY DEF Shown, Tab, Orn, Flight, NoFlight, Idle

(* The steps up to the login page.                                          *)
LEMMA AppPreserves ==
    ASSUME SignInConstants, AllSound, NEW t \in Tabs,
           \/ \E page \in Pages : Visit(t, page)
           \/ ShowHome(t) \/ ShowBySession(t) \/ SendToLogin(t)
    PROVE  AllSound'
<1>1. TypeOK /\ tab[t] \in Tab
  BY DEF AllSound, TypeOK
<1>2. ASSUME NEW page \in Pages, Visit(t, page) PROVE AllSound'
  <2>1. Asking(page, cookies) \in Tab /\ Sound(t, Asking(page, cookies), cookies, sessions)
    BY <1>1, AskingIsIdle, IdleIsSound DEF TypeOK
  <2> QED BY <1>1, <1>2, <2>1, TabStep DEF Visit, TypeOK
<1>3. CASE ShowHome(t) \/ ShowBySession(t)
  <2>1. Sound(t, Shown, cookies, sessions)
    BY ShownIsIdle, IdleIsSound
  <2> QED BY <1>1, <1>3, <2>1, TabStep, ShownIsIdle DEF ShowHome, ShowBySession, Goto, TypeOK
<1>4. CASE SendToLogin(t)
  <2> DEFINE v == [Shown EXCEPT !.at = "login", !.page = tab[t].page]
  <2>1. v \in Tab /\ Idle(v)
    BY <1>1 DEF Shown, Tab, Orn, Flight, NoFlight, Idle
  <2>2. Sound(t, v, cookies, sessions)
    BY <2>1, IdleIsSound
  <2>3. tab' = [tab EXCEPT ![t] = v] /\ UNCHANGED <<cookies, sessions, disabled, upsets>>
    BY <1>4 DEF SendToLogin, Goto
  <2> HIDE DEF v
  <2> QED BY <1>1, <2>1, <2>2, <2>3, TabStep DEF TypeOK
<1> QED BY <1>2, <1>3, <1>4

(* An answer that sets or clears px_oidc crosses the other tabs.            *)
LEMMA OthersAreCrossed ==
    ASSUME SignInConstants, AllSound, NEW t \in Tabs, NEW u \in Tabs, u # t,
           NEW jar, jar.oidc.of \in {t, None},
           NEW w, w = [tab[u] EXCEPT !.crossed = @ \/ tab[u].state # None]
    PROVE  w \in Tab /\ Sound(u, w, jar, sessions)
<1>1. tab[u] \in Tab /\ Sound(u, tab[u], cookies, sessions) /\ None \notin Tabs
  BY DEF AllSound, TypeOK, SignInConstants
<1>2. w \in Tab
  BY <1>1 DEF Tab
<1>3. /\ w.crossed = (tab[u].crossed \/ tab[u].state # None)
      /\ w.at = tab[u].at /\ w.page = tab[u].page /\ w.session = tab[u].session
      /\ w.state = tab[u].state /\ w.code = tab[u].code /\ w.flight = tab[u].flight
  BY <1>1 DEF Tab
<1>4. jar.oidc.of # u
  BY <1>1
<1>5. w.state # None => w.crossed
  BY <1>3
<1> QED BY <1>1, <1>2, <1>3, <1>4, <1>5 DEF Sound

(* An answer of /auth/login or of a completed callback: the cookie is t's   *)
(* or nobody's, the others are crossed.                                     *)
LEMMA CrossingStep ==
    ASSUME SignInConstants, AllSound, NEW t \in Tabs, NEW v \in Tab,
           tab' = Crossed(t, v), UNCHANGED <<sessions, disabled, upsets>>,
           cookies' \in [oidc : Flight, session : Orn(SessionIds)], cookies'.oidc.of \in {t, None},
           Sound(t, v, cookies', sessions)
    PROVE  AllSound'
<1> DEFINE w(u) == [tab[u] EXCEPT !.crossed = @ \/ tab[u].state # None]
<1>1. \A u \in Tabs : tab'[u] = IF u = t THEN v ELSE w(u)
  BY DEF Crossed
<1>2. \A u \in Tabs : u # t => w(u) \in Tab /\ Sound(u, w(u), cookies', sessions)
  BY OthersAreCrossed
<1> HIDE DEF w
<1>3. \A u \in Tabs : tab'[u] \in Tab /\ Sound(u, tab'[u], cookies', sessions)
  BY <1>1, <1>2
<1>4. tab' \in [Tabs -> Tab]
  BY <1>3 DEF Crossed
<1>5. TypeOK' /\ OnlyGuests'
  BY <1>4 DEF AllSound, TypeOK, OnlyGuests
<1>6. \A u \in Tabs : Sound(u, tab[u], cookies, sessions)'
  BY <1>3 DEF Sound
<1> QED BY <1>5, <1>6 DEF AllSound

LEMMA LoginPreserves == ASSUME SignInConstants, AllSound, NEW t \in Tabs, Login(t) PROVE AllSound'
<1> DEFINE v == [tab[t] EXCEPT !.at = "provider", !.state = t]
           redirect == SafeRedirect(tab[t].page)
<1>1. TypeOK /\ tab[t] \in Tab /\ tab[t].at = "login" /\ None \notin Tabs
  BY DEF AllSound, TypeOK, Login, StartFlight, SignInConstants
<1>2. /\ tab' = Crossed(t, v) /\ UNCHANGED <<sessions, disabled, upsets>>
      /\ cookies' = [cookies EXCEPT !.oidc = [of |-> t, redirect |-> redirect]]
  BY DEF Login, StartFlight
<1>3. redirect \in Pages
  BY DEF SafeRedirect, SignInConstants
<1>4. v \in Tab /\ v.state = t /\ v.page = tab[t].page /\ v.at = "provider" /\ v.flight = tab[t].flight
  BY <1>1 DEF Tab, Orn
<1>5. cookies' \in [oidc : Flight, session : Orn(SessionIds)] /\ cookies'.oidc = [of |-> t, redirect |-> redirect]
  BY <1>1, <1>2, <1>3 DEF TypeOK, Flight
<1>6. Sound(t, v, cookies', sessions)
  <2>1. tab[t].flight = NoFlight
    BY <1>1 DEF AllSound, Sound
  <2> QED BY <1>4, <1>5, <2>1, <1>1 DEF Sound, NoFlight
<1> HIDE DEF v
<1> QED BY <1>2, <1>4, <1>5, <1>6, CrossingStep

(* The provider's answer and the steps of the callback.                     *)
LEMMA CallbackPreserves ==
    ASSUME SignInConstants, AllSound, NEW t \in Tabs,
           \/ \E p \in People : SignInAt(t, p)
           \/ GiveUp(t) \/ CheckState(t) \/ ExchangeCode(t)
    PROVE  AllSound'
<1>1. /\ TypeOK /\ tab[t] \in Tab /\ Sound(t, tab[t], cookies, sessions)
      /\ None \notin Tabs \cup People
  BY DEF AllSound, TypeOK, SignInConstants
<1>2. ASSUME NEW p \in People, SignInAt(t, p) PROVE AllSound'
  <2> DEFINE v == [tab[t] EXCEPT !.at = "callback", !.code = p, !.flight = FlightSent]
  <2>1. /\ v \in Tab /\ v.at = "callback" /\ v.state = tab[t].state /\ v.page = tab[t].page
        /\ v.flight = cookies.oidc /\ v.crossed = tab[t].crossed /\ v.code = p
    BY <1>1 DEF Tab, FlightSent, TypeOK, Orn
  <2>2. Sound(t, v, cookies, sessions)
    BY <1>1, <1>2, <2>1 DEF Sound, SignInAt, Goto
  <2>3. tab' = [tab EXCEPT ![t] = v] /\ UNCHANGED <<cookies, sessions, disabled, upsets>>
    BY <1>2 DEF SignInAt, Goto
  <2> HIDE DEF v
  <2> QED BY <1>1, <2>1, <2>2, <2>3, TabStep DEF TypeOK
<1>3. CASE GiveUp(t)
  BY <1>1, <1>3, ErrorIsSound, TabStep DEF GiveUp, Goto, TypeOK
<1>4. CASE CheckState(t)
  <2>1. CASE StateMatches(t)
    <3> DEFINE v == [tab[t] EXCEPT !.at = "exchange"]
    <3>1. /\ v \in Tab /\ v.at = "exchange" /\ v.state = tab[t].state /\ v.page = tab[t].page
          /\ v.flight = tab[t].flight /\ v.crossed = tab[t].crossed /\ v.code = tab[t].code
      BY <1>1 DEF Tab
    <3>2. v.flight.of = t /\ v.state = t
      BY <1>1, <2>1, <3>1 DEF StateMatches, Sound
    <3>3. Sound(t, v, cookies, sessions)
      BY <1>1, <1>4, <3>1, <3>2 DEF Sound, CheckState, Goto
    <3>4. tab' = [tab EXCEPT ![t] = v] /\ UNCHANGED <<cookies, sessions, disabled, upsets>>
      BY <1>4, <2>1 DEF CheckState, Goto, CallbackStep
    <3> HIDE DEF v
    <3> QED BY <1>1, <3>1, <3>3, <3>4, TabStep DEF TypeOK
  <2>2. CASE ~ StateMatches(t)
    BY <1>1, <1>4, <2>2, ErrorIsSound, TabStep DEF CheckState, Goto, CallbackStep, TypeOK
  <2> QED BY <2>1, <2>2
<1>5. CASE ExchangeCode(t)
  <2>1. tab[t].at = "exchange" /\ UNCHANGED <<cookies, sessions, disabled, upsets>>
    BY <1>5 DEF ExchangeCode, Goto, CallbackStep
  <2>2. Error(t) \in Tab /\ Sound(t, Error(t), cookies, sessions)
    BY <2>1, ErrorIsSound
  <2>3. CASE ~ Redeems(t)
    BY <1>1, <1>5, <2>1, <2>2, <2>3, TabStep DEF ExchangeCode, Goto, TypeOK
  <2>4. CASE Redeems(t) /\ AcceptableEmail(tab[t].code)
    <3> DEFINE v == [tab[t] EXCEPT !.at = "resolve", !.spent = TRUE]
    <3>1. /\ v \in Tab /\ v.at = "resolve" /\ v.state = tab[t].state /\ v.page = tab[t].page
          /\ v.flight = tab[t].flight /\ v.crossed = tab[t].crossed /\ v.code = tab[t].code
      BY <1>1 DEF Tab
    <3>2. Sound(t, v, cookies, sessions)
      BY <1>1, <2>1, <2>4, <3>1 DEF Sound
    <3>3. tab' = [tab EXCEPT ![t] = v]
      BY <1>5, <2>4 DEF ExchangeCode, Goto
    <3> HIDE DEF v
    <3> QED BY <1>1, <2>1, <3>1, <3>2, <3>3, TabStep DEF TypeOK
  <2>5. CASE Redeems(t) /\ ~ AcceptableEmail(tab[t].code)
    <3> DEFINE v == [Error(t) EXCEPT !.spent = TRUE]
    <3>1. /\ v \in Tab /\ v.at = Error(t).at /\ v.state = Error(t).state /\ v.page = Error(t).page
          /\ v.flight = Error(t).flight /\ v.crossed = Error(t).crossed /\ v.code = Error(t).code
          /\ v.session = Error(t).session
      BY <2>2 DEF Tab
    <3>2. Sound(t, v, cookies, sessions)
      BY <2>2, <3>1 DEF Sound
    <3>3. tab' = [tab EXCEPT ![t] = v]
      BY <1>5, <2>5 DEF ExchangeCode, Goto
    <3> HIDE DEF v
    <3> QED BY <1>1, <2>1, <3>1, <3>2, <3>3, TabStep DEF TypeOK
  <2> QED BY <2>3, <2>4, <2>5
<1> QED BY <1>2, <1>3, <1>4, <1>5

(* The new row is one that nobody names, and a guest's.                     *)
LEMMA CreateSessionPreserves ==
    ASSUME SignInConstants, AllSound, NEW t \in Tabs, CreateSession(t) PROVE AllSound'
<1> DEFINE s == CHOOSE s \in SessionIds : s \notin Held
           p == tab[t].code
           v == IF Welcome(p) THEN [tab[t] EXCEPT !.at = "land", !.session = s] ELSE Error(t)
<1>1. /\ TypeOK /\ tab[t] \in Tab /\ Sound(t, tab[t], cookies, sessions)
      /\ None \notin Tabs \cup SessionIds \cup People /\ tab[t].at = "resolve"
  BY DEF AllSound, TypeOK, SignInConstants, CreateSession, Goto
<1>2. /\ SessionIds \ Held # {}
      /\ tab' = [tab EXCEPT ![t] = v]
      /\ sessions' = [x \in SessionIds |->
            IF x = s /\ Welcome(p) THEN p ELSE IF x \in Held THEN sessions[x] ELSE None]
      /\ UNCHANGED <<cookies, disabled, upsets>>
  BY DEF CreateSession, Goto, CallbackStep
<1>3. s \in SessionIds /\ s \notin Held
  BY <1>2
<1> HIDE DEF s
<1>4. p \in People /\ AcceptableEmail(p)
  BY <1>1 DEF Sound, Tab, Orn
<1>5. v \in Tab /\ Sound(t, v, cookies, sessions')
  <2>1. CASE Welcome(p)
    <3>1. /\ v \in Tab /\ v.at = "land" /\ v.session = s /\ v.state = tab[t].state /\ v.page = tab[t].page
          /\ v.flight = tab[t].flight /\ v.crossed = tab[t].crossed /\ v.code = p
      BY <1>1, <1>3, <2>1 DEF Tab, Orn
    <3>2. sessions'[s] = p /\ s # None
      BY <1>1, <1>2, <1>3, <2>1
    <3> QED BY <1>1, <3>1, <3>2 DEF Sound
  <2>2. CASE ~ Welcome(p)
    <3>1. Error(t) \in Tab /\ Sound(t, Error(t), cookies, sessions) /\ Error(t).at = "error"
      BY <1>1, ErrorIsSound DEF Error, Shown, Tab
    <3> QED BY <2>2, <3>1 DEF Sound
  <2> QED BY <2>1, <2>2
<1> HIDE DEF v
<1>6. ASSUME NEW u \in Tabs, u # t PROVE Sound(u, tab[u], cookies, sessions')
  <2>1. Sound(u, tab[u], cookies, sessions) /\ tab[u] \in Tab
    BY DEF AllSound, TypeOK
  <2>2. ASSUME tab[u].at = "land" PROVE sessions'[tab[u].session] \in {tab[u].code, None}
    <3>1. tab[u].session \in Held /\ tab[u].session # s
      BY <1>3 DEF Held
    <3>2. CASE tab[u].session \in SessionIds
      BY <1>2, <2>1, <2>2, <3>1, <3>2 DEF Sound
    <3>3. tab[u].session \in SessionIds
      BY <2>1, <2>2 DEF Sound, Tab, Orn
    <3> QED BY <3>2, <3>3
  <2> QED BY <2>1, <2>2 DEF Sound
<1>7. /\ tab' \in [Tabs -> Tab]
      /\ \A u \in Tabs : Sound(u, tab'[u], cookies, sessions')
  BY <1>1, <1>2, <1>5, <1>6 DEF TypeOK
<1>8. sessions' \in [SessionIds -> Orn(People)]
  BY <1>1, <1>2, <1>4 DEF TypeOK, Orn
<1>9. OnlyGuests'
  <2>1. Welcome(p) => Guest(p)
    BY <1>4 DEF Welcome, Guest, AcceptableEmail
  <2> QED BY <1>1, <1>2, <1>4, <2>1 DEF AllSound, OnlyGuests, TypeOK
<1>10. \A u \in Tabs : Sound(u, tab[u], cookies, sessions)'
  BY <1>2, <1>7 DEF Sound
<1> QED BY <1>1, <1>2, <1>7, <1>8, <1>9, <1>10 DEF AllSound, TypeOK

(* The browser takes its new session and goes where the flight says.        *)
LEMMA LandPreserves == ASSUME SignInConstants, AllSound, NEW t \in Tabs, Land(t) PROVE AllSound'
<1> DEFINE jar == [cookies EXCEPT !.session = tab[t].session, !.oidc = NoFlight]
           page == SafeRedirect(tab[t].flight.redirect)
<1>1. TypeOK /\ tab[t] \in Tab
  BY DEF AllSound, TypeOK
<1>2. tab' = Crossed(t, Asking(page, jar)) /\ cookies' = jar /\ UNCHANGED <<sessions, disabled, upsets>>
  BY DEF Land
<1>3. /\ jar \in [oidc : Flight, session : Orn(SessionIds)]
      /\ jar.oidc = NoFlight /\ jar.session \in Orn(SessionIds)
  BY <1>1 DEF TypeOK, Flight, Tab
<1>4. page \in Pages
  BY DEF SafeRedirect, SignInConstants
<1> HIDE DEF page, jar
<1>5. Asking(page, jar) \in Tab /\ Sound(t, Asking(page, jar), jar, sessions)
  BY <1>3, <1>4, AskingIsIdle, IdleIsSound
<1> QED BY <1>2, <1>3, <1>5, CrossingStep DEF NoFlight

(* What disturbs.                                                           *)
LEMMA UpsetsPreserve ==
    ASSUME SignInConstants, AllSound,
           \/ \E t \in Tabs : Fail(t) \/ Reload(t) \/ Logout(t) \/ LoggedOut(t)
           \/ \E s \in SessionIds : ExpireSession(s)
           \/ ExpireFlight
           \/ \E p \in People : Disable(p)
    PROVE  AllSound'
<1>1. TypeOK /\ None \notin Tabs \cup SessionIds
  BY DEF AllSound, TypeOK, SignInConstants
<1>2. Upset => upsets' \in 0 .. MaxUpsets
  BY <1>1 DEF Upset, TypeOK, SignInConstants
<1>3. ASSUME NEW t \in Tabs, Fail(t) PROVE AllSound'
  BY <1>1, <1>3, ErrorIsSound, TabStep DEF Fail, TypeOK
<1>4. ASSUME NEW t \in Tabs, Reload(t) PROVE AllSound'
  <2> DEFINE v == [tab[t] EXCEPT !.at = "callback", !.flight = FlightSent]
  <2>1. tab[t] \in Tab /\ Sound(t, tab[t], cookies, sessions)
    BY <1>1 DEF AllSound, TypeOK
  <2>2. /\ v \in Tab /\ v.at = "callback" /\ v.state = tab[t].state /\ v.page = tab[t].page
        /\ v.flight = cookies.oidc /\ v.crossed = tab[t].crossed /\ v.code = tab[t].code
    BY <1>1, <2>1 DEF Tab, FlightSent, TypeOK
  <2>3. Sound(t, v, cookies, sessions)
    BY <1>4, <2>1, <2>2 DEF Sound, Reload
  <2>4. tab' = [tab EXCEPT ![t] = v] /\ UNCHANGED <<cookies, sessions, disabled>>
    BY <1>4 DEF Reload, Goto
  <2> HIDE DEF v
  <2> QED BY <1>1, <1>2, <1>4, <2>2, <2>3, <2>4, TabStep DEF Reload, TypeOK
(* A row that goes away makes no record unsound.                            *)
<1>5. ASSUME NEW rows, rows \in [SessionIds -> Orn(People)],
             \A x \in SessionIds : rows[x] \in {sessions[x], None},
             NEW u, NEW v \in Tab, Sound(u, v, cookies, sessions)
      PROVE  Sound(u, v, cookies, rows)
  <2>1. v.session \in SessionIds \/ v.session = None
    BY DEF Tab, Orn
  <2> QED BY <1>5, <2>1 DEF Sound
<1>6. ASSUME NEW t \in Tabs, NEW v \in Tab, Idle(v), tab' = [tab EXCEPT ![t] = v] \/ tab' = tab,
             sessions' \in [SessionIds -> Orn(People)],
             \A x \in SessionIds : sessions'[x] \in {sessions[x], None},
             cookies' \in [oidc : Flight, session : Orn(SessionIds)], cookies'.oidc = cookies.oidc,
             upsets' \in 0 .. MaxUpsets, disabled' \subseteq People
      PROVE  AllSound'
  <2>1. \A u \in Tabs : tab[u] \in Tab /\ Sound(u, tab[u], cookies, sessions)
    BY <1>1 DEF AllSound, TypeOK
  <2>2. \A u \in Tabs : Sound(u, tab[u], cookies, sessions')
    BY <1>5, <1>6, <2>1
  <2>3. \A u \in Tabs : tab'[u] \in Tab /\ Sound(u, tab'[u], cookies, sessions')
    BY <1>1, <1>6, <2>1, <2>2, IdleIsSound DEF TypeOK
  <2>4. \A u \in Tabs : Sound(u, tab[u], cookies, sessions)'
    BY <1>6, <2>3 DEF Sound
  <2>5. TypeOK'
    BY <1>1, <1>6, <2>3 DEF TypeOK
  <2>6. OnlyGuests'
    BY <1>6 DEF AllSound, OnlyGuests
  <2> QED BY <2>4, <2>5, <2>6 DEF AllSound
<1>7. ASSUME NEW t \in Tabs, Logout(t) PROVE AllSound'
  <2> DEFINE v == [Shown EXCEPT !.at = "logout"]
  <2>1. tab' = [tab EXCEPT ![t] = v] /\ UNCHANGED <<cookies, disabled>> /\ Upset
    BY <1>7 DEF Logout
  <2>2. /\ sessions' \in [SessionIds -> Orn(People)]
        /\ \A x \in SessionIds : sessions'[x] \in {sessions[x], None}
    BY <1>1, <1>7 DEF Logout, TypeOK, Orn
  <2>3. v \in Tab /\ Idle(v)
    BY ShownIsIdle
  <2> HIDE DEF v
  <2> QED BY <1>1, <1>2, <1>6, <2>1, <2>2, <2>3 DEF TypeOK
<1>8. ASSUME NEW t \in Tabs, LoggedOut(t) PROVE AllSound'
  <2>1. /\ tab' = [tab EXCEPT ![t] = Shown] /\ UNCHANGED <<sessions, disabled, upsets>>
        /\ cookies' \in [oidc : Flight, session : Orn(SessionIds)] /\ cookies'.oidc = cookies.oidc
    BY <1>1, <1>8 DEF LoggedOut, Goto, TypeOK, Orn
  <2>2. /\ sessions' \in [SessionIds -> Orn(People)]
        /\ \A x \in SessionIds : sessions'[x] \in {sessions[x], None}
    BY <1>1, <2>1 DEF TypeOK
  <2> QED BY <1>1, <1>6, <2>1, <2>2, ShownIsIdle DEF TypeOK
<1>9. ASSUME \E s \in SessionIds : ExpireSession(s) PROVE AllSound'
  <2>1. UNCHANGED <<cookies, tab, disabled>> /\ Upset
    BY <1>9 DEF ExpireSession
  <2>2. /\ sessions' \in [SessionIds -> Orn(People)]
        /\ \A x \in SessionIds : sessions'[x] \in {sessions[x], None}
    BY <1>1, <1>9 DEF ExpireSession, TypeOK, Orn
  <2>3. \A u \in Tabs : Sound(u, tab[u], cookies, sessions')
    BY <1>1, <1>5, <2>2 DEF AllSound, TypeOK
  <2>4. \A u \in Tabs : Sound(u, tab[u], cookies, sessions)'
    BY <2>1, <2>3 DEF Sound
  <2> QED BY <1>1, <1>2, <2>1, <2>2, <2>4 DEF AllSound, TypeOK, OnlyGuests
<1>10. CASE ExpireFlight
  <2>1. UNCHANGED <<sessions, disabled>> /\ Upset
    BY <1>10 DEF ExpireFlight
  <2>2. cookies' \in [oidc : Flight, session : Orn(SessionIds)] /\ cookies'.oidc = NoFlight
    BY <1>1, <1>10 DEF ExpireFlight, TypeOK, Flight
  <2> DEFINE w(u) == [tab[u] EXCEPT !.crossed = @ \/ tab[u].state # None]
  <2>3. tab' = [u \in Tabs |-> w(u)]
    BY <1>10 DEF ExpireFlight
  <2>4. \A u \in Tabs : w(u) \in Tab /\ Sound(u, w(u), cookies', sessions)
    <3> SUFFICES ASSUME NEW u \in Tabs PROVE w(u) \in Tab /\ Sound(u, w(u), cookies', sessions)
      OBVIOUS
    <3>1. tab[u] \in Tab /\ Sound(u, tab[u], cookies, sessions) /\ cookies'.oidc.of # u
      BY <1>1, <2>2 DEF AllSound, TypeOK, NoFlight
    <3>2. /\ w(u) \in Tab /\ w(u).crossed = (tab[u].crossed \/ tab[u].state # None)
          /\ w(u).at = tab[u].at /\ w(u).page = tab[u].page /\ w(u).session = tab[u].session
          /\ w(u).state = tab[u].state /\ w(u).code = tab[u].code /\ w(u).flight = tab[u].flight
      BY <3>1 DEF Tab
    <3>3. w(u).state # None => w(u).crossed
      BY <3>2
    <3> QED BY <3>1, <3>2, <3>3 DEF Sound
  <2> HIDE DEF w
  <2>5. tab' \in [Tabs -> Tab] /\ \A u \in Tabs : Sound(u, tab'[u], cookies', sessions)
    BY <2>3, <2>4
  <2>6. \A u \in Tabs : Sound(u, tab[u], cookies, sessions)'
    BY <2>1, <2>5 DEF Sound
  <2> QED BY <1>1, <1>2, <2>1, <2>2, <2>5, <2>6 DEF AllSound, TypeOK, OnlyGuests
<1>11. ASSUME \E p \in People : Disable(p) PROVE AllSound'
  <2>1. UNCHANGED <<cookies, tab, sessions>> /\ Upset /\ disabled' \subseteq People
    BY <1>1, <1>11 DEF Disable, TypeOK
  <2>2. \A u \in Tabs : Sound(u, tab[u], cookies, sessions)'
    BY <2>1 DEF AllSound, Sound
  <2> QED BY <1>1, <1>2, <2>1, <2>2 DEF AllSound, TypeOK, OnlyGuests
<1> QED BY <1>3, <1>4, <1>7, <1>8, <1>9, <1>10, <1>11

(* While nothing disturbs, sessions are only passed on from one place of    *)
(* the browser to another, or created.                                      *)
Passed == \A s \in Held' : s \in Held \cup {None}

LEMMA ErrorHasNoSession == ASSUME NEW t \in Tabs, tab[t] \in Tab PROVE Error(t).session = None
<1>1. CASE Error(t) = [Shown EXCEPT !.at = "error"] BY <1>1 DEF Shown
<1>2. CASE Error(t) = [tab[t] EXCEPT !.at = "error", !.flight = NoFlight, !.session = None]
  BY <1>2 DEF Tab
<1> QED BY <1>1, <1>2 DEF Error

LEMMA AskingPasses == ASSUME NEW page, NEW jar PROVE Asking(page, jar).session \in {jar.session, None}
BY DEF Asking, Shown

(* A step of one tab passes sessions on if its record and the cookies do.   *)
LEMMA TabPasses ==
    ASSUME TypeOK, NEW t \in Tabs, NEW v, tab' = [tab EXCEPT ![t] = v] \/ tab' = Crossed(t, v),
           v.session \in Held \cup {None}, cookies'.session \in Held \cup {None}
    PROVE  Passed
<1>1. ASSUME NEW u \in Tabs, u # t PROVE tab'[u].session = tab[u].session
  <2>1. tab[u] \in Tab /\ tab \in [Tabs -> Tab] BY DEF TypeOK
  <2>2. CASE tab' = [tab EXCEPT ![t] = v] BY <1>1, <2>1, <2>2
  <2>3. CASE tab' = Crossed(t, v)
    <3>1. tab'[u] = [tab[u] EXCEPT !.crossed = @ \/ tab[u].state # None] BY <1>1, <2>3 DEF Crossed
    <3> QED BY <2>1, <3>1 DEF Tab
  <2> QED BY <2>2, <2>3
<1>2. tab'[t] = v BY DEF TypeOK, Crossed
<1>3. \A u \in Tabs : tab'[u].session \in Held \cup {None} BY <1>1, <1>2 DEF Held
<1> QED BY <1>3 DEF Passed, Held

LEMMA AnswerPasses ==
    ASSUME TypeOK, NEW t \in Tabs, Answer(t) \/ Fail(t) \/ \E page \in Pages : Visit(t, page)
    PROVE  (Passed /\ UNCHANGED <<sessions, disabled>>) \/ CreateSession(t)
<1> DEFINE H == Held \cup {None}
<1>0. tab[t] \in Tab /\ tab[t].session \in H /\ cookies.session \in H BY DEF TypeOK, Held
<1>1. ASSUME NEW v, tab' = [tab EXCEPT ![t] = v], v.session \in H, cookies' = cookies PROVE Passed
  BY <1>0, <1>1, TabPasses
<1>2. ASSUME NEW page \in Pages, Visit(t, page) PROVE Passed /\ UNCHANGED <<sessions, disabled>>
  <2>1. Asking(page, cookies).session \in H BY <1>0, AskingPasses
  <2> QED BY <1>1, <1>2, <2>1 DEF Visit
<1>3. ASSUME ShowHome(t) \/ ShowBySession(t) \/ SendToLogin(t)
      PROVE  Passed /\ UNCHANGED <<sessions, disabled>>
  <2> DEFINE v == [Shown EXCEPT !.at = "login", !.page = tab[t].page]
  <2>1. v.session = None /\ Shown.session = None
    BY DEF Shown
  <2>2. /\ tab' = [tab EXCEPT ![t] = Shown] \/ tab' = [tab EXCEPT ![t] = v]
        /\ UNCHANGED <<cookies, sessions, disabled>>
    BY <1>3 DEF ShowHome, ShowBySession, SendToLogin, Goto
  <2> HIDE DEF v
  <2> QED BY <1>1, <2>1, <2>2
<1>4. ASSUME Login(t) PROVE Passed /\ UNCHANGED <<sessions, disabled>>
  <2> DEFINE v == [tab[t] EXCEPT !.at = "provider", !.state = t]
  <2>1. /\ tab' = Crossed(t, v) /\ UNCHANGED <<sessions, disabled>>
        /\ cookies'.session = cookies.session
    BY <1>4 DEF Login, StartFlight, TypeOK
  <2>2. v.session = tab[t].session BY <1>0 DEF Tab
  <2> HIDE DEF v
  <2> QED BY <1>0, <2>1, <2>2, TabPasses
<1>5. ASSUME \E p \in People : SignInAt(t, p) PROVE Passed /\ UNCHANGED <<sessions, disabled>>
  <2>1. PICK p \in People : SignInAt(t, p) BY <1>5
  <2> DEFINE v == [tab[t] EXCEPT !.at = "callback", !.code = p, !.flight = FlightSent]
  <2>2. v.session = tab[t].session BY <1>0 DEF Tab
  <2>3. tab' = [tab EXCEPT ![t] = v] /\ UNCHANGED <<cookies, sessions, disabled>>
    BY <2>1 DEF SignInAt, Goto
  <2> HIDE DEF v
  <2> QED BY <1>0, <1>1, <2>2, <2>3
<1>6. ASSUME NEW v, tab' = [tab EXCEPT ![t] = v], v.session \in {Error(t).session, tab[t].session},
             cookies' = cookies
      PROVE  Passed
  BY <1>0, <1>1, <1>6, ErrorHasNoSession
<1>7. ASSUME GiveUp(t) \/ Fail(t) PROVE Passed /\ UNCHANGED <<sessions, disabled>>
  BY <1>6, <1>7 DEF GiveUp, Fail, Goto
<1>8. ASSUME CheckState(t) PROVE Passed /\ UNCHANGED <<sessions, disabled>>
  <2> DEFINE v == IF StateMatches(t) THEN [tab[t] EXCEPT !.at = "exchange"] ELSE Error(t)
  <2>1. v.session \in {Error(t).session, tab[t].session} BY <1>0 DEF Tab
  <2>2. tab' = [tab EXCEPT ![t] = v] /\ UNCHANGED <<cookies, sessions, disabled>>
    BY <1>8 DEF CheckState, Goto, CallbackStep
  <2> HIDE DEF v
  <2> QED BY <1>6, <2>1, <2>2
<1>9. ASSUME ExchangeCode(t) PROVE Passed /\ UNCHANGED <<sessions, disabled>>
  <2> DEFINE v == IF ~ Redeems(t) THEN Error(t)
                  ELSE IF AcceptableEmail(tab[t].code) THEN [tab[t] EXCEPT !.at = "resolve", !.spent = TRUE]
                  ELSE [Error(t) EXCEPT !.spent = TRUE]
  <2>1. [Error(t) EXCEPT !.spent = TRUE].session = Error(t).session
    BY <1>0 DEF Error, Shown, Tab
  <2>2. [tab[t] EXCEPT !.at = "resolve", !.spent = TRUE].session = tab[t].session BY <1>0 DEF Tab
  <2>3. v.session \in {Error(t).session, tab[t].session} BY <2>1, <2>2
  <2>4. tab' = [tab EXCEPT ![t] = v] /\ UNCHANGED <<cookies, sessions, disabled>>
    BY <1>9 DEF ExchangeCode, Goto, CallbackStep
  <2> HIDE DEF v
  <2> QED BY <1>6, <2>3, <2>4
<1>10. ASSUME Land(t) PROVE Passed /\ UNCHANGED <<sessions, disabled>>
  <2> DEFINE jar == [cookies EXCEPT !.session = tab[t].session, !.oidc = NoFlight]
             v == Asking(SafeRedirect(tab[t].flight.redirect), jar)
  <2>1. tab' = Crossed(t, v) /\ cookies' = jar /\ UNCHANGED <<sessions, disabled>> BY <1>10 DEF Land
  <2>2. jar.session = tab[t].session BY DEF TypeOK
  <2> HIDE DEF jar
  <2>3. v.session \in H BY <1>0, <2>2, AskingPasses
  <2> HIDE DEF v
  <2> QED BY <1>0, <2>1, <2>2, <2>3, TabPasses
<1>11. ASSUME LoggedOut(t) PROVE Passed /\ UNCHANGED <<sessions, disabled>>
  <2>1. /\ tab' = [tab EXCEPT ![t] = Shown] /\ Shown.session = None /\ cookies'.session = None
        /\ UNCHANGED <<sessions, disabled>>
    BY <1>11 DEF LoggedOut, Goto, Shown, TypeOK
  <2> QED BY <2>1, TabPasses
<1> QED BY <1>2, <1>3, <1>4, <1>5, <1>7, <1>8, <1>9, <1>10, <1>11 DEF Answer

(* The one session that is created is of a person who is welcome.           *)
LEMMA SessionsWorkStep == ASSUME SignInConstants, TypeOK, SessionsWork, [Next]_vars,
                                 \A t \in Tabs : tab[t].at = "resolve" => tab[t].code # None
                          PROVE  SessionsWork'
<1> SUFFICES ASSUME upsets' = 0 PROVE \A s \in Held' \ {None} : Mints(s)'
  BY DEF SessionsWork
<1>0. ~ Upset BY DEF TypeOK, Upset
<1>1. ASSUME UNCHANGED <<sessions, disabled>>, Passed, upsets = 0 PROVE \A s \in Held' \ {None} : Mints(s)'
  BY <1>1 DEF SessionsWork, Passed, Mints
<1>2. CASE UNCHANGED vars
  BY <1>1, <1>2 DEF vars, Passed, Held
<1>3. ASSUME NEW t \in Tabs, Answer(t) \/ Fail(t) \/ \E page \in Pages : Visit(t, page)
      PROVE  \A s \in Held' \ {None} : Mints(s)'
  <2>1. upsets = 0
    BY <1>3 DEF Answer, Fail, Visit, ShowHome, ShowBySession, SendToLogin, Login, StartFlight, GiveUp,
                SignInAt, CheckState, ExchangeCode, CreateSession, CallbackStep, Land, LoggedOut
  <2>2. CASE CreateSession(t)
    <3> DEFINE new == CHOOSE s \in SessionIds : s \notin Held
               p == tab[t].code
    <3>1. new \in SessionIds /\ new \notin Held /\ p \in People /\ tab[t] \in Tab
          /\ None \notin SessionIds \cup People
      BY <2>2 DEF CreateSession, Goto, TypeOK, Tab, Orn, SignInConstants
    <3>2. /\ tab' = [tab EXCEPT ![t] = IF Welcome(p) THEN [tab[t] EXCEPT !.at = "land", !.session = new]
                                       ELSE Error(t)]
          /\ sessions' = [x \in SessionIds |->
                IF x = new /\ Welcome(p) THEN p ELSE IF x \in Held THEN sessions[x] ELSE None]
          /\ cookies' = cookies /\ disabled' = disabled
      BY <2>2 DEF CreateSession, Goto, CallbackStep
    <3> HIDE DEF new
    <3>3. \A s \in Held' : s \in Held \cup {None} \/ (s = new /\ Welcome(p))
      <4>1. tab'[t].session = None \/ (tab'[t].session = new /\ Welcome(p))
        BY <3>1, <3>2, ErrorHasNoSession DEF TypeOK, Tab
      <4>2. \A u \in Tabs \ {t} : tab'[u].session = tab[u].session BY <3>2 DEF TypeOK
      <4> QED BY <3>2, <4>1, <4>2 DEF Held
    <3>4. \A s \in Held : s \in SessionIds \cup {None} BY DEF Held, TypeOK, Tab, Orn
    <3>5. ASSUME NEW s \in Held \ {None} PROVE Mints(s)'
      <4>1. Mints(s) /\ s \in SessionIds /\ s # new BY <2>1, <3>1, <3>4, <3>5 DEF SessionsWork
      <4>2. sessions'[s] = sessions[s] BY <3>2, <3>5, <4>1
      <4> QED BY <3>2, <4>1, <4>2 DEF Mints
    <3>6. ASSUME NEW s, s = new, Welcome(p) PROVE Mints(s)'
      <4>1. sessions'[s] = p BY <3>1, <3>2, <3>6
      <4> QED BY <3>1, <3>2, <3>6, <4>1 DEF Mints, Welcome
    <3>7. ASSUME NEW s \in Held' \ {None} PROVE Mints(s)'
      <4>1. s \in Held \ {None} \/ (s = new /\ Welcome(p)) BY <3>3, <3>7
      <4> QED BY <3>5, <3>6, <4>1
    <3> QED BY <3>7
  <2>3. CASE Passed /\ UNCHANGED <<sessions, disabled>> BY <1>1, <2>1, <2>3
  <2> QED BY <1>3, <2>2, <2>3, AnswerPasses
<1>4. Next => \E t \in Tabs : Answer(t) \/ Fail(t) \/ \E page \in Pages : Visit(t, page)
  BY <1>0 DEF Next, Reload, Logout, ExpireSession, ExpireFlight, Disable
<1> QED BY <1>2, <1>3, <1>4

(* The invariant holds of every behaviour.                                  *)
THEOREM SignInInvariant == Spec => []SignInIInv
<1> USE SignInConstants
<1>1. Init => AllSound
  <2> SUFFICES ASSUME Init PROVE AllSound
    OBVIOUS
  <2>1. \A t \in Tabs : tab[t] \in Tab /\ Sound(t, tab[t], cookies, sessions)
    BY ShownIsIdle, IdleIsSound DEF Init
  <2>2. TypeOK
    BY <2>1 DEF Init, TypeOK, Flight, Orn, SignInConstants
  <2> QED BY <2>1, <2>2 DEF AllSound, OnlyGuests, Init
<1>2. Init => SessionsWork
  <2>1. Init => Held \subseteq {None}
    BY DEF Init, Held, Shown
  <2> QED BY <2>1 DEF SessionsWork
<1>3. AllSound /\ [Next]_vars => AllSound'
  <2> SUFFICES ASSUME AllSound, [Next]_vars PROVE AllSound'
    OBVIOUS
  <2>1. ASSUME NEW t \in Tabs, Answer(t) PROVE AllSound'
    BY <2>1, AppPreserves, LoginPreserves, CallbackPreserves, CreateSessionPreserves, LandPreserves,
       UpsetsPreserve DEF Answer
  <2>2. ASSUME UNCHANGED vars PROVE AllSound'
    BY <2>2 DEF vars, AllSound, TypeOK, OnlyGuests, Sound
  <2> QED BY <2>1, <2>2, AppPreserves, UpsetsPreserve DEF Next
<1>4. AllSound /\ SessionsWork /\ [Next]_vars => SessionsWork'
  <2>1. AllSound => TypeOK /\ \A t \in Tabs : tab[t].at = "resolve" => tab[t].code # None
    BY DEF AllSound, Sound
  <2> QED BY <2>1, SessionsWorkStep
<1>5. AllSound /\ SessionsWork => SignInIInv
  BY InvariantIsPerTab
<1> QED BY <1>1, <1>2, <1>3, <1>4, <1>5, PTL DEF Spec

(* Undisturbed, a page that is asked for with a session is shown: the app   *)
(* sends nobody who has signed in to the login again (session.ts:44-81,     *)
(* routes.ts:111-134). It is the part of SignInEnds that needs no fairness. *)
THEOREM NobodySignsInTwice ==
    Spec => [][upsets = 0 => \A t \in Tabs : tab[t].at = "page" /\ tab[t].session # None
                  => tab'[t].at # "login"]_vars
<1> USE SignInConstants
<1>1. SignInIInv /\ [Next]_vars =>
        [upsets = 0 => \A t \in Tabs : tab[t].at = "page" /\ tab[t].session # None
            => tab'[t].at # "login"]_vars
  <2> SUFFICES ASSUME SignInIInv, Next, upsets = 0, NEW t \in Tabs, tab[t].at = "page",
                      tab[t].session # None, tab'[t].at = "login"
               PROVE  FALSE
    BY DEF vars
  <2>1. tab \in [Tabs -> Tab] /\ tab[t] \in Tab
    BY DEF SignInIInv, TypeOK
  <2>2. Mints(tab[t].session)
    BY DEF SignInIInv, SessionsWork, Held
  <2>3. ASSUME NEW u \in Tabs, NEW v, tab' = [tab EXCEPT ![u] = v], tab[u].at # "page" PROVE FALSE
    BY <2>1, <2>3
  <2>4. ASSUME NEW u \in Tabs, NEW v, tab' = Crossed(u, v), tab[u].at # "page" PROVE FALSE
    <3>1. tab'[t] = [tab[t] EXCEPT !.crossed = @ \/ tab[t].state # None]
      BY <2>4 DEF Crossed
    <3> QED BY <2>1, <3>1 DEF Tab
  <2>5. ASSUME NEW u \in Tabs, NEW from, NEW v, Goto(u, from, v), from # "page" PROVE FALSE
    BY <2>3, <2>5 DEF Goto
  <2>6. ASSUME NEW u \in Tabs, NEW v, tab' = [tab EXCEPT ![u] = v], v.at # "login" PROVE FALSE
    BY <2>1, <2>6
  <2>7. ASSUME NEW u \in Tabs, Answer(u) PROVE FALSE
    <3>1. ~ (ShowHome(u) \/ ShowBySession(u))
      BY <2>6 DEF ShowHome, ShowBySession, Goto, Shown
    <3>2. ~ SendToLogin(u)
      <4>1. CASE u = t
        BY <2>2, <4>1 DEF SendToLogin
      <4>2. CASE u # t
        BY <2>1, <4>2 DEF SendToLogin, Goto
      <4> QED BY <4>1, <4>2
    <3>3. ~ (GiveUp(u) \/ LoggedOut(u) \/ CheckState(u) \/ ExchangeCode(u))
      BY <2>5 DEF GiveUp, LoggedOut, CheckState, ExchangeCode
    <3>4. ~ (CreateSession(u) \/ \E p \in People : SignInAt(u, p))
      BY <2>5 DEF CreateSession, SignInAt
    <3>5. ~ (Login(u) \/ Land(u))
      BY <2>4 DEF Login, StartFlight, Land
    <3> QED BY <2>7, <3>1, <3>2, <3>3, <3>4, <3>5 DEF Answer
  <2>8. \A u \in Tabs : Error(u).at = "error" /\ \A page \in Pages : Asking(page, cookies).at = "page"
    BY DEF SignInIInv, TypeOK, Error, Asking, Shown, Tab
  <2>9. \A u \in Tabs : ~ (Fail(u) \/ Logout(u) \/ Reload(u) \/ \E page \in Pages : Visit(u, page))
    BY <2>3, <2>5, <2>6, <2>8 DEF Fail, Logout, Reload, Visit
  <2>10. ~ ((\E s \in SessionIds : ExpireSession(s)) \/ \E p \in People : Disable(p))
    BY DEF ExpireSession, Disable
  <2>11. ~ ExpireFlight
    <3>1. ASSUME ExpireFlight PROVE FALSE
      <4>1. tab'[t] = [tab[t] EXCEPT !.crossed = @ \/ tab[t].state # None]
        BY <3>1 DEF ExpireFlight
      <4> QED BY <2>1, <4>1 DEF Tab
    <3> QED BY <3>1
  <2> QED BY <2>7, <2>9, <2>10, <2>11 DEF Next
<1> QED BY <1>1, SignInInvariant, PTL DEF Spec

(* A completed sign-in is the tab's own (routes.ts:81-143).                 *)
THEOREM SignInLandsAsItsOwn == Spec => []LandsAsItsOwn
<1>1. SignInIInv => LandsAsItsOwn
  BY DEF SignInIInv
<1> QED BY <1>1, SignInInvariant, PTL

(* Sessions are of guests only (oidc.ts:198-222, routes.ts:101-128).        *)
THEOREM SessionsAreOfGuests == Spec => []OnlyGuests
<1>1. SignInIInv => OnlyGuests
  BY DEF SignInIInv
<1> QED BY <1>1, SignInInvariant, PTL

(* A callback is refused for its state only after a crossing (routes.ts:88).*)
THEOREM RefusalsHaveACause == Spec => RefusedOnlyIfCrossed
<1> USE SignInConstants
<1>1. SignInIInv /\ [Next]_vars =>
        [\A t \in Tabs : tab[t].at = "callback" /\ tab'[t].at = "error" => tab[t].crossed]_vars
  <2> SUFFICES ASSUME SignInIInv, Next, NEW t \in Tabs, tab[t].at = "callback", tab'[t].at = "error"
               PROVE  tab[t].crossed
    BY DEF vars
  <2>1. tab \in [Tabs -> Tab] /\ None \notin Tabs
    BY DEF SignInIInv, TypeOK, SignInConstants
  <2>2. ~ tab[t].crossed => StateMatches(t)
    BY <2>1 DEF SignInIInv, FlightKept, OwnFlights, StateMatches
  <2>3. ~ CheckState(t) \/ ~ StateMatches(t)
    BY <2>1 DEF CheckState, Goto, Tab
  <2>4. ASSUME NEW u \in Tabs, NEW v, tab' = [tab EXCEPT ![u] = v], tab[u].at # "callback" PROVE FALSE
    BY <2>1, <2>4
  <2>5. ASSUME NEW u \in Tabs, NEW v, tab[u].at # "callback", tab' = Crossed(u, v) PROVE FALSE
    <3>1. u # t
      BY <2>5
    <3>2. tab'[t] = [tab[t] EXCEPT !.crossed = @ \/ tab[t].state # None] /\ tab[t] \in Tab
      BY <2>1, <2>5, <3>1 DEF Crossed
    <3> QED BY <3>2 DEF Tab
  <2>6. ASSUME NEW u \in Tabs, NEW from, NEW v, Goto(u, from, v), from # "callback" PROVE FALSE
    BY <2>4, <2>6 DEF Goto
  <2>7. ASSUME NEW u \in Tabs, Answer(u) PROVE CheckState(t)
    <3>1. ASSUME CheckState(u) PROVE CheckState(t)
      BY <2>1, <3>1 DEF CheckState, Goto
    <3>2. ~ (ShowHome(u) \/ ShowBySession(u) \/ SendToLogin(u) \/ GiveUp(u) \/ LoggedOut(u))
      BY <2>6 DEF ShowHome, ShowBySession, SendToLogin, GiveUp, LoggedOut
    <3>3. ~ (ExchangeCode(u) \/ CreateSession(u) \/ \E p \in People : SignInAt(u, p))
      BY <2>6 DEF ExchangeCode, CreateSession, SignInAt
    <3>4. ~ (Login(u) \/ Land(u))
      BY <2>5 DEF Login, StartFlight, Land
    <3> QED BY <2>7, <3>1, <3>2, <3>3, <3>4 DEF Answer
  <2>8. \A u \in Tabs : ~ (Fail(u) \/ Logout(u) \/ Reload(u) \/ \E page \in Pages : Visit(u, page))
    BY <2>4, <2>6 DEF Fail, Logout, Reload, Visit
  <2>9. ~ ((\E s \in SessionIds : ExpireSession(s)) \/ \E p \in People : Disable(p))
    BY DEF ExpireSession, Disable
  <2>10. ~ ExpireFlight
    <3>1. ASSUME ExpireFlight PROVE FALSE
      <4>1. tab'[t] = [tab[t] EXCEPT !.crossed = @ \/ tab[t].state # None] /\ tab[t] \in Tab
        BY <2>1, <3>1 DEF ExpireFlight
      <4> QED BY <4>1 DEF Tab
    <3> QED BY <3>1
  <2> QED BY <2>2, <2>3, <2>7, <2>8, <2>9, <2>10 DEF Next
<1> QED BY <1>1, SignInInvariant, PTL DEF Spec, RefusedOnlyIfCrossed
=============================================================================
