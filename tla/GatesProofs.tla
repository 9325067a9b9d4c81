------------------------------ MODULE GatesProofs -----------------------------
(***************************************************************************)
(* Whatever gate rules an app configures, in any order, and whatever        *)
(* middlewares it puts in front of its handlers: the walk through the rules *)
(* decides as the rules say, and a handler is told only of callers whose    *)
(* credential has been of use while the request was under way.              *)
(***************************************************************************)
EXTENDS Gates, WellFoundedInduction, TLAPS

(***************************************************************************)
(* The walk: FirstFrom is the first applicable rule from a number on.       *)
(***************************************************************************)
LEMMA MinOfNaturals ==
  ASSUME NEW S \in SUBSET Nat, S # {}
  PROVE  Min(S) \in S /\ \A y \in S : Min(S) <= y
  <1> DEFINE less == {ss \in Nat \X Nat : ss[1] < ss[2]}
  <1>1. IsWellFoundedOn(less, Nat)
    BY NatLessThanWellFounded DEF OpToRel
  <1>2. \E x \in S : \A y \in S : ~ (<<y, x>> \in less)
    BY <1>1, WFMin
  <1>3. \A x, y \in Nat : y < x => <<y, x>> \in less
    OBVIOUS
  <1> HIDE DEF less
  <1>4. PICK x \in S : \A y \in S : ~ (<<y, x>> \in less)
    BY <1>2
  <1>5. ASSUME NEW y \in S PROVE x <= y
    <2>1. x \in Nat /\ y \in Nat
      OBVIOUS
    <2>2. ~ (y < x)
      BY <1>3, <1>4, <2>1
    <2>3. QED
      BY <2>1, <2>2
  <1>6. QED
    BY <1>4, <1>5 DEF Min

LEMMA RulesOfAnApp ==
  ASSUME app \in Apps, NEW p
  PROVE  /\ Len(app.gates) \in Nat
         /\ Applicable(p) \subseteq 1 .. Len(app.gates)
         /\ \A i \in Applicable(p) : app.gates[i] \in Rule
  BY GatesConstants DEF Applicable

LEMMA FirstRule ==
  ASSUME app \in Apps, NEW p, NEW i \in Nat
  PROVE  /\ FirstFrom(p, i) \in Applicable(p) \cup {Len(app.gates) + 1}
         /\ \A j \in Applicable(p) : j < FirstFrom(p, i) => j < i
         /\ FirstFrom(p, i) \in Nat
         /\ i <= Len(app.gates) + 1 => i <= FirstFrom(p, i)
  <1> DEFINE ahead == {j \in Applicable(p) : j >= i} \cup {Len(app.gates) + 1}
  <1>1. ahead \in SUBSET Nat /\ ahead # {}
    BY RulesOfAnApp
  <1>2. Min(ahead) \in ahead /\ \A y \in ahead : Min(ahead) <= y
    BY <1>1, MinOfNaturals
  <1>3. FirstFrom(p, i) = Min(ahead)
    BY DEF FirstFrom
  <1> HIDE DEF ahead
  <1>4. FirstFrom(p, i) \in ahead /\ \A y \in ahead : FirstFrom(p, i) <= y
    BY <1>2, <1>3
  <1>5. QED
    BY <1>1, <1>4, RulesOfAnApp DEF ahead

(***************************************************************************)
(* A request grows: what it carries does not change, and what has been of   *)
(* use or of none is only added to.                                         *)
(***************************************************************************)
Follows(g, q) ==
    /\ g.path = q.path /\ g.load = q.load /\ g.jar = q.jar
    /\ q.stood \subseteq g.stood /\ q.fell \subseteq g.fell

LEMMA Monotone ==
  ASSUME NEW q, NEW g, Follows(g, q)
  PROVE  /\ Token(g) = Token(q) /\ ApiKey(g) = ApiKey(q) /\ Humans(g) = Humans(q)
         /\ \A rule : Presented(g, rule) = Presented(q, rule)
         /\ \A i : PassedOver(q, i) => PassedOver(g, i)
         /\ \A i : LetsIn(q, i) => LetsIn(g, i)
         /\ \A i : TurnsAway(q, i) => TurnsAway(g, i)
         /\ Exhausted(q) => Exhausted(g)
         /\ RightlyServed(q) => RightlyServed(g)
         /\ DecidedBy(q, TurnsAway) => DecidedBy(g, TurnsAway)
  <1> USE DEF Follows
  <1>1. \A rule : Presented(g, rule) = Presented(q, rule)
    BY DEF Presented, Bearer
  <1>2. Token(g) = Token(q) /\ ApiKey(g) = ApiKey(q) /\ Humans(g) = Humans(q)
    BY DEF Token, ApiKey, Bearer, Humans
  <1>3. ASSUME NEW i PROVE PassedOver(q, i) => PassedOver(g, i)
    BY <1>1 DEF PassedOver
  <1>4. ASSUME NEW i PROVE LetsIn(q, i) => LetsIn(g, i)
    BY <1>1 DEF LetsIn
  <1>5. ASSUME NEW i PROVE TurnsAway(q, i) => TurnsAway(g, i)
    BY <1>1 DEF TurnsAway
  <1>6. Exhausted(q) => Exhausted(g)
    BY <1>3 DEF Exhausted
  <1>7. RightlyServed(q) => RightlyServed(g)
    BY <1>3, <1>4 DEF RightlyServed, DecidedBy
  <1>8. DecidedBy(q, TurnsAway) => DecidedBy(g, TurnsAway)
    BY <1>3, <1>5 DEF DecidedBy
  <1>9. QED
    BY <1>1, <1>2, <1>3, <1>4, <1>5, <1>6, <1>7, <1>8

LEMMA SamePresented ==
  ASSUME NEW q, NEW g, Follows(g, q), NEW rule
  PROVE  Presented(g, rule) = Presented(q, rule)
  BY Monotone

Grown(c) == [c EXCEPT !.stood = @ \cup (Carried(c) \cap (Good \cup live)),
                      !.fell  = @ \cup (Carried(c) \ (Good \cup Live))]

(* g is c, except that it has seen how what it carries stands now.          *)
Gained(g, c) ==
    /\ Follows(g, c)
    /\ g.pc = c.pc /\ g.html = c.html /\ g.stage = c.stage /\ g.rule = c.rule
    /\ g.missed = c.missed /\ g.cred = c.cred /\ g.ctx = c.ctx /\ g.fresh = c.fresh
    /\ g.result = c.result
    /\ Carried(c) \cap (Good \cup live) \subseteq g.stood
    /\ Carried(c) \ (Good \cup Live) \subseteq g.fell

LEMMA GrownGains ==
  ASSUME NEW c \in Request
  PROVE  Grown(c) \in Request /\ Gained(Grown(c), c)
  <1>1. Carried(c) \subseteq Creds
    BY DEF Carried
  <1>2. Grown(c) \in Request
    BY <1>1 DEF Grown, Request
  <1>3. Gained(Grown(c), c)
    BY <1>1 DEF Grown, Gained, Follows, Request
  <1>4. QED
    BY <1>2, <1>3

LEMMA SoundGrows ==
  ASSUME NEW c \in Request, NEW g \in Request, Sound(c), Gained(g, c)
  PROVE  Sound(g)
  <1>1. Follows(g, c)
    BY DEF Gained
  <1>a. /\ Token(g) = Token(c) /\ Humans(g) = Humans(c)
        /\ \A rule : Presented(g, rule) = Presented(c, rule)
        /\ \A i : PassedOver(c, i) => PassedOver(g, i)
    BY <1>1, Monotone
  <1>b. /\ g.path = c.path /\ g.pc = c.pc /\ g.stage = c.stage /\ g.rule = c.rule
        /\ g.missed = c.missed /\ g.cred = c.cred
    BY DEF Gained, Follows
  <1>c. Walking(c) => Walking(g)
    BY <1>a, <1>b DEF Walking
  <1>d. \A kind : InARule(c, kind) => InARule(g, kind)
    BY <1>b DEF InARule
  <1>2. Placed(g)
    <2>1. Placed(c)
      BY DEF Sound
    <2>2. QED
      BY <2>1, <1>a, <1>b, <1>c, <1>d DEF Placed
  <1>3. Known(g)
    BY <1>1, Monotone DEF Sound, Known, FoundBy, Gained, Follows
  <1>4. OnCourse(g)
    BY <1>1, Monotone DEF Sound, OnCourse, RightlyRefused, RightlyAnswered, Gained, Follows
  <1>5. QED
    BY <1>2, <1>3, <1>4 DEF Sound

(* Soundness is about the request and the configuration alone.              *)
LEMMA SoundStays ==
  ASSUME app' = app, NEW r, NEW g, req'[r] = g, Sound(g)
  PROVE  Sound(req[r])'
  <1>1. Placed(g) => Placed(req[r])'
    BY DEF Placed, Walking, InARule, PassedOver, Humans, Applicable
  <1>2. Known(g) => Known(req[r])'
    BY DEF Known, FoundBy
  <1>3. OnCourse(g) => OnCourse(req[r])'
    BY DEF OnCourse, RightlyServed, RightlyRefused, RightlyAnswered, DecidedBy, LetsIn, TurnsAway,
           PassedOver, Exhausted, Humans, Applicable
  <1>4. QED
    BY <1>1, <1>2, <1>3 DEF Sound

AllSound == \A u \in Requests : req[u] # Free => Sound(req[u])

RequestsTyped == app \in Apps /\ req \in [Requests -> {Free} \cup Request]

(* A step of one request is sound when what it makes of the request is,     *)
(* with the latest standing of its credentials; the others only grow.       *)
LEMMA MoveOne ==
  ASSUME RequestsTyped, AllSound, UNCHANGED app,
         NEW r \in Requests, NEW c \in Request, req[r].pc \notin {"free", "done"}, To(r, c),
         \A g \in Request : Gained(g, c) => Sound(g)
  PROVE  RequestsTyped' /\ AllSound'
  <1> USE DEF RequestsTyped
  <1>1. \A u \in Requests : req'[u] =
            IF req[u].pc \in {"free", "done"} THEN req[u]
            ELSE IF u = r THEN Grown(c) ELSE Grown(req[u])
    BY DEF To, All, Grown
  <1>2. DOMAIN req' = Requests /\ req' = [u \in Requests |-> req'[u]]
    BY DEF To, All
  <1>3. ASSUME NEW u \in Requests
        PROVE  req'[u] \in {Free} \cup Request /\ (req'[u] # Free => Sound(req[u])')
    <2>1. CASE req[u].pc \in {"free", "done"}
      BY <1>1, <2>1, SoundStays DEF AllSound
    <2>2. CASE req[u].pc \notin {"free", "done"} /\ u # r
      <3>1. req[u] \in Request /\ Sound(req[u])
        BY <2>2 DEF AllSound, Free
      <3>2. Grown(req[u]) \in Request /\ Sound(Grown(req[u]))
        BY <3>1, GrownGains, SoundGrows
      <3>3. QED
        BY <1>1, <2>2, <3>2, SoundStays
    <2>3. CASE u = r
      <3>1. Grown(c) \in Request /\ Sound(Grown(c))
        BY GrownGains
      <3>2. QED
        BY <1>1, <2>3, <3>1, SoundStays
    <2>4. QED
      BY <2>1, <2>2, <2>3
  <1>4. QED
    BY <1>2, <1>3 DEF AllSound

LEMMA MoveNone ==
  ASSUME RequestsTyped, AllSound, UNCHANGED app, All(req)
  PROVE  RequestsTyped' /\ AllSound'
  <1> USE DEF RequestsTyped
  <1>1. \A u \in Requests : req'[u] =
            IF req[u].pc \in {"free", "done"} THEN req[u] ELSE Grown(req[u])
    BY DEF All, Grown
  <1>2. DOMAIN req' = Requests /\ req' = [u \in Requests |-> req'[u]]
    BY DEF All
  <1>3. ASSUME NEW u \in Requests
        PROVE  req'[u] \in {Free} \cup Request /\ (req'[u] # Free => Sound(req[u])')
    <2>1. CASE req[u].pc \in {"free", "done"}
      BY <1>1, <2>1, SoundStays DEF AllSound
    <2>2. CASE req[u].pc \notin {"free", "done"}
      <3>1. req[u] \in Request /\ Sound(req[u])
        BY <2>2 DEF AllSound, Free
      <3>2. Grown(req[u]) \in Request /\ Sound(Grown(req[u]))
        BY <3>1, GrownGains, SoundGrows
      <3>3. QED
        BY <1>1, <2>2, <3>2, SoundStays
    <2>3. QED
      BY <2>1, <2>2
  <1>4. QED
    BY <1>2, <1>3 DEF AllSound

(***************************************************************************)
(* What the helpers make of a request.                                      *)
(***************************************************************************)
Callers == Creds \cup Personas \cup {None, "anonymous", "machine", "open"}

LEMMA AdmittedShape ==
  ASSUME NEW q \in Request, NEW who \in Callers
  PROVE  LET c == Admitted(q, who) IN
         /\ c \in Request /\ Follows(c, q) /\ Carried(c) = Carried(q)
         /\ c.pc = "middleware" /\ c.stage = q.stage + 1 /\ c.ctx = who
         /\ c.rule = q.rule /\ c.missed = q.missed
  <1> DEFINE c == Admitted(q, who)
  <1>1. c \in Request
    <2> DEFINE n == q.stage + 1
    <2>1. n \in Nat
      BY DEF Request
    <2>2. c = [q EXCEPT !.pc = "middleware", !.stage = n, !.ctx = who]
      BY DEF Admitted
    <2> HIDE DEF n, c
    <2>3. QED
      BY <2>1, <2>2 DEF Request, Callers
  <1>2. Follows(c, q) /\ Carried(c) = Carried(q)
    BY DEF Admitted, Request, Follows, Carried
  <1>3. QED
    BY <1>1, <1>2 DEF Admitted, Request

LEMMA RefusedShape ==
  ASSUME NEW q \in Request, NEW why \in Results
  PROVE  LET c == Refused(q, why) IN
         /\ c \in Request /\ Follows(c, q) /\ Carried(c) = Carried(q)
         /\ c.pc = "refused" /\ c.stage = q.stage /\ c.ctx = q.ctx
         /\ c.rule = q.rule /\ c.missed = q.missed /\ c.result = why
  <1> DEFINE c == Refused(q, why)
  <1>1. c \in Request
    BY DEF Refused, Request
  <1>2. Follows(c, q) /\ Carried(c) = Carried(q)
    BY DEF Refused, Request, Follows, Carried
  <1>3. QED
    BY <1>1, <1>2 DEF Refused, Request

LEMMA AnsweredShape ==
  ASSUME NEW q \in Request, NEW what \in Results
  PROVE  LET c == Answered(q, what) IN
         /\ c \in Request /\ Follows(c, q) /\ Carried(c) = Carried(q)
         /\ c.pc = "done" /\ c.stage = q.stage /\ c.ctx = q.ctx /\ c.result = what
  <1> DEFINE c == Answered(q, what)
  <1>1. c \in Request
    BY DEF Answered, Request
  <1>2. Follows(c, q) /\ Carried(c) = Carried(q)
    BY DEF Answered, Request, Follows, Carried
  <1>3. QED
    BY <1>1, <1>2 DEF Answered, Request

LEMMA WalkShape ==
  ASSUME app \in Apps, NEW q \in Request
  PROVE  LET c == Walk(q) IN
         /\ c \in Request /\ Follows(c, q) /\ Carried(c) = Carried(q)
         /\ c.pc = "rules" /\ c.stage = q.stage /\ c.ctx = q.ctx
         /\ c.rule = FirstFrom(q.path, 1) /\ c.missed = FALSE
  <1> DEFINE c == Walk(q)
  <1>1. FirstFrom(q.path, 1) \in Nat
    BY FirstRule
  <1>2. c \in Request
    BY <1>1 DEF Walk, Request
  <1>3. Follows(c, q) /\ Carried(c) = Carried(q)
    BY DEF Walk, Request, Follows, Carried
  <1>4. QED
    BY <1>2, <1>3 DEF Walk, Request

LEMMA OnwardShape ==
  ASSUME app \in Apps, NEW q \in Request
  PROVE  LET c == Onward(q) IN
         /\ c \in Request /\ Follows(c, q) /\ Carried(c) = Carried(q)
         /\ c.pc = "rules" /\ c.stage = q.stage /\ c.ctx = q.ctx
         /\ c.rule = FirstFrom(q.path, q.rule + 1) /\ c.missed = q.missed
  <1> DEFINE c == Onward(q)
  <1>1. q.rule + 1 \in Nat
    BY DEF Request
  <1>2. FirstFrom(q.path, q.rule + 1) \in Nat
    BY <1>1, FirstRule
  <1>3. c \in Request
    BY <1>2 DEF Onward, Request
  <1>4. Follows(c, q) /\ Carried(c) = Carried(q)
    BY DEF Onward, Request, Follows, Carried
  <1>5. QED
    BY <1>3, <1>4 DEF Onward, Request

(***************************************************************************)
(* Where a request is, and what it carries.                                 *)
(***************************************************************************)
LEMMA Line ==
  ASSUME NEW q \in Request
  PROVE  LET line == Pipelines[q.path] IN
         /\ Len(line) \in Nat \ {0}
         /\ line \in Seq({"auth", "key", "capability"})
         /\ \A i \in 1 .. Len(line) : line[i] \in {"auth", "key", "capability"}
         /\ q.stage \in Nat
  BY GatesConstants DEF Request

LEMMA StageIs ==
  ASSUME NEW r, req[r] \in Request, Placed(req[r])
  PROVE  LET q == req[r]
             line == Pipelines[q.path]
         IN  /\ q.stage \in 1 .. Len(line) => Stage(r) = line[q.stage]
             /\ q.stage = Len(line) + 1 => Stage(r) = "handler"
             /\ Stage(r) # "handler" => q.stage \in 1 .. Len(line)
  <1> DEFINE q == req[r]
             line == Pipelines[q.path]
  <1>1. q.stage \in 1 .. Len(line) + 1
    BY DEF Placed
  <1>2. line \in Seq({"auth", "key", "capability"}) /\ Len(line) \in Nat
    BY Line
  <1>3. Stage(r) = (line \o <<"handler">>)[q.stage]
    BY DEF Stage
  <1> HIDE DEF line
  <1>4. q.stage \in 1 .. Len(line) => Stage(r) = line[q.stage]
    BY <1>2, <1>3
  <1>5. q.stage = Len(line) + 1 => Stage(r) = "handler"
    BY <1>2, <1>3
  <1>6. QED
    BY <1>1, <1>2, <1>4, <1>5 DEF line

LEMMA CarriedFacts ==
  ASSUME app \in Apps, NEW q \in Request
  PROVE  /\ q.jar.session \in Creds => q.jar.session \in Carried(q)
         /\ q.jar.token \in Creds => q.jar.token \in Carried(q)
         /\ Token(q) \in Creds => Token(q) \in Carried(q)
         /\ \A rule \in Rule : Presented(q, rule) \in Creds => Presented(q, rule) \in Carried(q)
  <1>1. None \notin Creds
    BY GatesConstants
  <1>2. {"authorization", "token", "opice_read"} \subseteq Places
    BY DEF Places
  <1>3. \A rule \in Rule : rule.at \in Places
    BY DEF Rule
  <1>4. QED
    BY <1>1, <1>2, <1>3 DEF Carried, Token, Presented, Bearer

(***************************************************************************)
(* The ways in which a rule of a walk ends.                                 *)
(***************************************************************************)
AtAuth(q) == /\ q.pc \in {"rules", "key", "session"}
             /\ Pipelines[q.path][q.stage] = "auth"

LEMMA SameContext ==
  ASSUME NEW q, NEW g, Follows(g, q), Known(q), g.ctx = q.ctx
  PROVE  (g.ctx \in Creds => g.ctx \in g.stood) /\ (g.ctx \in Personas \cup {"open"} => app.dev)
  BY DEF Known, Follows

LEMMA LetInByRule ==
  ASSUME app \in Apps, NEW q \in Request, NEW g \in Request, Sound(q), Follows(g, q),
         AtAuth(q), q.rule \in Applicable(q.path), LetsIn(g, q.rule),
         g.pc = "middleware", g.stage = q.stage + 1,
         g.ctx \in Creds => g.ctx \in g.stood, g.ctx \notin Personas \cup {"open"}
  PROVE  Sound(g)
  <1>1. Placed(q) /\ Walking(q) /\ q.stage \in 1 .. Len(Pipelines[q.path])
    BY Line DEF Sound, Placed, AtAuth
  <1>2. g.path = q.path
    BY DEF Follows
  <1>3. Placed(g)
    BY <1>1, <1>2, Line DEF Placed
  <1>4. Known(g)
    BY <1>1, <1>2, Line DEF Known, FoundBy, AtAuth
  <1>5. RightlyServed(g)
    <2>1. \A j \in Applicable(q.path) : j < q.rule => PassedOver(g, j)
      BY <1>1, Monotone DEF Walking
    <2>2. QED
      BY <1>1, <1>2, <2>1 DEF RightlyServed, DecidedBy, Walking
  <1>6. QED
    BY <1>3, <1>4, <1>5 DEF Sound, OnCourse

LEMMA TurnedAwayByRule ==
  ASSUME app \in Apps, NEW q \in Request, NEW g \in Request, Sound(q), Follows(g, q),
         AtAuth(q), q.rule \in Applicable(q.path), TurnsAway(g, q.rule),
         g.pc = "refused", g.stage = q.stage, g.ctx = q.ctx,
         g.result \in {"invalid_key", "disabled"}
  PROVE  Sound(g)
  <1>1. Placed(q) /\ Walking(q) /\ q.stage \in 1 .. Len(Pipelines[q.path])
    BY Line DEF Sound, Placed, AtAuth
  <1>2. g.path = q.path
    BY DEF Follows
  <1>3. Placed(g)
    BY <1>1, <1>2, Line DEF Placed, AtAuth
  <1>4. Known(g)
    BY SameContext DEF Known, Sound
  <1>5. RightlyRefused(g)
    <2>1. \A j \in Applicable(q.path) : j < q.rule => PassedOver(g, j)
      BY <1>1, Monotone DEF Walking
    <2>2. QED
      BY <1>1, <1>2, <2>1 DEF RightlyRefused, DecidedBy, Walking
  <1>6. QED
    BY <1>3, <1>4, <1>5 DEF Sound, OnCourse

LEMMA PassedOnByRule ==
  ASSUME app \in Apps, NEW q \in Request, NEW g \in Request, Sound(q), Follows(g, q),
         AtAuth(q), q.rule \in Applicable(q.path), PassedOver(g, q.rule),
         g.pc = "rules", g.stage = q.stage, g.ctx = q.ctx,
         g.rule = FirstFrom(q.path, q.rule + 1),
         g.missed <=> q.missed \/ app.gates[q.rule].kind = "human"
  PROVE  Sound(g)
  <1>1. Placed(q) /\ Walking(q) /\ q.stage \in 1 .. Len(Pipelines[q.path]) /\ ~app.dev
    BY Line DEF Sound, Placed, AtAuth
  <1>2. g.path = q.path
    BY DEF Follows
  <1>3. Walking(g)
    <2>1. q.rule \in Nat /\ q.rule + 1 \in Nat /\ Applicable(q.path) \subseteq Nat
      BY RulesOfAnApp DEF Request
    <2>2. /\ g.rule \in Applicable(q.path) \cup {Len(app.gates) + 1}
          /\ \A j \in Applicable(q.path) : j < g.rule => j < q.rule + 1
          /\ g.rule \in Nat
      BY <2>1, FirstRule
    <2>3. \A j \in Applicable(q.path) : j < q.rule + 1 => j < q.rule \/ j = q.rule
      BY <2>1
    <2>4. \A j \in Applicable(q.path) : j < g.rule => PassedOver(g, j)
      BY <1>1, <2>2, <2>3, Monotone DEF Walking
    <2>5. q.rule < g.rule
      <3>1. q.rule + 1 <= Len(app.gates) + 1
        BY RulesOfAnApp
      <3>2. QED
        BY <2>1, <2>2, <3>1, FirstRule
    <2>6. Humans(g) = Humans(q) /\ Humans(q) \subseteq Applicable(q.path)
          /\ (q.rule \in Humans(q) <=> app.gates[q.rule].kind = "human")
      BY Monotone DEF Humans
    <2>7. \A j \in Humans(q) : j < q.rule => j < g.rule
      BY <2>1, <2>2, <2>5, <2>6
    <2>8. g.missed <=> \E j \in Humans(g) : j < g.rule
      <3>1. CASE q.missed \/ q.rule \in Humans(q)
        BY <1>1, <2>5, <2>6, <2>7, <3>1 DEF Walking
      <3>2. CASE ~q.missed /\ q.rule \notin Humans(q)
        BY <1>1, <2>2, <2>3, <2>6, <3>2 DEF Walking
      <3>3. QED
        BY <3>1, <3>2
    <2>9. QED
      BY <1>1, <1>2, <2>2, <2>4, <2>8 DEF Walking
  <1>4. Placed(g)
    BY <1>1, <1>2, <1>3, Line DEF Placed, AtAuth
  <1>5. Known(g)
    BY SameContext DEF Known, Sound
  <1>6. QED
    BY <1>4, <1>5 DEF Sound, OnCourse

(***************************************************************************)
(* The ways in which a middleware that is no walk ends.                     *)
(***************************************************************************)
LEMMA Passes ==
  ASSUME NEW q \in Request, NEW g \in Request, Follows(g, q),
         q.stage \in 1 .. Len(Pipelines[q.path]),
         g.pc = "middleware", g.stage = q.stage + 1,
         g.ctx \in Creds => g.ctx \in g.stood, g.ctx \in Personas \cup {"open"} => app.dev,
         FoundBy(g, Pipelines[q.path][q.stage]),
         ~app.dev /\ Pipelines[q.path] = <<"auth">> => RightlyServed(g)
  PROVE  Sound(g)
  <1>1. g.path = q.path
    BY DEF Follows
  <1>2. g.stage - 1 = q.stage /\ g.stage \in 1 .. Len(Pipelines[q.path]) + 1
    BY Line
  <1>3. Placed(g)
    BY <1>1, <1>2 DEF Placed
  <1>4. Known(g)
    BY <1>1, <1>2 DEF Known
  <1>5. OnCourse(g)
    BY <1>1 DEF OnCourse
  <1>6. QED
    BY <1>3, <1>4, <1>5 DEF Sound

LEMMA Refuses ==
  ASSUME NEW q \in Request, NEW g \in Request, Follows(g, q), Known(q),
         q.stage \in 1 .. Len(Pipelines[q.path]),
         Pipelines[q.path][q.stage] \in {"auth", "capability"},
         g.pc = "refused", g.stage = q.stage, g.ctx = q.ctx, g.result # "served",
         ~app.dev /\ Pipelines[q.path] = <<"auth">> => RightlyRefused(g)
  PROVE  Sound(g)
  <1>1. g.path = q.path
    BY DEF Follows
  <1>2. Placed(g)
    BY <1>1, Line DEF Placed
  <1>3. Known(g)
    BY SameContext DEF Known
  <1>4. QED
    BY <1>1, <1>2, <1>3 DEF Sound, OnCourse

LEMMA Answers ==
  ASSUME NEW q \in Request, NEW g \in Request, Follows(g, q), Known(q), Placed(q),
         g.pc = "done", g.stage = q.stage, g.ctx = q.ctx,
         g.result = "served" => FoundBy(g, Pipelines[q.path][Len(Pipelines[q.path])]),
         Pipelines[q.path] = <<"capability">> => g.result \in {"served", "404", "500"},
         ~app.dev /\ Pipelines[q.path] = <<"auth">> => RightlyAnswered(g)
  PROVE  Sound(g)
  <1>1. g.path = q.path
    BY DEF Follows
  <1>2. Placed(g)
    BY <1>1 DEF Placed
  <1>3. Known(g)
    BY <1>1, SameContext DEF Known
  <1>4. QED
    BY <1>1, <1>2, <1>3 DEF Sound, OnCourse

LEMMA FollowsTwice ==
  ASSUME NEW q, NEW c, NEW g, Follows(c, q), Gained(g, c)
  PROVE  Follows(g, q)
  BY DEF Gained, Follows

(***************************************************************************)
(* One step of one request.                                                 *)
(***************************************************************************)
Inv == RequestsTyped /\ AllSound /\ live \subseteq Creds

LEMMA OfARequest ==
  ASSUME Inv, NEW r \in Requests, req[r].pc # "free"
  PROVE  /\ req[r] \in Request /\ Sound(req[r]) /\ Placed(req[r]) /\ Known(req[r])
         /\ app \in Apps
  BY DEF Inv, RequestsTyped, AllSound, Free, Sound

LEMMA MoveSound ==
  ASSUME Inv, UNCHANGED app, NEW r \in Requests, NEW c \in Request,
         req[r].pc \notin {"free", "done"}, To(r, c),
         \A g \in Request : Gained(g, c) => Sound(g)
  PROVE  (RequestsTyped /\ AllSound)'
  BY MoveOne DEF Inv

LEMMA DevAuthStep ==
  ASSUME Inv, NEW r \in Requests, DevAuth(r)
  PROVE  (RequestsTyped /\ AllSound)'
  <1> DEFINE q == req[r]
             who == Persona(q)
             why == IF who = None THEN "no_session" ELSE "unknown_principal"
  <1>1. /\ q \in Request /\ q.pc = "middleware" /\ app.dev /\ UNCHANGED app
        /\ q.stage \in 1 .. Len(Pipelines[q.path]) /\ Pipelines[q.path][q.stage] = "auth"
        /\ Known(q)
    BY OfARequest, StageIs DEF DevAuth, At, Step
  <1>2. CASE who \in Personas
    <2>1. To(r, Admitted(q, who))
      BY <1>2 DEF DevAuth, Step
    <2>2. who \in Callers /\ who \notin Creds
      BY <1>2, GatesConstants DEF Callers
    <2>3. ASSUME NEW g \in Request, Gained(g, Admitted(q, who)) PROVE Sound(g)
      <3>1. Follows(g, q) /\ g.pc = "middleware" /\ g.stage = q.stage + 1 /\ g.ctx = who
        BY <1>1, <2>2, <2>3, AdmittedShape, FollowsTwice DEF Gained
      <3>2. FoundBy(g, Pipelines[q.path][q.stage])
        BY <1>1 DEF FoundBy
      <3>3. QED
        BY <1>1, <2>2, <3>1, <3>2, Passes
    <2>4. QED
      BY <1>1, <2>1, <2>2, <2>3, AdmittedShape, MoveSound
  <1>3. CASE who \notin Personas
    <2>0. why \in Results /\ why # "served"
      BY DEF Results
    <2>1. To(r, Refused(q, why))
      BY <1>3 DEF DevAuth, Step
    <2> HIDE DEF why
    <2>2. ASSUME NEW g \in Request, Gained(g, Refused(q, why)) PROVE Sound(g)
      BY <1>1, <2>0, <2>2, RefusedShape, FollowsTwice, Refuses DEF Gained
    <2>3. QED
      BY <1>1, <2>0, <2>1, <2>2, RefusedShape, MoveSound
  <1>4. QED
    BY <1>2, <1>3

LEMMA AuthStep ==
  ASSUME Inv, NEW r \in Requests, Auth(r)
  PROVE  (RequestsTyped /\ AllSound)'
  <1> DEFINE q == req[r]
  <1>1. /\ q \in Request /\ q.pc = "middleware" /\ ~app.dev /\ UNCHANGED app /\ app \in Apps
        /\ q.stage \in 1 .. Len(Pipelines[q.path]) /\ Pipelines[q.path][q.stage] = "auth"
        /\ Known(q)
    BY OfARequest, StageIs DEF Auth, At, Step
  <1>2. CASE Applicable(q.path) = {}
    <2>1. To(r, Refused(q, "no_rule"))
      BY <1>2 DEF Auth, Step
    <2> DEFINE c == Refused(q, "no_rule")
    <2>2. /\ c \in Request /\ Follows(c, q)
          /\ c.pc = "refused" /\ c.stage = q.stage /\ c.ctx = q.ctx /\ c.result = "no_rule"
      <3>1. "no_rule" \in Results
        BY DEF Results
      <3>2. QED
        BY <1>1, <3>1, RefusedShape
    <2> HIDE DEF c
    <2>3. ASSUME NEW g \in Request, Gained(g, c) PROVE Sound(g)
      <3>1. /\ Follows(g, q) /\ g.path = q.path
            /\ g.pc = "refused" /\ g.stage = q.stage /\ g.ctx = q.ctx /\ g.result = "no_rule"
        BY <2>2, <2>3, FollowsTwice DEF Gained, Follows
      <3>2. RightlyRefused(g)
        BY <1>2, <3>1 DEF RightlyRefused
      <3>3. QED
        BY <1>1, <3>1, <3>2, Refuses
    <2>4. QED
      BY <1>1, <2>1, <2>2, <2>3, MoveSound DEF c
  <1>3. CASE Applicable(q.path) # {}
    <2>1. To(r, Walk(q))
      BY <1>3 DEF Auth, Step
    <2>2. ASSUME NEW g \in Request, Gained(g, Walk(q)) PROVE Sound(g)
      <3>1. /\ Follows(g, q) /\ g.pc = "rules" /\ g.stage = q.stage /\ g.ctx = q.ctx
            /\ g.rule = FirstFrom(q.path, 1) /\ g.missed = FALSE /\ g.path = q.path
        BY <1>1, <2>2, WalkShape, FollowsTwice DEF Gained, Follows
      <3>2. /\ g.rule \in Applicable(q.path) \cup {Len(app.gates) + 1}
            /\ \A j \in Applicable(q.path) : ~ (j < g.rule)
        BY <1>1, <3>1, FirstRule, RulesOfAnApp
      <3>3. Walking(g)
        BY <1>3, <3>1, <3>2 DEF Walking, Humans
      <3>4. Placed(g)
        BY <1>1, <3>1, <3>3, Line DEF Placed
      <3>5. Known(g)
        BY <1>1, <3>1, SameContext DEF Known
      <3>6. QED
        BY <3>1, <3>4, <3>5 DEF Sound, OnCourse
    <2>3. QED
      BY <1>1, <2>1, <2>2, WalkShape, MoveSound
  <1>4. QED
    BY <1>2, <1>3

(* A rule lets in whoever is known by a good credential that it looks at;   *)
(* c is what becomes of the request.                                        *)
LEMMA LetInStep ==
  ASSUME Inv, UNCHANGED app, NEW r \in Requests, AtAuth(req[r]),
         req[r].rule \in Applicable(req[r].path), NEW c \in Request, To(r, c),
         Follows(c, req[r]), Carried(c) = Carried(req[r]),
         c.pc = "middleware", c.stage = req[r].stage + 1, c.ctx \notin Personas \cup {"open"},
         c.ctx \in Creds => c.ctx \in Carried(req[r]) \cap (Good \cup live),
         LET rule == app.gates[req[r].rule] IN
         \/ rule.kind = "public"
         \/ rule.kind = "service" /\ c.ctx \in Creds /\ c.ctx = Presented(req[r], rule)
         \/ rule.kind = "human" /\ c.ctx \in Creds /\ c.ctx \in {req[r].jar.session, req[r].jar.token}
  PROVE  (RequestsTyped /\ AllSound)'
  <1> DEFINE q == req[r]
  <1>1. q \in Request /\ Sound(q) /\ app \in Apps /\ q.pc \notin {"free", "done"}
    BY OfARequest DEF AtAuth
  <1>2. ASSUME NEW g \in Request, Gained(g, c) PROVE Sound(g)
    <2>1. /\ Follows(g, q) /\ g.pc = "middleware" /\ g.stage = q.stage + 1 /\ g.ctx = c.ctx
          /\ g.jar = q.jar
      BY <1>2, FollowsTwice DEF Gained, Follows
    <2>2. g.ctx \in Creds => g.ctx \in g.stood
      BY <1>2, <2>1 DEF Gained
    <2>3. LetsIn(g, q.rule)
      <3>1. Presented(g, app.gates[q.rule]) = Presented(q, app.gates[q.rule])
        BY <2>1, SamePresented
      <3>2. QED
        BY <2>1, <2>2, <3>1 DEF LetsIn
    <2>4. QED
      BY <1>1, <2>1, <2>2, <2>3, LetInByRule
  <1>3. QED
    BY <1>1, <1>2, MoveSound

LEMMA TurnAwayStep ==
  ASSUME Inv, UNCHANGED app, NEW r \in Requests, AtAuth(req[r]),
         req[r].rule \in Applicable(req[r].path), NEW why \in {"invalid_key", "disabled"},
         To(r, Refused(req[r], why)),
         LET w == Presented(req[r], app.gates[req[r].rule]) IN
         /\ app.gates[req[r].rule].kind = "service" /\ w # None
         /\ w \notin Creds \/ w \in (Carried(req[r]) \ (Good \cup Live)) \cup Sessions
  PROVE  (RequestsTyped /\ AllSound)'
  <1> DEFINE q == req[r]
             c == Refused(q, why)
  <1>1. q \in Request /\ Sound(q) /\ app \in Apps /\ q.pc \notin {"free", "done"}
    BY OfARequest DEF AtAuth
  <1>2. why \in Results
    BY DEF Results
  <1>3. /\ c \in Request /\ Follows(c, q) /\ Carried(c) = Carried(q)
        /\ c.pc = "refused" /\ c.stage = q.stage /\ c.ctx = q.ctx /\ c.result = why
    BY <1>1, <1>2, RefusedShape
  <1> HIDE DEF c
  <1>4. ASSUME NEW g \in Request, Gained(g, c) PROVE Sound(g)
    <2>1. /\ Follows(g, q) /\ g.pc = "refused" /\ g.stage = q.stage /\ g.ctx = q.ctx
          /\ g.result = why /\ Carried(q) \ (Good \cup Live) \subseteq g.fell
      BY <1>3, <1>4, FollowsTwice DEF Gained
    <2>2. TurnsAway(g, q.rule)
      <3>1. Presented(g, app.gates[q.rule]) = Presented(q, app.gates[q.rule])
        BY <2>1, SamePresented
      <3>2. QED
        BY <2>1, <3>1 DEF TurnsAway
    <2>3. QED
      BY <1>1, <2>1, <2>2, TurnedAwayByRule
  <1>5. QED
    BY <1>1, <1>3, <1>4, MoveSound DEF c

LEMMA PassOnStep ==
  ASSUME Inv, UNCHANGED app, NEW r \in Requests, AtAuth(req[r]),
         req[r].rule \in Applicable(req[r].path), NEW c \in Request, To(r, c),
         Follows(c, req[r]), Carried(c) = Carried(req[r]),
         c.pc = "rules", c.stage = req[r].stage, c.ctx = req[r].ctx,
         c.rule = FirstFrom(req[r].path, req[r].rule + 1),
         LET rule == app.gates[req[r].rule] IN
         \/ rule.kind = "service" /\ Presented(req[r], rule) = None /\ c.missed = req[r].missed
         \/ /\ rule.kind = "human" /\ c.missed = TRUE
            /\ \/ req[r].jar.session = None
               \/ req[r].jar.session \in Carried(req[r]) \ (Good \cup Live)
  PROVE  (RequestsTyped /\ AllSound)'
  <1> DEFINE q == req[r]
  <1>1. q \in Request /\ Sound(q) /\ app \in Apps /\ q.pc \notin {"free", "done"}
    BY OfARequest DEF AtAuth
  <1>2. ASSUME NEW g \in Request, Gained(g, c) PROVE Sound(g)
    <2>1. /\ Follows(g, q) /\ g.pc = "rules" /\ g.stage = q.stage /\ g.ctx = q.ctx
          /\ g.rule = c.rule /\ g.missed = c.missed /\ g.jar = q.jar
          /\ Carried(q) \ (Good \cup Live) \subseteq g.fell
      BY <1>2, FollowsTwice DEF Gained, Follows
    <2>2. PassedOver(g, q.rule)
      <3>1. Presented(g, app.gates[q.rule]) = Presented(q, app.gates[q.rule])
        BY <2>1, SamePresented
      <3>2. QED
        BY <2>1, <3>1 DEF PassedOver
    <2>3. g.missed <=> q.missed \/ app.gates[q.rule].kind = "human"
      BY <2>1
    <2>4. QED
      BY <1>1, <2>1, <2>2, <2>3, PassedOnByRule
  <1>3. QED
    BY <1>1, <1>2, MoveSound

(* A request with a rule to try.                                            *)
LEMMA TryingARule ==
  ASSUME Inv, NEW r \in Requests, NEW kind, AtRule(r, kind)
  PROVE  /\ req[r] \in Request /\ app \in Apps /\ AtAuth(req[r]) /\ InARule(req[r], kind)
         /\ app.gates[req[r].rule] \in Rule
  <1>1. req[r] \in Request /\ Placed(req[r]) /\ app \in Apps /\ req[r].pc = "rules"
    BY OfARequest DEF AtRule, At
  <1>2. AtAuth(req[r]) /\ Walking(req[r])
    BY <1>1 DEF Placed, AtAuth
  <1>3. DOMAIN app.gates = 1 .. Len(app.gates) /\ Len(app.gates) \in Nat
    BY <1>1, GatesConstants
  <1>4. req[r].rule \in Applicable(req[r].path)
    BY <1>2, <1>3 DEF Walking, AtRule
  <1>5. QED
    BY <1>1, <1>2, <1>4, RulesOfAnApp DEF AtRule, InARule

LEMMA CredsApart ==
  /\ None \notin Creds \cup Personas /\ "anonymous" \notin Creds \cup Personas
  /\ "open" \notin Creds /\ "machine" \notin Creds \cup Personas
  /\ None # "open" /\ Personas \cap Creds = {}
  /\ Keys \cap Jwts = {} /\ Sessions \cap (Keys \cup Jwts) = {}
  BY GatesConstants

LEMMA PublicStep ==
  ASSUME Inv, NEW r \in Requests, Public(r)
  PROVE  (RequestsTyped /\ AllSound)'
  <1> DEFINE q == req[r]
             c == Admitted(q, "anonymous")
  <1>1. q \in Request /\ AtAuth(q) /\ InARule(q, "public") /\ To(r, c) /\ UNCHANGED app
    BY TryingARule DEF Public, Step
  <1>2. "anonymous" \in Callers /\ "anonymous" \notin Creds \cup Personas \cup {"open"}
    BY CredsApart DEF Callers
  <1>3. /\ c \in Request /\ Follows(c, q) /\ Carried(c) = Carried(q)
        /\ c.pc = "middleware" /\ c.stage = q.stage + 1 /\ c.ctx = "anonymous"
    BY <1>1, <1>2, AdmittedShape
  <1> HIDE DEF c
  <1>4. QED
    BY <1>1, <1>2, <1>3, LetInStep DEF InARule

LEMMA HumanStep ==
  ASSUME Inv, NEW r \in Requests, Human(r)
  PROVE  (RequestsTyped /\ AllSound)'
  <1> DEFINE q == req[r]
             t == q.jar.token
  <1>1. q \in Request /\ app \in Apps /\ AtAuth(q) /\ InARule(q, "human") /\ UNCHANGED app
        /\ q.pc = "rules" /\ Sound(q)
    BY TryingARule, OfARequest DEF Human, Step, AtRule, At
  <1>2. CASE t \in live
    <2> DEFINE c == Admitted(q, t)
    <2>1. To(r, c)
      BY <1>2 DEF Human, Step
    <2>2. t \in Creds /\ t \in Callers /\ t \notin Personas \cup {"open"}
      BY <1>2, CredsApart DEF Inv, Callers
    <2>3. t \in Carried(q) \cap (Good \cup live)
      BY <1>1, <1>2, <2>2, CarriedFacts
    <2>4. /\ c \in Request /\ Follows(c, q) /\ Carried(c) = Carried(q)
          /\ c.pc = "middleware" /\ c.stage = q.stage + 1 /\ c.ctx = t
      BY <1>1, <2>2, AdmittedShape
    <2> HIDE DEF c
    <2>5. QED
      BY <1>1, <2>1, <2>2, <2>3, <2>4, LetInStep DEF InARule
  <1>3. CASE t \notin live
    <2> DEFINE c == [q EXCEPT !.pc = "session"]
    <2>1. To(r, c)
      BY <1>3 DEF Human, Step
    <2>2. c \in Request
      BY <1>1 DEF Request
    <2>3. ASSUME NEW g \in Request, Gained(g, c) PROVE Sound(g)
      <3>1. /\ Follows(g, q) /\ g.path = q.path /\ g.pc = "session" /\ g.stage = q.stage
            /\ g.ctx = q.ctx /\ g.rule = q.rule /\ g.missed = q.missed
        BY <1>1, <2>3 DEF Gained, Follows, Request
      <3>2. Placed(q) /\ Walking(q) /\ Known(q)
        BY <1>1 DEF Sound, Placed, AtAuth
      <3>3. Walking(g)
        BY <3>1, <3>2, Monotone DEF Walking
      <3>4. Placed(g)
        BY <1>1, <3>1, <3>2, <3>3 DEF Placed, InARule, AtAuth
      <3>5. Known(g)
        BY <3>1, <3>2, SameContext DEF Known
      <3>6. QED
        BY <3>1, <3>4, <3>5 DEF Sound, OnCourse
    <2> HIDE DEF c
    <2>4. QED
      BY <1>1, <2>1, <2>2, <2>3, MoveSound
  <1>4. QED
    BY <1>2, <1>3

(* Waiting for propustka's answer about a key.                              *)
LEMMA AskStep ==
  ASSUME Inv, UNCHANGED app, NEW r \in Requests, NEW w \in Keys, ~app.dev,
         req[r].pc \in {"rules", "middleware"},
         req[r].stage \in 1 .. Len(Pipelines[req[r].path]),
         To(r, [req[r] EXCEPT !.pc = "key", !.cred = w]),
         LET m == Pipelines[req[r].path][req[r].stage] IN
         \/ /\ m = "auth" /\ AtAuth(req[r]) /\ InARule(req[r], "service")
            /\ w = Presented(req[r], app.gates[req[r].rule])
         \/ m = "capability" /\ w = Token(req[r])
  PROVE  (RequestsTyped /\ AllSound)'
  <1> DEFINE q == req[r]
             c == [q EXCEPT !.pc = "key", !.cred = w]
             m == Pipelines[q.path][q.stage]
  <1>1. q \in Request /\ Placed(q) /\ Known(q) /\ app \in Apps
    BY OfARequest
  <1>2. c \in Request
    BY <1>1 DEF Request
  <1>3. ASSUME NEW g \in Request, Gained(g, c) PROVE Sound(g)
    <2>1. /\ Follows(g, q) /\ g.path = q.path /\ g.pc = "key" /\ g.stage = q.stage
          /\ g.ctx = q.ctx /\ g.rule = q.rule /\ g.missed = q.missed /\ g.cred = w
      BY <1>1, <1>3 DEF Gained, Follows, Request
    <2>2. Token(g) = Token(q) /\ Humans(g) = Humans(q)
          /\ \A i : PassedOver(q, i) => PassedOver(g, i)
      BY <2>1, Monotone
    <2>3. Presented(g, app.gates[q.rule]) = Presented(q, app.gates[q.rule])
      BY <2>1, SamePresented
    <2>4. m = "auth" => Walking(g)
      <3>1. m = "auth" => Walking(q)
        BY <1>1 DEF Placed, AtAuth
      <3>2. QED
        BY <2>1, <2>2, <3>1 DEF Walking
    <2>5. Placed(g)
      <3>1. q.stage <= Len(Pipelines[q.path]) /\ q.stage \in 1 .. Len(Pipelines[q.path]) + 1
        BY <1>1, Line DEF Placed
      <3>2. m \in {"auth", "capability"}
        OBVIOUS
      <3>3. m = "auth" => InARule(g, "service") /\ w = Presented(g, app.gates[g.rule])
        BY <2>1, <2>3 DEF InARule
      <3>4. m = "capability" => w = Token(g)
        BY <2>2
      <3>5. QED
        BY <2>1, <2>4, <3>1, <3>2, <3>3, <3>4 DEF Placed
    <2>6. Known(g)
      BY <1>1, <2>1, SameContext DEF Known
    <2>7. QED
      BY <2>1, <2>5, <2>6 DEF Sound, OnCourse
  <1> HIDE DEF c
  <1>4. QED
    BY <1>1, <1>2, <1>3, MoveSound DEF c

LEMMA ServiceStep ==
  ASSUME Inv, NEW r \in Requests, Service(r)
  PROVE  (RequestsTyped /\ AllSound)'
  <1> DEFINE q == req[r]
             w == Presented(q, app.gates[q.rule])
  <1>1. /\ q \in Request /\ app \in Apps /\ AtAuth(q) /\ InARule(q, "service") /\ UNCHANGED app
        /\ app.gates[q.rule] \in Rule /\ q.pc = "rules"
    BY TryingARule DEF Service, Step, AtRule, At
  <1>2. q.stage \in 1 .. Len(Pipelines[q.path]) /\ ~app.dev
    BY <1>1, OfARequest, Line DEF Placed
  <1>3. CASE w = None
    <2> DEFINE c == Onward(q)
    <2>1. To(r, c)
      BY <1>3 DEF Service, Step
    <2>2. /\ c \in Request /\ Follows(c, q) /\ Carried(c) = Carried(q)
          /\ c.pc = "rules" /\ c.stage = q.stage /\ c.ctx = q.ctx
          /\ c.rule = FirstFrom(q.path, q.rule + 1) /\ c.missed = q.missed
      BY <1>1, OnwardShape
    <2> HIDE DEF c
    <2>3. QED
      BY <1>1, <1>3, <2>1, <2>2, PassOnStep DEF InARule
  <1>4. CASE w # None
    <2>1. To(r, Redeemed(q, w))
      BY <1>4 DEF Service, Step
    <2>2. CASE w \in Keys /\ ~Cached(w)
      BY <1>1, <1>2, <2>1, <2>2, AskStep DEF Redeemed, AtAuth
    <2>3. CASE w \in Keys \cup (Jwts \cap live) /\ ~(w \in Keys /\ ~Cached(w))
      <3> DEFINE c == Admitted(q, w)
      <3>1. To(r, c)
        BY <2>1, <2>3 DEF Redeemed
      <3>2. w \in Creds /\ w \in live
        BY <2>3 DEF Creds, Cached
      <3>3. w \in Callers /\ w \notin Personas \cup {"open"}
        BY <3>2, CredsApart DEF Callers
      <3>4. w \in Carried(q) \cap (Good \cup live)
        BY <1>1, <3>2, CarriedFacts
      <3>5. /\ c \in Request /\ Follows(c, q) /\ Carried(c) = Carried(q)
            /\ c.pc = "middleware" /\ c.stage = q.stage + 1 /\ c.ctx = w
        BY <1>1, <3>3, AdmittedShape
      <3> HIDE DEF c
      <3>6. QED
        BY <1>1, <3>1, <3>2, <3>3, <3>4, <3>5, LetInStep DEF InARule
    <2>4. CASE w \notin Keys \cup (Jwts \cap live)
      <3>1. To(r, Refused(q, "invalid_key"))
        BY <2>1, <2>4 DEF Redeemed
      <3>2. w \notin Creds \/ w \in (Carried(q) \ (Good \cup Live)) \cup Sessions
        BY <1>1, <2>4, CarriedFacts, CredsApart DEF Creds, Good, Live
      <3>3. QED
        BY <1>1, <1>4, <3>1, <3>2, TurnAwayStep DEF InARule
    <2>5. QED
      BY <2>2, <2>3, <2>4
  <1>5. QED
    BY <1>3, <1>4

LEMMA SessionAnswerStep ==
  ASSUME Inv, NEW r \in Requests, SessionAnswer(r)
  PROVE  (RequestsTyped /\ AllSound)'
  <1> DEFINE q == req[r]
             t == q.jar.session
  <1>1. /\ q \in Request /\ app \in Apps /\ AtAuth(q) /\ InARule(q, "human") /\ UNCHANGED app
    BY OfARequest DEF SessionAnswer, At, AtAuth, Placed
  <1>2. t \in Sessions \cup {None}
    BY <1>1 DEF Request, Jar
  <1>3. CASE t \in Good
    <2> DEFINE a == Admitted(q, t)
               c == [a EXCEPT !.fresh = t]
    <2>1. To(r, c)
      BY <1>3 DEF SessionAnswer
    <2>2. t \in Sessions /\ t \in Creds /\ t \in Callers /\ t \notin Personas \cup {"open"}
      BY <1>2, <1>3, CredsApart DEF Good, Creds, Callers
    <2>3. t \in Carried(q) \cap (Good \cup live)
      BY <1>1, <1>3, <2>2, CarriedFacts
    <2>4. /\ a \in Request /\ Follows(a, q) /\ Carried(a) = Carried(q)
          /\ a.pc = "middleware" /\ a.stage = q.stage + 1 /\ a.ctx = t
      BY <1>1, <2>2, AdmittedShape
    <2> HIDE DEF a
    <2>5. c \in Request
      BY <2>2, <2>4 DEF Request
    <2>6. /\ Follows(c, q) /\ Carried(c) = Carried(q)
          /\ c.pc = "middleware" /\ c.stage = q.stage + 1 /\ c.ctx = t
      BY <2>4 DEF Follows, Carried, Request
    <2> HIDE DEF c
    <2>7. QED
      BY <1>1, <2>1, <2>2, <2>3, <2>5, <2>6, LetInStep DEF InARule
  <1>4. CASE t \notin Good
    <2> DEFINE m == [q EXCEPT !.missed = TRUE]
               c == Onward(m)
    <2>1. To(r, c)
      BY <1>4 DEF SessionAnswer
    <2>2. m \in Request
      BY <1>1 DEF Request
    <2>3. /\ Follows(m, q) /\ Carried(m) = Carried(q) /\ m.stage = q.stage /\ m.ctx = q.ctx
          /\ m.path = q.path /\ m.rule = q.rule /\ m.missed = TRUE
      BY <1>1 DEF Follows, Carried, Request
    <2> HIDE DEF m
    <2>4. /\ c \in Request /\ Follows(c, q) /\ Carried(c) = Carried(q)
          /\ c.pc = "rules" /\ c.stage = q.stage /\ c.ctx = q.ctx
          /\ c.rule = FirstFrom(q.path, q.rule + 1) /\ c.missed = TRUE
      BY <1>1, <2>2, <2>3, OnwardShape DEF Follows
    <2>5. t = None \/ t \in Carried(q) \ (Good \cup Live)
      BY <1>1, <1>2, <1>4, CarriedFacts, CredsApart DEF Creds, Live
    <2> HIDE DEF c
    <2>6. QED
      BY <1>1, <2>1, <2>4, <2>5, PassOnStep DEF InARule
  <1>5. QED
    BY <1>3, <1>4

(* A caller lets itself in at the surface for capabilities.                 *)
LEMMA CapabilityIn ==
  ASSUME Inv, UNCHANGED app, NEW r \in Requests, NEW who \in Callers, To(r, Admitted(req[r], who)),
         req[r].pc \in {"middleware", "key"},
         req[r].stage \in 1 .. Len(Pipelines[req[r].path]),
         Pipelines[req[r].path][req[r].stage] = "capability",
         \/ who = Token(req[r]) /\ who \in Creds /\ who \in Carried(req[r]) \cap (Good \cup live)
         \/ who = "open" /\ app.dev
  PROVE  (RequestsTyped /\ AllSound)'
  <1> DEFINE q == req[r]
             c == Admitted(q, who)
  <1>1. q \in Request
    BY OfARequest
  <1>2. /\ c \in Request /\ Follows(c, q) /\ Carried(c) = Carried(q)
        /\ c.pc = "middleware" /\ c.stage = q.stage + 1 /\ c.ctx = who
    BY <1>1, AdmittedShape
  <1> HIDE DEF c
  <1>3. ASSUME NEW g \in Request, Gained(g, c) PROVE Sound(g)
    <2>1. /\ Follows(g, q) /\ g.pc = "middleware" /\ g.stage = q.stage + 1 /\ g.ctx = who
          /\ Carried(q) \cap (Good \cup live) \subseteq g.stood
      BY <1>2, <1>3, FollowsTwice DEF Gained
    <2>2. Token(g) = Token(q)
      BY <2>1, Monotone
    <2>3. FoundBy(g, "capability")
      BY <2>1, <2>2 DEF FoundBy
    <2>4. g.ctx \in Creds => g.ctx \in g.stood
      BY <2>1, CredsApart
    <2>5. g.ctx \in Personas \cup {"open"} => app.dev
      BY <2>1, CredsApart
    <2>6. Pipelines[q.path] # <<"auth">>
      OBVIOUS
    <2>7. QED
      BY <1>1, <2>1, <2>3, <2>4, <2>5, <2>6, Passes
  <1>4. QED
    BY <1>1, <1>2, <1>3, MoveSound DEF c

LEMMA CapabilityOut ==
  ASSUME Inv, UNCHANGED app, NEW r \in Requests, NEW why \in Results \ {"served"},
         To(r, Refused(req[r], why)),
         req[r].pc \in {"middleware", "key"},
         req[r].stage \in 1 .. Len(Pipelines[req[r].path]),
         Pipelines[req[r].path][req[r].stage] = "capability"
  PROVE  (RequestsTyped /\ AllSound)'
  <1> DEFINE q == req[r]
             c == Refused(q, why)
  <1>1. q \in Request /\ Known(q)
    BY OfARequest
  <1>2. /\ c \in Request /\ Follows(c, q)
        /\ c.pc = "refused" /\ c.stage = q.stage /\ c.ctx = q.ctx /\ c.result = why
    BY <1>1, RefusedShape
  <1> HIDE DEF c
  <1>3. ASSUME NEW g \in Request, Gained(g, c) PROVE Sound(g)
    <2>1. /\ Follows(g, q) /\ g.pc = "refused" /\ g.stage = q.stage /\ g.ctx = q.ctx
          /\ g.result # "served"
      BY <1>2, <1>3, FollowsTwice DEF Gained
    <2>2. Pipelines[q.path] # <<"auth">>
      OBVIOUS
    <2>3. QED
      BY <1>1, <2>1, <2>2, Refuses
  <1>4. QED
    BY <1>1, <1>2, <1>3, MoveSound DEF c

LEMMA KeyAnswerStep ==
  ASSUME Inv, NEW r \in Requests, KeyAnswer(r)
  PROVE  (RequestsTyped /\ AllSound)'
  <1> DEFINE q == req[r]
             w == q.cred
             m == Pipelines[q.path][q.stage]
  <1>1. /\ q \in Request /\ app \in Apps /\ UNCHANGED app /\ q.pc = "key" /\ Placed(q)
    BY OfARequest DEF KeyAnswer, At
  <1>2. /\ w \in Keys /\ m \in {"auth", "capability"} /\ q.stage \in 1 .. Len(Pipelines[q.path])
        /\ m = "auth" => AtAuth(q) /\ InARule(q, "service") /\ w = Presented(q, app.gates[q.rule])
        /\ m = "capability" => w = Token(q)
    BY <1>1, Line DEF Placed, AtAuth
  <1>3. w \in Creds /\ w # None /\ w \in Callers /\ w \notin Personas \cup {"open"}
    BY <1>2, CredsApart DEF Creds, Callers
  <1>4. m = "auth" => app.gates[q.rule] \in Rule
    BY <1>1, <1>2, RulesOfAnApp DEF InARule
  <1>5. w \in Carried(q)
    BY <1>1, <1>2, <1>3, <1>4, CarriedFacts
  <1>6. CASE w \in Good
    <2> DEFINE c == Admitted(q, w)
    <2>1. To(r, c)
      BY <1>6 DEF KeyAnswer
    <2>2. /\ c \in Request /\ Follows(c, q) /\ Carried(c) = Carried(q)
          /\ c.pc = "middleware" /\ c.stage = q.stage + 1 /\ c.ctx = w
      BY <1>1, <1>3, AdmittedShape
    <2>3. w \in Carried(q) \cap (Good \cup live)
      BY <1>5, <1>6
    <2>4. CASE m = "auth"
      <3> HIDE DEF c
      <3>1. QED
        BY <1>1, <1>2, <1>3, <2>1, <2>2, <2>3, <2>4, LetInStep DEF InARule
    <2>5. CASE m = "capability"
      BY <1>1, <1>2, <1>3, <2>1, <2>3, <2>5, CapabilityIn
    <2>6. QED
      BY <1>2, <2>4, <2>5
  <1>7. CASE w \notin Good
    <2>1. PICK why \in {"invalid_key", "disabled"} : To(r, Refused(q, why))
      BY <1>7 DEF KeyAnswer, Why
    <2>2. w \in Carried(q) \ (Good \cup Live)
      BY <1>2, <1>5, <1>7, CredsApart DEF Live
    <2>3. CASE m = "auth"
      BY <1>1, <1>2, <1>3, <2>1, <2>2, <2>3, TurnAwayStep DEF InARule
    <2>4. CASE m = "capability"
      <3>1. why \in Results \ {"served"}
        BY DEF Results
      <3>2. QED
        BY <1>1, <1>2, <2>1, <2>4, <3>1, CapabilityOut
    <2>5. QED
      BY <1>2, <2>3, <2>4
  <1>8. QED
    BY <1>6, <1>7

LEMMA NoRuleLeftStep ==
  ASSUME Inv, NEW r \in Requests, NoRuleLeft(r)
  PROVE  (RequestsTyped /\ AllSound)'
  <1> DEFINE q == req[r]
             why == IF q.missed THEN "login" ELSE "no_credential"
             c == Refused(q, why)
  <1>1. /\ q \in Request /\ app \in Apps /\ UNCHANGED app /\ q.pc = "rules" /\ Placed(q)
        /\ Known(q) /\ q.rule \notin DOMAIN app.gates /\ To(r, c)
    BY OfARequest DEF NoRuleLeft, At, Step
  <1>2. Walking(q) /\ q.stage \in 1 .. Len(Pipelines[q.path]) /\ Pipelines[q.path][q.stage] = "auth"
    BY <1>1, Line DEF Placed
  <1>3. Applicable(q.path) \subseteq 1 .. Len(app.gates) /\ Len(app.gates) \in Nat
        /\ DOMAIN app.gates = 1 .. Len(app.gates)
    BY <1>1, RulesOfAnApp, GatesConstants
  <1>4. q.rule = Len(app.gates) + 1
    BY <1>1, <1>2, <1>3 DEF Walking
  <1>5. \A j \in Applicable(q.path) : j < q.rule
    BY <1>3, <1>4
  <1>6. Exhausted(q) /\ (q.missed <=> Humans(q) # {})
    BY <1>2, <1>5 DEF Exhausted, Walking, Humans
  <1>7. why \in Results
    BY DEF Results
  <1>8. (q.missed /\ why = "login") \/ (~q.missed /\ why = "no_credential")
    OBVIOUS
  <1> HIDE DEF why
  <1>9. /\ c \in Request /\ Follows(c, q) /\ c.result = why
        /\ c.pc = "refused" /\ c.stage = q.stage /\ c.ctx = q.ctx
    BY <1>1, <1>7, RefusedShape
  <1> HIDE DEF c
  <1>10. ASSUME NEW g \in Request, Gained(g, c) PROVE Sound(g)
    <2>1. /\ Follows(g, q) /\ g.pc = "refused" /\ g.stage = q.stage /\ g.ctx = q.ctx
          /\ g.result = why
      BY <1>9, <1>10, FollowsTwice DEF Gained
    <2>2. Exhausted(g) /\ Humans(g) = Humans(q)
      BY <1>6, <2>1, Monotone
    <2>3. RightlyRefused(g)
      BY <1>6, <1>8, <2>1, <2>2 DEF RightlyRefused
    <2>4. QED
      BY <1>1, <1>2, <1>8, <2>1, <2>3, Refuses
  <1>11. QED
    BY <1>1, <1>9, <1>10, MoveSound

(* An answer that ends a request; c may have lost the cookie it would set.  *)
LEMMA AnswerStep ==
  ASSUME Inv, UNCHANGED app, NEW r \in Requests, req[r].pc \notin {"free", "done"},
         NEW c \in Request, To(r, c), Follows(c, req[r]),
         c.pc = "done", c.stage = req[r].stage, c.ctx = req[r].ctx,
         LET line == Pipelines[req[r].path] IN
         /\ c.result = "served" => FoundBy(req[r], line[Len(line)])
         /\ line = <<"capability">> => c.result \in {"served", "404", "500"}
         /\ ~app.dev /\ line = <<"auth">> =>
              \/ c.result = "served" /\ RightlyServed(req[r])
              \/ c.result = "no_rule" /\ Applicable(req[r].path) = {} /\ app.unmatched = "deny"
              \/ c.result = req[r].result /\ c.result # "no_rule" /\ RightlyRefused(req[r])
              \/ c.result = "redirect" /\ req[r].result = "login" /\ RightlyRefused(req[r])
              \/ c.result \in {"override", "500"}
  PROVE  (RequestsTyped /\ AllSound)'
  <1> DEFINE q == req[r]
             line == Pipelines[q.path]
  <1>1. q \in Request /\ Known(q) /\ Placed(q)
    BY OfARequest
  <1>2. ASSUME NEW g \in Request, Gained(g, c) PROVE Sound(g)
    <2>1. /\ Follows(g, q) /\ g.path = q.path /\ g.pc = "done" /\ g.stage = q.stage
          /\ g.ctx = q.ctx /\ g.result = c.result
      BY <1>2, FollowsTwice DEF Gained, Follows
    <2>2. /\ Token(g) = Token(q) /\ ApiKey(g) = ApiKey(q) /\ Humans(g) = Humans(q)
          /\ Exhausted(q) => Exhausted(g)
          /\ RightlyServed(q) => RightlyServed(g)
          /\ DecidedBy(q, TurnsAway) => DecidedBy(g, TurnsAway)
      BY <2>1, Monotone
    <2>3. g.result = "served" => FoundBy(g, line[Len(line)])
      BY <2>1, <2>2 DEF FoundBy
    <2>4. ~app.dev /\ line = <<"auth">> => RightlyAnswered(g)
      BY <2>1, <2>2 DEF RightlyAnswered, RightlyRefused
    <2>5. line = <<"capability">> => g.result \in {"served", "404", "500"}
      BY <2>1
    <2>6. QED
      BY <1>1, <2>1, <2>3, <2>4, <2>5, Answers
  <1>3. QED
    BY <1>1, <1>2, MoveSound

LEMMA VerdictStep ==
  ASSUME Inv, NEW r \in Requests, Verdict(r)
  PROVE  (RequestsTyped /\ AllSound)'
  <1> DEFINE q == req[r]
             line == Pipelines[q.path]
  <1>1. /\ q \in Request /\ UNCHANGED app /\ q.pc = "refused" /\ Placed(q) /\ Sound(q)
        /\ Known(q) /\ q.stage \in 1 .. Len(line) /\ line[q.stage] = "auth"
    BY OfARequest, StageIs DEF Verdict, At, Step
  <1>2. line # <<"capability">> /\ (~app.dev /\ line = <<"auth">> => RightlyRefused(q))
    BY <1>1 DEF Sound, OnCourse
  <1>3. ASSUME NEW what \in Results, To(r, Answered(q, what)), what # "served",
               \/ what = "override"
               \/ what = "redirect" /\ q.result = "login"
               \/ what = q.result /\ ~ (q.result = "no_rule" /\ app.unmatched = "public")
        PROVE  (RequestsTyped /\ AllSound)'
    <2> DEFINE c == Answered(q, what)
    <2>1. /\ c \in Request /\ Follows(c, q) /\ c.pc = "done" /\ c.stage = q.stage
          /\ c.ctx = q.ctx /\ c.result = what
      BY <1>1, AnsweredShape
    <2>2. app.unmatched \in {"public", "deny"}
      BY GatesConstants DEF Inv, RequestsTyped
    <2>3. what = "no_rule" /\ RightlyRefused(q) => Applicable(q.path) = {} /\ app.unmatched = "deny"
      BY <1>3, <2>2 DEF RightlyRefused
    <2> HIDE DEF c
    <2>4. QED
      BY <1>1, <1>2, <1>3, <2>1, <2>3, AnswerStep DEF c
  <1>4. CASE To(r, Answered(q, "override"))
    BY <1>3, <1>4 DEF Results
  <1>5. CASE q.result = "no_rule" /\ app.unmatched = "public" /\ To(r, Admitted(q, "anonymous"))
    <2> DEFINE c == Admitted(q, "anonymous")
    <2>1. "anonymous" \in Callers /\ "anonymous" \notin Creds \cup Personas \cup {"open"}
      BY CredsApart DEF Callers
    <2>2. /\ c \in Request /\ Follows(c, q)
          /\ c.pc = "middleware" /\ c.stage = q.stage + 1 /\ c.ctx = "anonymous"
      BY <1>1, <2>1, AdmittedShape
    <2> HIDE DEF c
    <2>3. ASSUME NEW g \in Request, Gained(g, c) PROVE Sound(g)
      <3>1. /\ Follows(g, q) /\ g.path = q.path
            /\ g.pc = "middleware" /\ g.stage = q.stage + 1 /\ g.ctx = "anonymous"
        BY <2>2, <2>3, FollowsTwice DEF Gained, Follows
      <3>2. FoundBy(g, line[q.stage])
        BY <1>1 DEF FoundBy
      <3>3. ~app.dev /\ line = <<"auth">> => RightlyServed(g)
        BY <1>2, <1>5, <3>1 DEF RightlyRefused, RightlyServed
      <3>4. QED
        BY <1>1, <2>1, <3>1, <3>2, <3>3, Passes
    <2>4. QED
      BY <1>1, <1>5, <2>2, <2>3, MoveSound DEF c
  <1>6. CASE /\ ~ (q.result = "no_rule" /\ app.unmatched = "public")
             /\ To(r, Answered(q, IF q.result = "login" /\ q.html THEN "redirect" ELSE q.result))
    <2>1. q.result \in Results
      BY <1>1 DEF Request
    <2>2. q.result # "served"
      BY <1>1 DEF Known
    <2>3. CASE q.result = "login" /\ q.html
      BY <1>3, <1>6, <2>3 DEF Results
    <2>4. CASE ~ (q.result = "login" /\ q.html)
      BY <1>3, <1>6, <2>1, <2>2, <2>4
    <2>5. QED
      BY <2>3, <2>4
  <1>7. QED
    BY <1>4, <1>5, <1>6 DEF Verdict, Step

LEMMA NotFoundStep ==
  ASSUME Inv, NEW r \in Requests, NotFound(r)
  PROVE  (RequestsTyped /\ AllSound)'
  <1> DEFINE q == req[r]
             c == Answered(q, "404")
  <1>1. /\ q \in Request /\ UNCHANGED app /\ q.pc = "refused" /\ To(r, c)
        /\ Pipelines[q.path][q.stage] = "capability" /\ q.stage \in 1 .. Len(Pipelines[q.path])
    BY OfARequest, StageIs DEF NotFound, At, Step
  <1>2. "404" \in Results
    BY DEF Results
  <1>3. /\ c \in Request /\ Follows(c, q) /\ c.pc = "done" /\ c.stage = q.stage
        /\ c.ctx = q.ctx /\ c.result = "404"
    BY <1>1, <1>2, AnsweredShape
  <1>4. Pipelines[q.path] # <<"auth">>
    BY <1>1
  <1> HIDE DEF c
  <1>5. QED
    BY <1>1, <1>3, <1>4, AnswerStep

LEMMA ApiKeyAuthStep ==
  ASSUME Inv, NEW r \in Requests, ApiKeyAuth(r)
  PROVE  (RequestsTyped /\ AllSound)'
  <1> DEFINE q == req[r]
             line == Pipelines[q.path]
  <1>1. /\ q \in Request /\ UNCHANGED app /\ q.pc = "middleware" /\ line[q.stage] = "key"
        /\ q.stage \in 1 .. Len(line)
    BY OfARequest, StageIs DEF ApiKeyAuth, At, Step
  <1>2. line # <<"auth">> /\ line # <<"capability">>
    BY <1>1
  <1>3. CASE ApiKey(q) # None /\ To(r, Admitted(q, "machine"))
    <2> DEFINE c == Admitted(q, "machine")
    <2>1. "machine" \in Callers /\ "machine" \notin Creds \cup Personas \cup {"open"}
      BY CredsApart DEF Callers
    <2>2. /\ c \in Request /\ Follows(c, q)
          /\ c.pc = "middleware" /\ c.stage = q.stage + 1 /\ c.ctx = "machine"
      BY <1>1, <2>1, AdmittedShape
    <2> HIDE DEF c
    <2>3. ASSUME NEW g \in Request, Gained(g, c) PROVE Sound(g)
      <3>1. /\ Follows(g, q) /\ g.pc = "middleware" /\ g.stage = q.stage + 1
            /\ g.ctx = "machine"
        BY <2>2, <2>3, FollowsTwice DEF Gained
      <3>2. ApiKey(g) = ApiKey(q)
        BY <3>1, Monotone
      <3>3. FoundBy(g, line[q.stage])
        BY <1>1, <1>3, <3>1, <3>2 DEF FoundBy
      <3>4. QED
        BY <1>1, <1>2, <2>1, <3>1, <3>3, Passes
    <2>4. QED
      BY <1>1, <1>3, <2>2, <2>3, MoveSound DEF c
  <1>4. CASE To(r, Answered(q, "401"))
    <2> DEFINE c == Answered(q, "401")
    <2>1. "401" \in Results
      BY DEF Results
    <2>2. /\ c \in Request /\ Follows(c, q) /\ c.pc = "done" /\ c.stage = q.stage
          /\ c.ctx = q.ctx /\ c.result = "401"
      BY <1>1, <2>1, AnsweredShape
    <2>3. To(r, c)
      BY <1>4
    <2> HIDE DEF c
    <2>4. QED
      BY <1>1, <1>2, <2>2, <2>3, AnswerStep
  <1>5. QED
    BY <1>3, <1>4 DEF ApiKeyAuth, Step

LEMMA CapabilityStep ==
  ASSUME Inv, NEW r \in Requests, Capability(r)
  PROVE  (RequestsTyped /\ AllSound)'
  <1> DEFINE q == req[r]
             line == Pipelines[q.path]
             w == Token(q)
  <1>1. /\ q \in Request /\ UNCHANGED app /\ app \in Apps /\ q.pc = "middleware"
        /\ line[q.stage] = "capability" /\ q.stage \in 1 .. Len(line)
    BY OfARequest, StageIs DEF Capability, At, Step
  <1>2. CASE w = None
    <2> DEFINE c == Answered(q, "404")
    <2>1. "404" \in Results
      BY DEF Results
    <2>2. /\ c \in Request /\ Follows(c, q) /\ c.pc = "done" /\ c.stage = q.stage
          /\ c.ctx = q.ctx /\ c.result = "404"
      BY <1>1, <2>1, AnsweredShape
    <2>3. To(r, c)
      BY <1>2 DEF Capability, Step
    <2>4. line # <<"auth">>
      BY <1>1
    <2> HIDE DEF c
    <2>5. QED
      BY <1>1, <2>2, <2>3, <2>4, AnswerStep
  <1>3. CASE w # None /\ app.dev
    <2>1. To(r, Admitted(q, "open")) /\ "open" \in Callers
      BY <1>3 DEF Capability, Step, Callers
    <2>2. QED
      BY <1>1, <1>3, <2>1, CapabilityIn
  <1>4. CASE w # None /\ ~app.dev
    <2>1. To(r, Redeemed(q, w))
      BY <1>4 DEF Capability, Step
    <2>2. CASE w \in Keys /\ ~Cached(w)
      BY <1>1, <1>4, <2>1, <2>2, AskStep DEF Redeemed
    <2>3. CASE w \in Keys \cup (Jwts \cap live) /\ ~(w \in Keys /\ ~Cached(w))
      <3>1. To(r, Admitted(q, w))
        BY <2>1, <2>3 DEF Redeemed
      <3>2. w \in Creds /\ w \in live /\ w \in Callers
        BY <2>3 DEF Creds, Cached, Callers
      <3>3. w \in Carried(q) \cap (Good \cup live)
        BY <1>1, <3>2, CarriedFacts
      <3>4. QED
        BY <1>1, <3>1, <3>2, <3>3, CapabilityIn
    <2>4. CASE w \notin Keys \cup (Jwts \cap live)
      <3>1. To(r, Refused(q, "invalid_key"))
        BY <2>1, <2>4 DEF Redeemed
      <3>2. "invalid_key" \in Results \ {"served"}
        BY DEF Results
      <3>3. QED
        BY <1>1, <3>1, <3>2, CapabilityOut
    <2>5. QED
      BY <2>2, <2>3, <2>4
  <1>5. QED
    BY <1>2, <1>3, <1>4

LEMMA HandleStep ==
  ASSUME Inv, NEW r \in Requests, Handle(r)
  PROVE  (RequestsTyped /\ AllSound)'
  <1> DEFINE q == req[r]
             line == Pipelines[q.path]
             c == Answered(q, "served")
  <1>1. /\ q \in Request /\ UNCHANGED app /\ q.pc = "middleware" /\ To(r, c)
        /\ Placed(q) /\ Known(q) /\ Sound(q) /\ Stage(r) = "handler"
    BY OfARequest DEF Handle, At, Step
  <1>2. q.stage = Len(line) + 1 /\ q.stage > 1 /\ q.stage - 1 = Len(line)
    <2>1. q.stage \in 1 .. Len(line) => Stage(r) \in {"auth", "key", "capability"}
      BY <1>1, StageIs, Line
    <2>2. q.stage \in 1 .. Len(line) + 1
      BY <1>1 DEF Placed
    <2>3. Len(line) \in Nat \ {0} /\ q.stage \in Nat
      BY <1>1, Line
    <2>4. q.stage \notin 1 .. Len(line)
      BY <1>1, <2>1
    <2> HIDE DEF line, q
    <2>5. QED
      BY <2>2, <2>3, <2>4
  <1>3. FoundBy(q, line[Len(line)])
    BY <1>1, <1>2 DEF Known
  <1>4. ~app.dev /\ line = <<"auth">> => RightlyServed(q)
    BY <1>1, <1>2 DEF Sound, OnCourse
  <1>5. "served" \in Results
    BY DEF Results
  <1>6. /\ c \in Request /\ Follows(c, q) /\ c.pc = "done" /\ c.stage = q.stage
        /\ c.ctx = q.ctx /\ c.result = "served"
    BY <1>1, <1>5, AnsweredShape
  <1> HIDE DEF c
  <1>7. QED
    BY <1>1, <1>3, <1>4, <1>6, AnswerStep

LEMMA ThrowStep ==
  ASSUME Inv, NEW r \in Requests, Throw(r)
  PROVE  (RequestsTyped /\ AllSound)'
  <1> DEFINE q == req[r]
             a == Answered(q, "500")
             c == [a EXCEPT !.fresh = None]
  <1>1. q.pc \notin {"free", "done"} /\ UNCHANGED app /\ To(r, c)
    BY DEF Throw, Step, Verifying, AtRule, At
  <1>2. q \in Request
    BY <1>1, OfARequest
  <1>3. "500" \in Results
    BY DEF Results
  <1>4. /\ a \in Request /\ Follows(a, q) /\ a.pc = "done" /\ a.stage = q.stage
        /\ a.ctx = q.ctx /\ a.result = "500"
    BY <1>2, <1>3, AnsweredShape
  <1> HIDE DEF a
  <1>5. c \in Request
    BY <1>4 DEF Request
  <1>6. /\ Follows(c, q) /\ c.pc = "done" /\ c.stage = q.stage
        /\ c.ctx = q.ctx /\ c.result = "500"
    BY <1>4 DEF Follows, Request
  <1> HIDE DEF c
  <1>7. QED
    BY <1>1, <1>5, <1>6, AnswerStep

(***************************************************************************)
(* Where requests come from, where they go, and what happens around them.   *)
(***************************************************************************)
LEMMA MoveOther ==
  ASSUME Inv, UNCHANGED app,
         NEW r \in Requests, NEW c, req[r].pc \in {"free", "done"}, To(r, c),
         c = Free \/ (c \in Request /\ Sound(c))
  PROVE  (RequestsTyped /\ AllSound)'
  <1> USE DEF Inv, RequestsTyped
  <1>1. \A u \in Requests : req'[u] =
            IF u = r THEN c
            ELSE IF req[u].pc \in {"free", "done"} THEN req[u] ELSE Grown(req[u])
    BY DEF To, All, Grown
  <1>2. DOMAIN req' = Requests /\ req' = [u \in Requests |-> req'[u]]
    BY DEF To, All
  <1>3. ASSUME NEW u \in Requests
        PROVE  req'[u] \in {Free} \cup Request /\ (req'[u] # Free => Sound(req[u])')
    <2>1. CASE u = r
      BY <1>1, <2>1, SoundStays
    <2>2. CASE u # r /\ req[u].pc \in {"free", "done"}
      BY <1>1, <2>2, SoundStays DEF AllSound
    <2>3. CASE u # r /\ req[u].pc \notin {"free", "done"}
      <3>1. req[u] \in Request /\ Sound(req[u])
        BY <2>3 DEF AllSound, Free
      <3>2. Grown(req[u]) \in Request /\ Sound(Grown(req[u]))
        BY <3>1, GrownGains, SoundGrows
      <3>3. QED
        BY <1>1, <2>3, <3>2, SoundStays
    <2>4. QED
      BY <2>1, <2>2, <2>3
  <1>4. QED
    BY <1>2, <1>3 DEF AllSound

LEMMA ReceiveStep ==
  ASSUME Inv, NEW r \in Requests, Receive(r)
  PROVE  (RequestsTyped /\ AllSound)'
  <1>1. UNCHANGED app /\ req[r].pc \in {"free", "done"} /\ To(r, Free)
    BY DEF Receive, At
  <1>2. QED
    BY <1>1, MoveOther

LEMMA SendStep ==
  ASSUME Inv, jar \in Jar, NEW r \in Requests, NEW p \in Paths, NEW load \in Loads, NEW by,
         Send(r, p, load, by)
  PROVE  (RequestsTyped /\ AllSound)'
  <1> DEFINE j == IF by # "machine" THEN jar ELSE [session |-> None, token |-> None]
             new == [pc |-> "middleware", path |-> p, load |-> load, jar |-> j,
                     html |-> by = "navigation", stage |-> 1, rule |-> 1, missed |-> FALSE,
                     cred |-> None, ctx |-> None, fresh |-> None, result |-> "",
                     stood |-> {}, fell |-> {}]
  <1>1. UNCHANGED app /\ req[r].pc \in {"free", "done"}
    <2>1. UNCHANGED <<app, standing, live, cache, jar, events>> /\ req[r] = Free
      BY Zenon DEF Send
    <2>2. Free.pc = "free"
      BY DEF Free
    <2> HIDE DEF j, new
    <2>3. QED
      BY <2>1, <2>2
  <1>a. To(r, new)
    BY Zenon DEF Send, To
  <1>2. j \in Jar
    BY DEF Jar
  <1>3. load \in [Places -> Creds \cup Personas \cup {None, Junk}]
    BY GatesConstants
  <1> HIDE DEF j
  <1>4. new \in Request
    <2>1. (by = "navigation") \in BOOLEAN
      OBVIOUS
    <2>2. QED
      BY <1>2, <1>3, <2>1 DEF Request, Results
  <1>5. /\ new.pc = "middleware" /\ new.stage = 1 /\ new.ctx = None /\ new.path = p
    OBVIOUS
  <1> HIDE DEF new
  <1>6. Len(Pipelines[p]) \in Nat \ {0}
    BY <1>4, <1>5, Line
  <1>7. None \notin Creds \cup Personas \cup {"open"}
    BY CredsApart, GatesConstants
  <1>8. Sound(new)
    <2>1. Placed(new)
      BY <1>5, <1>6 DEF Placed
    <2>2. Known(new)
      BY <1>5, <1>7 DEF Known
    <2>3. OnCourse(new)
      BY <1>5 DEF OnCourse
    <2>4. QED
      BY <2>1, <2>2, <2>3 DEF Sound
  <1>9. QED
    BY <1>1, <1>a, <1>4, <1>8, MoveOther

LEMMA AroundStep ==
  ASSUME Inv, Around
  PROVE  (RequestsTyped /\ AllSound)'
  <1>1. UNCHANGED app /\ All(req)
    BY DEF Around
  <1>2. QED
    BY <1>1, MoveNone DEF Inv

LEMMA RequestStep ==
  ASSUME Inv, jar \in Jar, Next
  PROVE  (RequestsTyped /\ AllSound)'
  <1>1. ASSUME NEW r \in Requests, Serve(r)
        PROVE  (RequestsTyped /\ AllSound)'
    BY <1>1, DevAuthStep, AuthStep, PublicStep, ServiceStep, HumanStep, NoRuleLeftStep,
       KeyAnswerStep, SessionAnswerStep, VerdictStep, NotFoundStep, ApiKeyAuthStep,
       CapabilityStep, HandleStep, ThrowStep, ReceiveStep DEF Serve
  <1>2. ASSUME NEW r \in Requests, NEW p \in Paths, NEW load \in Loads, NEW by, Send(r, p, load, by)
        PROVE  (RequestsTyped /\ AllSound)'
    BY <1>2, SendStep
  <1>3. ASSUME NEW c, Lapse(c) \/ Disable(c) \/ Enable(c) \/ Expire(c)
        PROVE  (RequestsTyped /\ AllSound)'
    BY <1>3, AroundStep DEF Lapse, Disable, Enable, Expire
  <1>4. ASSUME NEW s, SignIn(s)
        PROVE  (RequestsTyped /\ AllSound)'
    BY <1>4, AroundStep DEF SignIn
  <1>5. SignOut => (RequestsTyped /\ AllSound)'
    BY AroundStep DEF SignOut
  <1>6. QED
    BY <1>1, <1>2, <1>3, <1>4, <1>5 DEF Next

(***************************************************************************)
(* The types of the rest.                                                   *)
(***************************************************************************)
OthersTyped ==
    /\ standing \in [Keys \cup Sessions -> {"good", "lapsed", "barred"}]
    /\ live \subseteq Creds
    /\ cache \subseteq Keys
    /\ jar \in Jar
    /\ events \in 0 .. MaxEvents

LEMMA TypesStep ==
  ASSUME Inv, OthersTyped, [Next]_vars
  PROVE  OthersTyped'
  <1> USE DEF OthersTyped
  <1>1. ASSUME NEW r \in Requests, Serve(r)
        PROVE  OthersTyped'
    <2>1. CASE KeyAnswer(r)
      <3>1. req[r].pc = "key" /\ Placed(req[r])
        BY <2>1, OfARequest DEF KeyAnswer, At
      <3>2. req[r].cred \in Keys
        BY <3>1 DEF Placed
      <3>3. QED
        BY <2>1, <3>2 DEF KeyAnswer, Creds
    <2>2. CASE SessionAnswer(r)
      <3>1. req[r] \in Request
        BY <2>2, OfARequest DEF SessionAnswer, At
      <3>2. req[r].jar.session \in Sessions \cup {None}
        BY <3>1 DEF Request, Jar
      <3>3. req[r].jar.session \in Good => req[r].jar.session \in Creds
        BY DEF Good, Creds
      <3>4. QED
        BY <2>2, <3>3 DEF SessionAnswer
    <2>3. CASE Receive(r)
      <3>1. req[r] \in Request
        BY <2>3, OfARequest DEF Receive, At
      <3>2. req[r].fresh \in Sessions \cup {None}
        BY <3>1 DEF Request
      <3>3. jar' \in Jar
        BY <2>3, <3>2 DEF Receive, Jar
      <3>4. QED
        BY <2>3, <3>3 DEF Receive
    <2>4. CASE UNCHANGED <<app, standing, live, cache, jar, events>>
      BY <2>4
    <2>5. \A q : Step(r, q) => UNCHANGED <<app, standing, live, cache, jar, events>>
      BY DEF Step
    <2>6. Serve(r) => \/ KeyAnswer(r) \/ SessionAnswer(r) \/ Receive(r)
                     \/ UNCHANGED <<app, standing, live, cache, jar, events>>
      BY <2>5 DEF Serve, DevAuth, Auth, Public, Service, Human, NoRuleLeft, Verdict, NotFound,
                  ApiKeyAuth, Capability, Handle, Throw
    <2>7. QED
      BY <1>1, <2>1, <2>2, <2>3, <2>4, <2>6
  <1>2. ASSUME NEW r, NEW p, NEW load, NEW by, Send(r, p, load, by)
        PROVE  OthersTyped'
    BY <1>2 DEF Send
  <1>3. ASSUME Around PROVE events' \in 0 .. MaxEvents /\ UNCHANGED cache
    BY <1>3, GatesConstants DEF Around
  <1>4. ASSUME NEW c \in Creds, Expire(c)
        PROVE  OthersTyped'
    BY <1>3, <1>4 DEF Expire
  <1>5. ASSUME NEW c \in Keys \cup Sessions, Lapse(c) \/ Disable(c) \/ Enable(c)
        PROVE  OthersTyped'
    BY <1>3, <1>5 DEF Lapse, Disable, Enable
  <1>6. ASSUME NEW s \in Sessions, SignIn(s)
        PROVE  OthersTyped'
    BY <1>3, <1>6 DEF SignIn, Jar
  <1>7. ASSUME SignOut
        PROVE  OthersTyped'
    BY <1>3, <1>7 DEF SignOut, Jar
  <1>8. CASE UNCHANGED vars
    BY <1>8 DEF vars
  <1>9. QED
    BY <1>1, <1>2, <1>4, <1>5, <1>6, <1>7, <1>8 DEF Next

(***************************************************************************)
(* From the start, and to what the properties say.                          *)
(***************************************************************************)
LEMMA AtFirst == Init => Inv /\ OthersTyped
  <1> SUFFICES ASSUME Init PROVE Inv /\ OthersTyped
    OBVIOUS
  <1> USE DEF Init
  <1>1. RequestsTyped /\ AllSound
    BY DEF RequestsTyped, AllSound
  <1>2. live \subseteq Creds
    BY DEF Creds
  <1>3. OthersTyped
    <2>1. events \in 0 .. MaxEvents
      BY GatesConstants
    <2>2. QED
      BY <1>2, <2>1 DEF OthersTyped, Jar
  <1>4. QED
    BY <1>1, <1>2, <1>3 DEF Inv

LEMMA OnwardStep == Inv /\ OthersTyped /\ [Next]_vars => (Inv /\ OthersTyped)'
  <1> SUFFICES ASSUME Inv, OthersTyped, [Next]_vars PROVE (Inv /\ OthersTyped)'
    OBVIOUS
  <1>1. OthersTyped'
    BY TypesStep
  <1>2. CASE Next
    <2>1. (RequestsTyped /\ AllSound)'
      BY <1>2, RequestStep DEF OthersTyped
    <2>2. QED
      BY <1>1, <2>1 DEF Inv, OthersTyped
  <1>3. CASE UNCHANGED vars
    <2>1. UNCHANGED <<app, req, live>>
      BY <1>3 DEF vars
    <2>2. RequestsTyped'
      BY <2>1 DEF Inv, RequestsTyped
    <2>3. AllSound'
      <3>1. \A u \in Requests : req[u] # Free => Sound(req[u])
        BY DEF Inv, AllSound
      <3>2. ASSUME NEW u \in Requests, req'[u] # Free PROVE Sound(req[u])'
        BY <2>1, <3>1, <3>2, SoundStays
      <3>3. QED
        BY <3>2 DEF AllSound
    <2>4. QED
      BY <1>1, <2>1, <2>2, <2>3 DEF Inv
  <1>4. QED
    BY <1>2, <1>3

LEMMA KnownIsKnown == Inv => KnownByWhatItCarries
  <1> SUFFICES ASSUME Inv, NEW r \in Requests, req[r].pc = "done"
               PROVE  LET q == req[r]
                          last == Pipelines[q.path][Len(Pipelines[q.path])]
                      IN  /\ q.ctx \in Creds => q.ctx \in q.stood
                          /\ q.ctx \in Personas \cup {"open"} => app.dev
                          /\ q.result = "served" /\ last = "capability" =>
                                q.ctx \in {Token(q), "open"}
                          /\ q.result = "served" /\ last = "key" =>
                                q.ctx = "machine" /\ ApiKey(q) # None
                          /\ Pipelines[q.path] = <<"capability">> =>
                                q.result \in {"served", "404", "500"}
    BY DEF KnownByWhatItCarries
  <1>1. Known(req[r])
    BY OfARequest
  <1>2. QED
    BY <1>1 DEF Known, FoundBy

(* What is known of every request, at every moment: a walk through the      *)
(* rules has passed over all rules before the one it is at and remembers    *)
(* whether one asked for a person, a verdict is the one the rules call for, *)
(* and a handler's caller is known by a credential of the request that has  *)
(* been of use since it came (PropustkaAuth.authenticate, authMiddleware,   *)
(* capabilityMiddleware, apiKeyMiddleware).                                 *)
THEOREM GatesInvariant == Spec => []GatesInv
<1>1. Inv /\ OthersTyped => GatesInv
  BY KnownIsKnown DEF Inv, OthersTyped, GatesInv, TypeOK, RequestsTyped, AllSound
<1> QED BY <1>1, AtFirst, OnwardStep, PTL DEF Spec

(* Whatever rules an app has, in whatever order, and whatever lapses or is  *)
(* disabled meanwhile: with authMiddleware in front, the first rule that is *)
(* not passed over decides (session.ts PropustkaAuth.authenticate).         *)
THEOREM RulesDecide == Spec => []DecidedByTheRules
<1>1. GatesInv => DecidedByTheRules
  <2> SUFFICES ASSUME GatesInv, NEW r \in Requests,
                      req[r].pc = "done", ~app.dev, Pipelines[req[r].path] = <<"auth">>
               PROVE  LET q == req[r] IN
                      CASE q.result = "served" ->
                             IF Applicable(q.path) = {} THEN app.unmatched = "public"
                             ELSE DecidedBy(q, LetsIn)
                        [] q.result \in {"invalid_key", "disabled"} -> DecidedBy(q, TurnsAway)
                        [] q.result \in {"login", "redirect"} -> Exhausted(q) /\ Humans(q) # {}
                        [] q.result = "no_credential" -> Exhausted(q) /\ Humans(q) = {}
                        [] q.result = "no_rule" -> Applicable(q.path) = {} /\ app.unmatched = "deny"
                        [] OTHER -> q.result \in {"override", "500"}
    BY DEF DecidedByTheRules
  <2>1. RightlyAnswered(req[r])
    BY DEF GatesInv, Sound, OnCourse, Free
  <2>2. QED
    BY <2>1 DEF RightlyAnswered, RightlyRefused, RightlyServed
<1> QED BY <1>1, GatesInvariant, PTL
===============================================================================
