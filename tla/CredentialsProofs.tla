-------------------------- MODULE CredentialsProofs --------------------------
(***************************************************************************)
(* What holds of every chain of minting, issuing and re-presenting, for any *)
(* number of principals, keys, requests, roles and patterns.                *)
(***************************************************************************)
EXTENDS Credentials, TLAPS

(***************************************************************************)
(* The permission algebra, for all patterns, actions, scopes and sets of    *)
(* entries.                                                                 *)
(***************************************************************************)

(* Matching composes: what a pattern matched by another pattern matches, the *)
(* other matches too. matchAction (permissions.ts) is applied to patterns as *)
(* well as to actions, by the delegation check and by the downscope.         *)
THEOREM MatchIsTransitive ==
  ASSUME NEW S, NEW p \in Seq(S), NEW q \in Seq(S), NEW a \in Seq(S),
         MatchAction(p, q), MatchAction(q, a)
  PROVE  MatchAction(p, a)
  <1>1. CASE p = AnyAction \/ p = q
    BY <1>1 DEF MatchAction
  <1>2. CASE IsNamespace(p) /\ Within(p, q)
    <2>1. CASE q = a
      BY <1>2, <2>1 DEF MatchAction
    <2>2. CASE IsNamespace(q) /\ Within(q, a)
      <3>1. Len(p) \in Nat /\ Len(q) \in Nat /\ Len(a) \in Nat
        OBVIOUS
      <3>2. Len(q) >= Len(p) /\ Len(a) >= Len(q)
        BY <1>2, <2>2 DEF Within
      <3>3. \A k \in 1 .. Len(p) - 1 : a[k] = p[k]
        BY <1>2, <2>2, <3>1, <3>2 DEF Within
      <3>4. QED
        BY <1>2, <3>1, <3>2, <3>3 DEF Within, MatchAction
    <2>3. CASE q = AnyAction
      BY <1>2, <2>3 DEF IsNamespace, Within, AnyAction
    <2>4. QED
      BY <2>1, <2>2, <2>3 DEF MatchAction
  <1>3. QED
    BY <1>1, <1>2 DEF MatchAction

LEMMA MatchIsReflexive == \A p : MatchAction(p, p)
  BY DEF MatchAction

(* A role or policy pattern passes the catalog check exactly when it is the *)
(* universal wildcard or matches some action of the catalog: the check and  *)
(* the matcher, written separately in permissions.ts, agree.                *)
THEOREM AllowedMeansMatching ==
  ASSUME NEW p, NEW catalog
  PROVE  IsActionAllowed(p, catalog) <=> p = AnyAction \/ \E a \in catalog : MatchAction(p, a)
  BY MatchIsReflexive DEF IsActionAllowed, MatchAction

EntryOf(S, Where) == [action : Seq(S), scope : Where]

(* Delegation is sound: grants that pass findUncoveredGrant (issue.ts)      *)
(* permit no action, at no scope, that the issuer's own permissions do not. *)
THEOREM DelegationIsSound ==
  ASSUME NEW S, NEW Where,
         NEW held \in SUBSET EntryOf(S, Where), NEW wanted \in SUBSET EntryOf(S, Where),
         Covered(held, wanted),
         NEW a \in Seq(S), NEW s, Permits(wanted, a, s)
  PROVE  Permits(held, a, s)
  <1>1. PICK g \in wanted : g.scope \in {Global, s} /\ MatchAction(g.action, a)
    BY DEF Permits
  <1>2. PICK h \in held : h.scope \in {Global, g.scope} /\ MatchAction(h.action, g.action)
    BY DEF Covered, Permits
  <1>3. g.action \in Seq(S) /\ h.action \in Seq(S)
    BY DEF EntryOf
  <1>4. MatchAction(h.action, a)
    BY <1>1, <1>2, <1>3, MatchIsTransitive
  <1>5. QED
    BY <1>1, <1>2, <1>4 DEF Permits

(* Actions, as a program asks for them, have no wildcard in them; a wildcard *)
(* of a pattern that permits anything is its last segment.                  *)
ActionsOver(S) == Seq(S \ {Star})
WildOnlyLast(p) == \A k \in 1 .. Len(p) - 1 : p[k] # Star

(* A pattern stands for the least action that it matches: itself with one   *)
(* segment in place of its Star. What matches that action with a segment    *)
(* that no pattern spells matches the whole pattern.                        *)
LEMMA LeastActionDecides ==
  ASSUME NEW S, NEW fresh, fresh \notin S, Star # fresh, NEW p \in Seq(S), WildOnlyLast(p)
  PROVE  \E a \in ActionsOver(S \cup {fresh}) :
            MatchAction(p, a) /\ \A q \in Seq(S) : MatchAction(q, a) => MatchAction(q, p)
  <1> DEFINE a == [p EXCEPT ![Len(p)] = fresh]
  <1>0. Len(p) \in Nat /\ p \in Seq(S \cup {fresh})
    OBVIOUS
  <1>1. CASE p = AnyAction \/ IsNamespace(p)
    <2>1. Len(p) >= 1 /\ p[Len(p)] = Star
      BY <1>1 DEF AnyAction, IsNamespace
    <2>2. /\ a \in Seq(S \cup {fresh}) /\ Len(a) = Len(p) /\ a[Len(p)] = fresh
          /\ \A k \in 1 .. Len(p) - 1 : a[k] = p[k]
      BY <1>0, <2>1
    <2> HIDE DEF a
    <2>5. a \in ActionsOver(S \cup {fresh})
      <3>1. ASSUME NEW k \in 1 .. Len(a) PROVE a[k] \in (S \cup {fresh}) \ {Star}
        BY <1>0, <2>2, k = Len(p) \/ k \in 1 .. Len(p) - 1 DEF WildOnlyLast
      <3> QED BY <2>2, <3>1 DEF ActionsOver
    <2>3. MatchAction(p, a)
      BY <1>0, <1>1, <2>2 DEF MatchAction, Within
    <2>4. ASSUME NEW q \in Seq(S), MatchAction(q, a) PROVE MatchAction(q, p)
      <3>1. q # a
        <4>1. q = a => q[Len(p)] = fresh /\ Len(q) = Len(p)
          BY <2>2
        <4>2. Len(q) = Len(p) => q[Len(p)] \in S
          BY <1>0, <2>1
        <4> QED BY <4>1, <4>2
      <3>2. CASE IsNamespace(q) /\ Within(q, a)
        <4>1. Len(q) \in Nat /\ Len(p) >= Len(q)
          BY <2>2, <3>2 DEF Within
        <4>2. \A k \in 1 .. Len(q) - 1 : p[k] = q[k]
          BY <1>0, <2>2, <3>2, <4>1 DEF Within
        <4> QED BY <3>2, <4>1, <4>2 DEF MatchAction, Within
      <3>3. CASE q = AnyAction
        BY <3>3 DEF MatchAction
      <3> QED BY <2>4, <3>1, <3>2, <3>3 DEF MatchAction
    <2> QED BY <2>3, <2>4, <2>5
  <1>2. CASE ~ (p = AnyAction \/ IsNamespace(p))
    <2>1. ASSUME NEW k \in 1 .. Len(p) PROVE p[k] \in (S \cup {fresh}) \ {Star}
      <3>1. p[Len(p)] # Star
        <4>1. Len(p) = 1 \/ Len(p) > 1
          <5>1. \A n \in Nat : \A j \in 1 .. n : n = 1 \/ n > 1
            OBVIOUS
          <5> QED BY <1>0, <5>1
        <4>2. CASE Len(p) > 1
          BY <1>2, <4>2 DEF IsNamespace
        <4>3. CASE Len(p) = 1
          <5>1. p = <<p[1]>>
            BY <4>3
          <5> QED BY <1>2, <4>3, <5>1 DEF AnyAction
        <4> QED BY <4>1, <4>2, <4>3
      <3> QED BY <1>0, <3>1, k = Len(p) \/ k \in 1 .. Len(p) - 1 DEF WildOnlyLast
    <2>2. p \in ActionsOver(S \cup {fresh})
      BY <1>0, <2>1 DEF ActionsOver
    <2> QED BY <2>2, MatchIsReflexive
  <1> QED BY <1>1, <1>2

(* Delegation is exact: findUncoveredGrant (issue.ts) compares patterns     *)
(* with patterns, and lets a grant pass precisely when the issuer is        *)
(* permitted every action the grant will ever permit, those and the scopes  *)
(* that exist only later included. No action has a wildcard in it: what     *)
(* decides is what the patterns permit, and no grant is refused for its     *)
(* pattern being spelled otherwise than the issuer's.                       *)
THEOREM DelegationIsExact ==
  ASSUME NEW S, NEW Where, Global \in Where,
         NEW fresh, fresh \notin S, Star # fresh, NEW elsewhere, elsewhere \notin Where,
         NEW held \in SUBSET EntryOf(S, Where), NEW wanted \in SUBSET EntryOf(S, Where),
         \A g \in wanted : WildOnlyLast(g.action)
  PROVE  Covered(held, wanted) <=>
            \A a \in ActionsOver(S \cup {fresh}), s \in Where \cup {elsewhere} :
                Permits(wanted, a, s) => Permits(held, a, s)
  <1>1. ASSUME Covered(held, wanted), NEW a \in ActionsOver(S \cup {fresh}), NEW s,
               Permits(wanted, a, s)
        PROVE  Permits(held, a, s)
    <2>1. EntryOf(S, Where) \subseteq EntryOf(S \cup {fresh}, Where)
      BY DEF EntryOf
    <2>2. a \in Seq(S \cup {fresh})
      BY DEF ActionsOver
    <2> QED BY <1>1, <2>1, <2>2, DelegationIsSound
  <1>2. ASSUME \A a \in ActionsOver(S \cup {fresh}), s \in Where \cup {elsewhere} :
                   Permits(wanted, a, s) => Permits(held, a, s),
               NEW g \in wanted
        PROVE  Permits(held, g.action, g.scope)
    <2> DEFINE s == IF g.scope = Global THEN elsewhere ELSE g.scope
    <2>1. g.action \in Seq(S) /\ g.scope \in Where /\ s \in Where \cup {elsewhere}
      BY DEF EntryOf
    <2>2. PICK a \in ActionsOver(S \cup {fresh}) :
              MatchAction(g.action, a) /\ \A q \in Seq(S) : MatchAction(q, a) => MatchAction(q, g.action)
      BY <2>1, LeastActionDecides
    <2>3. Permits(wanted, a, s)
      BY <2>2 DEF Permits
    <2>4. PICK h \in held : h.scope \in {Global, s} /\ MatchAction(h.action, a)
      BY <1>2, <2>1, <2>3 DEF Permits
    <2>5. h.action \in Seq(S) /\ h.scope \in Where
      BY DEF EntryOf
    <2>6. h.scope \in {Global, g.scope}
      BY <2>4, <2>5
    <2>7. MatchAction(h.action, g.action)
      BY <2>2, <2>4, <2>5
    <2> QED BY <2>6, <2>7 DEF Permits
  <1> QED BY <1>1, <1>2 DEF Covered

(* A downscoped credential (tokens.ts resolveCredential) permits nothing    *)
(* that its principal does not hold now, and nothing outside its own inline *)
(* grants.                                                                  *)
THEOREM DownscopeIsSound ==
  ASSUME NEW S, NEW Where,
         NEW held \in SUBSET EntryOf(S, Where), NEW inline \in SUBSET EntryOf(S, Where),
         NEW a \in Seq(S), NEW s, Permits(Downscope(held, inline), a, s)
  PROVE  Permits(held, a, s) /\ (inline # {} => Permits(inline, a, s))
  <1>1. CASE inline = {}
    BY <1>1 DEF Downscope
  <1>2. CASE inline # {}
    <2> DEFINE kept == {e \in inline : Permits(held, e.action, e.scope)}
    <2>1. Permits(kept, a, s)
      BY <1>2 DEF Downscope
    <2>2. Covered(held, kept)
      BY DEF Covered
    <2>3. Permits(held, a, s)
      BY <2>1, <2>2, DelegationIsSound
    <2>4. Permits(inline, a, s)
      BY <2>1 DEF Permits
    <2>5. QED
      BY <2>3, <2>4
  <1>3. QED
    BY <1>1, <1>2

(* scopedTo() and can() agree: a scope value is reported, or the answer is  *)
(* unrestricted, exactly when the action is permitted at that scope.        *)
THEOREM ScopedValuesAgree ==
  ASSUME NEW entries, NEW a, NEW d, NEW v,
         \A e \in entries : e.scope = Global \/ \E t, w : e.scope = [type |-> t, value |-> w]
  PROVE  LET found == ScopedValues(entries, a, d)
         IN  found.all \/ v \in found.values <=> Permits(entries, a, [type |-> d, value |-> v])
  <1> DEFINE at == [type |-> d, value |-> v]
             scoped == {e \in Matching(entries, a) : e.scope # Global /\ e.scope.type = d}
  <1>1. CASE \E e \in Matching(entries, a) : e.scope = Global
    BY <1>1 DEF ScopedValues, Matching, Permits
  <1>2. CASE ~ \E e \in Matching(entries, a) : e.scope = Global
    <2>1. ScopedValues(entries, a, d) = [all |-> FALSE, values |-> {e.scope.value : e \in scoped}]
      BY <1>2 DEF ScopedValues
    <2>2. Permits(entries, a, at) <=> \E e \in Matching(entries, a) : e.scope = at
      BY <1>2 DEF Permits, Matching
    <2>3. ASSUME NEW e \in Matching(entries, a)
          PROVE  e.scope = at <=> e \in scoped /\ e.scope.value = v
      <3>1. e \in entries /\ e.scope # Global
        BY <1>2 DEF Matching
      <3>2. PICK t, w : e.scope = [type |-> t, value |-> w]
        BY <3>1
      <3>3. e.scope.type = t /\ e.scope.value = w
        BY <3>2
      <3>4. e \in scoped <=> t = d
        BY <3>1, <3>3
      <3>5. e.scope = at <=> t = d /\ w = v
        BY <3>2
      <3>6. QED
        BY <3>3, <3>4, <3>5
    <2>4. QED
      BY <2>1, <2>2, <2>3
  <1>3. QED
    BY <1>1, <1>2

(***************************************************************************)
(* The credentials: what downscoping and resolution return.                 *)
(***************************************************************************)
LEMMA CoveredDoesNotExceed ==
  ASSUME NEW held \in SUBSET Entry, NEW wanted \in SUBSET Entry, Covered(held, wanted)
  PROVE  ~ Exceeds(wanted, held)
  <1>1. Entry = EntryOf(Segments, Scopes)
    BY DEF Entry, EntryOf
  <1>2. QED
    BY <1>1, DelegationIsSound, CredentialConstants DEF Exceeds

LEMMA DownscopeDoesNotExceed ==
  ASSUME NEW held \in SUBSET Entry, NEW inline \in SUBSET Entry
  PROVE  /\ Downscope(held, inline) \in SUBSET Entry
         /\ ~ Exceeds(Downscope(held, inline), held)
         /\ inline # {} => ~ Exceeds(Downscope(held, inline), inline)
  <1>1. Entry = EntryOf(Segments, Scopes)
    BY DEF Entry, EntryOf
  <1>2. Downscope(held, inline) \in SUBSET Entry
    BY DEF Downscope
  <1>3. QED
    BY <1>1, <1>2, DownscopeIsSound, CredentialConstants DEF Exceeds

LEMMA ExceedsComposes ==
  ASSUME NEW A, NEW B, NEW C, ~ Exceeds(A, B), ~ Exceeds(B, C)
  PROVE  ~ Exceeds(A, C)
  BY DEF Exceeds

LEMMA ResolutionType ==
  ASSUME TypeOK, NEW rows \in SUBSET GrantRows, NEW bootstrap \in BOOLEAN
  PROVE  ComputePermissions(rows, bootstrap, roles) \in SUBSET Entry
  <1>1. AnyAction \in Seq(Segments)
    BY CredentialConstants DEF AnyAction
  <1>2. ASSUME NEW g \in rows
        PROVE  [action : Expand(roles, g), scope : {g.scope}] \subseteq Entry
    <2>1. g \in [to : Principals, role : RoleKeys \cup {"admin", "inline"},
                 permissions : SUBSET Seq(Segments), scope : Scopes]
      BY CredentialConstants
    <2>2. Expand(roles, g) \subseteq Seq(Segments)
      BY <1>1, <2>1 DEF Expand, RolePermissions, TypeOK
    <2>3. QED
      BY <2>1, <2>2 DEF Entry
  <1> DEFINE admin == [action |-> AnyAction, scope |-> Global]
  <1>3. admin \in Entry
    BY <1>1, CredentialConstants DEF Entry
  <1> DEFINE expanded == {[action : Expand(roles, g), scope : {g.scope}] : g \in rows}
  <1>4. (UNION expanded) \subseteq Entry
    BY <1>2
  <1>5. ComputePermissions(rows, bootstrap, roles)
          = (UNION expanded) \cup (IF bootstrap THEN {admin} ELSE {})
    BY DEF ComputePermissions
  <1> HIDE DEF expanded, admin
  <1>6. QED
    BY <1>3, <1>4, <1>5

LEMMA SoundInit == Init => CredentialsSound
  <1> SUFFICES ASSUME Init PROVE CredentialsSound
    OBVIOUS
  <1>1. TypeOK
    BY DEF Init, TypeOK, Fresh, NoKey, NoToken, PrincipalOrNone, Call, Token
  <1>2. ~ Exceeds({}, {})
    BY DEF Exceeds
  <1>3. QED
    BY <1>1, <1>2 DEF Init, CredentialsSound, WithinAccountable, SoundCall, Fresh, NoKey, NoToken

(* The calls stay sound when one of them moves to a sound state.            *)
CallsSound == req \in [Requests -> Call] /\ \A r \in Requests : SoundCall(req[r])

LEMMA MoveCall ==
  ASSUME CallsSound, NEW r \in Requests, NEW c \in Call, SoundCall(c),
         req' = [req EXCEPT ![r] = c]
  PROVE  CallsSound'
  BY DEF CallsSound

LEMMA ResolvedCall ==
  ASSUME NEW d \in Call, NEW held \in SUBSET Entry, NEW kept \in SUBSET Entry
  PROVE  [d EXCEPT !.pc = "ready", !.rows = {}, !.root = held, !.perms = kept]
           \in [pc : {"ready"}, via : {d.via}, key : {d.key}, sub : {d.sub},
                inline : {d.inline}, rows : {{}}, root : {held}, perms : {kept}]
  BY DEF Call

LEMMA FinishCall ==
  ASSUME CallsSound, NEW r \in Requests, NEW via, Finish(r, via)
  PROVE  CallsSound'
  <1> DEFINE c == [req[r] EXCEPT !.pc = "done"]
  <1>1. c \in Call
    BY DEF CallsSound, Call
  <1>2. SoundCall(c)
    BY DEF CallsSound, Finish, SoundCall, Call
  <1>3. req' = [req EXCEPT ![r] = c]
    BY DEF Finish
  <1>4. QED
    BY <1>1, <1>2, <1>3, MoveCall

LEMMA SoundStep == CredentialsSound /\ [Next]_vars => CredentialsSound'
  <1> SUFFICES ASSUME CredentialsSound, [Next]_vars PROVE CredentialsSound'
    OBVIOUS
  <1> USE CredentialConstants DEF PrincipalOrNone
  <1>0. CallsSound /\ TypeOK /\ WithinAccountable
    BY DEF CallsSound, CredentialsSound, TypeOK
  <1>a. ASSUME CallsSound', UNCHANGED <<grants, roles, disabled, key, token>>,
               barred' \in [Requests -> SUBSET (Principals \cup Keys)]
        PROVE  CredentialsSound'
    BY <1>0, <1>a DEF CallsSound, CredentialsSound, TypeOK, WithinAccountable
  <1>b. ASSUME NEW r \in Requests, NEW c \in Call, SoundCall(c), Begin(r, c)
        PROVE  CredentialsSound'
    <2>1. CallsSound'
      BY <1>0, <1>b, MoveCall DEF Begin
    <2>2. barred' \in [Requests -> SUBSET (Principals \cup Keys)]
      BY <1>0, <1>b DEF Begin, TypeOK, RevokedKeys
    <2>3. QED
      BY <1>a, <1>b, <2>1, <2>2 DEF Begin
  <1>c. ASSUME NEW r \in Requests, NEW c \in Call, NEW from, SoundCall(c), Step(r, from, c)
        PROVE  CredentialsSound'
    BY <1>0, <1>a, <1>c, MoveCall DEF Step, TypeOK
  <1>d. \A r \in Requests : req[r] \in Call /\ SoundCall(req[r])
    BY <1>0 DEF CallsSound
  <1>1. ASSUME NEW r \in Requests, NEW p \in Principals, PresentSession(r, p)
        PROVE  CredentialsSound'
    BY <1>1, <1>b DEF PresentSession, Fresh, Call, SoundCall
  <1>2. ASSUME NEW r \in Requests, NEW k \in Keys, PresentKey(r, k)
        PROVE  CredentialsSound'
    <2>1. key[k] \in KeyRow
      BY <1>0, <1>2 DEF PresentKey, TypeOK, NoKey
    <2>2. CASE key[k].owner = None
      BY <1>0, <1>2, <1>b, <2>1, <2>2
         DEF PresentKey, Fresh, Call, SoundCall, KeyRow, WithinAccountable
    <2>3. CASE key[k].owner # None
      BY <1>2, <1>b, <2>1, <2>3 DEF PresentKey, Fresh, Call, SoundCall, KeyRow
    <2>4. QED
      BY <2>2, <2>3
  <1>3. ASSUME NEW r \in Requests, NEW s \in Requests, PresentToken(r, s)
        PROVE  CredentialsSound'
    <2>1. token[s] \in Token /\ ~ Exceeds(token[s].perms, token[s].root)
      BY <1>0 DEF TypeOK, WithinAccountable
    <2>2. QED
      BY <1>3, <1>b, <2>1 DEF PresentToken, Fresh, Call, Token, SoundCall
  <1>4. ASSUME NEW r \in Requests, ReadPrincipal(r)
        PROVE  CredentialsSound'
    BY <1>4, <1>c, <1>d DEF ReadPrincipal, Call, SoundCall
  <1>5. ASSUME NEW r \in Requests, ReadGrants(r)
        PROVE  CredentialsSound'
    BY <1>0, <1>5, <1>c, <1>d DEF ReadGrants, Call, SoundCall, TypeOK
  <1>6. ASSUME NEW r \in Requests, ReadRoles(r)
        PROVE  CredentialsSound'
    <2> DEFINE resolved == ComputePermissions(req[r].rows, req[r].sub \in Bootstrap, roles)
               kept     == Downscope(resolved, req[r].inline)
               c        == [req[r] EXCEPT !.pc = "ready", !.rows = {},
                                          !.root = resolved, !.perms = kept]
    <2>1. req[r].rows \in SUBSET GrantRows /\ req[r].inline \in SUBSET Entry
      BY <1>d DEF Call
    <2>2. resolved \in SUBSET Entry
      <3>1. (req[r].sub \in Bootstrap) \in BOOLEAN
        OBVIOUS
      <3>2. QED
        BY <1>0, <2>1, <3>1, ResolutionType
    <2>3. /\ kept \in SUBSET Entry
          /\ ~ Exceeds(kept, resolved)
          /\ req[r].inline # {} => ~ Exceeds(kept, req[r].inline)
      BY <2>1, <2>2, DownscopeDoesNotExceed
    <2>4. Step(r, "roles", c)
      BY <1>6 DEF ReadRoles
    <2> HIDE DEF resolved, kept
    <2>5. c \in [pc : {"ready"}, via : {req[r].via}, key : {req[r].key}, sub : {req[r].sub},
                inline : {req[r].inline}, rows : {{}}, root : {resolved}, perms : {kept}]
      BY <1>d, <2>2, <2>3, ResolvedCall
    <2> HIDE DEF c
    <2>6. c \in Call /\ c.inline = req[r].inline /\ c.root = resolved /\ c.perms = kept
      BY <1>d, <2>2, <2>3, <2>5 DEF Call
    <2>7. SoundCall(c)
      BY <2>3, <2>6 DEF SoundCall
    <2>8. QED
      BY <1>c, <2>4, <2>6, <2>7
  <1>7. ASSUME NEW r \in Requests, Mint(r)
        PROVE  CredentialsSound'
    <2>1. CallsSound'
      BY <1>0, <1>7, FinishCall DEF Mint
    <2>2. ~ Exceeds(req[r].perms, req[r].root)
      BY <1>7, <1>d DEF Mint, Finish, SoundCall
    <2>3. token' \in [Requests -> Token]
      BY <1>0, <1>7, <1>d DEF Mint, TypeOK, Token, Call
    <2>4. QED
      BY <1>0, <1>7, <2>1, <2>2, <2>3
         DEF Mint, Finish, CallsSound, CredentialsSound, TypeOK, WithinAccountable
  <1>8. ASSUME NEW r \in Requests, NEW wanted \in Inlines, MayIssue(r, wanted), req[r].pc = "ready"
        PROVE  wanted \in SUBSET Entry /\ ~ Exceeds(wanted, req[r].root)
    <2>1. wanted \in SUBSET Entry /\ req[r].perms \in SUBSET Entry
      BY <1>d DEF Call
    <2>2. ~ Exceeds(wanted, req[r].perms)
      BY <1>8, <2>1, CoveredDoesNotExceed DEF MayIssue
    <2>3. ~ Exceeds(req[r].perms, req[r].root)
      BY <1>8, <1>d DEF SoundCall
    <2>4. QED
      BY <2>1, <2>2, <2>3, ExceedsComposes
  <1>9. ASSUME NEW r \in Requests, NEW wanted \in Inlines, IssueJwt(r, wanted)
        PROVE  CredentialsSound'
    <2>1. CallsSound'
      BY <1>0, <1>9, FinishCall DEF IssueJwt
    <2>2. wanted \in SUBSET Entry /\ ~ Exceeds(wanted, req[r].root)
      BY <1>8, <1>9 DEF IssueJwt, Finish
    <2>3. token' \in [Requests -> Token]
      BY <1>0, <1>9, <1>d, <2>2 DEF IssueJwt, TypeOK, Token, Call
    <2>4. QED
      BY <1>0, <1>9, <2>1, <2>2, <2>3
         DEF IssueJwt, Finish, CallsSound, CredentialsSound, TypeOK, WithinAccountable
  <1>10. ASSUME NEW r \in Requests, NEW wanted \in Inlines, NEW k \in Keys,
                NEW o \in Principals \cup {None}, IssueKey(r, k, wanted, o)
         PROVE  CredentialsSound'
    <2>1. CallsSound'
      BY <1>0, <1>10, FinishCall DEF IssueKey
    <2>2. wanted \in SUBSET Entry /\ ~ Exceeds(wanted, req[r].root)
      BY <1>8, <1>10 DEF IssueKey, Finish
    <2>3. key' \in [Keys -> {NoKey} \cup KeyRow]
      BY <1>0, <1>10, <1>d, <2>2 DEF IssueKey, MayIssue, TypeOK, KeyRow, Call
    <2>4. QED
      BY <1>0, <1>10, <2>1, <2>2, <2>3
         DEF IssueKey, Finish, CallsSound, CredentialsSound, TypeOK, WithinAccountable
  <1>11. ASSUME NEW r \in Requests, NEW k \in Keys, RevokeKey(r, k)
         PROVE  CredentialsSound'
    <2>1. CallsSound'
      BY <1>0, <1>11, FinishCall DEF RevokeKey
    <2>2. key[k] \in KeyRow
      BY <1>0, <1>11 DEF RevokeKey, TypeOK, NoKey
    <2>3. key' \in [Keys -> {NoKey} \cup KeyRow]
      BY <1>0, <1>11, <2>2 DEF RevokeKey, TypeOK, KeyRow
    <2>4. \A j \in Keys : key'[j].exists = key[j].exists /\ (key[j].exists =>
              key'[j].owner = key[j].owner /\ key'[j].inline = key[j].inline
              /\ key'[j].root = key[j].root)
      BY <1>0, <1>11, <2>2 DEF RevokeKey, TypeOK, KeyRow
    <2>5. QED
      BY <1>0, <1>11, <2>1, <2>3, <2>4
         DEF RevokeKey, Finish, CallsSound, CredentialsSound, TypeOK, WithinAccountable
  <1>14. ASSUME NEW r \in Requests, NEW wanted \in Inlines, NEW k \in Keys, CreateShareLink(r, k, wanted)
         PROVE  CredentialsSound'
    <2>1. CallsSound'
      BY <1>0, <1>14, FinishCall DEF CreateShareLink, ActsAsAdmin
    <2>2. wanted \in SUBSET Entry /\ ~ Exceeds(wanted, req[r].root)
      BY <1>8, <1>14 DEF CreateShareLink, ActsAsAdmin, Finish
    <2>3. key' \in [Keys -> {NoKey} \cup KeyRow]
      BY <1>0, <1>14, <1>d, <2>2 DEF CreateShareLink, MayIssue, TypeOK, KeyRow, Call
    <2>4. QED
      BY <1>0, <1>14, <2>1, <2>2, <2>3
         DEF CreateShareLink, ActsAsAdmin, Finish, CallsSound, CredentialsSound, TypeOK, WithinAccountable
  <1>15. ASSUME NEW r \in Requests, NEW k \in Keys, RevokeShareLink(r, k)
         PROVE  CredentialsSound'
    <2>1. CallsSound'
      BY <1>0, <1>15, FinishCall DEF RevokeShareLink, ActsAsAdmin
    <2>2. key[k] \in KeyRow
      BY <1>0, <1>15 DEF RevokeShareLink, TypeOK, NoKey
    <2>3. key' \in [Keys -> {NoKey} \cup KeyRow]
      BY <1>0, <1>15, <2>2 DEF RevokeShareLink, TypeOK, KeyRow
    <2>4. \A j \in Keys : key'[j].exists = key[j].exists /\ (key[j].exists =>
              key'[j].owner = key[j].owner /\ key'[j].inline = key[j].inline
              /\ key'[j].root = key[j].root)
      BY <1>0, <1>15, <2>2 DEF RevokeShareLink, TypeOK, KeyRow
    <2>5. QED
      BY <1>0, <1>15, <2>1, <2>3, <2>4
         DEF RevokeShareLink, ActsAsAdmin, Finish, CallsSound, CredentialsSound, TypeOK, WithinAccountable
  <1>12. CASE \/ \E g \in GrantRows : AddGrant(g) \/ RemoveGrant(g)
              \/ \E k \in RoleKeys, d \in RoleDefs : SetRole(k, d)
              \/ \E p \in Principals : Disable(p) \/ Enable(p)
    <2>1. UNCHANGED <<key, req, token>>
      BY <1>12 DEF AddGrant, RemoveGrant, SetRole, Disable, Enable, Administer
    <2>2. TypeOK'
      BY <1>0, <1>12 DEF TypeOK, AddGrant, RemoveGrant, SetRole, Disable, Enable, Administer
    <2>3. QED
      BY <1>0, <2>1, <2>2 DEF WithinAccountable, CredentialsSound, CallsSound
  <1>13. CASE UNCHANGED vars
    BY <1>0, <1>13 DEF vars, TypeOK, WithinAccountable, CredentialsSound, CallsSound
  <1>16. QED
    BY <1>1, <1>2, <1>3, <1>4, <1>5, <1>6, <1>7, <1>9, <1>10, <1>11, <1>12, <1>13, <1>14, <1>15 DEF Next

LEMMA BarredInit == Init => \A r \in Requests : BarredStaysOut(r)
  BY DEF Init, BarredStaysOut, Fresh, NoToken

(* A call that has just begun: nothing that was barred then is what it      *)
(* presents, as far as it has read it.                                      *)
LEMMA BarredBegin ==
  ASSUME TypeOK, \A r \in Requests : BarredStaysOut(r),
         NEW r \in Requests, NEW c \in Call, Begin(r, c),
         c.via \in {"session", "key"} =>
            /\ c.key \notin RevokedKeys
            /\ c.key \in Keys \cup {None}
            /\ c.pc = "principal" \/ c.sub = None
  PROVE  \A q \in Requests : BarredStaysOut(q)'
  <1> SUFFICES ASSUME NEW q \in Requests PROVE BarredStaysOut(q)'
    OBVIOUS
  <1> USE CredentialConstants
  <1>1. BarredStaysOut(q) /\ token[r] = NoToken
    BY DEF Begin, BarredStaysOut
  <1>2. CASE q # r
    BY <1>1, <1>2 DEF Begin, BarredStaysOut, TypeOK
  <1>3. CASE q = r
    <2>1. req'[r] = c /\ barred'[r] = disabled \cup RevokedKeys
      BY DEF Begin, TypeOK
    <2>2. RevokedKeys \subseteq Keys /\ disabled \subseteq Principals
      BY DEF RevokedKeys, TypeOK
    <2>3. c.via \in {"session", "key"} => c.key \notin barred'[r] /\ (c.pc = "principal" \/ c.sub \notin barred'[r])
      BY <2>1, <2>2
    <2>4. QED
      BY <1>1, <1>3, <2>1, <2>2, <2>3 DEF Begin, BarredStaysOut
  <1>4. QED
    BY <1>2, <1>3

(* A call that moves on keeps what it presented; it comes by a token only   *)
(* when it is done, and past its principal only if this is not disabled.    *)
LEMMA BarredMoves ==
  ASSUME TypeOK, \A r \in Requests : BarredStaysOut(r),
         NEW r \in Requests, NEW c \in Call,
         req' = [req EXCEPT ![r] = c],
         c.via = req[r].via /\ c.key = req[r].key /\ c.sub = req[r].sub,
         \/ req[r].pc \in {"grants", "roles", "ready"}
         \/ req[r].pc = "principal" /\ (c.pc = "refused" \/ c.sub \notin disabled),
         \A q \in Requests : token'[q] = token[q] \/ (q = r /\ c.pc = "done"),
         UNCHANGED <<disabled, barred>>
  PROVE  \A q \in Requests : BarredStaysOut(q)'
  <1> SUFFICES ASSUME NEW q \in Requests PROVE BarredStaysOut(q)'
    OBVIOUS
  <1> USE CredentialConstants
  <1>1. BarredStaysOut(q) /\ BarredStaysOut(r)
    OBVIOUS
  <1>2. CASE q # r
    BY <1>1, <1>2 DEF BarredStaysOut, TypeOK
  <1>3. CASE q = r
    <2>1. req'[r] = c /\ req[r] \in Call
      BY DEF TypeOK
    <2>2. barred[r] \subseteq Principals \cup Keys /\ barred[r] \cap Principals \subseteq disabled
      BY <1>1 DEF BarredStaysOut, TypeOK
    <2>3. c.sub \in Principals \cup {None}
      BY DEF Call, PrincipalOrNone
    <2>4. c.sub \notin disabled => c.sub \notin barred[r]
      BY <2>2, <2>3
    <2>5. QED
      BY <1>1, <1>3, <2>1, <2>2, <2>4 DEF BarredStaysOut
  <1>4. QED
    BY <1>2, <1>3

LEMMA BarredStep ==
  CredentialsIInv /\ [Next]_vars => \A r \in Requests : BarredStaysOut(r)'
  <1> SUFFICES ASSUME CredentialsIInv, [Next]_vars PROVE \A r \in Requests : BarredStaysOut(r)'
    OBVIOUS
  <1>0. TypeOK /\ \A r \in Requests : BarredStaysOut(r) /\ req[r] \in Call
    BY DEF CredentialsIInv, CredentialsSound, TypeOK
  <1>1. ASSUME NEW r \in Requests, NEW p \in Principals, PresentSession(r, p)
        PROVE  \A q \in Requests : BarredStaysOut(q)'
    <2> DEFINE c == [Fresh EXCEPT !.pc = "principal", !.via = "session", !.sub = p]
    <2>1. c \in Call /\ c.key = None /\ c.pc = "principal"
      BY DEF Fresh, Call, PrincipalOrNone
    <2>2. None \notin RevokedKeys
      BY CredentialConstants DEF RevokedKeys
    <2>3. Begin(r, c)
      BY <1>1 DEF PresentSession
    <2> HIDE DEF c
    <2>4. QED
      BY <1>0, <2>1, <2>2, <2>3, BarredBegin
  <1>2. ASSUME NEW r \in Requests, NEW k \in Keys, PresentKey(r, k)
        PROVE  \A q \in Requests : BarredStaysOut(q)'
    <2>1. key[k] \in KeyRow /\ k \notin RevokedKeys
      BY <1>0, <1>2 DEF PresentKey, TypeOK, NoKey, RevokedKeys
    <2> DEFINE anonymous == [Fresh EXCEPT !.pc = "ready", !.via = "key", !.key = k,
                                          !.perms = key[k].inline, !.root = key[k].root]
               bound     == [Fresh EXCEPT !.pc = "principal", !.via = "key", !.key = k,
                                          !.sub = key[k].owner, !.inline = key[k].inline]
               c         == IF key[k].owner = None THEN anonymous ELSE bound
    <2>2. anonymous \in Call /\ anonymous.key = k /\ anonymous.sub = None
      BY <2>1 DEF Fresh, Call, KeyRow, PrincipalOrNone
    <2>3. bound \in Call /\ bound.key = k /\ bound.pc = "principal"
      BY <2>1 DEF Fresh, Call, KeyRow, PrincipalOrNone
    <2>4. Begin(r, c)
      BY <1>2 DEF PresentKey
    <2> HIDE DEF anonymous, bound
    <2>5. c \in Call /\ c.key = k /\ (c.pc = "principal" \/ c.sub = None)
      BY <2>2, <2>3
    <2> HIDE DEF c
    <2>6. QED
      BY <1>0, <2>1, <2>4, <2>5, BarredBegin
  <1>3. ASSUME NEW r \in Requests, NEW s \in Requests, PresentToken(r, s)
        PROVE  \A q \in Requests : BarredStaysOut(q)'
    <2>1. token[s] \in Token
      BY <1>0 DEF TypeOK
    <2> DEFINE c == [Fresh EXCEPT !.pc = "ready", !.via = "token", !.sub = token[s].sub,
                                  !.perms = token[s].perms, !.root = token[s].root]
    <2>2. c \in Call /\ c.via = "token"
      BY <2>1 DEF Fresh, Call, Token, PrincipalOrNone
    <2>3. Begin(r, c)
      BY <1>3 DEF PresentToken
    <2> HIDE DEF c
    <2>4. QED
      BY <1>0, <2>2, <2>3, BarredBegin
  <1>4. ASSUME NEW r \in Requests, ReadPrincipal(r)
        PROVE  \A q \in Requests : BarredStaysOut(q)'
    <2> DEFINE c == [req[r] EXCEPT !.pc = IF req[r].sub \in disabled THEN "refused" ELSE "grants"]
    <2>1. /\ c \in Call /\ c.via = req[r].via /\ c.key = req[r].key /\ c.sub = req[r].sub
          /\ c.pc = "refused" \/ c.sub \notin disabled
      BY <1>0 DEF Call
    <2>2. Step(r, "principal", c)
      BY <1>4 DEF ReadPrincipal
    <2> HIDE DEF c
    <2>3. QED
      BY <1>0, <2>1, <2>2, BarredMoves DEF Step
  <1>5. ASSUME NEW r \in Requests, ReadGrants(r) \/ ReadRoles(r)
        PROVE  \A q \in Requests : BarredStaysOut(q)'
    <2>1. req'[r] \in Call
      BY SoundStep DEF CredentialsIInv, CredentialsSound, TypeOK
    <2>2. /\ req' = [req EXCEPT ![r] = req'[r]]
          /\ req[r].pc \in {"grants", "roles"}
          /\ UNCHANGED <<disabled, token, barred>>
      BY <1>0, <1>5 DEF ReadGrants, ReadRoles, Step, TypeOK
    <2>3. /\ req'[r].via = req[r].via /\ req'[r].key = req[r].key
          /\ req'[r].sub = req[r].sub
      <3>1. CASE ReadGrants(r)
        BY <1>0, <3>1 DEF ReadGrants, Step, TypeOK, Call
      <3>2. CASE ReadRoles(r)
        BY <1>0, <3>2 DEF ReadRoles, Step, TypeOK, Call
      <3>3. QED
        BY <1>5, <3>1, <3>2
    <2> DEFINE c == req'[r]
    <2>4. c \in Call /\ req' = [req EXCEPT ![r] = c]
          /\ c.via = req[r].via /\ c.key = req[r].key /\ c.sub = req[r].sub
      BY <2>1, <2>2, <2>3
    <2> HIDE DEF c
    <2>5. QED
      BY <1>0, <2>2, <2>4, BarredMoves
  <1>6. ASSUME NEW r \in Requests, NEW via, Finish(r, via),
               \A q \in Requests : token'[q] = token[q] \/ q = r
        PROVE  \A q \in Requests : BarredStaysOut(q)'
    <2> DEFINE c == [req[r] EXCEPT !.pc = "done"]
    <2>1. /\ c \in Call /\ c.via = req[r].via /\ c.key = req[r].key /\ c.sub = req[r].sub
          /\ c.pc = "done"
      BY <1>0 DEF Call
    <2>2. req' = [req EXCEPT ![r] = c] /\ req[r].pc = "ready" /\ UNCHANGED <<disabled, barred>>
      BY <1>6 DEF Finish
    <2> HIDE DEF c
    <2>3. QED
      BY <1>0, <1>6, <2>1, <2>2, BarredMoves
  <1>7. ASSUME NEW r \in Requests, Mint(r) \/ \E wanted \in Inlines : IssueJwt(r, wanted)
        PROVE  \A q \in Requests : BarredStaysOut(q)'
    <2>1. \A q \in Requests : token'[q] = token[q] \/ q = r
      BY <1>0, <1>7 DEF Mint, IssueJwt, TypeOK
    <2>2. QED
      BY <1>6, <1>7, <2>1 DEF Mint, IssueJwt
  <1>8. ASSUME NEW r \in Requests, NEW k \in Keys,
               \/ RevokeKey(r, k) \/ RevokeShareLink(r, k)
               \/ \E wanted \in Inlines : \/ CreateShareLink(r, k, wanted)
                                         \/ \E o \in Principals \cup {None} : IssueKey(r, k, wanted, o)
        PROVE  \A q \in Requests : BarredStaysOut(q)'
    BY <1>6, <1>8 DEF RevokeKey, RevokeShareLink, CreateShareLink, IssueKey, ActsAsAdmin
  <1>9. CASE \/ \E g \in GrantRows : AddGrant(g) \/ RemoveGrant(g)
             \/ \E k \in RoleKeys, d \in RoleDefs : SetRole(k, d)
             \/ \E p \in Principals : Disable(p)
             \/ UNCHANGED vars
    <2>1. UNCHANGED <<req, token, barred>> /\ disabled \subseteq disabled'
      BY <1>9 DEF AddGrant, RemoveGrant, SetRole, Disable, Administer, vars
    <2>2. QED
      BY <1>0, <2>1 DEF BarredStaysOut
  <1>10. ASSUME NEW p \in Principals, Enable(p)
         PROVE  \A q \in Requests : BarredStaysOut(q)'
    <2>1. \A q \in Requests : barred'[q] = barred[q] \ {p}
      BY <1>10 DEF Enable
    <2>2. QED
      BY <1>0, <1>10, <2>1 DEF BarredStaysOut, Enable, Administer
  <1>11. QED
    BY <1>1, <1>2, <1>3, <1>4, <1>5, <1>7, <1>8, <1>9, <1>10 DEF Next

LEMMA CredentialsInit == Init => CredentialsIInv
  BY SoundInit, BarredInit DEF CredentialsIInv

LEMMA CredentialsStep == CredentialsIInv /\ [Next]_vars => CredentialsIInv'
  BY SoundStep, BarredStep DEF CredentialsIInv

(* The strengthening holds in every reachable state.                        *)
THEOREM CredentialsInvariant == Spec => []CredentialsIInv
  BY CredentialsInit, CredentialsStep, PTL DEF Spec

(* Every permission that any token or anonymous key confers is one the      *)
(* accountable principal had resolved to, along chains of any length        *)
(* (issue.ts, tokens.ts).                                                   *)
THEOREM NobodyExceedsAPrincipal == Spec => []WithinAccountable
  <1>1. CredentialsIInv => WithinAccountable  BY DEF CredentialsIInv, CredentialsSound
  <1>2. QED                                   BY <1>1, CredentialsInvariant, PTL

(* A downscoped key never acts beyond its principal or its inline grants    *)
(* (tokens.ts resolveCredential).                                           *)
THEOREM DownscopedKeysStayWithin == Spec => []DownscopeRestricts
  <1>1. CredentialsIInv => DownscopeRestricts  BY DEF CredentialsIInv, CredentialsSound, DownscopeRestricts, SoundCall
  <1>2. QED                                    BY <1>1, CredentialsInvariant, PTL

(* A principal disabled, or a key revoked, before a call began gets no      *)
(* token from it (tokens.ts mintToken, mintFromKey).                        *)
THEOREM BarredGetNoToken == Spec => []BarredGetsNoToken
  <1>1. CredentialsIInv => BarredGetsNoToken
    BY DEF CredentialsIInv, BarredStaysOut, BarredGetsNoToken
  <1>2. QED
    BY <1>1, CredentialsInvariant, PTL

(* Of whatever permissions a token carries, the list view and the detail    *)
(* check say the same (permissions.ts scopedTo, can).                       *)
THEOREM ListViewsAgreeWithChecks == Spec => []ScopedToAgreesWithCan
  <1>1. ASSUME CredentialsIInv PROVE ScopedToAgreesWithCan
    <2> SUFFICES ASSUME NEW r \in Requests, NEW a \in Actions, NEW s \in Scopes \ {Global}
                 PROVE  LET found == ScopedValues(token[r].perms, a, s.type)
                        IN  found.all \/ s.value \in found.values <=> Permits(token[r].perms, a, s)
      BY DEF ScopedToAgreesWithCan
    <2>1. \A e \in token[r].perms : e.scope \in Scopes
      BY <1>1 DEF CredentialsIInv, CredentialsSound, TypeOK, Token, Entry
    <2>2. \A z \in Scopes \ {Global} : z = [type |-> z.type, value |-> z.value]
      BY CredentialConstants
    <2>3. \A e \in token[r].perms : e.scope = Global \/ \E t, w : e.scope = [type |-> t, value |-> w]
      BY <2>1, <2>2
    <2> DEFINE at == [type |-> s.type, value |-> s.value]
    <2>4. LET found == ScopedValues(token[r].perms, a, s.type)
          IN  found.all \/ s.value \in found.values <=> Permits(token[r].perms, a, at)
      BY <2>3, ScopedValuesAgree
    <2>5. s = at
      BY <2>2
    <2> HIDE DEF at
    <2>6. QED
      BY <2>4, <2>5
  <1>2. QED
    BY <1>1, CredentialsInvariant, PTL
=============================================================================
