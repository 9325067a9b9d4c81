------------------------------ MODULE AdminProofs -----------------------------
(***************************************************************************)
(* Proofs about what the admin API keeps: the gate, the audit trail and the *)
(* paging of the logs (Admin, by the inductive invariant AdminInv), then an *)
(* app's vocabulary and the grants of its roles (AppSchema and Grants, by   *)
(* SchemaIInv and GrantsIInv), for any callers, requests and page size, and *)
(* any schemas, keys, patterns, grants and administrators.                  *)
(***************************************************************************)
EXTENDS Grants, Admin, FiniteSetTheorems, SequenceTheorems, TLAPS

(***************************************************************************)
(* Listing a set of ids in descending order, and a page of it               *)
(***************************************************************************)

(* A finite set of ids can be listed in descending order: by how many of    *)
(* them are as large.                                                       *)
LEMMA DescendingExists ==
    ASSUME NEW S \in SUBSET Nat, IsFiniteSet(S)
    PROVE  \E ids \in [1 .. Cardinality(S) -> S] :
              \A i, j \in DOMAIN ids : i < j => ids[i] > ids[j]
<1> DEFINE n == Cardinality(S)
           Above(x) == {y \in S : y >= x}
           rank == [x \in S |-> Cardinality(Above(x))]
<1>0. n \in Nat BY FS_CardinalityType
<1>1. ASSUME NEW x \in S PROVE rank[x] \in 1 .. n
  <2>1. IsFiniteSet(Above(x)) /\ Cardinality(Above(x)) <= n BY FS_Subset
  <2>2. Cardinality(Above(x)) \in Nat BY <2>1, FS_CardinalityType
  <2>3. x \in Above(x) OBVIOUS
  <2>4. Cardinality(Above(x)) # 0 BY <2>1, <2>3, FS_EmptySet
  <2> QED BY <1>0, <2>1, <2>2, <2>4
<1>2. ASSUME NEW x \in S, NEW y \in S, x > y PROVE rank[x] < rank[y]
  <2>1. IsFiniteSet(Above(y)) BY FS_Subset
  <2>2. Above(x) \in SUBSET Above(y)
    <3>1. ASSUME NEW z \in S, z >= x PROVE z >= y BY <1>2, <3>1
    <3> QED BY <3>1
  <2>3. y \in Above(y) /\ y \notin Above(x) BY <1>2
  <2>4. /\ Cardinality(Above(x)) <= Cardinality(Above(y))
        /\ Cardinality(Above(x)) # Cardinality(Above(y))
    BY <2>1, <2>2, <2>3, FS_Subset
  <2> QED BY <1>1, <2>4
<1>3. rank \in Injection(S, 1 .. n)
  <2>1. rank \in [S -> 1 .. n] BY <1>1
  <2>2. ASSUME NEW x \in S, NEW y \in S, rank[x] = rank[y] PROVE x = y
    <3>1. x < y \/ x > y \/ x = y OBVIOUS
    <3> QED BY <1>1, <1>2, <2>2, <3>1
  <2> HIDE DEF rank
  <2> QED BY <2>1, <2>2 DEF Injection, IsInjective
<1>4. rank \in Surjection(S, 1 .. n)
  <2>1. IsFiniteSet(1 .. n) /\ Cardinality(1 .. n) = n BY <1>0, FS_Interval
  <2> HIDE DEF rank
  <2> QED BY <1>3, <2>1, FS_Injection
<1> DEFINE ids == [i \in 1 .. n |-> CHOOSE x \in S : rank[x] = i]
<1>5. ASSUME NEW i \in 1 .. n PROVE ids[i] \in S /\ rank[ids[i]] = i
  <2>1. \E x \in S : rank[x] = i
    <3> HIDE DEF rank
    <3> QED BY <1>4 DEF Surjection
  <2> QED BY <2>1
<1>6. ASSUME NEW i \in 1 .. n, NEW j \in 1 .. n, i < j PROVE ids[i] > ids[j]
  <2> DEFINE x == ids[i]
             y == ids[j]
  <2>1. x \in S /\ y \in S /\ rank[x] = i /\ rank[y] = j BY <1>5
  <2> HIDE DEF x, y, rank, ids
  <2>2. x < y => rank[y] < rank[x] BY <1>2, <2>1
  <2>3. x # y BY <1>6, <1>0, <2>1
  <2>4. x < y \/ x > y BY <2>1, <2>3
  <2>5. x > y BY <1>6, <1>0, <2>1, <2>2, <2>4
  <2> QED BY <2>5 DEF x, y
<1>7. ids \in [1 .. n -> S] /\ DOMAIN ids = 1 .. n
  BY <1>5
<1> HIDE DEF ids, rank, n
<1>8. \A i, j \in DOMAIN ids : i < j => ids[i] > ids[j] BY <1>6, <1>7
<1> QED BY <1>7, <1>8 DEF n

(* ORDER BY id DESC lists every id, once.                                   *)
LEMMA DescendingProperties ==
    ASSUME NEW S \in SUBSET Nat, IsFiniteSet(S)
    PROVE  /\ Descending(S) \in [1 .. Cardinality(S) -> S]
           /\ \A i, j \in 1 .. Cardinality(S) : i < j => Descending(S)[i] > Descending(S)[j]
           /\ \A x \in S : \E i \in 1 .. Cardinality(S) : Descending(S)[i] = x
<1> DEFINE n == Cardinality(S)
           ids == Descending(S)
<1>0. n \in Nat BY FS_CardinalityType
<1>1. /\ ids \in [1 .. n -> S]
      /\ \A i, j \in DOMAIN ids : i < j => ids[i] > ids[j]
  BY DescendingExists DEF Descending
<1> HIDE DEF ids
<1>2. \A i, j \in 1 .. n : i < j => ids[i] > ids[j] BY <1>1
<1>3. ids \in Injection(1 .. n, S)
  <2>1. ASSUME NEW i \in 1 .. n, NEW j \in 1 .. n, ids[i] = ids[j] PROVE i = j
    <3>1. i < j \/ j < i \/ i = j BY <1>0
    <3>2. ids[i] \in Nat BY <1>1
    <3>3. i < j => ids[i] > ids[j] BY <1>2
    <3>4. j < i => ids[j] > ids[i] BY <1>2
    <3> QED BY <2>1, <3>1, <3>2, <3>3, <3>4
  <2> QED BY <1>1, <2>1 DEF Injection, IsInjective
<1>4. ids \in Surjection(1 .. n, S)
  <2>1. IsFiniteSet(1 .. n) /\ Cardinality(1 .. n) = n BY <1>0, FS_Interval
  <2> HIDE DEF n
  <2> QED BY <1>3, <2>1, FS_Injection DEF n
<1>5. \A x \in S : \E i \in 1 .. n : ids[i] = x BY <1>4 DEF Surjection
<1> QED BY <1>1, <1>2, <1>5 DEF ids

(* A finite set of numbers has a largest one.                               *)
LEMMA MaxProperties ==
    ASSUME NEW S \in SUBSET Nat, IsFiniteSet(S), S # {}
    PROVE  Max(S) \in S /\ \A x \in S : Max(S) >= x
<1> DEFINE n == Cardinality(S)
           top == Descending(S)[1]
<1>1. n \in Nat /\ n # 0 BY FS_CardinalityType, FS_EmptySet
<1>2. top \in S BY <1>1, DescendingProperties
<1>3. ASSUME NEW x \in S PROVE top >= x
  <2>1. PICK i \in 1 .. n : Descending(S)[i] = x BY DescendingProperties
  <2>2. i = 1 \/ 1 < i BY <1>1
  <2>3. (1 < i => top > x) /\ (i = 1 => top = x) BY <1>1, <2>1, DescendingProperties
  <2> HIDE DEF top
  <2> QED BY <1>2, <2>1, <2>2, <2>3
<1> HIDE DEF top
<1>4. \E x \in S : \A y \in S : x >= y BY <1>2, <1>3
<1> QED BY <1>4 DEF Max

LEMMA MinOfTwo ==
    ASSUME NEW a \in Nat, NEW b \in Nat
    PROVE  Min({a, b}) = IF a <= b THEN a ELSE b
<1> DEFINE least == IF a <= b THEN a ELSE b
<1>1. \A x \in {a, b} : least <= x OBVIOUS
<1>2. ASSUME NEW x \in {a, b}, \A y \in {a, b} : x <= y PROVE x = least BY <1>2
<1> QED BY <1>1, <1>2 DEF Min

(* A page lists the rows before the cursor in descending order; it is full  *)
(* or lists them all, and what it does not list is before its last row.     *)
LEMMA PageProperties ==
    ASSUME NEW table, NEW cursor, IdsIn(table) \in SUBSET Nat, IsFiniteSet(IdsIn(table)),
           AdminConstants,
           NEW page, page = Page(table, cursor),
           NEW behind, behind = {id \in IdsIn(table) : Before(id, cursor)}
    PROVE  /\ page \in Seq(behind)
           /\ \A i, j \in DOMAIN page : i < j => page[i] > page[j]
           /\ Len(page) < Limit => behind \subseteq Range(page)
           /\ page = <<>> => behind = {}
           /\ page # <<>> =>
                /\ Last(page) \in behind
                /\ \A i \in DOMAIN page : page[i] >= Last(page)
                /\ \A x \in behind : x \in Range(page) \/ x < Last(page)
<1> DEFINE ids == Descending(behind)
           n == Cardinality(behind)
           k == IF Limit <= n THEN Limit ELSE n
<1>1. behind \in SUBSET Nat /\ IsFiniteSet(behind) BY FS_Subset
<1>2. n \in Nat /\ Limit \in Nat \ {0} BY <1>1, FS_CardinalityType DEF AdminConstants
<1>3. /\ ids \in [1 .. n -> behind]
      /\ \A i, j \in 1 .. n : i < j => ids[i] > ids[j]
      /\ \A x \in behind : \E i \in 1 .. n : ids[i] = x
  BY <1>1, DescendingProperties
<1> HIDE DEF ids
<1>4. ids \in Seq(behind) /\ Len(ids) = n BY <1>2, <1>3
<1>5. page = SubSeq(ids, 1, k)
  <2>1. page = SubSeq(ids, 1, Min({Limit, Len(ids)})) BY DEF Page, ids
  <2>2. Min({Limit, n}) = k BY <1>2, MinOfTwo
  <2> QED BY <1>4, <2>1, <2>2
<1> HIDE DEF n
<1>6. /\ k \in Nat /\ k <= n
      /\ k = n \/ k = Limit
  BY <1>2
<1>7. /\ page \in Seq(behind) /\ Len(page) = k /\ DOMAIN page = 1 .. k
      /\ \A i \in 1 .. k : page[i] = ids[i]
  <2>1. \A i \in 1 .. k : ids[i] \in behind BY <1>2, <1>3, <1>6
  <2> HIDE DEF k
  <2>2. /\ SubSeq(ids, 1, k) \in Seq(behind)
        /\ Len(SubSeq(ids, 1, k)) = IF 1 <= k THEN k - 1 + 1 ELSE 0
        /\ \A i \in 1 .. k - 1 + 1 : SubSeq(ids, 1, k)[i] = ids[1 + i - 1]
    BY <1>6, <2>1, SubSeqProperties
  <2>3. Len(page) = k BY <1>5, <1>6, <2>2
  <2>4. DOMAIN page = 1 .. k BY <1>5, <2>2, <2>3, LenProperties
  <2>5. ASSUME NEW i \in 1 .. k PROVE page[i] = ids[i] BY <1>5, <1>6, <2>2
  <2> QED BY <1>5, <2>2, <2>3, <2>4, <2>5
<1> HIDE DEF k
<1>8. ASSUME NEW i \in DOMAIN page, NEW j \in DOMAIN page, i < j PROVE page[i] > page[j]
  BY <1>2, <1>3, <1>6, <1>7, <1>8
<1>9. ASSUME k = n PROVE behind \subseteq Range(page)
  BY <1>3, <1>7, <1>9 DEF Range
<1>10. Len(page) < Limit => behind \subseteq Range(page)
  BY <1>2, <1>6, <1>7, <1>9
<1>11. page = <<>> => behind = {}
  <2>1. page = <<>> => k = 0 BY <1>7
  <2> QED BY <1>2, <1>6, <1>9, <2>1 DEF Range
<1>12. ASSUME page # <<>>
       PROVE  /\ Last(page) \in behind
              /\ \A i \in DOMAIN page : page[i] >= Last(page)
              /\ \A x \in behind : x \in Range(page) \/ x < Last(page)
  <2>1. k \in 1 .. n BY <1>6, <1>7, <1>12, EmptySeq
  <2>2. Last(page) = ids[k] BY <1>7, <2>1 DEF Last
  <2>3. Last(page) \in behind BY <1>2, <1>3, <2>1, <2>2
  <2>4. ASSUME NEW i \in DOMAIN page PROVE page[i] >= Last(page)
    <3>1. i = k \/ i < k BY <1>6, <1>7
    <3>2. page[i] \in Nat BY <1>1, <1>3, <1>6, <1>7
    <3>3. i < k => page[i] > Last(page) BY <1>2, <1>3, <1>6, <1>7, <2>1, <2>2
    <3> QED BY <1>7, <2>1, <2>2, <3>1, <3>2, <3>3
  <2>5. ASSUME NEW x \in behind PROVE x \in Range(page) \/ x < Last(page)
    <3>1. PICK i \in 1 .. n : ids[i] = x BY <1>3
    <3>2. CASE i <= k BY <1>2, <1>6, <1>7, <3>1, <3>2 DEF Range
    <3>3. CASE k < i BY <1>1, <1>2, <1>3, <1>6, <2>1, <2>2, <3>1, <3>3
    <3> QED BY <1>2, <1>6, <3>2, <3>3
  <2> QED BY <2>3, <2>4, <2>5
<1> QED BY <1>7, <1>8, <1>10, <1>11, <1>12

-----------------------------------------------------------------------------
(* The parts of AdminInv                                                    *)

Kept(r) == Resolves(r) /\ Recorded(r)

(* A request under way has a caller and what has been true of it.           *)
LEMMA Shapes ==
    ASSUME AdminTypeOK, NEW r \in Requests
    PROVE  /\ req[r].id \in Nat /\ req[r].status \in Nat
           /\ req[r].pc \in UnderWay <=> req[r].pc \notin Resolved
           /\ req[r].pc \in UnderWay =>
                /\ req[r] \in Request
                /\ req[r].id = 0 /\ req[r].status = 0
                /\ req[r].is \in Arrival
                /\ req[r].held \subseteq {"row", "enabled", "global"}
           /\ req[r].pc \in {"audit", "insert", "answered"} => req[r] \in Finished
           /\ req[r].pc \in Resolved \cup UnderWay
<1>1. req[r] = Fresh \/ req[r] \in Request \/ req[r] \in Finished BY DEF AdminTypeOK
<1>2. CASE req[r] = Fresh BY <1>2 DEF Fresh, UnderWay, Resolved
<1>3. CASE req[r] \in Request BY <1>3 DEF Request, UnderWay, Resolved
<1>4. CASE req[r] \in Finished BY <1>4 DEF Finished, UnderWay, Resolved
<1> QED BY <1>1, <1>2, <1>3, <1>4

(* Having had more of what the gate asks for does no harm.                  *)
LEMMA AuthorityGrows ==
    ASSUME NEW is \in Arrival, NEW held, NEW more \in SUBSET {"row", "enabled", "global"},
           held \subseteq more, Authorized(is, held)
    PROVE  Authorized(is, more)
<1> DEFINE k == Kind[is.caller]
<1>1. CASE k \in {"session", "key"} BY <1>1 DEF Authorized
<1>2. CASE k = "token" BY <1>2 DEF Authorized
<1>3. CASE k \notin {"session", "key", "token"} BY <1>3 DEF Authorized
<1> QED BY <1>1, <1>2, <1>3

(* What a request that does not move becomes when others do.                *)
Grown(q) == IF q.pc \in Resolved THEN q ELSE [q EXCEPT !.held = @ \cup Holds(q.is.caller)]

LEMMA HoldsType == ASSUME NEW c PROVE Holds(c) \subseteq {"row", "enabled", "global"}
BY DEF Holds

LEMMA GrownStays ==
    ASSUME AdminTypeOK, NEW r \in Requests, Kept(r),
           req'[r] = Grown(req[r]), local' = local,
           r \in changed' <=> r \in changed,
           {entry \in audit' : entry.of = r} = {entry \in audit : entry.of = r}
    PROVE  req'[r] \in {Fresh} \cup Request \cup Finished /\ Kept(r)'
<1>1. CASE req[r].pc \in Resolved
  <2>1. req'[r] = req[r] BY <1>1 DEF Grown
  <2>2. req'[r].pc \notin UnderWay BY <1>1, <2>1 DEF Resolved, UnderWay
  <2>3. Resolves(r)' BY <2>2 DEF Resolves
  <2>4. Recorded(r)' BY <2>1 DEF Recorded, Kept
  <2> QED BY <2>1, <2>3, <2>4 DEF AdminTypeOK, Kept
<1>2. CASE req[r].pc \notin Resolved
  <2> DEFINE q == req[r]
             more == q.held \cup Holds(q.is.caller)
  <2>1. q \in Request /\ q.is \in Arrival /\ q.pc \in UnderWay /\ q.held \subseteq {"row", "enabled", "global"}
    BY <1>2, Shapes
  <2>2. req'[r] = [q EXCEPT !.held = more] BY <1>2 DEF Grown
  <2>3. more \in SUBSET {"row", "enabled", "global"} BY <2>1, HoldsType
  <2>4. /\ req'[r] \in Request /\ req'[r].pc = q.pc /\ req'[r].id = q.id /\ req'[r].status = q.status
        /\ req'[r].is = q.is /\ req'[r].held = more
    <3> HIDE DEF more
    <3> QED BY <2>1, <2>2, <2>3 DEF Request
  <2> HIDE DEF more
  <2>5. q.held \subseteq more BY DEF more
  <2>6. Authorized(q.is, q.held) => Authorized(req[r].is, req[r].held)'
    <3>1. Authorized(q.is, q.held) => Authorized(q.is, more) BY <2>1, <2>3, <2>5, AuthorityGrows
    <3> QED BY <3>1, <2>4 DEF Authorized, CrossOrigin
  <2>7. Resolves(r)'
    <3> USE DEF Resolves, Kept, CrossOrigin, HasRow, HasPrincipal
    <3>1. /\ ~CrossOrigin(q.is)
          /\ q.pc = "row" => HasRow(q.is.caller)
          /\ q.pc \in {"principal", "permissions"} => HasPrincipal(q.is.caller) /\ "row" \in q.held
          /\ q.pc = "permissions" => "enabled" \in q.held
          /\ q.pc = "dispatch" => Authorized(q.is, q.held)
      BY <2>1
    <3> HIDE DEF Kept
    <3> QED BY <2>4, <2>5, <2>6, <3>1
  <2>8. Recorded(r)' BY <2>4 DEF Recorded, Kept
  <2> QED BY <2>4, <2>7, <2>8 DEF Kept
<1> QED BY <1>1, <1>2

(* A step of one request moves it, and lets the others grow.                *)
LEMMA ToProperties ==
    ASSUME AdminTypeOK, NEW r \in Requests, NEW q, To(r, q)
    PROVE  /\ req' = [u \in Requests |-> req'[u]]
           /\ req'[r] = IF req[r].pc \in Resolved \/ q.pc \in Resolved THEN q
                        ELSE [q EXCEPT !.held = @ \cup Holds(q.is.caller)]
           /\ \A u \in Requests \ {r} : req'[u] = Grown(req[u])
<1> DEFINE moved == [req EXCEPT ![r] = q]
           New(u) == IF {req[u].pc, moved[u].pc} \cap Resolved # {} THEN moved[u]
                     ELSE [moved[u] EXCEPT !.held = @ \cup Holds(moved[u].is.caller)]
<1>1. req' = [u \in Requests |-> New(u)] BY DEF To, All
<1>2. moved[r] = q /\ \A u \in Requests \ {r} : moved[u] = req[u] BY DEF AdminTypeOK
<1> HIDE DEF moved
<1>3. \A u \in Requests : {req[u].pc, moved[u].pc} \cap Resolved # {}
                          <=> req[u].pc \in Resolved \/ moved[u].pc \in Resolved
  OBVIOUS
<1>4. New(r) = IF req[r].pc \in Resolved \/ q.pc \in Resolved THEN q
               ELSE [q EXCEPT !.held = @ \cup Holds(q.is.caller)]
  BY <1>2, <1>3
<1>5. ASSUME NEW u \in Requests \ {r} PROVE New(u) = Grown(req[u])
  BY <1>2, <1>3 DEF Grown
<1> HIDE DEF New
<1> QED BY <1>1, <1>4, <1>5

(* What remains to be shown of a step of one request is about that request. *)
LEMMA OthersKeep ==
    ASSUME AdminTypeOK, \A u \in Requests : Kept(u),
           NEW r \in Requests, NEW q, To(r, q), local' = local,
           \A u \in Requests \ {r} : u \in changed' <=> u \in changed,
           \A u \in Requests \ {r} :
              {entry \in audit' : entry.of = u} = {entry \in audit : entry.of = u},
           req'[r] \in {Fresh} \cup Request \cup Finished, Kept(r)'
    PROVE  /\ req' \in [Requests -> {Fresh} \cup Request \cup Finished]
           /\ \A u \in Requests : Kept(u)'
<1>1. ASSUME NEW u \in Requests \ {r}
      PROVE  req'[u] \in {Fresh} \cup Request \cup Finished /\ Kept(u)'
  BY <1>1, ToProperties, GrownStays
<1>2. req' = [u \in Requests |-> req'[u]] BY ToProperties
<1> QED BY <1>1, <1>2

(* A request that is answered before it changed anything.                   *)
LEMMA RefusedKeeps ==
    ASSUME AdminTypeOK, NEW r \in Requests, Kept(r), req[r].pc \in UnderWay,
           NEW status \in 400 .. 500, To(r, Respond(req[r], status)), r \in changed' <=> r \in changed,
           audit' = audit
    PROVE  req'[r] \in Finished /\ Kept(r)'
<1>1. req'[r] = Respond(req[r], status) BY ToProperties DEF Respond, Resolved
<1>2. req'[r].pc = "answered" /\ req'[r].id = req[r].id /\ req'[r].status = status
  BY <1>1 DEF Respond
<1>3. req'[r] \in Finished BY <1>1, Shapes DEF Respond, Finished
<1>4. r \notin changed /\ {entry \in audit : entry.of = r} = {} BY DEF Kept, Recorded
<1>5. Resolves(r)' BY <1>2 DEF Resolves, UnderWay
<1>6. Recorded(r)' BY <1>2, <1>4 DEF Recorded, UnderWay
<1> QED BY <1>3, <1>5, <1>6 DEF Kept

(* A request that goes on has had what it was asked for.                    *)
LEMMA WentOn ==
    ASSUME AdminTypeOK, NEW r \in Requests, req[r].pc \in UnderWay,
           NEW pc \in UnderWay, To(r, Goto(req[r], pc))
    PROVE  /\ req'[r] \in Request /\ req'[r].pc = pc /\ req'[r].is = req[r].is
           /\ req'[r].id = 0 /\ req'[r].status = 0
           /\ req'[r].held = req[r].held \cup Holds(req[r].is.caller)
           /\ req'[r].held \subseteq {"row", "enabled", "global"}
<1> DEFINE q == Goto(req[r], pc)
           more == req[r].held \cup Holds(req[r].is.caller)
<1>1. /\ req[r] \in Request /\ req[r].id = 0 /\ req[r].status = 0
      /\ req[r].pc \notin Resolved /\ req[r].held \subseteq {"row", "enabled", "global"}
  BY Shapes
<1>2. q \in Request /\ q.pc = pc /\ q.is = req[r].is /\ q.held = req[r].held
  BY <1>1 DEF Goto, Request, UnderWay
<1>3. pc \notin Resolved BY DEF UnderWay, Resolved
<1> HIDE DEF q
<1>4. req'[r] = [q EXCEPT !.held = @ \cup Holds(q.is.caller)]
  BY <1>1, <1>2, <1>3, ToProperties DEF q
<1>5. more \in SUBSET {"row", "enabled", "global"} BY <1>1, HoldsType
<1>6. req'[r] = [q EXCEPT !.held = more] BY <1>2, <1>4
<1> HIDE DEF more
<1>7. req'[r] \in Request /\ req'[r].pc = pc /\ req'[r].is = req[r].is /\ req'[r].held = more
      /\ req'[r].id = q.id /\ req'[r].status = q.status
  BY <1>2, <1>5, <1>6 DEF Request
<1>8. q.id = 0 /\ q.status = 0 BY <1>2 DEF Request
<1> QED BY <1>5, <1>7, <1>8 DEF more

(* What has to be shown for a request that goes on.                         *)
LEMMA WentOnKeeps ==
    ASSUME AdminTypeOK, NEW r \in Requests, req[r].pc \in UnderWay, Recorded(r),
           NEW pc \in UnderWay, To(r, Goto(req[r], pc)), changed' = changed, audit' = audit, local' = local,
           ~CrossOrigin(req[r].is),
           pc = "row" => HasRow(req[r].is.caller),
           pc \in {"principal", "permissions"} =>
              HasPrincipal(req[r].is.caller) /\ "row" \in req[r].held \cup Holds(req[r].is.caller),
           pc = "permissions" => "enabled" \in req[r].held \cup Holds(req[r].is.caller),
           pc = "dispatch" => Authorized(req[r].is, req[r].held \cup Holds(req[r].is.caller))
    PROVE  req'[r] \in Request /\ Kept(r)'
<1> DEFINE more == req[r].held \cup Holds(req[r].is.caller)
<1>1. /\ req'[r] \in Request /\ req'[r].pc = pc /\ req'[r].is = req[r].is /\ req'[r].held = more
      /\ req'[r].id = 0 /\ req'[r].status = 0
  BY WentOn
<1>2. Recorded(r)' BY <1>1 DEF Recorded, UnderWay
<1>3. pc = "dispatch" => Authorized(req[r].is, req[r].held)'
  BY <1>1 DEF Authorized, CrossOrigin
<1> HIDE DEF more
<1>4. Resolves(r)'
  BY <1>1, <1>3 DEF Resolves, CrossOrigin, HasRow, HasPrincipal, more
<1> QED BY <1>1, <1>2, <1>4 DEF Kept

LEMMA ArriveKeeps ==
    ASSUME AdminConstants, AdminTypeOK, NEW r \in Requests, Kept(r), NEW is \in Arrivals, Arrive(r, is)
    PROVE  req'[r] \in {Fresh} \cup Request \cup Finished /\ Kept(r)'
<1> DEFINE q == [pc |-> "row", id |-> 0, status |-> 0, is |-> is, held |-> {}]
           x == IF CrossOrigin(is) THEN Respond(q, 403) ELSE Resolving(q)
<1>0. req[r] = Fresh /\ req[r].pc = "fresh" /\ To(r, x) /\ Idly BY DEF Arrive, Fresh
<1>1. req'[r] = x BY <1>0, ToProperties DEF Resolved
<1>2. is \in Arrival BY DEF AdminConstants
<1>3. r \notin changed' /\ {entry \in audit' : entry.of = r} = {}
  BY <1>0 DEF Idly, Kept, Recorded, logs
<1>4. ASSUME NEW status \in {401, 403}, x = Respond(q, status)
      PROVE  req'[r] \in Finished /\ Kept(r)'
  <2>1. req'[r].pc = "answered" /\ req'[r].id = 0 /\ req'[r].status = status
    BY <1>1, <1>4 DEF Respond
  <2>2. req'[r] \in Finished BY <1>1, <1>4 DEF Respond, Finished
  <2>3. Resolves(r)' BY <2>1 DEF Resolves, UnderWay
  <2>4. Recorded(r)' BY <2>1, <1>3 DEF Recorded, UnderWay
  <2> QED BY <2>2, <2>3, <2>4 DEF Kept
<1>5. ASSUME NEW pc \in {"row", "dispatch"}, x.pc = pc, x \in Request, x.is = is,
             ~CrossOrigin(is), pc = "row" => HasRow(is.caller),
             pc = "dispatch" => Authorized(is, x.held)
      PROVE  req'[r] \in Request /\ Kept(r)'
  <2> HIDE DEF x
  <2>1. x.id = 0 /\ x.status = 0 BY <1>5 DEF Request
  <2>2. local' = local BY <1>0 DEF Idly, callers
  <2>3. pc = "dispatch" => Authorized(req[r].is, req[r].held)'
    BY <1>1, <1>5, <2>2 DEF Authorized, CrossOrigin
  <2>4. Resolves(r)' BY <1>1, <1>5, <2>3 DEF Resolves, CrossOrigin, HasRow
  <2>5. Recorded(r)' BY <1>1, <1>3, <1>5, <2>1 DEF Recorded, UnderWay
  <2> QED BY <1>1, <1>5, <2>4, <2>5 DEF Kept
<1>6. q \in Request BY <1>2 DEF Request
<1>7. CASE CrossOrigin(is) BY <1>4, <1>7
<1>8. CASE ~CrossOrigin(is)
  <2> DEFINE k == Kind[is.caller]
  <2>1. x = Resolving(q) /\ q.is = is /\ q.held = {} /\ q.pc = "row" BY <1>8
  <2> HIDE DEF x, q
  <2>2. CASE k = "provisioning"
    <3>1. x = Goto(q, "dispatch") BY <2>1, <2>2 DEF Resolving
    <3>2. x \in Request /\ x.pc = "dispatch" /\ x.is = is /\ x.held = {}
      BY <1>6, <2>1, <3>1 DEF Goto, Request
    <3>3. Authorized(is, {}) BY <1>8, <2>2 DEF Authorized
    <3> QED BY <1>5, <1>8, <3>2, <3>3
  <2>3. CASE k = "nothing" /\ local
    <3>1. x = Goto(q, "dispatch") BY <2>1, <2>3 DEF Resolving
    <3>2. x \in Request /\ x.pc = "dispatch" /\ x.is = is /\ x.held = {}
      BY <1>6, <2>1, <3>1 DEF Goto, Request
    <3>3. Authorized(is, {}) BY <1>8, <2>3 DEF Authorized
    <3> QED BY <1>5, <1>8, <3>2, <3>3
  <2>4. CASE k = "nothing" /\ ~local
    <3>1. x = Respond(q, 401) BY <2>1, <2>4 DEF Resolving
    <3> QED BY <1>4, <3>1
  <2>5. CASE k \notin {"provisioning", "nothing"}
    <3>1. x = q BY <2>1, <2>5 DEF Resolving
    <3> QED BY <1>5, <1>6, <1>8, <2>1, <2>5, <3>1 DEF HasRow
  <2> QED BY <2>2, <2>3, <2>4, <2>5
<1> QED BY <1>7, <1>8

(* Each read of the gate lets a request go on only if the caller has what   *)
(* it looks for.                                                            *)
LEMMA GateKeeps ==
    ASSUME AdminConstants, AdminTypeOK, NEW r \in Requests, Kept(r),
           ReadRow(r) \/ ReadPrincipal(r) \/ ReadPermissions(r)
    PROVE  req'[r] \in {Fresh} \cup Request \cup Finished /\ Kept(r)'
<1> DEFINE q == req[r]
           c == req[r].is.caller
           k == Kind[req[r].is.caller]
           more == req[r].held \cup Holds(req[r].is.caller)
<1>1. q.pc \in {"row", "principal", "permissions"} BY DEF ReadRow, ReadPrincipal, ReadPermissions, At
<1>2. q.pc \in UnderWay BY <1>1 DEF UnderWay
<1>3. q.is \in Arrival /\ q.held \subseteq {"row", "enabled", "global"} BY <1>2, Shapes
<1>4. c \in Callers /\ k \in Kinds BY <1>3 DEF Arrival, AdminConstants
<1>5. changed' = changed /\ audit' = audit /\ local' = local
  BY DEF ReadRow, ReadPrincipal, ReadPermissions, Idly, callers, logs
<1>6. ~CrossOrigin(q.is) /\ Recorded(r) BY <1>2 DEF Kept, Resolves
<1>7. ASSUME NEW status \in {401, 403}, To(r, Respond(q, status))
      PROVE  req'[r] \in Finished /\ Kept(r)'
  BY <1>2, <1>5, <1>7, RefusedKeeps
<1>8. ASSUME To(r, Permit(q)), IsAdmin(c) => Authorized(q.is, more)
      PROVE  req'[r] \in {Fresh} \cup Request \cup Finished /\ Kept(r)'
  <2>1. CASE IsAdmin(c)
    <3>1. To(r, Goto(q, "dispatch")) BY <1>8, <2>1 DEF Permit
    <3>2. "dispatch" \in UnderWay BY DEF UnderWay
    <3> HIDE DEF more
    <3>3. Authorized(q.is, more) BY <1>8, <2>1
    <3> QED BY <1>2, <1>5, <1>6, <3>1, <3>2, <3>3, WentOnKeeps DEF more
  <2>2. CASE ~IsAdmin(c) BY <1>7, <1>8, <2>2 DEF Permit
  <2> QED BY <2>1, <2>2
<1>9. CASE ReadRow(r)
  <2>1. q.pc = "row" /\ k \notin {"provisioning", "nothing"}
    BY <1>2, <1>9 DEF ReadRow, At, Kept, Resolves, HasRow
  <2>2. CASE c \notin row BY <1>7, <1>9, <2>2 DEF ReadRow
  <2>3. CASE c \in row /\ k = "link" BY <1>7, <1>9, <2>3 DEF ReadRow
  <2>4. CASE c \in row /\ k = "token"
    <3>1. To(r, Permit(q)) BY <1>9, <2>4 DEF ReadRow
    <3>2. IsAdmin(c) => {"row", "global"} \subseteq more BY <2>4 DEF IsAdmin, Holds
    <3>3. IsAdmin(c) => Authorized(q.is, more) BY <1>6, <2>4, <3>2 DEF Authorized
    <3> QED BY <1>8, <3>1, <3>3
  <2>5. CASE c \in row /\ k \in {"session", "key"}
    <3>1. To(r, Goto(q, "principal")) BY <1>9, <2>5 DEF ReadRow
    <3>2. "row" \in more BY <2>5 DEF Holds
    <3>3. HasPrincipal(c) BY <2>5 DEF HasPrincipal
    <3>4. "principal" \in UnderWay BY DEF UnderWay
    <3> QED BY <1>2, <1>5, <1>6, <3>1, <3>2, <3>3, <3>4, WentOnKeeps
  <2> QED BY <1>4, <2>1, <2>2, <2>3, <2>4, <2>5 DEF Kinds
<1>10. CASE ReadPrincipal(r)
  <2>1. q.pc = "principal" /\ HasPrincipal(c) /\ "row" \in q.held
    BY <1>2, <1>10 DEF ReadPrincipal, At, Kept, Resolves
  <2>2. CASE c \in disabled BY <1>7, <1>10, <2>2 DEF ReadPrincipal
  <2>3. CASE c \notin disabled
    <3>1. To(r, Goto(q, "permissions")) BY <1>10, <2>3 DEF ReadPrincipal
    <3>2. "enabled" \in more BY <2>3 DEF Holds
    <3>3. "row" \in more BY <2>1
    <3>4. "permissions" \in UnderWay BY DEF UnderWay
    <3> QED BY <1>2, <1>5, <1>6, <2>1, <3>1, <3>2, <3>3, <3>4, WentOnKeeps
  <2> QED BY <2>2, <2>3
<1>11. CASE ReadPermissions(r)
  <2>1. /\ q.pc = "permissions" /\ HasPrincipal(c) /\ "row" \in q.held /\ "enabled" \in q.held
        /\ To(r, Permit(q))
    BY <1>2, <1>11 DEF ReadPermissions, At, Kept, Resolves
  <2>2. IsAdmin(c) => "global" \in more BY DEF IsAdmin, Holds
  <2>3. more \subseteq {"row", "enabled", "global"} BY <1>3, HoldsType
  <2>4. IsAdmin(c) => more = {"row", "enabled", "global"} BY <2>1, <2>2, <2>3
  <2>5. k \in {"session", "key"} BY <2>1 DEF HasPrincipal
  <2>6. IsAdmin(c) => Authorized(q.is, more) BY <1>6, <2>4, <2>5 DEF Authorized
  <2> QED BY <1>8, <2>1, <2>6
<1> QED BY <1>9, <1>10, <1>11

(* The change, and the event after it.                                      *)
LEMMA ChangeKeeps ==
    ASSUME AdminTypeOK, NEW r \in Requests, Kept(r), Change(r)
    PROVE  req'[r] \in Finished /\ Kept(r)' /\ Authorized(req[r].is, req[r].held \cup Holds(req[r].is.caller))
<1> DEFINE q == req[r]
           more == req[r].held \cup Holds(req[r].is.caller)
<1>1. q.pc = "dispatch" /\ q.pc \in UnderWay BY DEF Change, At, UnderWay
<1>2. changed' = changed \cup {r} /\ audit' = audit BY DEF Change, logs
<1>3. req'[r] = [pc |-> "audit", id |-> 0, status |-> 0]
  BY ToProperties DEF Change, Audited, Fresh, Resolved
<1>4. r \notin changed /\ {entry \in audit : entry.of = r} = {} /\ Authorized(q.is, q.held)
  BY <1>1 DEF Kept, Recorded, Resolves
<1>5. req'[r] \in Finished BY <1>3 DEF Finished
<1>6. Resolves(r)' BY <1>3 DEF Resolves, UnderWay
<1>7. Recorded(r)' BY <1>2, <1>3, <1>4 DEF Recorded, UnderWay
<1>8. q.is \in Arrival /\ q.held \subseteq {"row", "enabled", "global"} BY <1>1, Shapes
<1>9. more \in SUBSET {"row", "enabled", "global"} BY <1>8, HoldsType
<1>10. Authorized(q.is, more)
  <2> HIDE DEF more
  <2>1. q.held \subseteq more BY DEF more
  <2> QED BY <1>4, <1>8, <1>9, <2>1, AuthorityGrows
<1> QED BY <1>5, <1>6, <1>7, <1>10 DEF Kept

LEMMA DrawIdKeeps ==
    ASSUME AdminConstants, AdminTypeOK, NEW r \in Requests, Kept(r), NEW i \in IdsOf(ms), DrawId(r, i)
    PROVE  req'[r] \in Finished /\ Kept(r)'
<1> DEFINE x == [Goto(req[r], "insert") EXCEPT !.id = i]
<1>1. req[r].pc = "audit" /\ To(r, x) /\ changed' = changed /\ audit' = audit
  BY DEF DrawId, At, Idly, logs
<1>2. req[r] \in Finished BY <1>1, Shapes
<1>3. i \in Nat \ {0}
  <2>1. ms \in Nat /\ ms >= 1 /\ PerMs \in Nat /\ MaxMs \in Nat BY DEF AdminTypeOK, AdminConstants
  <2>2. (ms - 1) * PerMs \in Nat BY <2>1
  <2>3. ms * PerMs \in Nat BY <2>1
  <2>4. i \in (ms - 1) * PerMs + 1 .. ms * PerMs BY DEF IdsOf
  <2> QED BY <2>2, <2>3, <2>4
<1>4. x \in Finished /\ x.pc = "insert" /\ x.id = i /\ x.status = req[r].status
  BY <1>2, <1>3 DEF Goto, Finished
<1> HIDE DEF x
<1>5. req'[r] = x BY <1>1, <1>4, ToProperties DEF Resolved
<1>6. r \in changed /\ {entry \in audit : entry.of = r} = {} /\ req[r].status = 0
  BY <1>1 DEF Kept, Recorded
<1>7. Resolves(r)' BY <1>4, <1>5 DEF Resolves, UnderWay
<1>8. Recorded(r)' BY <1>1, <1>3, <1>4, <1>5, <1>6 DEF Recorded, UnderWay
<1> QED BY <1>4, <1>5, <1>7, <1>8 DEF Kept

LEMMA WriteAuditEventKeeps ==
    ASSUME AdminTypeOK, NEW r \in Requests, Kept(r), WriteAuditEvent(r)
    PROVE  /\ req'[r] \in Finished /\ Kept(r)'
           /\ audit' \subseteq [id : Nat \ {0}, of : Requests]
           /\ \A u \in Requests \ {r} :
                 {entry \in audit' : entry.of = u} = {entry \in audit : entry.of = u}
<1> DEFINE event == [id |-> req[r].id, of |-> r]
<1>1. req[r].pc = "insert" /\ audit' = audit \cup {event} /\ changed' = changed
  BY DEF WriteAuditEvent, At
<1>2. PICK status \in {200, 500} : To(r, Respond(req[r], status)) BY DEF WriteAuditEvent
<1>3. req[r].id \in Nat \ {0} BY <1>1, Shapes DEF Kept, Recorded
<1>4. req'[r] = [pc |-> "answered", id |-> req[r].id, status |-> status]
  BY <1>2, ToProperties DEF Respond, Resolved
<1>5. req'[r] \in Finished BY <1>3, <1>4 DEF Finished
<1>6. r \in changed /\ {entry \in audit : entry.of = r} = {} BY <1>1 DEF Kept, Recorded
<1>7. event.of = r /\ event \in [id : Nat \ {0}, of : Requests] BY <1>3
<1>8. {entry \in audit' : entry.of = r} = {event} BY <1>1, <1>6, <1>7
<1>9. \A u \in Requests \ {r} : {entry \in audit' : entry.of = u} = {entry \in audit : entry.of = u}
  BY <1>1, <1>7
<1>10. audit' \subseteq [id : Nat \ {0}, of : Requests] BY <1>1, <1>7 DEF AdminTypeOK
<1>11. Resolves(r)' BY <1>4 DEF Resolves, UnderWay
<1>12. Recorded(r)' BY <1>1, <1>4, <1>6, <1>8 DEF Recorded, UnderWay
<1> QED BY <1>5, <1>9, <1>10, <1>11, <1>12 DEF Kept

LEMMA ThrowKeeps ==
    ASSUME AdminTypeOK, NEW r \in Requests, Kept(r), Throw(r)
    PROVE  req'[r] \in Finished /\ Kept(r)'
<1>1. /\ req[r].pc \notin {"fresh", "answered"} /\ To(r, Respond(req[r], 500))
      /\ changed' = changed /\ audit' = audit
  BY DEF Throw, Idly, logs
<1>2. CASE req[r].pc \in UnderWay BY <1>1, <1>2, RefusedKeeps
<1>3. CASE req[r].pc \notin UnderWay
  <2>1. req[r].pc \in {"audit", "insert"} BY <1>1, <1>3, Shapes DEF Resolved
  <2>2. req[r] \in Finished BY <2>1, Shapes
  <2>3. req'[r] = [pc |-> "answered", id |-> req[r].id, status |-> 500]
    BY <1>1, ToProperties DEF Respond, Resolved
  <2>4. req'[r] \in Finished BY <2>2, <2>3 DEF Finished
  <2>5. r \in changed BY <2>1 DEF Kept, Recorded
  <2>6. Resolves(r)' BY <2>3 DEF Resolves, UnderWay
  <2>7. Recorded(r)' BY <1>1, <2>3, <2>5 DEF Recorded, UnderWay
  <2> QED BY <2>4, <2>6, <2>7 DEF Kept
<1> QED BY <1>2, <1>3

(* Every step of a request keeps what is known of all of them.              *)
LEMMA RequestStep ==
    ASSUME AdminConstants, AdminTypeOK, \A u \in Requests : Kept(u),
           NEW r \in Requests, Handle(r) \/ \E is \in Arrivals : Arrive(r, is)
    PROVE  /\ req' \in [Requests -> {Fresh} \cup Request \cup Finished]
           /\ \A u \in Requests : Kept(u)'
           /\ audit' \subseteq [id : Nat \ {0}, of : Requests]
           /\ changed' \in {changed, changed \cup {r}}
           /\ \A u \in changed' \ changed :
                 Authorized(req[u].is, req[u].held \cup Holds(req[u].is.caller))
<1> DEFINE T == {Fresh} \cup Request \cup Finished
<1>1. ASSUME NEW is \in Arrivals, Arrive(r, is)
      PROVE  req'[r] \in T /\ Kept(r)' /\ Idly /\ \E q : To(r, q)
  BY <1>1, ArriveKeeps DEF Arrive
<1>2. ASSUME ReadRow(r) \/ ReadPrincipal(r) \/ ReadPermissions(r)
      PROVE  req'[r] \in T /\ Kept(r)' /\ Idly /\ \E q : To(r, q)
  BY <1>2, GateKeeps DEF ReadRow, ReadPrincipal, ReadPermissions
<1>3. ASSUME Refuse(r) PROVE req'[r] \in T /\ Kept(r)' /\ Idly /\ \E q : To(r, q)
  <2>1. req[r].pc \in UnderWay /\ To(r, Respond(req[r], 400)) /\ Idly /\ changed' = changed /\ audit' = audit
    BY <1>3 DEF Refuse, At, UnderWay, Idly, logs
  <2> QED BY <2>1, RefusedKeeps
<1>4. ASSUME Throw(r) PROVE req'[r] \in T /\ Kept(r)' /\ Idly /\ \E q : To(r, q)
  BY <1>4, ThrowKeeps DEF Throw
<1>5. ASSUME NEW i \in IdsOf(ms), DrawId(r, i)
      PROVE  req'[r] \in T /\ Kept(r)' /\ Idly /\ \E q : To(r, q)
  BY <1>5, DrawIdKeeps DEF DrawId
<1> HIDE DEF T
<1>6. ASSUME req'[r] \in T, Kept(r)', Idly, NEW q, To(r, q)
      PROVE  req' \in [Requests -> T] /\ \A u \in Requests : Kept(u)'
  <2>1. changed' = changed /\ audit' = audit /\ local' = local BY <1>6 DEF Idly, callers, logs
  <2> QED BY <1>6, <2>1, OthersKeep DEF T
<1>7. ASSUME Idly
      PROVE  changed' = changed /\ audit' \subseteq [id : Nat \ {0}, of : Requests]
  BY <1>7 DEF Idly, logs, AdminTypeOK
<1>8. CASE Change(r)
  <2>1. /\ \E q : To(r, q)
        /\ changed' = changed \cup {r} /\ audit' = audit /\ local' = local
    BY <1>8 DEF Change, callers, logs
  <2>2. req'[r] \in T /\ Kept(r)' BY <1>8, ChangeKeeps DEF T
  <2>3. \A u \in Requests \ {r} : u \in changed' <=> u \in changed BY <2>1
  <2>4. req' \in [Requests -> T] /\ \A u \in Requests : Kept(u)'
    BY <2>1, <2>2, <2>3, OthersKeep DEF T
  <2>5. Authorized(req[r].is, req[r].held \cup Holds(req[r].is.caller)) BY <1>8, ChangeKeeps
  <2> QED BY <2>1, <2>4, <2>5 DEF T, AdminTypeOK
<1>9. CASE WriteAuditEvent(r)
  <2>1. (\E q : To(r, q)) /\ changed' = changed /\ local' = local
    BY <1>9 DEF WriteAuditEvent, callers
  <2>2. /\ req'[r] \in T /\ Kept(r)' /\ audit' \subseteq [id : Nat \ {0}, of : Requests]
        /\ \A u \in Requests \ {r} : {entry \in audit' : entry.of = u} = {entry \in audit : entry.of = u}
    BY <1>9, WriteAuditEventKeeps DEF T
  <2>3. req' \in [Requests -> T] /\ \A u \in Requests : Kept(u)'
    BY <2>1, <2>2, OthersKeep DEF T
  <2> QED BY <2>1, <2>2, <2>3 DEF T
<1> QED BY <1>1, <1>2, <1>3, <1>4, <1>5, <1>6, <1>7, <1>8, <1>9 DEF Handle, T

(* What other administrators do to the callers: requests under way grow.    *)
LEMMA AroundKeeps ==
    ASSUME AdminTypeOK, \A u \in Requests : Kept(u), Around
    PROVE  /\ req' \in [Requests -> {Fresh} \cup Request \cup Finished]
           /\ \A u \in Requests : Kept(u)'
<1>1. changed' = changed /\ audit' = audit /\ local' = local BY DEF Around
<1>2. req' = [u \in Requests |-> Grown(req[u])]
  <2>1. All(req) BY DEF Around
  <2>2. \A u \in Requests : {req[u].pc, req[u].pc} \cap Resolved # {} <=> req[u].pc \in Resolved
    OBVIOUS
  <2> QED BY <2>1, <2>2 DEF All, Grown
<1>3. ASSUME NEW u \in Requests PROVE req'[u] \in {Fresh} \cup Request \cup Finished /\ Kept(u)'
  <2>1. req'[u] = Grown(req[u]) BY <1>2
  <2> QED BY <1>1, <2>1, GrownStays
<1> QED BY <1>2, <1>3

(* Requests that nothing happens to.                                        *)
LEMMA UnchangedKeeps ==
    ASSUME \A u \in Requests : Kept(u), local' = local, req' = req, changed' = changed, audit' = audit
    PROVE  \A u \in Requests : Kept(u)'
BY DEF Kept, Resolves, Recorded, Authorized, CrossOrigin, HasRow, HasPrincipal

-----------------------------------------------------------------------------
(* The logs and their reader                                                *)

LogsOK ==
    /\ audit \subseteq [id : Nat \ {0}, of : Requests]
    /\ authLog \subseteq [id : Nat \ {0}, at : 1 .. MaxMs]
    /\ IsFiniteSet(audit) /\ IsFiniteSet(authLog)

LEMMA FiniteIds ==
    ASSUME LogsOK, NEW table
    PROVE  IdsIn(table) \subseteq Nat \ {0} /\ IsFiniteSet(IdsIn(table))
<1> DEFINE log == IF table = "audit" THEN audit ELSE authLog
           f == [entry \in log |-> entry.id]
<1>1. IsFiniteSet(log) /\ \A entry \in log : entry.id \in Nat \ {0} BY DEF LogsOK
<1>2. IdsIn(table) = {entry.id : entry \in log} BY DEF IdsIn
<1> HIDE DEF log
<1>3. f \in Surjection(log, IdsIn(table)) BY <1>2 DEF Surjection
<1>4. IsFiniteSet(IdsIn(table))
  <2> HIDE DEF f
  <2> QED BY <1>1, <1>3, FS_Surjection
<1> QED BY <1>1, <1>2, <1>4

(* The next id of auth_log is a number.                                     *)
LEMMA WriteAuthLogKeeps ==
    ASSUME AdminConstants, AdminTypeOK, LogsOK, WriteAuthLog
    PROVE  LogsOK' /\ events' \in 0 .. MaxEvents
<1> DEFINE ids == IdsIn("auth") \cup {0}
           entry == [id |-> Max(ids) + 1, at |-> ms]
<1>1. ids \in SUBSET Nat /\ IsFiniteSet(ids) /\ ids # {} BY FiniteIds, FS_AddElement
<1>2. Max(ids) \in Nat
  <2> HIDE DEF ids
  <2> QED BY <1>1, MaxProperties
<1>3. authLog' = authLog \cup {entry} /\ audit' = audit /\ events' = events + 1 /\ events < MaxEvents
  BY DEF WriteAuthLog
<1>4. entry \in [id : Nat \ {0}, at : 1 .. MaxMs]
  <2> HIDE DEF ids
  <2> QED BY <1>2 DEF AdminTypeOK
<1> HIDE DEF entry
<1>5. IsFiniteSet(authLog') BY <1>3, FS_AddElement DEF LogsOK
<1>6. events' \in 0 .. MaxEvents BY <1>3 DEF AdminTypeOK, AdminConstants
<1> QED BY <1>3, <1>4, <1>5, <1>6 DEF LogsOK

(* The part of the invariant that is about the reader.                      *)
WalkOK == (walk = Unopened \/ walk \in Walk) /\ OnTrack /\ WalkMissesNothing

LEMMA WalkShape ==
    ASSUME walk = Unopened \/ walk \in Walk, walk # Unopened
    PROVE  /\ walk.table \in {"audit", "auth"} /\ walk.before \in Nat /\ walk.seen \in Seq(Nat)
           /\ walk.start \in SUBSET Nat /\ walk.over \in BOOLEAN
BY DEF Walk

(* A reader who waits misses nothing when the logs only grow.               *)
LEMMA GrowingLogsKeep ==
    ASSUME WalkOK, walk' = walk, audit \subseteq audit', authLog \subseteq authLog'
    PROVE  WalkOK'
<1>1. CASE walk = Unopened BY <1>1 DEF WalkOK, OnTrack, WalkMissesNothing, Unopened, Walk
<1>2. CASE walk # Unopened
  <2>1. IdsIn(walk.table) \subseteq IdsIn(walk.table)' BY DEF IdsIn
  <2>2. IdsIn("audit") \subseteq IdsIn("audit")' BY DEF IdsIn
  <2>3. OnTrack' BY <1>2, <2>1 DEF WalkOK, OnTrack, Before
  <2>4. WalkMissesNothing' BY <1>2, <2>2 DEF WalkOK, WalkMissesNothing
  <2>5. (walk = Unopened \/ walk \in Walk)' BY DEF WalkOK, Unopened, Walk
  <2> QED BY <2>3, <2>4, <2>5 DEF WalkOK
<1> QED BY <1>1, <1>2

(* A pruned row is no longer owed.                                          *)
LEMMA PruneKeeps ==
    ASSUME LogsOK, WalkOK, PruneAuthLog
    PROVE  LogsOK' /\ WalkOK'
<1> DEFINE pruned == {entry.id : entry \in authLog \ authLog'}
<1>1. authLog' \in SUBSET authLog /\ audit' = audit BY DEF PruneAuthLog
<1>2. LogsOK' BY <1>1, FS_Subset DEF LogsOK
<1>3. IdsIn("auth") \ pruned \subseteq IdsIn("auth")' BY <1>1 DEF IdsIn
<1>4. IdsIn("audit")' = IdsIn("audit") BY <1>1 DEF IdsIn
<1>5. CASE walk.table = "auth" /\ walk # Unopened
  <2>1. walk' = [walk EXCEPT !.start = @ \ pruned] BY <1>5 DEF PruneAuthLog
  <2>2. walk \in Walk BY <1>5 DEF WalkOK
  <2> HIDE DEF pruned
  <2>3. /\ walk' \in Walk /\ walk'.table = "auth" /\ walk'.before = walk.before
        /\ walk'.seen = walk.seen /\ walk'.over = walk.over /\ walk'.start = walk.start \ pruned
    BY <1>5, <2>1, <2>2 DEF Walk
  <2>4. walk.start \subseteq IdsIn("auth") BY <1>5 DEF WalkOK, OnTrack
  <2>5. walk'.start \subseteq IdsIn("auth")' BY <1>3, <2>3, <2>4
  <2>6. OnTrack' BY <1>5, <2>3, <2>5 DEF WalkOK, OnTrack, Before
  <2>7. WalkMissesNothing' BY <1>5, <2>3 DEF WalkOK, WalkMissesNothing
  <2> QED BY <1>2, <2>3, <2>6, <2>7 DEF WalkOK
<1>6. CASE walk = Unopened
  <2>1. walk' = walk BY <1>6 DEF PruneAuthLog, Unopened
  <2> QED BY <1>2, <1>6, <2>1 DEF WalkOK, OnTrack, WalkMissesNothing, Unopened
<1>7. CASE walk.table # "auth" /\ walk # Unopened
  <2>1. walk' = walk /\ walk.table = "audit" /\ walk \in Walk
    BY <1>7 DEF PruneAuthLog, WalkOK, Walk
  <2>2. OnTrack' BY <1>4, <1>7, <2>1 DEF WalkOK, OnTrack, Before
  <2>3. WalkMissesNothing' BY <1>4, <1>7, <2>1 DEF WalkOK, WalkMissesNothing
  <2> QED BY <1>2, <2>1, <2>2, <2>3 DEF WalkOK, Walk
<1> QED BY <1>2, <1>5, <1>6, <1>7

(* What a reader of the audit log is owed is there: a request answered with *)
(* success has its event.                                                   *)
LEMMA OpenKeeps ==
    ASSUME AdminTypeOK, \A r \in Requests : Kept(r), LogsOK, NEW table \in {"audit", "auth"}, Open(table)
    PROVE  WalkOK'
<1> DEFINE start == IF table = "auth" THEN IdsIn("auth")
                    ELSE {req[r].id : r \in {u \in Requests : req[u].status = 200}}
<1>1. /\ walk' = [table |-> table, before |-> 0, seen |-> <<>>, over |-> FALSE, start |-> start]
      /\ audit' = audit /\ authLog' = authLog
  BY DEF Open, logs
<1>2. start \subseteq IdsIn(table)
  <2>1. ASSUME NEW r \in Requests, req[r].status = 200 PROVE req[r].id \in IdsIn("audit")
    <3>1. [id |-> req[r].id, of |-> r] \in {entry \in audit : entry.of = r}
      BY <2>1 DEF Kept, Recorded
    <3> QED BY <3>1 DEF IdsIn
  <2> QED BY <2>1
<1>3. IdsIn(table) \subseteq Nat \ {0} BY FiniteIds
<1>4. IdsIn(table)' = IdsIn(table) BY <1>1 DEF IdsIn
<1> HIDE DEF start
<1>5. /\ walk' \in Walk /\ walk'.table = table /\ walk'.before = 0 /\ walk'.seen = <<>>
      /\ walk'.over = FALSE /\ walk'.start = start
  BY <1>1, <1>2, <1>3 DEF Walk
<1>6. OnTrack' BY <1>2, <1>4, <1>5 DEF OnTrack, Before
<1>7. WalkMissesNothing' BY <1>2, <1>4, <1>5 DEF WalkMissesNothing
<1> QED BY <1>5, <1>6, <1>7 DEF WalkOK

(* A page goes behind what has been seen, and leaves nothing out.           *)
LEMMA ReadPageKeeps ==
    ASSUME AdminConstants, LogsOK, WalkOK, ReadPage
    PROVE  WalkOK'
<1> DEFINE page == Page(walk.table, walk.before)
           behind == {id \in IdsIn(walk.table) : Before(id, walk.before)}
<1>0. walk # Unopened /\ walk \in Walk /\ ~walk.over BY DEF ReadPage, WalkOK
<1>1. /\ walk.table \in {"audit", "auth"} /\ walk.before \in Nat /\ walk.seen \in Seq(Nat)
      /\ walk.start \in SUBSET Nat
  BY <1>0, WalkShape
<1>2. IdsIn(walk.table) \subseteq Nat \ {0} /\ IsFiniteSet(IdsIn(walk.table)) BY FiniteIds
<1>3. /\ page \in Seq(behind)
      /\ \A i, j \in DOMAIN page : i < j => page[i] > page[j]
      /\ Len(page) < Limit => behind \subseteq Range(page)
      /\ page = <<>> => behind = {}
      /\ page # <<>> =>
           /\ Last(page) \in behind
           /\ \A i \in DOMAIN page : page[i] >= Last(page)
           /\ \A x \in behind : x \in Range(page) \/ x < Last(page)
  BY <1>2, PageProperties
<1> DEFINE before == IF page = <<>> THEN walk.before ELSE Last(page)
<1>4. walk' = [walk EXCEPT !.seen = @ \o page, !.over = Len(page) < Limit, !.before = before]
  BY DEF ReadPage
<1>5. \A x \in behind : x \in Nat \ {0} /\ Before(x, walk.before) BY <1>2
<1> HIDE DEF page, behind
<1>6. page \in Seq(Nat) /\ behind \subseteq Nat BY <1>3, <1>5, SeqMonotonic
<1>7. before \in Nat BY <1>1, <1>3, <1>6
<1> HIDE DEF before
<1>8. /\ walk'.seen = walk.seen \o page /\ walk'.over = (Len(page) < Limit) /\ walk'.before = before
      /\ walk'.table = walk.table /\ walk'.start = walk.start
  BY <1>0, <1>4 DEF Walk
<1>9. walk.seen \o page \in Seq(Nat) BY <1>1, <1>6
<1>10. walk' \in Walk
  <2> DEFINE seen == walk.seen \o page
             over == Len(page) < Limit
  <2>1. over \in BOOLEAN /\ seen \in Seq(Nat) BY <1>9
  <2>2. walk' = [walk EXCEPT !.seen = seen, !.over = over, !.before = before] BY <1>4
  <2> HIDE DEF seen, over
  <2> QED BY <1>0, <1>7, <2>1, <2>2 DEF Walk
<1> DEFINE m == Len(walk.seen)
           l == Len(page)
<1>11. /\ m \in Nat /\ l \in Nat /\ DOMAIN walk.seen = 1 .. m /\ DOMAIN page = 1 .. l
       /\ DOMAIN walk'.seen = 1 .. m + l
       /\ \A i \in 1 .. m : walk'.seen[i] = walk.seen[i] /\ walk.seen[i] \in Nat
       /\ \A i \in m + 1 .. m + l : walk'.seen[i] = page[i - m] /\ i - m \in 1 .. l
  <2>1. /\ m \in Nat /\ l \in Nat /\ DOMAIN walk.seen = 1 .. m /\ DOMAIN page = 1 .. l
        /\ DOMAIN (walk.seen \o page) = 1 .. Len(walk.seen \o page)
    BY <1>1, <1>6, <1>9, LenProperties
  <2>2. /\ Len(walk.seen \o page) = m + l
        /\ \A i \in 1 .. m + l : (walk.seen \o page)[i] = IF i <= m THEN walk.seen[i] ELSE page[i - m]
    BY <1>1, <1>6, ConcatProperties
  <2>3. \A i \in 1 .. m : walk.seen[i] \in Nat BY <1>1, ElementOfSeq
  <2> HIDE DEF m, l
  <2> QED BY <1>8, <2>1, <2>2, <2>3
<1> HIDE DEF m, l
<1>12. \A i \in 1 .. l : page[i] \in behind BY <1>3, <1>11, ElementOfSeq DEF l
<1>13. /\ walk.before = 0 => walk.seen = <<>> /\ m = 0
       /\ \A i \in 1 .. m : walk.seen[i] >= walk.before
       /\ \A i, j \in 1 .. m : i < j => walk.seen[i] > walk.seen[j]
       /\ \A id \in walk.start : id \in Range(walk.seen) \/ Before(id, walk.before)
       /\ walk.start \subseteq IdsIn(walk.table)
       /\ walk.table = "audit" => walk.start \subseteq IdsIn("audit")
  BY <1>0, <1>11 DEF WalkOK, OnTrack, WalkMissesNothing, m
(* Whatever is on the page is before all that has been seen.                *)
<1>14. ASSUME NEW i \in 1 .. m, NEW x \in behind PROVE walk.seen[i] > x
  <2>1. walk.before # 0 BY <1>13, <1>14
  <2>2. x < walk.before BY <1>5, <2>1 DEF Before
  <2> QED BY <1>1, <1>5, <1>11, <1>13, <2>2
<1>15. \A i, j \in DOMAIN walk'.seen : i < j => walk'.seen[i] > walk'.seen[j]
  <2>1. ASSUME NEW i \in 1 .. m + l, NEW j \in 1 .. m + l, i < j PROVE walk'.seen[i] > walk'.seen[j]
    <3>1. CASE j <= m BY <1>11, <1>13, <2>1, <3>1
    <3>2. CASE i <= m /\ j > m
      <4>1. i \in 1 .. m /\ j \in m + 1 .. m + l BY <1>11, <3>2
      <4>2. page[j - m] \in behind BY <1>11, <1>12, <4>1
      <4>3. walk.seen[i] > page[j - m] BY <1>14, <4>1, <4>2
      <4> QED BY <1>11, <4>1, <4>3
    <3>3. CASE i > m
      <4>1. i \in m + 1 .. m + l /\ j \in m + 1 .. m + l BY <1>11, <2>1, <3>3
      <4>2. i - m \in DOMAIN page /\ j - m \in DOMAIN page /\ i - m < j - m BY <1>11, <2>1, <4>1
      <4>3. page[i - m] > page[j - m] BY <1>3, <4>2
      <4> QED BY <1>11, <4>1, <4>3
    <3> QED BY <1>11, <3>1, <3>2, <3>3
  <2> QED BY <1>11, <2>1
<1>16. Range(walk.seen) \cup Range(page) \subseteq Range(walk'.seen)
  BY <1>1, <1>6, <1>8, RangeConcatenation
<1>17. walk.start \ Range(walk.seen) \subseteq behind
  BY <1>1, <1>13 DEF behind
<1>18. IdsIn(walk.table)' = IdsIn(walk.table) /\ IdsIn("audit")' = IdsIn("audit")
  BY <1>8 DEF ReadPage, logs, IdsIn
<1>19. WalkMissesNothing'
  <2>1. walk'.over => walk'.start \subseteq Range(walk'.seen) BY <1>3, <1>8, <1>16, <1>17
  <2> QED BY <1>8, <1>13, <1>15, <1>18, <2>1 DEF WalkMissesNothing
<1>20. OnTrack'
  <2>1. walk'.before = 0 => walk'.seen = <<>>
    <3>1. CASE page = <<>>
      <4>1. walk'.seen = walk.seen BY <1>1, <1>8, <3>1
      <4> QED BY <1>8, <1>13, <3>1, <4>1 DEF before
    <3>2. CASE page # <<>> BY <1>3, <1>5, <1>8, <3>2 DEF before
    <3> QED BY <3>1, <3>2
  <2>2. ASSUME NEW i \in 1 .. m + l PROVE walk'.seen[i] >= walk'.before
    <3>1. CASE page = <<>>
      <4>1. l = 0 BY <3>1 DEF l
      <4> QED BY <1>8, <1>11, <1>13, <2>2, <3>1, <4>1 DEF before
    <3>2. CASE page # <<>> /\ i <= m
      <4>1. i \in 1 .. m BY <1>11, <3>2
      <4>2. walk.seen[i] > Last(page) BY <1>3, <1>14, <3>2, <4>1
      <4>3. Last(page) \in Nat BY <1>3, <1>5, <3>2
      <4> QED BY <1>8, <1>11, <3>2, <4>1, <4>2, <4>3 DEF before
    <3>3. CASE page # <<>> /\ i > m
      <4>1. i \in m + 1 .. m + l BY <1>11, <3>3
      <4>2. i - m \in DOMAIN page BY <1>11, <4>1
      <4>3. page[i - m] >= Last(page) BY <1>3, <3>3, <4>2
      <4> QED BY <1>8, <1>11, <3>3, <4>1, <4>3 DEF before
    <3> QED BY <1>11, <3>1, <3>2, <3>3
  <2>3. ASSUME NEW id \in walk'.start PROVE id \in Range(walk'.seen) \/ Before(id, walk'.before)
    <3>1. CASE id \in Range(walk.seen) BY <1>16, <3>1
    <3>2. CASE id \notin Range(walk.seen)
      <4>1. id \in behind BY <1>8, <1>17, <2>3, <3>2
      <4>2. page # <<>> BY <1>3, <4>1
      <4>3. id \in Range(page) \/ id < Last(page) BY <1>3, <4>1, <4>2
      <4> QED BY <1>8, <1>16, <4>2, <4>3 DEF Before, before
    <3> QED BY <3>1, <3>2
  <2> QED BY <1>8, <1>11, <1>13, <1>18, <2>1, <2>2, <2>3 DEF OnTrack, Before
<1> QED BY <1>10, <1>19, <1>20 DEF WalkOK

-----------------------------------------------------------------------------
(* The invariant                                                            *)

(* A step of a request leaves all else alone, but for the audit log, which  *)
(* it may add one event to.                                                 *)
LEMMA RequestFrame ==
    ASSUME NEW r \in Requests, Handle(r) \/ \E is \in Arrivals : Arrive(r, is)
    PROVE  /\ UNCHANGED <<ms, callers, authLog, events, walk>>
           /\ audit' = audit \/ \E entry : audit' = audit \cup {entry}
<1>1. CASE WriteAuditEvent(r) BY <1>1 DEF WriteAuditEvent
<1>2. CASE Change(r) BY <1>2 DEF Change, logs
<1>3. ASSUME Idly PROVE UNCHANGED <<ms, callers, authLog, events, walk>> /\ audit' = audit
  BY <1>3 DEF Idly, logs
<1>4. CASE Idly BY <1>3, <1>4
<1>5. Idly \/ Change(r) \/ WriteAuditEvent(r)
  BY DEF Handle, Arrive, ReadRow, ReadPrincipal, ReadPermissions, Refuse, DrawId, Throw
<1> QED BY <1>1, <1>2, <1>4, <1>5

LEMMA RecordTellsTheTruth == (\A r \in Requests : Recorded(r)) => AnswersTellTheTruth
<1> SUFFICES ASSUME NEW r \in Requests, Recorded(r)
             PROVE  /\ req[r].status = 200 => r \in changed /\ Cardinality({entry \in audit : entry.of = r}) = 1
                    /\ req[r].status \in 400 .. 499 => r \notin changed
                    /\ r \notin changed => \A entry \in audit : entry.of # r
  BY DEF AnswersTellTheTruth
<1>1. Cardinality({[id |-> req[r].id, of |-> r]}) = 1 BY FS_Singleton
<1> QED BY <1>1 DEF Recorded

LEMMA AdminInitEstablishes == ASSUME AdminInit PROVE AdminInv
<1> USE DEF AdminInit
<1>1. AdminTypeOK
  BY AdminConstants DEF AdminTypeOK, AdminConstants
<1>2. IsFiniteSet(audit) /\ IsFiniteSet(authLog) BY FS_EmptySet
<1>3. ASSUME NEW r \in Requests PROVE Resolves(r) /\ Recorded(r)
  <2>1. req[r].pc = "fresh" /\ req[r].status = 0 /\ req[r].id = 0 BY DEF Fresh
  <2> QED BY <2>1 DEF Resolves, Recorded, UnderWay
<1>4. AnswersTellTheTruth BY <1>3, RecordTellsTheTruth
<1>5. OnTrack /\ WalkMissesNothing BY DEF OnTrack, WalkMissesNothing
<1> QED BY <1>1, <1>2, <1>3, <1>4, <1>5 DEF AdminInv

LEMMA AdminStep == ASSUME AdminInv, [Step]_adminVars PROVE AdminInv'
<1> USE AdminConstants
<1> DEFINE T == {Fresh} \cup Request \cup Finished
           RestOK == /\ ms' \in 1 .. MaxMs /\ local' \in BOOLEAN /\ row' \subseteq Callers
                     /\ disabled' \subseteq Callers /\ scope' \in [Callers -> Where]
                     /\ events' \in 0 .. MaxEvents /\ changed' \subseteq Requests
           RequestsOK == req' \in [Requests -> T] /\ \A r \in Requests : Kept(r)'
<1>0. AdminTypeOK /\ LogsOK /\ WalkOK /\ \A r \in Requests : Kept(r)
  BY DEF AdminInv, AdminTypeOK, LogsOK, WalkOK, Kept
<1> HIDE DEF T
<1>1. ASSUME NEW r \in Requests, Handle(r) \/ \E is \in Arrivals : Arrive(r, is)
      PROVE  RestOK /\ RequestsOK /\ LogsOK' /\ WalkOK'
  <2>1. /\ UNCHANGED <<ms, callers, authLog, events, walk>>
        /\ audit' = audit \/ \E entry : audit' = audit \cup {entry}
    BY <1>1, RequestFrame
  <2>2. /\ RequestsOK /\ audit' \subseteq [id : Nat \ {0}, of : Requests]
        /\ changed' \subseteq Requests
    BY <1>0, <1>1, RequestStep DEF AdminTypeOK, T
  <2>3. IsFiniteSet(audit') BY <1>0, <2>1, FS_AddElement DEF LogsOK
  <2>4. LogsOK' BY <1>0, <2>1, <2>2, <2>3 DEF LogsOK
  <2>5. WalkOK' BY <1>0, <2>1, GrowingLogsKeep
  <2> QED BY <1>0, <2>1, <2>2, <2>4, <2>5 DEF AdminTypeOK, callers
<1>2. ASSUME local' = local, req' = req, changed' = changed, audit' = audit PROVE RequestsOK
  BY <1>0, <1>2, UnchangedKeeps DEF AdminTypeOK, T
<1>3. ASSUME WriteAuthLog PROVE RestOK /\ RequestsOK /\ LogsOK' /\ WalkOK'
  <2>1. /\ local' = local /\ req' = req /\ changed' = changed /\ audit' = audit /\ walk' = walk
        /\ UNCHANGED <<ms, row, disabled, scope>> /\ authLog \subseteq authLog'
    BY <1>3 DEF WriteAuthLog, callers
  <2>2. LogsOK' /\ events' \in 0 .. MaxEvents BY <1>0, <1>3, WriteAuthLogKeeps
  <2>3. WalkOK' BY <1>0, <2>1, GrowingLogsKeep
  <2>4. RestOK BY <1>0, <2>1, <2>2 DEF AdminTypeOK
  <2> QED BY <1>2, <2>1, <2>2, <2>3, <2>4
<1>4. ASSUME PruneAuthLog PROVE RestOK /\ RequestsOK /\ LogsOK' /\ WalkOK'
  <2>1. /\ local' = local /\ req' = req /\ changed' = changed /\ audit' = audit
        /\ UNCHANGED <<ms, row, disabled, scope, events>>
    BY <1>4 DEF PruneAuthLog, callers
  <2>2. LogsOK' /\ WalkOK' BY <1>0, <1>4, PruneKeeps
  <2>3. RestOK BY <1>0, <2>1 DEF AdminTypeOK
  <2> QED BY <1>2, <2>1, <2>2, <2>3
<1>5. ASSUME ReadPage \/ \E table \in {"audit", "auth"} : Open(table)
      PROVE  RestOK /\ RequestsOK /\ LogsOK' /\ WalkOK'
  <2>1. /\ local' = local /\ req' = req /\ changed' = changed /\ audit' = audit /\ authLog' = authLog
        /\ UNCHANGED <<ms, row, disabled, scope, events>>
    BY <1>5 DEF ReadPage, Open, callers, logs
  <2>2. LogsOK' BY <1>0, <2>1 DEF LogsOK
  <2>3. WalkOK' BY <1>0, <1>5, ReadPageKeeps, OpenKeeps
  <2>4. RestOK BY <1>0, <2>1 DEF AdminTypeOK
  <2> QED BY <1>2, <2>1, <2>2, <2>3, <2>4
<1>6. ASSUME Tick PROVE RestOK /\ RequestsOK /\ LogsOK' /\ WalkOK'
  <2>1. /\ local' = local /\ req' = req /\ changed' = changed /\ audit' = audit /\ authLog' = authLog
        /\ walk' = walk /\ UNCHANGED <<row, disabled, scope, events>> /\ ms < MaxMs /\ ms' = ms + 1
    BY <1>6 DEF Tick, callers, logs
  <2>2. LogsOK' /\ WalkOK' BY <1>0, <2>1, GrowingLogsKeep DEF LogsOK
  <2>3. ms' \in 1 .. MaxMs BY <1>0, <2>1 DEF AdminTypeOK, AdminConstants
  <2>4. RestOK BY <1>0, <2>1, <2>3 DEF AdminTypeOK
  <2> QED BY <1>2, <2>1, <2>2, <2>4
<1>7. ASSUME NEW c \in Callers,
             Revoke(c) \/ Disable(c) \/ Enable(c) \/ \E where \in Where : SetScope(c, where)
      PROVE  RestOK /\ RequestsOK /\ LogsOK' /\ WalkOK'
  <2>1. Around BY <1>7 DEF Revoke, Disable, Enable, SetScope
  <2>2. RequestsOK BY <1>0, <2>1, AroundKeeps DEF T
  <2>3. LogsOK' /\ WalkOK' BY <1>0, <2>1, GrowingLogsKeep DEF Around, LogsOK
  <2>4. row' \subseteq Callers /\ disabled' \subseteq Callers /\ scope' \in [Callers -> Where]
    BY <1>0, <1>7 DEF Revoke, Disable, Enable, SetScope, AdminTypeOK
  <2>5. events' \in 0 .. MaxEvents BY <1>0, <2>1 DEF Around, AdminTypeOK, AdminConstants
  <2>6. RestOK BY <1>0, <2>1, <2>4, <2>5 DEF Around, AdminTypeOK
  <2> QED BY <2>2, <2>3, <2>6
<1>8. ASSUME UNCHANGED adminVars PROVE RestOK /\ RequestsOK /\ LogsOK' /\ WalkOK'
  <2>1. /\ local' = local /\ req' = req /\ changed' = changed /\ audit' = audit /\ authLog' = authLog
        /\ walk' = walk /\ UNCHANGED <<ms, row, disabled, scope, events>>
    BY <1>8 DEF adminVars, callers, logs
  <2>2. LogsOK' /\ WalkOK' BY <1>0, <2>1, GrowingLogsKeep DEF LogsOK
  <2>3. RestOK BY <1>0, <2>1 DEF AdminTypeOK
  <2> QED BY <1>2, <2>1, <2>2, <2>3
<1> HIDE DEF RestOK, RequestsOK
<1>9. RestOK /\ RequestsOK /\ LogsOK' /\ WalkOK'
  BY <1>1, <1>3, <1>4, <1>5, <1>6, <1>7, <1>8 DEF Step
<1>10. AnswersTellTheTruth'
  <2>1. (\A r \in Requests : Recorded(r))' BY <1>9 DEF RequestsOK, Kept
  <2>2. (\A r \in Requests : Recorded(r))' => AnswersTellTheTruth' BY RecordTellsTheTruth, PTL
  <2> QED BY <2>1, <2>2
<1>11. AdminTypeOK' BY <1>9 DEF RestOK, RequestsOK, T, LogsOK, WalkOK, AdminTypeOK
<1>12. (\A r \in Requests : Resolves(r) /\ Recorded(r))' BY <1>9 DEF RequestsOK, Kept
<1> QED BY <1>9, <1>10, <1>11, <1>12 DEF AdminInv, LogsOK, WalkOK

(* In every reachable state a request that goes on has had what the gate    *)
(* asks for, an answer tells what happened, and a reader of the logs is on  *)
(* track (handleAdmin, adminAudit, listAuditEvents, listAuthLog).           *)
THEOREM AdminInvariant == AdminSpec => []AdminInv
<1>1. AdminInit => AdminInv BY AdminInitEstablishes
<1>2. AdminInv /\ [Step]_adminVars => AdminInv' BY AdminStep
<1> QED BY <1>1, <1>2, PTL DEF AdminSpec

(* A change answered with success is in the audit log exactly once, and a   *)
(* refused request has changed nothing, whatever throws in between.         *)
THEOREM AnswersAreTrue == AdminSpec => []AnswersTellTheTruth
BY AdminInvariant, PTL DEF AdminInv

(* Paging by cursor through a log that grows and is pruned shows each row   *)
(* once and misses none that was there when the reader began.               *)
THEOREM ReadersMissNothing == AdminSpec => []WalkMissesNothing
BY AdminInvariant, PTL DEF AdminInv

(* Only a request whose caller has had all that the gate asks for changes   *)
(* anything.                                                                *)
THEOREM AuthorityHolds == AdminSpec => NoChangeWithoutAuthority
<1> DEFINE A == \A r \in changed' \ changed :
                   Authorized(req[r].is, req[r].held \cup Holds(req[r].is.caller))
<1>1. ASSUME AdminInv, [Step]_adminVars PROVE [A]_adminVars
  <2> USE AdminConstants
  <2>1. AdminTypeOK /\ \A r \in Requests : Kept(r) BY <1>1 DEF AdminInv, Kept
  <2>2. ASSUME NEW r \in Requests, Handle(r) \/ \E is \in Arrivals : Arrive(r, is) PROVE A
    BY <2>1, <2>2, RequestStep
  <2>3. CASE \/ WriteAuthLog \/ PruneAuthLog \/ ReadPage \/ Tick
             \/ \E table \in {"audit", "auth"} : Open(table)
             \/ \E c \in Callers :
                   Revoke(c) \/ Disable(c) \/ Enable(c) \/ \E where \in Where : SetScope(c, where)
    <3>1. changed' = changed
      BY <2>3 DEF WriteAuthLog, PruneAuthLog, ReadPage, Tick, Open, Revoke, Disable, Enable,
                  SetScope, Around
    <3> QED BY <3>1
  <2> HIDE DEF A
  <2> QED BY <1>1, <2>2, <2>3 DEF Step
<1> QED BY <1>1, AdminInvariant, PTL DEF AdminSpec, NoChangeWithoutAuthority

-----------------------------------------------------------------------------
(* The vocabulary of an app and the grants of its roles                     *)

USE DEF tables, history, NoRole, Role, Idle

(* The initial database satisfies the invariant.                            *)
LEMMA InitEstablishes == ASSUME Init PROVE SchemaIInv
BY DEF Init, SchemaIInv, TypeOK, DeclaredInForce, WriterSawNoAppRole, AppRolesAreDeclared,
       DeclaredWithinCatalog

(* A reconcile re-establishes the invariant: it rewrites every declared     *)
(* role, drops the app's others, and marks all requests in flight outrun.   *)
LEMMA ReconcilePreserves ==
    ASSUME AppSchemaConstants, SchemaIInv, NEW s \in Schemas, PutAppSchema(s) PROVE SchemaIInv'
<1> USE DEF SchemaIInv, PutAppSchema
<1>1. TypeOK' BY DEF TypeOK, Reconciled, AppSchemaConstants
<1>2. DeclaredInForce' BY DEF DeclaredInForce, Reconciled, AppSchemaConstants
<1>3. WriterSawNoAppRole' BY DEF WriterSawNoAppRole
<1>4. AppRolesAreDeclared' BY DEF AppRolesAreDeclared, Reconciled
<1>5. DeclaredWithinCatalog' BY DEF DeclaredWithinCatalog, WellFormed
<1> QED BY <1>1, <1>2, <1>3, <1>4, <1>5

(* Accepting a request writes no table, and its first check is still to     *)
(* come.                                                                    *)
LEMMA AcceptPreserves ==
    ASSUME SchemaIInv, NEW a \in Admins, NEW request \in Policy \cup Removal, Accept(a, request),
           request.pc = "read" => request.op \in {"update", "delete"},
           request.pc = "catalog" => request.op = "create",
           request.pc # "write"
    PROVE  SchemaIInv'
<1> USE DEF SchemaIInv, Accept
<1>1. TypeOK' BY DEF TypeOK
<1>2. DeclaredInForce' BY DEF DeclaredInForce
<1>3. WriterSawNoAppRole' BY DEF WriterSawNoAppRole, TypeOK, Policy, Removal
<1>4. AppRolesAreDeclared' /\ DeclaredWithinCatalog' BY DEF AppRolesAreDeclared, DeclaredWithinCatalog
<1> QED BY <1>1, <1>2, <1>3, <1>4

(* A key whose row lets a request go on is not one of the app's roles.      *)
LEMMA AcceptedKeyIsNotDeclared ==
    ASSUME SchemaIInv, NEW op, NEW k, Acceptable(op, roles[k])
    PROVE  k \in torn \/ k \notin DOMAIN declared
<1>1. roles[k].origin # "app" BY DEF Acceptable
<1>2. ASSUME k \in DOMAIN declared, k \notin torn PROVE roles[k].origin = "app"
  <2>1. roles[k] = [origin |-> "app", permissions |-> declared[k]]
    BY <1>2 DEF SchemaIInv, DeclaredInForce
  <2> QED BY <2>1
<1> QED BY <1>1, <1>2

(* A check writes no table; the one that reads the role lets the request    *)
(* go on only if that role is not the app's.                                *)
LEMMA CheckPreserves ==
    ASSUME SchemaIInv, NEW a \in Admins, CheckCatalog(a) \/ ReadRole(a) PROVE SchemaIInv'
<1> USE DEF SchemaIInv, Check
<1>1. TypeOK' BY DEF TypeOK, Policy, Removal, CheckCatalog, ReadRole
<1>2. DeclaredInForce' BY DEF DeclaredInForce, CheckCatalog, ReadRole
<1>3. WriterSawNoAppRole'
  <2>1. CASE CheckCatalog(a)
    BY <2>1 DEF WriterSawNoAppRole, TypeOK, Policy, Removal, CheckCatalog
  <2>2. CASE ReadRole(a)
    BY <2>2, AcceptedKeyIsNotDeclared DEF WriterSawNoAppRole, TypeOK, Policy, Removal, ReadRole
  <2> QED BY <2>1, <2>2
<1>4. AppRolesAreDeclared' /\ DeclaredWithinCatalog'
  BY DEF AppRolesAreDeclared, DeclaredWithinCatalog, CheckCatalog, ReadRole
<1> QED BY <1>1, <1>2, <1>3, <1>4

(* A write of a request that was overtaken is recorded in torn; any other   *)
(* request writes a key the app has not declared.                           *)
LEMMA WritePreserves ==
    ASSUME AppSchemaConstants, SchemaIInv, NEW a \in Admins, Upsert(a) \/ Delete(a) PROVE SchemaIInv'
<1> USE DEF SchemaIInv, Upsert, Delete, Put
<1>0. todo[a].key \in RoleKeys /\ todo[a] # Idle
  BY DEF TypeOK, Policy, Removal
<1>1. TypeOK'
  <2>1. Upsert(a) => todo[a].permissions \in SUBSET Seq(Segments)
    BY DEF TypeOK, Policy, Removal, AppSchemaConstants
  <2> QED BY <1>0, <2>1 DEF TypeOK
<1>2. DeclaredInForce'
  <2>1. todo[a].key \in torn' \/ todo[a].key \notin DOMAIN declared
    BY <1>0 DEF WriterSawNoAppRole
  <2> QED BY <1>0, <2>1 DEF DeclaredInForce, TypeOK
<1>3. WriterSawNoAppRole' BY DEF WriterSawNoAppRole, TypeOK
<1>4. AppRolesAreDeclared' /\ DeclaredWithinCatalog'
  BY <1>0 DEF AppRolesAreDeclared, DeclaredWithinCatalog, TypeOK
<1> QED BY <1>1, <1>2, <1>3, <1>4

(* Every step of the vocabulary preserves SchemaIInv.                       *)
LEMMA SchemaStep == ASSUME SchemaIInv, [Next]_vars PROVE SchemaIInv'
<1>1. ASSUME NEW s \in Schemas, PutAppSchema(s) PROVE SchemaIInv'
  BY <1>1, AppSchemaConstants, ReconcilePreserves
<1>2. ASSUME NEW a \in Admins, NEW k \in RoleKeys, NEW permissions \in PatternSets,
             CreatePolicy(a, k, permissions) \/ UpdatePolicy(a, k, permissions)
      PROVE  SchemaIInv'
  BY <1>2, AcceptPreserves DEF CreatePolicy, UpdatePolicy, Policy
<1>3. ASSUME NEW a \in Admins, NEW k \in RoleKeys, DeletePolicy(a, k) PROVE SchemaIInv'
  BY <1>3, AcceptPreserves DEF DeletePolicy, Removal
<1>4. ASSUME NEW a \in Admins, CheckCatalog(a) \/ ReadRole(a) PROVE SchemaIInv'
  BY <1>4, CheckPreserves
<1>5. ASSUME NEW a \in Admins, Upsert(a) \/ Delete(a) PROVE SchemaIInv'
  BY <1>5, AppSchemaConstants, WritePreserves
<1>6. CASE UNCHANGED vars
  BY <1>6 DEF vars, SchemaIInv, TypeOK, DeclaredInForce, WriterSawNoAppRole,
              AppRolesAreDeclared, DeclaredWithinCatalog
<1> QED BY <1>1, <1>2, <1>3, <1>4, <1>5, <1>6 DEF Next, PolicyNext

(* SchemaIInv holds in every reachable state.                               *)
THEOREM SchemaInvariant == Spec => []SchemaIInv
<1>1. Init => SchemaIInv BY InitEstablishes
<1>2. SchemaIInv /\ [Next]_vars => SchemaIInv' BY SchemaStep
<1> QED BY <1>1, <1>2, PTL DEF Spec

(* Declared roles are in force as declared, except where an overtaken       *)
(* policy request wrote.                                                    *)
THEOREM DeclaredRolesInForce == Spec => []DeclaredInForce
BY SchemaInvariant, PTL DEF SchemaIInv

(* An app-origin role never names an action outside the catalog in force.   *)
THEOREM AppRolesStayWithinCatalog == Spec => []AppRolesWithinCatalog
<1>1. SchemaIInv => AppRolesWithinCatalog
  BY DEF SchemaIInv, AppRolesWithinCatalog, AppRolesAreDeclared, DeclaredWithinCatalog
<1> QED BY <1>1, SchemaInvariant, PTL

(* A custom policy survives a redeploy that does not declare its key.       *)
THEOREM CustomPoliciesSurvive == Spec => CustomSurvivesRedeploy
<1> DEFINE Survives == \A s \in Schemas, k \in RoleKeys :
        PutAppSchema(s) /\ k \notin DOMAIN s.roles /\ roles[k].origin = "custom"
            => roles'[k] = roles[k]
<1>1. Survives BY DEF PutAppSchema, Reconciled
<1> QED BY <1>1, PTL DEF CustomSurvivesRedeploy

-----------------------------------------------------------------------------
(* Grants                                                                   *)

(* A pattern allowed by a catalog is allowed by every larger one.           *)
LEMMA AllowedByMore ==
    ASSUME NEW permissions, NEW small, NEW large, small \subseteq large, AllAllowed(permissions, small)
    PROVE  AllAllowed(permissions, large)
BY DEF AllAllowed, IsActionAllowed

(* To this app's vocabulary, a step of Grants is a step of AppSchema.       *)
LEMMA GrantsStepIsSchemaStep == ASSUME [GrantsNext]_<<vars, grantVars>> PROVE [Next]_vars
BY DEF GrantsNext, Deploy, Read, ReadScopes, ReadActions, ReadRoles, AskGrant, AskDeletion, Proceed,
       CheckVocabulary, CheckPrincipal, InsertGrant, DeleteGrant, Invite, CancelInvite, AskService,
       ResolveIssuer, CreateService, InsertServiceGrant, Next

(* Matching composes: what a pattern matched by another pattern matches,    *)
(* the other matches too.                                                   *)
LEMMA MatchComposes ==
    ASSUME NEW S, NEW p \in Seq(S), NEW r \in Seq(S), NEW a \in Seq(S),
           MatchAction(p, r), MatchAction(r, a)
    PROVE  MatchAction(p, a)
<1>1. CASE p = AnyAction \/ p = r \/ r = a BY <1>1 DEF MatchAction
<1>2. CASE IsNamespace(p) /\ Within(p, r) /\ IsNamespace(r) /\ Within(r, a)
  <2>1. Len(p) \in Nat /\ Len(r) \in Nat /\ Len(a) \in Nat OBVIOUS
  <2>2. Len(r) >= Len(p) /\ Len(a) >= Len(r) BY <1>2 DEF Within
  <2>3. \A k \in 1 .. Len(p) - 1 : a[k] = p[k] BY <1>2, <2>1, <2>2 DEF Within
  <2> QED BY <1>2, <2>1, <2>2, <2>3 DEF Within, MatchAction
<1>3. CASE r = AnyAction BY <1>1, <1>3 DEF MatchAction, IsNamespace, Within, AnyAction
<1> QED BY <1>1, <1>2, <1>3 DEF MatchAction

(* A grant that went through createGrant's checks gives what was declared   *)
(* some day, whatever its role has become.                                  *)
LEMMA BoundedGivesDeclared ==
    ASSUME WithinEver, NEW g \in AllRows, Bounded(g)
    PROVE  AllAllowed(Gives(g), ever)
<1>1. g \in Row BY GrantConstants
<1>2. CASE g.role = "inline"
  <2>1. AllAllowed(g.permissions, {}) => AllAllowed(g.permissions, ever) BY AllowedByMore
  <2> QED BY <1>2, <2>1 DEF Gives, Expand, Bounded
<1>3. CASE g.role # "inline"
  <2>1. g.role \in RoleKeys BY <1>1, <1>3 DEF Row
  <2>2. AllAllowed({AnyAction}, ever) BY DEF AllAllowed, IsActionAllowed
  <2>3. AllAllowed(roles[g.role].permissions, ever) BY <2>1 DEF WithinEver
  <2> QED BY <1>3, <2>1, <2>2, <2>3 DEF Gives, Expand, RolePermissions
<1> QED BY <1>2, <1>3

(* What a row gives is a set of patterns over the segments and Star.        *)
LEMMA GivesPatterns ==
    ASSUME GrantsTypeOK, TypeOK, NEW g \in AllRows
    PROVE  Gives(g) \subseteq Seq(Segments \cup {Star})
<1>1. g \in Row BY GrantConstants
<1>2. AnyAction \in Seq(Segments \cup {Star}) BY DEF AnyAction
<1>3. \A k \in RoleKeys : roles[k].permissions \subseteq Seq(Segments) BY DEF TypeOK, NoRole
<1>4. Seq(Segments) \subseteq Seq(Segments \cup {Star}) OBVIOUS
<1> QED BY <1>1, <1>2, <1>3, <1>4 DEF Gives, Expand, RolePermissions, Row

(* Grants implements AppSchema, so that whatever is proved of the           *)
(* vocabulary holds while grants are created and deleted.                   *)
THEOREM GrantsImplementSchema == GrantsSpec => Spec
<1>1. GrantsInit => Init BY DEF GrantsInit
<1>2. [GrantsNext]_<<vars, grantVars>> => [Next]_vars BY GrantsStepIsSchemaStep
<1> QED BY <1>1, <1>2, PTL DEF GrantsSpec, Spec

(* The initial database satisfies the invariant of grants.                  *)
LEMMA GrantsInitEstablishes == ASSUME GrantsInit PROVE GrantsIInv
<1>1. SchemaIInv BY InitEstablishes DEF GrantsInit
<1>2. GrantsTypeOK BY DEF GrantsInit, GrantsTypeOK, NoAnswer
<1>3. WithinEver BY DEF GrantsInit, WithinEver, Init, AllAllowed, CheckedPolicy, NotAsked
<1>4. AnswerFollows /\ GrantsHaveHolders BY DEF GrantsInit, AnswerFollows, GrantsHaveHolders, NoAnswer
<1> QED BY <1>1, <1>2, <1>3, <1>4 DEF GrantsIInv

(* A deploy: the catalog grows into ever, and its answer starts afresh.     *)
LEMMA DeployPreserves ==
    ASSUME GrantsIInv, NEW s \in Schemas, Deploy(s)
    PROVE  GrantsTypeOK' /\ WithinEver' /\ AnswerFollows' /\ GrantsHaveHolders'
<1> USE DEF GrantsIInv, Deploy
<1>1. GrantsTypeOK'
  BY AppSchemaConstants DEF GrantsTypeOK, Answer, NoAnswer
<1>2. WithinEver'
  <2>1. catalog' \subseteq ever' BY DEF PutAppSchema
  <2>2. ever \subseteq ever' OBVIOUS
  <2>3. ASSUME NEW k \in RoleKeys PROVE AllAllowed(roles'[k].permissions, ever')
    <3>1. CASE k \in DOMAIN s.roles
      <4>1. roles'[k].permissions = s.roles[k] BY <3>1 DEF PutAppSchema, Reconciled
      <4>2. AllAllowed(s.roles[k], s.actions) BY <3>1 DEF PutAppSchema, WellFormed
      <4>3. s.actions \subseteq ever' OBVIOUS
      <4> QED BY <4>1, <4>2, <4>3, AllowedByMore
    <3>2. CASE k \notin DOMAIN s.roles
      <4>1. roles'[k].permissions = {} \/ roles'[k].permissions = roles[k].permissions
        BY <3>2 DEF PutAppSchema, Reconciled
      <4>2. AllAllowed({}, ever') BY DEF AllAllowed
      <4>3. AllAllowed(roles[k].permissions, ever') BY <2>2, AllowedByMore DEF WithinEver
      <4> QED BY <4>1, <4>2, <4>3
    <3> QED BY <3>1, <3>2
  <2>4. ASSUME NEW a \in Admins, CheckedPolicy(todo'[a]) PROVE AllAllowed(todo'[a].permissions, ever')
    <3>1. todo' = todo BY DEF PutAppSchema
    <3> QED BY <2>2, <2>4, <3>1, AllowedByMore DEF WithinEver
  <2>5. ASSUME NEW g, Bounded(g) PROVE Bounded(g)'
    <3>1. AllAllowed(g.permissions, ever) => AllAllowed(g.permissions, ever')
      BY <2>2, AllowedByMore
    <3> QED BY <2>5, <3>1 DEF Bounded
  <2>6. \A g : Backed(g)' <=> Backed(g) BY DEF Backed
  <2>7. AllAllowed(vouched, ever)' BY <2>2, AllowedByMore DEF WithinEver
  <2>8. \A g : Accounted(g) => Accounted(g)' BY <2>5, <2>6 DEF Accounted
  <2>9. grants' = grants /\ asked' = asked OBVIOUS
  <2> QED BY <2>1, <2>3, <2>4, <2>5, <2>6, <2>7, <2>8, <2>9 DEF WithinEver
<1>3. AnswerFollows' BY DEF AnswerFollows, PutAppSchema, NoAnswer
<1>4. GrantsHaveHolders' BY DEF GrantsHaveHolders
<1> QED BY <1>1, <1>2, <1>3, <1>4

(* A policy request writes only what it has checked against the catalog,    *)
(* and an answer under way is not disturbed unless the request is torn.     *)
LEMMA PolicyPreserves ==
    ASSUME GrantsIInv, PolicyNext, UNCHANGED grantVars
    PROVE  WithinEver' /\ AnswerFollows'
<1> USE DEF GrantsIInv, grantVars
<1>1. WithinEver'
  <2> SUFFICES /\ \A k \in RoleKeys : AllAllowed(roles'[k].permissions, ever)
               /\ \A a \in Admins : CheckedPolicy(todo'[a]) => AllAllowed(todo'[a].permissions, ever)
    BY DEF WithinEver, Accounted, Backed, Bounded, PolicyNext, CreatePolicy, UpdatePolicy, DeletePolicy, Accept,
           Check, CheckCatalog, ReadRole, Upsert, Delete, Put
  <2>1. ASSUME NEW a \in Admins, NEW request, Accept(a, request), ~ CheckedPolicy(request)
        PROVE  /\ \A k \in RoleKeys : AllAllowed(roles'[k].permissions, ever)
               /\ \A b \in Admins : CheckedPolicy(todo'[b]) => AllAllowed(todo'[b].permissions, ever)
    BY <2>1 DEF Accept, WithinEver, SchemaIInv, TypeOK
  <2>2. ASSUME NEW a \in Admins, CheckCatalog(a) \/ ReadRole(a)
        PROVE  /\ \A k \in RoleKeys : AllAllowed(roles'[k].permissions, ever)
               /\ \A b \in Admins : CheckedPolicy(todo'[b]) => AllAllowed(todo'[b].permissions, ever)
    <3>1. CASE CheckCatalog(a)
      <4>1. AllAllowed(todo[a].permissions, catalog) => AllAllowed(todo[a].permissions, ever)
        BY AllowedByMore DEF WithinEver
      <4> QED BY <3>1, <4>1 DEF CheckCatalog, Check, WithinEver, SchemaIInv, TypeOK, CheckedPolicy, Policy, Removal
    <3>2. CASE ReadRole(a)
      BY <3>2 DEF ReadRole, Check, WithinEver, SchemaIInv, TypeOK, CheckedPolicy, Policy, Removal
    <3> QED BY <2>2, <3>1, <3>2
  <2>3. ASSUME NEW a \in Admins, Upsert(a) \/ Delete(a)
        PROVE  /\ \A k \in RoleKeys : AllAllowed(roles'[k].permissions, ever)
               /\ \A b \in Admins : CheckedPolicy(todo'[b]) => AllAllowed(todo'[b].permissions, ever)
    <3>1. AllAllowed({}, ever) BY DEF AllAllowed
    <3>2. Upsert(a) => CheckedPolicy(todo[a]) BY DEF Upsert, Put, CheckedPolicy
    <3>3. ASSUME NEW k \in RoleKeys PROVE AllAllowed(roles'[k].permissions, ever)
      <4>1. CASE roles'[k] = roles[k] BY <4>1 DEF WithinEver
      <4>2. CASE roles'[k] # roles[k] /\ Delete(a)
        <5>1. roles'[k].permissions = {} BY <4>2 DEF Delete, Put, SchemaIInv, TypeOK
        <5> QED BY <3>1, <5>1
      <4>3. CASE roles'[k] # roles[k] /\ Upsert(a)
        <5>1. roles'[k].permissions = todo[a].permissions BY <4>3 DEF Upsert, Put, SchemaIInv, TypeOK
        <5> QED BY <3>2, <4>3, <5>1 DEF WithinEver
      <4> QED BY <2>3, <4>1, <4>2, <4>3
    <3>4. ASSUME NEW b \in Admins, CheckedPolicy(todo'[b]) PROVE AllAllowed(todo'[b].permissions, ever)
      <4>1. todo'[b] = todo[b] \/ todo'[b] = Idle BY <2>3 DEF Upsert, Delete, Put, SchemaIInv, TypeOK
      <4>2. ~ CheckedPolicy(Idle) BY DEF CheckedPolicy
      <4> QED BY <3>4, <4>1, <4>2 DEF WithinEver
    <3> QED BY <3>3, <3>4
  <2> QED BY <2>1, <2>2, <2>3
      DEF PolicyNext, CreatePolicy, UpdatePolicy, DeletePolicy, CheckedPolicy
<1>2. AnswerFollows'
  BY DEF AnswerFollows, PolicyNext, CreatePolicy, UpdatePolicy, DeletePolicy, Accept, Check,
         CheckCatalog, ReadRole, Upsert, Delete, Put
<1> QED BY <1>1, <1>2

(* What the answer reads is what was sent, while nothing is torn.           *)
LEMMA ReadPreserves ==
    ASSUME GrantsIInv, ReadScopes \/ ReadActions \/ ReadRoles
    PROVE  GrantsTypeOK' /\ AnswerFollows'
<1> USE DEF GrantsIInv, Read, ReadScopes, ReadActions, ReadRoles, vars
<1>0. answer \in Answer BY DEF GrantsTypeOK, NoAnswer
<1>1. GrantsTypeOK'
  <2>1. DeclaredRoles \in SUBSET (RoleKeys \X SUBSET Seq(Segments))
    BY DEF DeclaredRoles, SchemaIInv, TypeOK
  <2>2. scopes \in SUBSET ScopeTypes /\ catalog \in SUBSET Seq(Segments) BY DEF SchemaIInv, TypeOK
  <2> QED BY <1>0, <2>1, <2>2 DEF GrantsTypeOK, Answer
<1>2. AnswerFollows'
  <2>1. ASSUME torn = {} PROVE DeclaredRoles = {<<k, declared[k]>> : k \in DOMAIN declared}
    <3>1. ASSUME NEW k \in RoleKeys
          PROVE  /\ roles[k].origin = "app" <=> k \in DOMAIN declared
                 /\ k \in DOMAIN declared => roles[k].permissions = declared[k]
      <4>1. k \in DOMAIN declared => roles[k] = Role("app", declared[k])
        BY <2>1 DEF SchemaIInv, DeclaredInForce
      <4>2. roles[k].origin = "app" => k \in DOMAIN declared BY DEF SchemaIInv, AppRolesAreDeclared
      <4> QED BY <4>1, <4>2
    <3>2. DOMAIN declared \subseteq RoleKeys BY DEF SchemaIInv, TypeOK
    <3> QED BY <3>1, <3>2 DEF DeclaredRoles
  <2>2. CASE ReadScopes BY <1>0, <2>2 DEF AnswerFollows, Answer
  <2>3. CASE ReadActions BY <1>0, <2>3 DEF AnswerFollows, Answer
  <2>4. CASE ReadRoles
    <3>1. torn' = torn /\ declared' = declared /\ catalog' = catalog /\ scopes' = scopes BY <2>4
    <3>2. answer'.of = answer.of /\ answer'.scopes = answer.scopes /\ answer'.actions = answer.actions
          /\ answer'.roles = DeclaredRoles /\ answer.pc = "roles" /\ answer'.pc = "sent"
      BY <1>0, <2>4 DEF Answer
    <3> QED BY <2>1, <3>1, <3>2 DEF AnswerFollows
  <2> QED BY <2>2, <2>3, <2>4
<1> QED BY <1>1, <1>2

(* A grant request stores only what its checks let through.                 *)
LEMMA AskerPreserves ==
    ASSUME GrantsIInv, NEW q \in Askers,
           \/ \E g \in GrantRows : AskGrant(q, g)
           \/ \E g \in AllRows : AskDeletion(q, g)
           \/ CheckVocabulary(q) \/ CheckPrincipal(q) \/ InsertGrant(q) \/ DeleteGrant(q)
    PROVE  GrantsTypeOK' /\ WithinEver' /\ GrantsHaveHolders' /\ UNCHANGED vars /\ UNCHANGED answer
<1> USE DEF GrantsIInv, AskGrant, AskDeletion, Proceed, CheckVocabulary, CheckPrincipal, InsertGrant,
            DeleteGrant
<1>0. UNCHANGED vars /\ UNCHANGED <<answer, people, ever, vouched>> OBVIOUS
<1>1. GrantsTypeOK' BY <1>0 DEF GrantsTypeOK, Creation, Deletion, Issue, NotAsked, Inserted, AllRows
<1>2. WithinEver'
  <2>1. ASSUME NEW g, ValidRoleOrInline(g) PROVE Bounded(g)
    <3>1. AllAllowed(g.permissions, catalog) => AllAllowed(g.permissions, ever)
      BY AllowedByMore DEF WithinEver
    <3> QED BY <2>1, <3>1 DEF ValidRoleOrInline, Bounded, IsKnownRole
  <2>2. \A g : (Bounded(g)' <=> Bounded(g)) /\ (Backed(g)' <=> Backed(g)) /\ (Accounted(g)' <=> Accounted(g))
    BY <1>0 DEF Accounted, Backed, Bounded
  <2>3. \A g \in grants' : Accounted(g)
    <3>1. asked \in [Askers -> {NotAsked} \cup Creation \cup Deletion \cup Issue] BY DEF GrantsTypeOK
    <3>2. ASSUME InsertGrant(q) PROVE Accounted(asked[q].row)
      <4>1. asked[q].row \in GrantRows BY <3>1, <3>2 DEF NotAsked, Creation, Deletion, Issue
      <4>2. Bounded(asked[q].row) BY <3>2 DEF WithinEver
      <4> QED BY <4>1, <4>2, GrantConstants DEF Accounted
    <3>3. InsertGrant(q) => grants' \subseteq grants \cup {asked[q].row} BY DEF Inserted
    <3>4. ~ InsertGrant(q) => grants' \subseteq grants OBVIOUS
    <3> QED BY <3>2, <3>3, <3>4 DEF WithinEver
  <2>4. ASSUME NEW p \in Askers
        PROVE  /\ asked'[p].op = "create" => asked'[p].pc = "vocabulary" \/ Bounded(asked'[p].row)
               /\ asked'[p].op = "issue" => asked'[p] = asked[p]
    <3>0. asked \in [Askers -> {NotAsked} \cup Creation \cup Deletion \cup Issue] BY DEF GrantsTypeOK
    <3>1. CASE CheckVocabulary(q)
      BY <2>1, <3>0, <3>1 DEF WithinEver, NotAsked, Creation, Deletion, Issue
    <3>2. CASE CheckPrincipal(q)
      BY <3>0, <3>2 DEF WithinEver, NotAsked, Creation, Deletion, Issue
    <3>3. CASE InsertGrant(q) \/ DeleteGrant(q)
      BY <3>0, <3>3 DEF WithinEver, NotAsked
    <3>4. CASE \/ \E g \in GrantRows : AskGrant(q, g)
               \/ \E g \in AllRows : AskDeletion(q, g)
      BY <3>0, <3>4 DEF WithinEver
    <3> QED BY <3>1, <3>2, <3>3, <3>4
  <2> QED BY <1>0, <2>2, <2>3, <2>4 DEF WithinEver, vars
<1>3. GrantsHaveHolders' BY DEF GrantsHaveHolders, Inserted
<1> QED BY <1>0, <1>1, <1>2, <1>3

(* A service's grant that passes the delegation check is backed by what a   *)
(* grant of createGrant vouches for: that grant is the caller's own, or the *)
(* caller's is backed already.                                              *)
LEMMA DelegationIsBacked ==
    ASSUME GrantsIInv, NEW held \in SUBSET AllRows, NEW asks \in ServiceRows, Delegable(held, asks),
           \A h \in held : Accounted(h),
           NEW now, vouched \subseteq now,
           {p \in GivenBy({h \in held : h.by = "createGrant"}) :
                \E wanted \in asks.permissions : MatchAction(p, wanted)} \subseteq now
    PROVE  \A wanted \in asks.permissions : \E v \in now : MatchAction(v, wanted)
<1> SUFFICES ASSUME NEW wanted \in asks.permissions PROVE \E v \in now : MatchAction(v, wanted) OBVIOUS
<1>1. PICK h \in held : \E p \in Gives(h) : MatchAction(p, wanted) BY DEF Delegable, GivenBy
<1>2. PICK p \in Gives(h) : MatchAction(p, wanted) BY <1>1
<1>3. CASE h.by = "createGrant"
  <2>1. p \in GivenBy({i \in held : i.by = "createGrant"}) BY <1>3 DEF GivenBy
  <2> QED BY <1>2, <2>1
<1>4. CASE h.by # "createGrant"
  <2>1. h \in AllRows /\ h \in Row BY GrantConstants
  <2>2. h.by = "issueKey" /\ h \in ServiceRows BY <1>4, <2>1, GrantConstants DEF Row, AllRows
  <2>3. Gives(h) = h.permissions BY <2>2, GrantConstants DEF Gives, Expand
  <2>4. PICK v \in vouched : MatchAction(v, p) BY <1>2, <2>2, <2>3 DEF Accounted, Backed
  <2>5. p \in Seq(Segments) /\ wanted \in Seq(Segments) BY <2>1, <2>3, GrantConstants DEF Row, AllRows
  <2>6. v \in Seq(Segments \cup {Star}) BY DEF GrantsIInv, GrantsTypeOK
  <2>7. p \in Seq(Segments \cup {Star}) /\ wanted \in Seq(Segments \cup {Star}) BY <2>5
  <2>8. MatchAction(v, wanted) BY <1>2, <2>4, <2>6, <2>7, MatchComposes
  <2> QED BY <2>8
<1> QED BY <1>3, <1>4

(* A request for a service stores what its caller may delegate.             *)
LEMMA IssuerPreserves ==
    ASSUME GrantsIInv, NEW q \in Askers,
           \/ \E p \in People \cup Services, g \in ServiceRows : AskService(q, p, g)
           \/ ResolveIssuer(q) \/ CreateService(q) \/ InsertServiceGrant(q)
    PROVE  GrantsTypeOK' /\ WithinEver' /\ GrantsHaveHolders' /\ UNCHANGED vars /\ UNCHANGED answer
<1> USE DEF GrantsIInv
<1>0. UNCHANGED vars /\ UNCHANGED <<answer, ever>> /\ vouched \subseteq vouched'
  BY DEF AskService, ResolveIssuer, CreateService, InsertServiceGrant
<1>1. asked \in [Askers -> {NotAsked} \cup Creation \cup Deletion \cup Issue] /\ grants \subseteq AllRows
  BY DEF GrantsTypeOK
<1>2. asked[q].op = "issue" => asked[q] \in Issue BY <1>1 DEF NotAsked, Creation, Deletion
<1>3. AllAllowed(vouched', ever) /\ vouched' \subseteq Seq(Segments \cup {Star})
  <2> DEFINE mine == {h \in asked[q].held : h.by = "createGrant"}
  <2>1. CASE vouched' = vouched BY <2>1 DEF WithinEver, GrantsTypeOK
  <2>2. CASE vouched' # vouched
    <3>1. ResolveIssuer(q) BY <2>2 DEF AskService, CreateService, InsertServiceGrant
    <3>2. vouched' \subseteq vouched \cup GivenBy(mine) BY <2>2, <3>1 DEF ResolveIssuer
    <3>3. ASSUME NEW h \in mine
          PROVE  AllAllowed(Gives(h), ever) /\ Gives(h) \subseteq Seq(Segments \cup {Star})
      <4>1. h \in AllRows BY <1>2, <3>1 DEF ResolveIssuer, Issue
      <4>2. Bounded(h) BY <3>1 DEF ResolveIssuer, WithinEver, Accounted
      <4>3. TypeOK BY DEF SchemaIInv
      <4> QED BY <4>1, <4>2, <4>3, BoundedGivesDeclared, GivesPatterns
    <3> QED BY <3>2, <3>3 DEF GivenBy, AllAllowed, WithinEver, GrantsTypeOK
  <2> QED BY <2>1, <2>2
<1> DEFINE BackedNext(g) == \A w \in g.permissions : \E v \in vouched' : MatchAction(v, w)
           SoundNext(c) == /\ c.op = "create" => c.pc = "vocabulary" \/ Bounded(c.row)
                           /\ c.op = "issue" => IF c.pc # "roles" THEN BackedNext(c.row)
                                               ELSE \A g \in c.held : Accounted(g)
<1>4. \A g : (Backed(g) => BackedNext(g)) /\ (Accounted(g) => Accounted(g)')
  BY <1>0 DEF Accounted, Backed, Bounded
<1> HIDE DEF BackedNext
<1>5. \A g \in grants' : Accounted(g)'
  <2>1. ASSUME InsertServiceGrant(q) PROVE Accounted(asked[q].row)
    <3>1. asked[q].row \in ServiceRows BY <1>2, <2>1 DEF InsertServiceGrant, Issue
    <3>2. Backed(asked[q].row) BY <2>1 DEF InsertServiceGrant, WithinEver
    <3> QED BY <3>1, <3>2, GrantConstants DEF Accounted
  <2>2. InsertServiceGrant(q) => grants' \subseteq grants \cup {asked[q].row}
    BY DEF InsertServiceGrant, Inserted
  <2>3. ~ InsertServiceGrant(q) => grants' = grants BY DEF AskService, ResolveIssuer, CreateService
  <2> QED BY <1>4, <2>1, <2>2, <2>3 DEF WithinEver
<1>6. ASSUME NEW p \in Askers
      PROVE  SoundNext(asked'[p])
  <2>1. CASE asked'[p] = asked[p] BY <1>4, <2>1 DEF WithinEver
  <2>2. CASE asked'[p] = NotAsked BY <2>2 DEF NotAsked
  <2>3. CASE \E r \in People \cup Services, g \in ServiceRows : AskService(q, r, g)
    <3>1. CASE p = q
      <4>1. PICK r \in People \cup Services, g \in ServiceRows : AskService(q, r, g) BY <2>3
      <4>2. asked'[p] = [op |-> "issue", pc |-> "roles", row |-> g, held |-> {h \in grants : h.to = r}]
        BY <1>1, <3>1, <4>1 DEF AskService
      <4> QED BY <1>4, <4>2 DEF WithinEver
    <3>2. CASE p # q BY <1>1, <2>1, <2>3, <3>2 DEF AskService
    <3> QED BY <3>1, <3>2
  <2>4. CASE ResolveIssuer(q)
    <3>1. CASE p = q /\ asked'[p] # NotAsked
      <4>1. /\ Delegable(asked[q].held, asked[q].row)
            /\ asked' = [asked EXCEPT ![q].pc = "principal", ![q].held = {}]
            /\ {v \in GivenBy({h \in asked[q].held : h.by = "createGrant"}) :
                    \E wanted \in asked[q].row.permissions : MatchAction(v, wanted)} \subseteq vouched'
        BY <1>1, <2>4, <3>1 DEF ResolveIssuer
      <4>2. asked[q] \in Issue /\ asked[q].pc = "roles" /\ asked[q].op = "issue"
        BY <1>2, <2>4 DEF ResolveIssuer
      <4>3. asked[q].row \in ServiceRows /\ asked[q].held \in SUBSET AllRows BY <4>2 DEF Issue
      <4>4. \A h \in asked[q].held : Accounted(h) BY <4>2 DEF WithinEver
      <4>5. \A wanted \in asked[q].row.permissions : \E v \in vouched' : MatchAction(v, wanted)
        BY <1>0, <4>1, <4>3, <4>4, DelegationIsBacked
      <4>6. asked'[p].op = "issue" /\ asked'[p].pc = "principal" /\ asked'[p].row = asked[q].row
        BY <1>1, <3>1, <4>1, <4>2 DEF Issue
      <4> QED BY <4>5, <4>6 DEF BackedNext
    <3>2. CASE p # q BY <1>1, <2>1, <2>4, <3>2 DEF ResolveIssuer
    <3> QED BY <2>2, <3>1, <3>2
  <2>5. CASE CreateService(q)
    <3>1. CASE p = q
      <4>1. asked[q] \in Issue /\ asked[q].pc = "principal" /\ asked[q].op = "issue"
        BY <1>2, <2>5 DEF CreateService
      <4>2. asked'[p].op = "issue" /\ asked'[p].pc = "insert" /\ asked'[p].row = asked[q].row
        BY <1>1, <2>5, <3>1, <4>1 DEF CreateService, Issue
      <4>3. Backed(asked[q].row) BY <4>1 DEF WithinEver
      <4> QED BY <1>4, <4>2, <4>3
    <3>2. CASE p # q BY <1>1, <2>1, <2>5, <3>2 DEF CreateService
    <3> QED BY <3>1, <3>2
  <2>6. CASE InsertServiceGrant(q) BY <1>1, <2>1, <2>2, <2>6 DEF InsertServiceGrant
  <2> QED BY <2>3, <2>4, <2>5, <2>6
<1>7. WithinEver'
  <2>1. ASSUME NEW p \in Askers
        PROVE  (/\ asked[p].op = "create" => asked[p].pc = "vocabulary" \/ Bounded(asked[p].row)
                /\ asked[p].op = "issue" => IF asked[p].pc # "roles" THEN Backed(asked[p].row)
                                           ELSE \A g \in asked[p].held : Accounted(g))'
    BY <1>0, <1>6 DEF BackedNext, Backed, Accounted, Bounded
  <2> QED BY <1>0, <1>3, <1>5, <2>1 DEF WithinEver, vars, CheckedPolicy
<1>8. GrantsTypeOK'
  <2>1. people' \subseteq People \cup Services /\ grants' \subseteq AllRows
    BY <1>1, <1>2, GrantConstants
       DEF AskService, ResolveIssuer, CreateService, InsertServiceGrant, Inserted, Issue, AllRows, Row, GrantsTypeOK
  <2>2. asked' \in [Askers -> {NotAsked} \cup Creation \cup Deletion \cup Issue]
    <3>1. CASE \E r \in People \cup Services, g \in ServiceRows : AskService(q, r, g)
      BY <1>1, <3>1 DEF AskService, Issue
    <3>2. CASE ResolveIssuer(q) BY <1>1, <1>2, <3>2 DEF ResolveIssuer, Issue
    <3>3. CASE CreateService(q) BY <1>1, <1>2, <3>3 DEF CreateService, Issue
    <3>4. CASE InsertServiceGrant(q) BY <1>1, <3>4 DEF InsertServiceGrant
    <3> QED BY <3>1, <3>2, <3>3, <3>4
  <2> QED BY <1>0, <1>3, <2>1, <2>2 DEF GrantsTypeOK
<1>9. GrantsHaveHolders'
  BY DEF GrantsHaveHolders, AskService, ResolveIssuer, CreateService, InsertServiceGrant, Inserted
<1> QED BY <1>0, <1>7, <1>8, <1>9

(* Every step preserves GrantsIInv.                                         *)
LEMMA GrantsStep == ASSUME GrantsIInv, [GrantsNext]_<<vars, grantVars>> PROVE GrantsIInv'
<1>0. SchemaIInv' BY SchemaStep, GrantsStepIsSchemaStep DEF GrantsIInv
<1>1. CASE \E s \in Schemas : Deploy(s) BY <1>0, <1>1, DeployPreserves DEF GrantsIInv
<1>2. CASE PolicyNext /\ UNCHANGED grantVars
  BY <1>0, <1>2, PolicyPreserves DEF GrantsIInv, GrantsTypeOK, GrantsHaveHolders, grantVars
<1>3. CASE ReadScopes \/ ReadActions \/ ReadRoles
  BY <1>0, <1>3, ReadPreserves
     DEF GrantsIInv, WithinEver, GrantsHaveHolders, Accounted, Backed, Bounded, Read, ReadScopes,
         ReadActions, ReadRoles, vars
<1>4. CASE \E q \in Askers :
              \/ \E g \in GrantRows : AskGrant(q, g)
              \/ \E g \in AllRows : AskDeletion(q, g)
              \/ CheckVocabulary(q) \/ CheckPrincipal(q) \/ InsertGrant(q) \/ DeleteGrant(q)
  BY <1>0, <1>4, AskerPreserves DEF GrantsIInv, AnswerFollows, vars
<1>5. CASE \E q \in Askers :
              \/ \E p \in People \cup Services, g \in ServiceRows : AskService(q, p, g)
              \/ ResolveIssuer(q) \/ CreateService(q) \/ InsertServiceGrant(q)
  BY <1>0, <1>5, IssuerPreserves DEF GrantsIInv, AnswerFollows, vars
<1>6. CASE \E p \in People : Invite(p) \/ CancelInvite(p)
  BY <1>0, <1>6
     DEF GrantsIInv, GrantsTypeOK, WithinEver, AnswerFollows, GrantsHaveHolders, Accounted, Backed, Bounded,
         Invite, CancelInvite, vars
<1>7. CASE UNCHANGED <<vars, grantVars>>
  BY <1>0, <1>7
     DEF GrantsIInv, GrantsTypeOK, WithinEver, AnswerFollows, GrantsHaveHolders, Accounted, Backed, Bounded,
         vars, grantVars
<1> QED BY <1>1, <1>2, <1>3, <1>4, <1>5, <1>6, <1>7 DEF GrantsNext

(* GrantsIInv holds in every reachable state.                               *)
THEOREM GrantsInvariant == GrantsSpec => []GrantsIInv
<1>1. GrantsInit => GrantsIInv BY GrantsInitEstablishes
<1>2. GrantsIInv /\ [GrantsNext]_<<vars, grantVars>> => GrantsIInv' BY GrantsStep
<1> QED BY <1>1, <1>2, PTL DEF GrantsSpec

(* A grant the admin pages flag as dangling gives its holder nothing.       *)
THEOREM DanglingGrantsGiveNothing == GrantsSpec => []DanglingGrantsAreInert
<1>1. ASSUME GrantsIInv PROVE DanglingGrantsAreInert
  <2> SUFFICES ASSUME NEW g \in grants, Dangling(g) PROVE Gives(g) = {} BY DEF DanglingGrantsAreInert
  <2>1. g \in Row BY <1>1, GrantConstants DEF GrantsIInv, GrantsTypeOK
  <2>2. g.role \in RoleKeys /\ g.role # "admin" /\ g.role # "inline" /\ g.app = "this" /\ roles[g.role] = NoRole
    <3>1. g.by = "createGrant" BY <1>1, <2>1, GrantConstants DEF Dangling, GrantsIInv, GrantsTypeOK, AllRows
    <3>2. Bounded(g) BY <1>1, <3>1 DEF GrantsIInv, WithinEver, Accounted
    <3> QED BY <2>1, <3>2, GrantConstants DEF Dangling, IsKnownRole, Bounded, Row
  <2>3. roles[g.role].permissions = {} BY <2>2
  <2> QED BY <2>2, <2>3 DEF Gives, Expand, RolePermissions
<1> QED BY <1>1, GrantsInvariant, PTL

(* A grant of createGrant gives, besides '*', no pattern that no schema of  *)
(* the app had an action for; a grant that issueKey makes for a service     *)
(* gives only what a pattern of such a grant matches, however many services *)
(* issued one another.                                                      *)
THEOREM NothingIsInvented == GrantsSpec => []NothingInvented
<1>1. ASSUME GrantsIInv PROVE NothingInvented
  <2>1. AllAllowed(vouched, ever) BY <1>1 DEF GrantsIInv, WithinEver
  <2>2. ASSUME NEW g \in grants, NEW p \in Gives(g)
        PROVE  \/ IsActionAllowed(p, ever)
               \/ g.by = "issueKey" /\ \E v \in vouched : MatchAction(v, p)
    <3>1. g \in AllRows /\ Accounted(g) BY <1>1 DEF GrantsIInv, GrantsTypeOK, WithinEver
    <3>2. CASE g.by # "issueKey"
      <4>1. AllAllowed(Gives(g), ever) BY <1>1, <3>1, <3>2, BoundedGivesDeclared DEF Accounted, GrantsIInv
      <4> QED BY <4>1 DEF AllAllowed
    <3>3. CASE g.by = "issueKey"
      <4>1. g \in ServiceRows BY <3>1, <3>3, GrantConstants DEF AllRows
      <4>2. Gives(g) = g.permissions BY <4>1, GrantConstants DEF Gives, Expand
      <4> QED BY <3>1, <3>3, <4>2 DEF Accounted, Backed
    <3> QED BY <3>2, <3>3
  <2> QED BY <2>1, <2>2 DEF NothingInvented
<1> QED BY <1>1, GrantsInvariant, PTL

(* A redeploy or a policy edit never changes what a cross-app grant means.  *)
THEOREM CrossAppGrantsStayFixed == GrantsSpec => CrossAppGrantsAreFixed
<1> DEFINE Fixed == \A g \in grants : g.app = "all" => Gives(g)' = Gives(g)
<1>1. ASSUME GrantsIInv PROVE Fixed
  <2> SUFFICES ASSUME NEW g \in grants, g.app = "all" PROVE Gives(g)' = Gives(g) OBVIOUS
  <2>1. g.role = "admin" \/ g.role = "inline"
    <3>1. g \in AllRows /\ Accounted(g) BY <1>1 DEF GrantsIInv, GrantsTypeOK, WithinEver
    <3>2. g.by = "createGrant" BY <3>1, GrantConstants DEF AllRows
    <3> QED BY <3>1, <3>2, GrantConstants DEF Accounted, Bounded
  <2> QED BY <2>1 DEF Gives, Expand, RolePermissions
<1>2. GrantsIInv => [Fixed]_<<vars, grantVars>> BY <1>1
<1> QED BY <1>2, GrantsInvariant, PTL DEF CrossAppGrantsAreFixed

(* A PUT is answered with the schema it sent unless it was disturbed.       *)
THEOREM PutsAreEchoed == GrantsSpec => []PutEchoes
<1>1. ASSUME GrantsIInv PROVE PutEchoes BY <1>1 DEF GrantsIInv, AnswerFollows, PutEchoes
<1> QED BY <1>1, GrantsInvariant, PTL
=============================================================================
