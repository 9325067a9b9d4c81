------------------------------- MODULE Accounts -------------------------------
(***************************************************************************)
(* What the login flow promises, without its statements and races: every   *)
(* account is opened vacant or bound at birth, is bound to a person at     *)
(* most once and for good, no person owns two accounts, and a client is    *)
(* seated only on the account its own person owns.                         *)
(***************************************************************************)
CONSTANTS AccountIds, Persons, Clients, NoOne

VARIABLES
    stage,   \* stage[a]: "unborn", "vacant", "owned" or "gone"
    owner,   \* owner[a]: the person of an owned account, else NoOne
    person,  \* person[c]: on whose behalf client c acts, NoOne before it does
    seat     \* seat[c]: the account client c is signed in to, or NoOne

avars == <<stage, owner, person, seat>>

Owns(p, a) == stage[a] = "owned" /\ owner[a] = p

AInit ==
    /\ stage = [a \in AccountIds |-> "unborn"]
    /\ owner = [a \in AccountIds |-> NoOne]
    /\ person = [c \in Clients |-> NoOne]
    /\ seat = [c \in Clients |-> NoOne]

Arrive(c, p) ==
    /\ person[c] = NoOne
    /\ person' = [person EXCEPT ![c] = p]
    /\ UNCHANGED <<stage, owner, seat>>

Open(a) ==
    /\ stage[a] = "unborn"
    /\ stage' = [stage EXCEPT ![a] = "vacant"]
    /\ UNCHANGED <<owner, person, seat>>

Bind(a, p) ==
    /\ stage[a] \in {"unborn", "vacant"}
    /\ \A b \in AccountIds : ~ Owns(p, b)
    /\ stage' = [stage EXCEPT ![a] = "owned"]
    /\ owner' = [owner EXCEPT ![a] = p]
    /\ UNCHANGED <<person, seat>>

Close(a) ==
    /\ stage[a] \in {"vacant", "owned"}
    /\ stage' = [stage EXCEPT ![a] = "gone"]
    /\ owner' = [owner EXCEPT ![a] = NoOne]
    /\ seat' = [c \in Clients |-> IF seat[c] = a THEN NoOne ELSE seat[c]]
    /\ UNCHANGED person

SignIn(c, a) ==
    /\ seat[c] = NoOne
    /\ Owns(person[c], a)
    /\ seat' = [seat EXCEPT ![c] = a]
    /\ UNCHANGED <<stage, owner, person>>

ANext ==
    \/ \E c \in Clients, p \in Persons : Arrive(c, p)
    \/ \E a \in AccountIds : Open(a) \/ Close(a)
    \/ \E a \in AccountIds, p \in Persons : Bind(a, p)
    \/ \E c \in Clients, a \in AccountIds : SignIn(c, a)

ASpec == AInit /\ [][ANext]_avars

(* What follows from it: no person owns two accounts, and whoever is seated *)
(* sits on the person's own account (resolve.ts, routes.ts).                *)
Personal ==
    /\ \A a, b \in AccountIds : \A p \in Persons : Owns(p, a) /\ Owns(p, b) => a = b
    /\ \A c \in Clients : seat[c] # NoOne => Owns(person[c], seat[c])
=============================================================================
