-------------------------------- MODULE Leases --------------------------------
(***************************************************************************)
(* What the caches of the SDK promise: a copy of something that can be      *)
(* withdrawn is honoured for a span of time after it was last in force, and *)
(* not longer. Tokens implements it with access tokens as the copies of a   *)
(* credential's authority, SigningKeys with cached key sets as the copies   *)
(* of what the Worker publishes.                                            *)
(***************************************************************************)
EXTENDS Integers

CONSTANTS
    Things,    \* what is withdrawn and restored
    Keepers,   \* whoever keeps copies
    Span       \* how long a copy may outlive its original

VARIABLES
    clock,
    inForce,   \* things in force
    last,      \* last[x]: the last time x was in force
    until      \* until[k][x]: when the copy of x that k keeps ends, 0 for none

lvars == <<clock, inForce, last, until>>

LInit ==
    /\ clock = 0
    /\ inForce \subseteq Things
    /\ last = [x \in Things |-> 0]
    /\ until = [k \in Keepers |-> [x \in Things |-> 0]]

Seen == last' = [x \in Things |-> IF x \in inForce' THEN clock' ELSE last[x]]

(* With time things go out of force, but none comes into it.                *)
Pass ==
    /\ clock' = clock + 1
    /\ inForce' \subseteq inForce
    /\ UNCHANGED until
    /\ Seen

Alter ==
    /\ inForce' \subseteq Things
    /\ UNCHANGED <<clock, until>>
    /\ Seen

(* Keeper k takes new copies or throws some away. A copy on its way is what *)
(* may have kept a thing in force.                                          *)
Renew(k) ==
    /\ until' \in [Keepers -> [Things -> Nat]]
    /\ \A x \in Things : until'[k][x] <= last[x] + Span
    /\ \A other \in Keepers \ {k} : until'[other] = until[other]
    /\ inForce' \subseteq inForce
    /\ UNCHANGED <<clock, last>>

LNext == Pass \/ Alter \/ \E k \in Keepers : Renew(k)

LSpec == LInit /\ [][LNext]_lvars

(* What follows from it: whoever still honours a copy of x does so within   *)
(* Span of the last time x was in force (session.ts, the refresh of tokens  *)
(* and of the JWKS).                                                        *)
HonouredWithinSpan ==
    \A k \in Keepers, x \in Things : clock < until[k][x] => clock < last[x] + Span
=============================================================================
