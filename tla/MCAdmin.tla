------------------------------- MODULE MCAdmin --------------------------------
EXTENDS Admin

MCKind == [c \in Callers |-> c]

From(c, method, sameOrigin) == [caller |-> c, method |-> method, sameOrigin |-> sameOrigin]
MCScopes == {[c \in Callers |-> IF c = "key" THEN "one app" ELSE "global"]}
(* A PUT from elsewhere of every caller, and of a session besides a POST     *)
(* from the same origin and a DELETE from elsewhere, which is refused.      *)
MCArrivals ==
    {From(c, "PUT", FALSE) : c \in Callers}
        \cup {From("session", "POST", TRUE), From("session", "DELETE", FALSE)}

Symmetry == Permutations(Requests)
===============================================================================
