------------------------------- MODULE MCSignIn -------------------------------
(* SignIn for two tabs, a page within the domain, one outside it and one on *)
(* localhost, and two people, one of whose address is not vouched for.      *)
EXTENDS SignIn, TLC

CONSTANTS ann, eve

MCVerified == (ann :> "true") @@ (eve :> "absent")
=============================================================================
