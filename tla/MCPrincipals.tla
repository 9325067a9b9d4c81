----------------------------- MODULE MCPrincipals -----------------------------
(* Principals over two racing logins of one or two people, one of whose     *)
(* emails is on the allowlist, and one administrator with one invite. No    *)
(* symmetry: a liveness property is checked.                                *)
EXTENDS Principals, TLC
=============================================================================
