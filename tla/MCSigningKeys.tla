---------------------------- MODULE MCSigningKeys ----------------------------
(* SigningKeys for two Worker isolates of possibly different deployments,   *)
(* one app isolate that two requests share, and tokens that live longer     *)
(* than a key set is kept.                                                  *)
EXTENDS SigningKeys, TLC

Symmetry == Permutations(Workers) \cup Permutations(Requests)
=============================================================================
