------------------------------- MODULE MCTokens -------------------------------
(* Tokens for a key and a session that one holder keeps tokens of: two      *)
(* requests, a lifetime of two seconds, a key that may expire in between and *)
(* a clock that runs past two lifetimes.                                    *)
EXTENDS Tokens, TLC

Symmetry == Permutations(Requests)
=============================================================================
