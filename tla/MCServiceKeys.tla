---------------------------- MODULE MCServiceKeys ----------------------------
(* ServiceKeys for one service principal and two overlapping requests.      *)
EXTENDS ServiceKeys, TLC

Symmetry == Permutations(Requests) \cup Permutations(Creds)
=============================================================================
