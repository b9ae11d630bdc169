---------------------------- MODULE MCAuthority ----------------------------
(***************************************************************************)
(* Authority on a small instance: the principals and classes are model     *)
(* values, interchangeable but for their names.                            *)
(***************************************************************************)
EXTENDS Authority, TLC

Symmetry == Permutations(Scopes) \cup Permutations(Principals)
=============================================================================
