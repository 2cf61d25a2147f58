------------------------------- MODULE MCAmm --------------------------------
(* Model-checking instance of Amm. *)
EXTENDS Amm, TLC

Symmetry == Permutations(Users)
=============================================================================
