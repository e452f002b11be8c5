----------------------------- MODULE MCRecovery -----------------------------
(* An instance of Recovery.                                                *)
EXTENDS Recovery, TLC

Symmetry == Permutations(Name)
=============================================================================
