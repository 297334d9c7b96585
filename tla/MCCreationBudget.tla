-------------------------- MODULE MCCreationBudget --------------------------
(* Two pieces of work with two attempts each: four identifiers are enough   *)
(* for every pair of methods to meet on the same job and on two jobs that   *)
(* compete for the last units.                                              *)
EXTENDS CreationBudget, TLC

Symmetry == Permutations(Bases)
=============================================================================
