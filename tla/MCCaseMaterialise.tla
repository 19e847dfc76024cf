------------------------- MODULE MCCaseMaterialise --------------------------
(* Instances of CaseMaterialise for TLC. *)
EXTENDS CaseMaterialise, TLC

Symmetry == Permutations(Users) \cup Permutations(Pollers) \cup Permutations(Ingests)
=============================================================================
