-------------------------- MODULE MCCaseTransition --------------------------
(* Instances of CaseTransition for TLC. *)
EXTENDS CaseTransition, TLC

CallerSymmetry == Permutations(Callers)
=============================================================================
