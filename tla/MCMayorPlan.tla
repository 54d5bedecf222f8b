----------------------------- MODULE MCMayorPlan -----------------------------
(* Instances of MayorPlan for TLC. *)
EXTENDS MayorPlan, TLC

Ids == Permutations(Bead)
=============================================================================
