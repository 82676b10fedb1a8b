---------------------------- MODULE MCMaintenance ----------------------------
(* Maintenance for TLC: a few starts of one engine. *)
EXTENDS Maintenance, TLC

Symmetry == Permutations(Runs)
=============================================================================
