----------------------------- MODULE MCUnitFiles -----------------------------
(* A small instance of UnitFiles. *)
EXTENDS UnitFiles, TLC

Symmetry == Permutations(Processes) \union Permutations(Settings)
=============================================================================
