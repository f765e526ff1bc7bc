----------------------------- MODULE MCAtomicFile -----------------------------
(* Small instances of AtomicFile. *)
EXTENDS AtomicFile, TLC

Symmetry == Permutations(Writers) \union Permutations(Inodes) \union Permutations(Contents)
=============================================================================
