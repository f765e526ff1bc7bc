--------------------------- MODULE MCLifecycleLock ---------------------------
(* Small instances of LifecycleLock. *)
EXTENDS LifecycleLock
=============================================================================
