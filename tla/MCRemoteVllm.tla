----------------------------- MODULE MCRemoteVllm -----------------------------
(* A small instance of RemoteVllm: two settings that serve the same model  *)
(* name and one that serves another.                                       *)
EXTENDS RemoteVllm, TLC

CONSTANTS c1, c2, c3

MCConfigs == {c1, c2, c3}
MCServedName == c1 :> "coder" @@ c2 :> "coder" @@ c3 :> "other"
Symmetry == Permutations(Pids) \union Permutations(Scripts)
=============================================================================
