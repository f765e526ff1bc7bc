---- MODULE MCIntegration ----
(* A small instance of Integration. *)
EXTENDS Integration, TLC

CONSTANTS i1, i2, a1, a2, v1, v2, good, spoiled, alien

\* v1 is listed, v2 is not; a spoiled download would still run.
MCPinned == [v \in Versions |-> IF v = v1 THEN good ELSE None]
MCReports == [b \in Builds |-> IF b = alien THEN None ELSE v1]
====
