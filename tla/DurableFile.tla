----------------------------- MODULE DurableFile -----------------------------
(***************************************************************************)
(* What state.atomic_write_private promises of one file, without saying    *)
(* how: readers see whole contents only, a new content replaces the old in *)
(* one step, and a power loss leaves a content that was there since the    *)
(* last one known to be on disk.                                           *)
(***************************************************************************)
CONSTANTS Contents,   \* what callers write
          Missing     \* there is no file

VARIABLES value,      \* what a reader sees
          possible    \* what a power loss may leave

vars == <<value, possible>>

Init == value = Missing /\ possible = {Missing}

\* write, or unlink
Replace ==
    /\ value' \in Contents \union {Missing}
    /\ possible' = possible \union {value'}

Settle == possible' = {value} /\ UNCHANGED value

PowerLoss ==
    /\ value' \in possible
    /\ possible' = {value'}

Next == Replace \/ Settle \/ PowerLoss

Spec == Init /\ [][Next]_vars
=============================================================================
