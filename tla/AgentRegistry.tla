----------------------------- MODULE AgentRegistry -----------------------------
(***************************************************************************)
(* What opencode.py promises of ~/.jetbrains/acp.json, which several       *)
(* installations of this program, the JetBrains IDE and its user share:    *)
(* an installation sets or removes one entry and leaves every other as it  *)
(* is, and no installation undoes the update of another.  The IDE does not *)
(* take the lock, so an update may start from the registry as it was       *)
(* before edits of that moment; it never touches a file it cannot read.    *)
(***************************************************************************)
EXTENDS Naturals

CONSTANTS Agents,      \* names of ACP servers
          Entries,     \* what a name may stand for
          None,        \* no entry
          Unreadable   \* the file holds no registry

VARIABLES registry,    \* what the file says
          base,        \* what an update may start from
          edits        \* number of changes made by hand or by the IDE

vars == <<registry, base, edits>>

Empty == [servers |-> [a \in Agents |-> None], mcp |-> None]
Readable == [servers : [Agents -> Entries \union {None}], mcp : Entries \union {None}]

Init == registry = Empty /\ base = {Empty} /\ edits = 0

\* ensure_acp_registration: one entry, and the MCP defaults that all share
Register(a, e) ==
    /\ \E from \in base \ {Unreadable} :
        registry' = [servers |-> [from.servers EXCEPT ![a] = e], mcp |-> e]
    /\ base' = {registry'}
    /\ UNCHANGED edits

\* remove_acp_registration
Remove(a) ==
    /\ \E from \in base \ {Unreadable} :
        registry' = [from EXCEPT !.servers[a] = None]
    /\ base' = {registry'}
    /\ UNCHANGED edits

Edit ==
    /\ registry' \in Readable \union {Unreadable}
    /\ base' \subseteq base \union {registry'} /\ registry' \in base'
    /\ edits' = edits + 1

\* an update is over, or given up
Settle == base' = {registry} /\ UNCHANGED <<registry, edits>>

Next == \/ \E a \in Agents : Remove(a) \/ \E e \in Entries : Register(a, e)
        \/ Edit
        \/ Settle

Spec == Init /\ [][Next]_vars
=============================================================================
