---------------------------- MODULE EndpointTrust ----------------------------
(***************************************************************************)
(* What the controller promises about SSH trust, without saying how:       *)
(* runtime.ssh-endpoint.json binds one address to one Pod, the only key it *)
(* has accepted is that of this address, and the binding goes from one Pod *)
(* to another only by being forgotten in between, once the old Pod does    *)
(* not run and its key has been removed.  runtime.up and runtime.down      *)
(* (module PodLifecycle) implement it.  Of the keys that the ssh of the    *)
(* tunnel unit accepts on its own it says nothing.                         *)
(***************************************************************************)
CONSTANTS Pods, Addrs, None

VARIABLES binding,   \* the bound endpoint, or None
          keys,      \* addresses whose host key the controller has accepted
          running    \* Pods the provider runs

vars == <<binding, keys, running>>

Binding == [pod : Pods, addr : Addrs]

Init == binding = None /\ keys = {} /\ running = {}

\* the provider and its console start and stop Pods as they please
Provider == running' \in SUBSET Pods /\ UNCHANGED <<binding, keys>>

\* first use: bind the Pod's address
Enrol ==
    /\ binding = None
    /\ binding' \in Binding
    /\ UNCHANGED <<keys, running>>

\* ssh accepts the key of a new address, only at the bound one
AcceptKey ==
    /\ binding # None
    /\ keys' = keys \union {binding.addr}
    /\ UNCHANGED <<binding, running>>

\* ssh-keygen -R of the bound address
RemoveKey ==
    /\ binding # None
    /\ keys' = keys \ {binding.addr}
    /\ UNCHANGED <<binding, running>>

\* the same Pod has moved, and its old address is no longer trusted
Rotate ==
    /\ binding # None
    /\ binding.addr \notin keys
    /\ binding' \in {[pod |-> binding.pod, addr |-> a] : a \in Addrs}
    /\ UNCHANGED <<keys, running>>

\* only a Pod that does not run loses its binding
Forget ==
    /\ binding # None
    /\ binding.pod \notin running
    /\ binding.addr \notin keys
    /\ binding' = None
    /\ UNCHANGED <<keys, running>>

Next == Provider \/ Enrol \/ AcceptKey \/ RemoveKey \/ Rotate \/ Forget

Spec == Init /\ [][Next]_vars
-----------------------------------------------------------------------------
TypeOK ==
    /\ binding \in Binding \union {None}
    /\ keys \subseteq Addrs
    /\ running \subseteq Pods

\* No key that has been accepted is left for an address other than the bound one.
KeysBelongToBinding ==
    \A a \in keys : binding # None /\ a = binding.addr
=============================================================================
