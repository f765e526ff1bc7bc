----------------------------- MODULE PodLifecycle -----------------------------
(***************************************************************************)
(* runtime.up and runtime.down: how one lifecycle operation at a time      *)
(* selects, creates, replaces, starts and stops a RunPod Pod, and what it  *)
(* writes to the state directory on the way.  Operations do not overlap    *)
(* (module LifecycleLock), so one program counter and one set of locals    *)
(* stand for the process that holds the lock.  Every call to the provider, *)
(* every file written or removed and every ssh, ssh-keygen or systemctl    *)
(* command is a step of its own: the provider, its console and a kill come *)
(* between any two.                                                        *)
(***************************************************************************)
EXTENDS Naturals

CONSTANTS
    Pods,         \* ids the provider can hand out; each is created at most once
    Specs,        \* fingerprints of the settings (_pod_spec_fingerprint)
    Addrs,        \* public host:port pairs
    None,         \* no file, no id, no address
    Restarting,   \* the tunnel unit waits for its next start
    LocalFaults,  \* the process may be killed, a local file operation may fail
    LostReplies,  \* a request may take effect although its reply is lost
    LateCreation, \* a create request may take effect after it reported an error
    Resets        \* the user may delete runtime.pod-id and change RUNPOD_POD_NAME

ASSUME ConstantsAssumption ==
    /\ None \notin Pods /\ None \notin Specs /\ None \notin Addrs
    /\ None \notin [pod : Pods, addr : Addrs]
    /\ Restarting \notin Addrs /\ Restarting # None
    /\ {LocalFaults, LostReplies, LateCreation, Resets} \subseteq BOOLEAN

VARIABLES
    status, spec, addr,  \* the provider's Pods: desiredStatus, request, endpoint
    late,                \* the spec of a create request still under way, or None
    podId,               \* runtime.pod-id
    podSpec,             \* runtime.pod-spec.json
    endpoint,            \* runtime.ssh-endpoint.json
    known,               \* addresses with a key in known_hosts
    strays,              \* history: those whose key no ssh but the tunnel's has accepted
    env,                 \* runtime.env: the tunnel's address
    failure,             \* runtime.activation-error exists
    tunnel,              \* address the tunnel unit connects to, or Restarting, or None
    pc, op,              \* the step and the operation under way
    want,                \* fingerprint of the settings this up has loaded
    sel, snap,           \* the Pod _select_pod returned: id and desiredStatus
    fresh,               \* id returned by create_pod
    host,                \* address in use by this up
    resume,              \* where forgetting an endpoint returns to
    expired,             \* the deadline of the current polling loop has passed
    errors               \* down has collected an error

provider == <<status, spec, addr, late>>
trust == <<known, strays>>
disk == <<podId, podSpec, endpoint, trust, env, failure>>
locals == <<want, sel, snap, fresh, host, resume, expired, errors>>
vars == <<provider, disk, tunnel, pc, op, locals>>

Statuses == {"absent", "RUNNING", "EXITED", "TERMINATED", "deleted"}
Bindings == [pod : Pods, addr : Addrs]

\* steps that depend on the provider, on ssh or on systemd, and may raise
RemoteSteps == {"select", "confirmOther", "find", "reconcile", "create", "createNew",
                "stopOld", "start", "discover", "probe", "ensure", "restartTunnel",
                "stopPod"}
\* steps that write or remove a local file, or run ssh-keygen
LocalSteps == {"unkey", "unlink", "forgetId", "forgetSpec", "adopt", "saveId",
               "saveSpec", "prepare", "rewrite", "openEnv", "writeEnv"}
Steps == RemoteSteps \union LocalSteps
           \union {"idle", "stopTunnel", "judge", "dropOld", "verify",
                   "removeEnv", "removeFailure"}

Exists(p) == status[p] \notin {"absent", "deleted"}
Named == {p \in Pods : Exists(p)}
\* addresses whose key an ssh of up has accepted
Accepted == known \ strays
\* get_pods filtered by the configured name: every Pod carries it, unless the
\* user changes it
Matches == IF Resets THEN SUBSET Named ELSE {Named}
\* the Pod answers ssh at address a
Answers(p, a) == status[p] = "RUNNING" /\ addr[p] = a

ProviderOK ==
    /\ status \in [Pods -> Statuses]
    /\ spec \in [Pods -> Specs \union {None}]
    /\ addr \in [Pods -> Addrs \union {None}]
    /\ late \in Specs \union {None}

DataOK ==
    /\ ProviderOK
    /\ podId \in Pods \union {None}
    /\ podSpec \in Specs \union {None}
    /\ endpoint \in Bindings \union {None}
    /\ strays \subseteq known /\ known \subseteq Addrs
    /\ env \in Addrs \union {None}
    /\ tunnel \in Addrs \union {None, Restarting}
    /\ pc \in Steps
    /\ op \in {"none", "up", "down"}
    /\ want \in Specs \union {None}
    /\ sel \in Pods \union {None}
    /\ snap \in Statuses
    /\ fresh \in Pods \union {None}
    /\ host \in Addrs \union {None}
    /\ resume \in {"none", "forgetId", "discover", "saveId"}

FlagsOK == failure \in BOOLEAN /\ expired \in BOOLEAN /\ errors \in BOOLEAN

TypeOK == DataOK /\ FlagsOK

Init ==
    /\ status = [p \in Pods |-> "absent"]
    /\ spec = [p \in Pods |-> None]
    /\ addr = [p \in Pods |-> None]
    /\ late = None
    /\ podId = None /\ podSpec = None /\ endpoint = None
    /\ known = {} /\ strays = {} /\ env = None /\ failure = FALSE
    /\ tunnel = None
    /\ pc = "idle" /\ op = "none"
    /\ want = None /\ sel = None /\ snap = "absent" /\ fresh = None
    /\ host = None /\ resume = "none" /\ expired = FALSE /\ errors = FALSE
-----------------------------------------------------------------------------
(* Control: entering, leaving and failing an operation.                    *)

Goto(step) == pc' = step /\ UNCHANGED <<op, locals>>

\* the process is over: its locals are gone
Return ==
    /\ pc' = "idle" /\ op' = "none"
    /\ want' = None /\ sel' = None /\ snap' = "absent" /\ fresh' = None
    /\ host' = None /\ resume' = "none" /\ expired' = FALSE /\ errors' = FALSE

\* the activation failure file is written and removed on a best-effort basis
Written(value) == IF LocalFaults THEN {value, failure} ELSE {value}

\* An exception: up records it with on_error and ends; down collects it and
\* goes on with the files.
Throw ==
    /\ UNCHANGED <<trust, env, tunnel>>
    /\ \/ op = "up" /\ failure' \in Written(TRUE) /\ Return
       \/ /\ op = "down"
          /\ pc' = "removeEnv" /\ errors' = TRUE
          /\ UNCHANGED <<failure, op, want, sel, snap, fresh, host, resume, expired>>

Raise == Throw /\ UNCHANGED <<podId, podSpec, endpoint>>

\* The settings are read before the lock is taken, so each up may have its own.
BeginUp ==
    /\ pc = "idle"
    /\ \E s \in Specs : want' = s
    /\ pc' = "select" /\ op' = "up"
    /\ UNCHANGED <<provider, disk, tunnel, sel, snap, fresh, host, resume, expired, errors>>

BeginDown ==
    /\ pc = "idle"
    /\ pc' = "stopTunnel" /\ op' = "down"
    /\ UNCHANGED <<provider, disk, tunnel, locals>>

\* an API error without effect, a failed ssh or systemctl, a failed local write
StepFails ==
    /\ pc \in RemoteSteps \/ (LocalFaults /\ pc \in LocalSteps)
    /\ Raise
    /\ UNCHANGED provider

\* atomic_write_private raises in its last step, the fsync of the directory:
\* the file has been replaced all the same
WriteFailsLate ==
    /\ LocalFaults
    /\ \/ pc = "adopt" /\ podId' = sel /\ UNCHANGED <<podSpec, endpoint>>
       \/ pc = "saveId" /\ podId' = fresh /\ UNCHANGED <<podSpec, endpoint>>
       \/ pc = "saveSpec" /\ podSpec' = want /\ UNCHANGED <<podId, endpoint>>
       \/ /\ pc = "rewrite" \/ (pc = "prepare" /\ endpoint = None)
          /\ endpoint' = [pod |-> sel, addr |-> host]
          /\ UNCHANGED <<podId, podSpec>>
    /\ Throw
    /\ UNCHANGED provider

\* SIGTERM, SIGKILL or a reboot: systemctl stop of the proxy kills an up that
\* is still under way, as does TimeoutStartSec.
Kill ==
    /\ LocalFaults
    /\ pc # "idle"
    /\ Return
    /\ UNCHANGED <<provider, disk, tunnel>>

\* a loop's deadline passes
Tick ==
    /\ pc \in {"discover", "prepare", "rewrite", "probe", "verify"}
    /\ ~expired
    /\ expired' = TRUE
    /\ UNCHANGED <<provider, disk, tunnel, pc, op, want, sel, snap, fresh, host, resume, errors>>
-----------------------------------------------------------------------------
(* _select_pod, shared by up and down.                                     *)

\* the caller receives Pod p with desiredStatus st; p = None: there is none
SelectionReturns(p, st) ==
    /\ sel' = p /\ snap' = st
    /\ pc' = IF op = "up"
             THEN IF p = None THEN "create" ELSE "judge"
             ELSE IF p # None /\ st = "RUNNING" THEN "stopPod" ELSE "removeEnv"
    /\ UNCHANGED <<op, want, fresh, host, resume, expired, errors>>

\* get_pod finds the persisted Pod
SelectLive ==
    /\ pc = "select" /\ podId # None
    /\ Exists(podId)
    /\ SelectionReturns(podId, status[podId])
    /\ UNCHANGED <<provider, disk, tunnel>>

\* get_pod answers 404: the Pod is gone, and first of all its endpoint goes
SelectGone ==
    /\ pc = "select" /\ podId # None
    /\ ~Exists(podId)
    /\ pc' = IF endpoint # None /\ endpoint.pod = podId THEN "unkey" ELSE "confirmOther"
    /\ resume' = "forgetId"
    /\ UNCHANGED <<provider, disk, tunnel, op, want, sel, snap, fresh, host, expired, errors>>

\* mutated ForgetId: the specification of the deleted Pod is kept
ForgetIdOnly ==
    /\ pc = "forgetId"
    /\ podId' = None
    /\ Goto("find")
    /\ UNCHANGED <<provider, podSpec, endpoint, trust, env, failure, tunnel>>

ForgetId ==
    /\ pc = "forgetId"
    /\ podId' = None
    /\ Goto("forgetSpec")
    /\ UNCHANGED <<provider, podSpec, endpoint, trust, env, failure, tunnel>>

ForgetSpec ==
    /\ pc = "forgetSpec"
    /\ podSpec' = None
    /\ Goto("find")
    /\ UNCHANGED <<provider, podId, endpoint, trust, env, failure, tunnel>>

Finding == pc = "find" \/ (pc = "select" /\ podId = None)

FindNone ==
    /\ Finding
    /\ {} \in Matches
    /\ SelectionReturns(None, "absent")
    /\ UNCHANGED <<provider, disk, tunnel>>

FindOne ==
    /\ Finding
    /\ \E p \in Named :
        /\ {p} \in Matches
        /\ sel' = p /\ snap' = status[p]
    /\ pc' = "adopt"
    /\ UNCHANGED <<provider, disk, tunnel, op, want, fresh, host, resume, expired, errors>>

\* find_pod_by_name: 'More than one RunPod named ... exists'
FindMany ==
    /\ Finding
    /\ \E p, q \in Named : p # q
    /\ Raise
    /\ UNCHANGED provider

Adopt ==
    /\ pc = "adopt"
    /\ podId' = sel
    /\ SelectionReturns(sel, snap)
    /\ UNCHANGED <<provider, podSpec, endpoint, trust, env, failure, tunnel>>
-----------------------------------------------------------------------------
(* Forgetting an endpoint, called from three places; resume says which.    *)

\* the pod_id passed to _forget_endpoint_after_confirmed_replacement
Kept == IF resume = "forgetId" THEN podId ELSE sel

\* nothing saved for another Pod
ConfirmNothing ==
    /\ pc = "confirmOther"
    /\ endpoint # None => endpoint.pod = Kept
    /\ Goto(resume)
    /\ UNCHANGED <<provider, disk, tunnel>>

\* get_pod of the endpoint's Pod: it lives, its endpoint stays
ConfirmLive ==
    /\ pc = "confirmOther"
    /\ endpoint # None /\ endpoint.pod # Kept
    /\ Exists(endpoint.pod)
    /\ Goto(resume)
    /\ UNCHANGED <<provider, disk, tunnel>>

ConfirmGone ==
    /\ pc = "confirmOther"
    /\ endpoint # None /\ endpoint.pod # Kept
    /\ ~Exists(endpoint.pod)
    /\ Goto("unkey")
    /\ UNCHANGED <<provider, disk, tunnel>>

\* mutated DropOld: the record goes whoever it belongs to
DropAny ==
    /\ pc = "dropOld"
    /\ pc' = IF endpoint = None THEN "saveId" ELSE "unkey"
    /\ resume' = "saveId"
    /\ UNCHANGED <<provider, disk, tunnel, op, want, sel, snap, fresh, host, expired, errors>>

\* forget_endpoint_for_replacement: only the old Pod's endpoint may go
DropOld ==
    /\ pc = "dropOld"
    /\ endpoint # None => endpoint.pod = sel
    /\ pc' = IF endpoint = None THEN "saveId" ELSE "unkey"
    /\ resume' = "saveId"
    /\ UNCHANGED <<provider, disk, tunnel, op, want, sel, snap, fresh, host, expired, errors>>

DropRefused ==
    /\ pc = "dropOld"
    /\ endpoint # None /\ endpoint.pod # sel
    /\ Raise
    /\ UNCHANGED provider

\* ssh-keygen -R of an address
RemoveKey(a) == known' = known \ {a} /\ strays' = strays \ {a}

\* mutated Unkey: the return code of ssh-keygen is not looked at
UnkeyUnchecked ==
    /\ pc = "unkey"
    /\ RemoveKey(endpoint.addr) \/ UNCHANGED trust
    /\ Goto("unlink")
    /\ UNCHANGED <<provider, podId, podSpec, endpoint, env, failure, tunnel>>

Unkey ==
    /\ pc = "unkey"
    /\ RemoveKey(endpoint.addr)
    /\ Goto("unlink")
    /\ UNCHANGED <<provider, podId, podSpec, endpoint, env, failure, tunnel>>

Unlink ==
    /\ pc = "unlink"
    /\ endpoint' = None
    /\ Goto(resume)
    /\ UNCHANGED <<provider, podId, podSpec, trust, env, failure, tunnel>>
-----------------------------------------------------------------------------
(* up: creating and replacing.                                             *)

\* the provider creates Pod p as asked, without an endpoint yet
Created(p, s) ==
    /\ status[p] = "absent"
    /\ status' = [status EXCEPT ![p] = "RUNNING"]
    /\ spec' = [spec EXCEPT ![p] = s]
    /\ UNCHANGED addr

\* mutated Create: the new id is saved before the old endpoint is forgotten
CreateAndSave ==
    /\ pc \in {"create", "createNew"}
    /\ \E p \in Pods : Created(p, want) /\ fresh' = p
    /\ pc' = "saveId"
    /\ UNCHANGED <<late, disk, tunnel, op, want, sel, snap, host, resume, expired, errors>>

\* POST /pods answers with the new id
Create ==
    /\ pc \in {"create", "createNew"}
    /\ \E p \in Pods : Created(p, want) /\ fresh' = p
    /\ pc' = IF pc = "create" THEN "saveId" ELSE "dropOld"
    /\ UNCHANGED <<late, disk, tunnel, op, want, sel, snap, host, resume, expired, errors>>

\* an HTTP error (RunPodAPIError) on the first creation: look for the Pod by
\* name.  The request had no effect, took effect, or will later.
CreateErrs ==
    /\ pc = "create"
    /\ \/ UNCHANGED provider
       \/ LostReplies /\ (\E p \in Pods : Created(p, want)) /\ UNCHANGED late
       \/ LateCreation /\ late = None /\ late' = want /\ UNCHANGED <<status, spec, addr>>
    /\ Goto("reconcile")
    /\ UNCHANGED <<disk, tunnel>>

\* a transport or protocol error, or any error in _replace_pod: up ends
\* although the Pod exists, or will
CreateLost ==
    /\ pc \in {"create", "createNew"}
    /\ \/ LostReplies /\ (\E p \in Pods : Created(p, want)) /\ UNCHANGED late
       \/ LateCreation /\ late = None /\ late' = want /\ UNCHANGED <<status, spec, addr>>
    /\ Raise

\* the one Pod of that name is taken for the one just requested
Reconcile ==
    /\ pc = "reconcile"
    /\ \E p \in Named : {p} \in Matches /\ fresh' = p
    /\ pc' = "saveId"
    /\ UNCHANGED <<provider, disk, tunnel, op, want, sel, snap, host, resume, expired, errors>>

ReconcileFails ==
    /\ pc = "reconcile"
    /\ \E found \in Matches : \A p \in Named : found # {p}
    /\ Raise
    /\ UNCHANGED provider

SaveId ==
    /\ pc = "saveId"
    /\ podId' = fresh
    /\ Goto("saveSpec")
    /\ UNCHANGED <<provider, podSpec, endpoint, trust, env, failure, tunnel>>

SaveSpec ==
    /\ pc = "saveSpec"
    /\ podSpec' = want
    /\ pc' = "confirmOther" /\ resume' = "discover"
    /\ sel' = fresh /\ fresh' = None
    /\ UNCHANGED <<provider, podId, endpoint, trust, env, failure, tunnel,
                   op, want, snap, host, expired, errors>>

\* the saved fingerprint is that of the settings
JudgeMatch ==
    /\ pc = "judge"
    /\ podSpec = want
    /\ snap # "TERMINATED"
    /\ pc' = IF snap = "EXITED" THEN "start" ELSE "confirmOther"
    /\ resume' = "discover"
    /\ UNCHANGED <<provider, disk, tunnel, op, want, sel, snap, fresh, host, expired, errors>>

\* mutated JudgeMismatch: the incompatible Pod is not stopped
JudgeMismatchKeepsOld ==
    /\ pc = "judge"
    /\ podSpec \notin {None, want}
    /\ Goto("createNew")
    /\ UNCHANGED <<provider, disk, tunnel>>

\* the saved fingerprint is another: _replace_pod
JudgeMismatch ==
    /\ pc = "judge"
    /\ podSpec \notin {None, want}
    /\ Goto(IF snap = "RUNNING" THEN "stopOld" ELSE "createNew")
    /\ UNCHANGED <<provider, disk, tunnel>>

\* no saved fingerprint, or a TERMINATED Pod
JudgeRefuses ==
    /\ pc = "judge"
    /\ podSpec = None \/ (podSpec = want /\ snap = "TERMINATED")
    /\ Raise
    /\ UNCHANGED provider
-----------------------------------------------------------------------------
(* Starting and stopping.                                                  *)

Stopped(p) ==
    /\ Exists(p)
    /\ status' = [status EXCEPT ![p] = IF @ = "RUNNING" THEN "EXITED" ELSE @]
    /\ addr' = [addr EXCEPT ![p] = None]
    /\ UNCHANGED <<spec, late>>

\* a restarted Pod gets its endpoint later
Started(p) ==
    /\ status[p] \in {"EXITED", "RUNNING"}
    /\ status' = [status EXCEPT ![p] = "RUNNING"]
    /\ UNCHANGED <<spec, addr, late>>

StopOld ==
    /\ pc = "stopOld"
    /\ Stopped(sel)
    /\ Goto("createNew")
    /\ UNCHANGED <<disk, tunnel>>

StopPod ==
    /\ pc = "stopPod"
    /\ Stopped(sel)
    /\ Goto("removeEnv")
    /\ UNCHANGED <<disk, tunnel>>

StartPod ==
    /\ pc = "start"
    /\ Started(sel)
    /\ Goto("confirmOther")
    /\ UNCHANGED <<disk, tunnel>>

\* the request takes effect, its reply is lost
StopOrStartLost ==
    /\ LostReplies
    /\ \/ pc \in {"stopOld", "stopPod"} /\ Stopped(sel)
       \/ pc = "start" /\ Started(sel)
    /\ Raise
-----------------------------------------------------------------------------
(* up: the SSH endpoint, vLLM and the tunnel.                              *)

\* mutated Discover: no check that an address was found before the deadline
DiscoverUnchecked ==
    /\ pc = "discover"
    /\ \/ ~expired /\ \E a \in Addrs : Answers(sel, a) /\ host' = a
       \/ expired /\ UNCHANGED host
    /\ pc' = "prepare"
    /\ UNCHANGED <<provider, disk, tunnel, op, want, sel, snap, fresh, resume, expired, errors>>

\* get_pod_endpoint reports an address; while it reports none, up sleeps
Discover ==
    /\ pc = "discover"
    /\ ~expired
    /\ \E a \in Addrs : Answers(sel, a) /\ host' = a
    /\ pc' = "prepare"
    /\ UNCHANGED <<provider, disk, tunnel, op, want, sel, snap, fresh, resume, expired, errors>>

\* prepare_endpoint on first use, or at the address already bound
Enrol ==
    /\ pc = "prepare"
    /\ \/ endpoint = None /\ endpoint' = [pod |-> sel, addr |-> host]
       \/ endpoint = [pod |-> sel, addr |-> host] /\ UNCHANGED endpoint
    /\ Goto("probe")
    /\ UNCHANGED <<provider, podId, podSpec, trust, env, failure, tunnel>>

\* mutated Rotate: the key of the old address is kept
RotateKeepingKey ==
    /\ pc = "prepare"
    /\ endpoint # None /\ endpoint.pod = sel /\ endpoint.addr # host
    /\ Goto("rewrite")
    /\ UNCHANGED <<provider, disk, tunnel>>

\* the same Pod at a new address: ssh-keygen -R of the old one, then the file
Rotate ==
    /\ pc = "prepare"
    /\ endpoint # None /\ endpoint.pod = sel /\ endpoint.addr # host
    /\ RemoveKey(endpoint.addr)
    /\ Goto("rewrite")
    /\ UNCHANGED <<provider, podId, podSpec, endpoint, env, failure, tunnel>>

Rewrite ==
    /\ pc = "rewrite"
    /\ endpoint' = [pod |-> sel, addr |-> host]
    /\ Goto("probe")
    /\ UNCHANGED <<provider, podId, podSpec, trust, env, failure, tunnel>>

\* mutated PrepareRefuses: only the address is compared
PrepareRefusesAddress ==
    /\ pc = "prepare"
    /\ endpoint # None /\ endpoint.pod # sel
    /\ Goto("probe")
    /\ UNCHANGED <<provider, disk, tunnel>>

\* the record is another Pod's
PrepareRefuses ==
    /\ pc = "prepare"
    /\ endpoint # None /\ endpoint.pod # sel
    /\ Raise
    /\ UNCHANGED provider

\* ssh ... true succeeds; accept-new has kept the key
ProbeOk ==
    /\ pc = "probe"
    /\ ~expired
    /\ Answers(sel, host)
    /\ known' = known \union {host} /\ strays' = strays \ {host}
    /\ Goto("ensure")
    /\ UNCHANGED <<provider, podId, podSpec, endpoint, env, failure, tunnel>>

\* mutated ProbeMoved: the loop follows the Pod without prepare_endpoint
ProbeMovedUnprepared ==
    /\ pc = "probe"
    /\ ~expired
    /\ \E a \in Addrs \ {host} : Answers(sel, a) /\ host' = a
    /\ UNCHANGED <<provider, disk, tunnel, pc, op, want, sel, snap, fresh, resume, expired, errors>>

\* mutated ProbeMoved: a new address is followed without looking at the deadline
ProbeMovedLate ==
    /\ pc = "probe"
    /\ \E a \in Addrs \ {host} : Answers(sel, a) /\ host' = a
    /\ pc' = "prepare"
    /\ UNCHANGED <<provider, disk, tunnel, op, want, sel, snap, fresh, resume, expired, errors>>

\* the probe fails and the provider reports a new address
ProbeMoved ==
    /\ pc = "probe"
    /\ ~expired
    /\ \E a \in Addrs \ {host} : Answers(sel, a) /\ host' = a
    /\ pc' = "prepare"
    /\ UNCHANGED <<provider, disk, tunnel, op, want, sel, snap, fresh, resume, expired, errors>>

\* a changed host key at the bound address is refused for good
HostKeyMismatch ==
    /\ pc = "probe"
    /\ ~expired
    /\ host \in known
    /\ Raise
    /\ UNCHANGED provider

\* mutated PollFails: only the last loop has a deadline
PollFailsOnStop ==
    /\ pc \in {"discover", "probe", "verify"}
    /\ IF pc = "verify" THEN expired ELSE status[sel] # "RUNNING"
    /\ Raise
    /\ UNCHANGED provider

\* a poll meets a Pod that has stopped or gone, or the deadline has passed
PollFails ==
    /\ pc \in {"discover", "probe", "verify"}
    /\ expired \/ (pc # "verify" /\ status[sel] # "RUNNING")
    /\ Raise
    /\ UNCHANGED provider

\* ensure-vllm.sh succeeds on the Pod
EnsureVllm ==
    /\ pc = "ensure"
    /\ Answers(sel, host)
    /\ Goto("openEnv")
    /\ UNCHANGED <<provider, disk, tunnel>>

\* mutated OpenEnv: a runtime.env that is there already is kept
OpenEnvOnce ==
    /\ pc = "openEnv"
    /\ UNCHANGED env
    /\ Goto(IF env = None THEN "writeEnv" ELSE "restartTunnel")
    /\ UNCHANGED <<provider, podId, podSpec, endpoint, trust, failure, tunnel>>

\* Path.write_text empties runtime.env, then writes it
OpenEnv ==
    /\ pc = "openEnv"
    /\ env' = None
    /\ Goto("writeEnv")
    /\ UNCHANGED <<provider, podId, podSpec, endpoint, trust, failure, tunnel>>

WriteEnv ==
    /\ pc = "writeEnv"
    /\ env' = host
    /\ Goto("restartTunnel")
    /\ UNCHANGED <<provider, podId, podSpec, endpoint, trust, failure, tunnel>>

\* the tunnel unit reads runtime.env; a new deadline of 60 seconds
RestartTunnel ==
    /\ pc = "restartTunnel"
    /\ tunnel' = env
    /\ pc' = "verify" /\ expired' = FALSE
    /\ UNCHANGED <<provider, disk, op, want, sel, snap, fresh, host, resume, errors>>

\* vLLM answers through the tunnel: up returns
Verify ==
    /\ pc = "verify"
    /\ ~expired
    /\ tunnel \in Addrs /\ Answers(sel, tunnel)
    /\ failure' \in Written(FALSE)
    /\ Return
    /\ UNCHANGED <<provider, podId, podSpec, endpoint, trust, env, tunnel>>
-----------------------------------------------------------------------------
(* down: the tunnel first, the files last; errors are collected.           *)

\* mutated StopTunnel: the return code of systemctl stop is not looked at
StopTunnelUnchecked ==
    /\ pc = "stopTunnel"
    /\ tunnel' \in {None, tunnel}
    /\ pc' = "select"
    /\ UNCHANGED <<provider, disk, op, want, sel, snap, fresh, host, resume, expired, errors>>

StopTunnel ==
    /\ pc = "stopTunnel"
    /\ \/ tunnel' = None /\ UNCHANGED errors
       \/ errors' = TRUE /\ UNCHANGED tunnel
    /\ pc' = "select"
    /\ UNCHANGED <<provider, disk, op, want, sel, snap, fresh, host, resume, expired>>

RemoveEnv ==
    /\ pc = "removeEnv"
    /\ \/ env' = None /\ UNCHANGED errors
       \/ LocalFaults /\ errors' = TRUE /\ UNCHANGED env
    /\ pc' = "removeFailure"
    /\ UNCHANGED <<provider, podId, podSpec, endpoint, trust, failure, tunnel,
                   op, want, sel, snap, fresh, host, resume, expired>>

\* the last step: down returns, or raises 'Shutdown incomplete'
RemoveFailure ==
    /\ pc = "removeFailure"
    /\ failure' \in Written(FALSE)
    /\ Return
    /\ UNCHANGED <<provider, podId, podSpec, endpoint, trust, env, tunnel>>
-----------------------------------------------------------------------------
(* The provider, its console and the user.                                 *)

\* the provider maps a Pod's ssh port, at first or anew
Assign ==
    /\ \E p \in Pods, a \in Addrs :
        /\ status[p] = "RUNNING"
        /\ \A q \in Pods : ~Answers(q, a)
        /\ addr' = [addr EXCEPT ![p] = a]
    /\ UNCHANGED <<status, spec, late, disk, tunnel, pc, op, locals>>

\* a Pod is stopped, terminated or deleted from the console
ConsoleEnds ==
    /\ \E p \in Named, st \in {"EXITED", "TERMINATED", "deleted"} :
        /\ st = "EXITED" => status[p] = "RUNNING"
        /\ status' = [status EXCEPT ![p] = st]
        /\ addr' = [addr EXCEPT ![p] = None]
    /\ UNCHANGED <<spec, late, disk, tunnel, pc, op, locals>>

\* a create request that reported an error takes effect after all
LateEffect ==
    /\ late # None
    /\ \E p \in Pods : Created(p, late)
    /\ late' = None
    /\ UNCHANGED <<disk, tunnel, pc, op, locals>>

\* ssh ends; Restart=on-failure
TunnelDies ==
    /\ tunnel \in Addrs
    /\ tunnel' = Restarting
    /\ UNCHANGED <<provider, disk, pc, op, locals>>

\* five seconds later llm-runtime tunnel reads runtime.env; while the file is
\* empty or missing it fails and is restarted again
TunnelReturns ==
    /\ tunnel = Restarting
    /\ env # None
    /\ tunnel' = env
    /\ UNCHANGED <<provider, disk, pc, op, locals>>

\* The tunnel's ssh has the known_hosts and the accept-new of the others: it
\* keeps the key of whatever answers, also at an address that up has left.
TunnelAccepts ==
    /\ tunnel \in Addrs \ known
    /\ \E p \in Pods : Answers(p, tunnel)
    /\ known' = known \union {tunnel} /\ strays' = strays \union {tunnel}
    /\ UNCHANGED <<provider, podId, podSpec, endpoint, env, failure, tunnel, pc, op, locals>>

ResetPodId ==
    /\ Resets
    /\ pc = "idle"
    /\ podId' = None
    /\ UNCHANGED <<provider, podSpec, endpoint, trust, env, failure, tunnel, pc, op, locals>>
-----------------------------------------------------------------------------
Selecting == SelectLive \/ SelectGone \/ ForgetId \/ ForgetSpec
                \/ FindNone \/ FindOne \/ FindMany \/ Adopt
Forgetting == ConfirmNothing \/ ConfirmLive \/ ConfirmGone \/ DropOld \/ DropRefused
                \/ Unkey \/ Unlink
Creating == Create \/ CreateErrs \/ CreateLost \/ Reconcile \/ ReconcileFails
                \/ SaveId \/ SaveSpec \/ JudgeMatch \/ JudgeMismatch \/ JudgeRefuses
Switching == StopOld \/ StopPod \/ StartPod \/ StopOrStartLost
Connecting == Discover \/ Enrol \/ Rotate \/ Rewrite \/ PrepareRefuses \/ ProbeOk
                \/ ProbeMoved \/ HostKeyMismatch \/ PollFails \/ EnsureVllm
                \/ OpenEnv \/ WriteEnv \/ RestartTunnel \/ Verify
Cleaning == StopTunnel \/ RemoveEnv \/ RemoveFailure

\* a step of the process that holds the lifecycle lock
OpStep == Selecting \/ Forgetting \/ Creating \/ Switching \/ Connecting
            \/ Cleaning \/ StepFails \/ WriteFailsLate
Environment == Assign \/ ConsoleEnds \/ LateEffect \/ TunnelDies \/ TunnelReturns
                \/ TunnelAccepts \/ ResetPodId

Next == BeginUp \/ BeginDown \/ OpStep \/ Kill \/ Tick \/ Environment

Spec == Init /\ [][Next]_vars

\* Every command and request returns, with or without success, but what is
\* polled need not ever change: a poll ends for certain only at its deadline.
Proceeds ==
    \/ pc \notin {"discover", "probe", "verify"} /\ OpStep
    \/ expired /\ PollFails

\* ... and time passes.  Nothing is assumed of the provider.
FairSpec == Spec /\ WF_vars(Proceeds) /\ WF_vars(Tick)
-----------------------------------------------------------------------------
\* ssh.prepare_endpoint, up: once up talks to a Pod over ssh, the saved
\* endpoint binds exactly the Pod it selected and the address it uses, and
\* runtime.pod-id names that Pod: whatever was lost, killed or reset before.
SshUsesBoundEndpoint ==
    pc \in {"probe", "ensure", "openEnv", "writeEnv", "restartTunnel", "verify"} =>
        /\ endpoint = [pod |-> sel, addr |-> host]
        /\ podId = sel

\* up: while up verifies vLLM through the tunnel, the tunnel goes nowhere but to
\* the bound endpoint, although the unit restarts by itself and reads
\* runtime.env at any moment, also while up is writing it; and the key there is
\* one that up's own ssh has accepted, never first the tunnel's.
TunnelUsesBoundEndpoint ==
    pc = "verify" =>
        /\ env = endpoint.addr /\ tunnel \in {endpoint.addr, Restarting}
        /\ endpoint.addr \in Accepted

\* The saved endpoint is always that of the selected Pod: _replace_pod and
\* _select_pod forget it before they change or clear runtime.pod-id, so no
\* kill or failed write between two files separates them.
EndpointFollowsSelection == endpoint # None => podId = endpoint.pod

\* When down is about to return without an error, the tunnel is stopped,
\* runtime.env is gone and no selected Pod is left RUNNING.
DownLeavesSelectionStopped ==
    op = "down" /\ pc = "removeFailure" /\ ~errors =>
        /\ tunnel = None /\ env = None
        /\ podId # None => status[podId] # "RUNNING"

\* up prepares vLLM only on a Pod that was requested with the settings this
\* up has loaded: the saved fingerprint vouches for the selected Pod.
PodMatchesSettings ==
    pc \in {"ensure", "openEnv", "writeEnv", "restartTunnel", "verify"} => spec[sel] = want

\* _replace_pod, _create_or_reconcile_pod: between two operations no Pod runs
\* unless it is the selected one.
NoUnselectedPodRuns ==
    pc = "idle" => \A p \in Pods : status[p] = "RUNNING" => p = podId

\* Every operation ends: the polling loops stop at their deadlines and every
\* failure leads out of the operation, with the lock released.
OperationEnds == pc # "idle" ~> pc = "idle"

\* where a step stands, counted from the end of its operation
Place ==
    [stopTunnel |-> 31, select |-> 30, forgetId |-> 26, forgetSpec |-> 25, find |-> 24,
     adopt |-> 23, judge |-> 22, stopOld |-> 21, create |-> 20, createNew |-> 20,
     reconcile |-> 19, dropOld |-> 19, saveId |-> 16, saveSpec |-> 15, start |-> 15,
     discover |-> 11, prepare |-> 10, rewrite |-> 9, probe |-> 8, ensure |-> 7,
     openEnv |-> 6, writeEnv |-> 5, restartTunnel |-> 4, verify |-> 3, stopPod |-> 3,
     removeEnv |-> 2, removeFailure |-> 1, idle |-> 0]

\* forgetting an endpoint stands before the step it returns to
Detour == [confirmOther |-> 3, unkey |-> 2, unlink |-> 1]

Ahead == IF pc \in DOMAIN Detour THEN Place[resume] + Detour[pc] ELSE Place[pc]

\* up, down: with every step of its own an operation gets nearer to its end,
\* through every failure and detour, so it takes 31 of them at most; only a Pod
\* that moves to another address while it is probed sends up back, and only
\* before the deadline.
OnlyMovesGoBack ==
    [][OpStep => \/ Ahead' < Ahead
                 \/ pc = "probe" /\ ~expired /\ Answers(sel, host') /\ host' # host]_vars

Trust == INSTANCE EndpointTrust WITH
            binding <- endpoint,
            keys <- Accepted,
            running <- {p \in Pods : status[p] = "RUNNING"}

\* forget_endpoint_for_*, prepare_endpoint: of the keys that up has accepted
\* known_hosts holds none but that of the saved endpoint, so up leaves no
\* address trusted that no record owns.  The tunnel's ssh may: one that starts
\* from an old runtime.env, or that is still connecting, accepts the key of an
\* address whose key up has just removed.
KeysBelongToBinding == Trust!KeysBelongToBinding

\* SSH trust is managed as EndpointTrust promises: a binding is forgotten
\* only for a Pod that does not run and once its key has been removed, and
\* goes from one Pod to another only that way.
ImplementsEndpointTrust == Trust!Spec
=============================================================================
