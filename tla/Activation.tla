------------------------------ MODULE Activation ------------------------------
(***************************************************************************)
(* The systemd units of systemd.render_units and the two commands that     *)
(* drive them.  A connection to llm-coding.socket starts the proxy unit:   *)
(* ExecStartPre is up, ExecStopPost is down, whatever the start came to.   *)
(* llm-up enables the socket, connects and watches; llm-down stops the     *)
(* socket and the proxy and then runs down itself.  up and down are the    *)
(* operations of module PodLifecycle, reduced to what they do to the Pod,  *)
(* the tunnel unit and the files, under the lock of module LifecycleLock.  *)
(* One llm-up and one llm-down run at a time, among any clients.           *)
(***************************************************************************)
EXTENDS Naturals

CONSTANTS Clients,         \* connections of OpenCode
          LlmUp,           \* the connection of llm-up's curl
          MaxInvocations   \* bound: activations of the proxy unit, and one less for
                           \* each replacement of a Pod that is cut short

ASSUME ConstantsAssumption == LlmUp \notin Clients /\ MaxInvocations \in Nat

VARIABLES
    socket,      \* llm-coding.socket
    proxy,       \* llm-coding-proxy.service
    failing,     \* the proxy unit will end as failed
    invocation,  \* number of its activations so far: the last InvocationID
    jobs,        \* systemd jobs under way
    canceled,    \* jobs that ended without success
    step,        \* steps of the proxy unit's up or down and of llm-down
    errors,      \* errors collected by each down
    lock,        \* who holds runtime.lock
    pod,         \* the selected Pod runs
    unsaved,     \* a first Pod runs, which up has created and not yet selected
    spare,       \* number of running replacements that up has created and not selected
    unfinished,  \* history: number of replacements created and not selected by their up
    tunnel,      \* llm-coding-tunnel.service is started: it has ssh or restarts it
    failure,     \* activation that wrote runtime.activation-error, 0 for none
    conn,        \* conn[r]: a connection to the socket
    at,          \* step of llm-up
    initial, seen, since,   \* initial_invocation, proxy_invocation, failure_started_at
    shown,       \* failure that llm-up has printed
    fresh,       \* history: a failure has been recorded since the llm-up that runs began
    leftover,    \* history: up has succeeded and could not remove the failure
    touched      \* history: llm-up has started a unit since the last llm-down began

units == <<socket, proxy, failing, invocation, jobs, canceled>>
pods == <<pod, unsaved, spare>>
runtime == <<pods, unfinished, tunnel>>
monitor == <<at, initial, seen, since, shown>>
history == <<fresh, leftover, touched>>
vars == <<units, step, errors, lock, runtime, failure, conn, monitor, history>>

Requests == Clients \union {LlmUp}
Stamps == 0 .. MaxInvocations
UpSteps == {"upLock", "upPod", "upSelect", "upSwap", "upTunnel", "upVerify"}
DownSteps == {"downLock", "downTunnel", "downPod", "downFiles"}

DataOK ==
    /\ socket \in {"inactive", "listening"}
    /\ proxy \in {"inactive", "starting", "running", "stopping", "failed"}
    /\ invocation \in Stamps
    /\ jobs \subseteq {"stopSocket", "stopProxy", "restart"}
    /\ canceled \subseteq {"stopSocket", "stopProxy", "restart"}
    /\ step \in [proxy : UpSteps \union DownSteps \union {"none"},
                 cli : DownSteps
                         \union {"none", "awaitSocket", "stopProxy", "awaitProxy", "done"}]
    /\ proxy = "starting" <=> step.proxy \in UpSteps
    /\ proxy = "stopping" <=> step.proxy \in DownSteps
    /\ lock \in {"none", "proxy", "cli"}
    /\ \A o \in {"proxy", "cli"} :
         lock = o <=> step[o] \in (UpSteps \union DownSteps) \ {"upLock", "downLock"}
    /\ conn \in [Requests -> {"none", "queued", "served", "failed"}]
    /\ at \in {"idle", "enable", "invocation", "state", "probe", "recover",
               "restarting", "since", "poll", "inspect", "explain"}
    /\ {initial, seen, since, shown, failure} \subseteq Stamps
    /\ {spare, unfinished} \subseteq Nat /\ spare <= unfinished
    /\ step.proxy = "upSwap" => spare # 0

FlagsOK ==
    /\ failing \in BOOLEAN /\ errors \in [proxy : BOOLEAN, cli : BOOLEAN]
    /\ pod \in BOOLEAN /\ unsaved \in BOOLEAN /\ tunnel \in BOOLEAN
    /\ fresh \in BOOLEAN /\ leftover \in BOOLEAN /\ touched \in BOOLEAN

TypeOK == DataOK /\ FlagsOK

Init ==
    /\ socket = "listening" /\ proxy = "inactive" /\ failing = FALSE
    /\ invocation = 0 /\ jobs = {} /\ canceled = {}
    /\ step = [proxy |-> "none", cli |-> "none"]
    /\ errors = [proxy |-> FALSE, cli |-> FALSE] /\ lock = "none"
    /\ pod = FALSE /\ unsaved = FALSE /\ spare = 0 /\ unfinished = 0
    /\ tunnel = FALSE /\ failure = 0
    /\ conn = [r \in Requests |-> "none"]
    /\ at = "idle" /\ initial = 0 /\ seen = 0 /\ since = 0 /\ shown = 0
    /\ fresh = FALSE /\ leftover = FALSE /\ touched = FALSE

\* curl fails; OpenCode sees an error and tries again when it is used
Refused(r) == IF r = LlmUp THEN "failed" ELSE "none"

Dead == proxy \in {"inactive", "failed"}
Serving == tunnel /\ pod
-----------------------------------------------------------------------------
(* systemd: jobs, activation and the end of the proxy unit.                *)

\* the proxy unit leaves its start or its service and enters ExecStopPost;
\* a process that is killed loses the lock, and what it served is cut off;
\* llm-down is then at step cli, with or without failures
EnterStopPost(failed, cli, failures) ==
    /\ proxy' = "stopping" /\ failing' = failed
    /\ step' = [proxy |-> "downLock", cli |-> cli]
    /\ errors' = [proxy |-> FALSE, cli |-> failures]
    /\ lock' = IF lock = "proxy" THEN "none" ELSE lock
    /\ conn' = [r \in Requests |-> IF r \in Clients /\ conn[r] = "served" THEN "none"
                                   ELSE conn[r]]

\* jobs are replaced by new ones that contradict them
Enqueue(new, replaced) ==
    /\ jobs' = (jobs \ replaced) \union new
    /\ canceled' = (canceled \ new) \union (jobs \intersect replaced)

\* stop the proxy unit, if there is anything to stop
StopUnit(cli, failures) ==
    IF proxy \in {"starting", "running"}
    THEN EnterStopPost(FALSE, cli, failures)
    ELSE /\ step' = [step EXCEPT !.cli = cli]
         /\ errors' = [errors EXCEPT !.cli = failures]
         /\ UNCHANGED <<proxy, failing, lock, conn>>

\* a waiting connection, or the second half of a restart, starts the unit
Activate ==
    /\ Dead /\ invocation + unfinished < MaxInvocations
    /\ \/ "restart" \in jobs
       \/ /\ socket = "listening" /\ "stopSocket" \notin jobs
          /\ \E r \in Requests : conn[r] = "queued"
    /\ proxy' = "starting" /\ invocation' = invocation + 1
    /\ step' = [step EXCEPT !.proxy = "upLock"]
    /\ errors' = [errors EXCEPT !.proxy = FALSE]
    /\ UNCHANGED <<socket, failing, jobs, canceled, lock, runtime, failure, conn,
                   monitor, history>>

\* the socket stops once the proxy, which requires it, has stopped; what waits
\* in its backlog is reset
SocketStops ==
    /\ "stopSocket" \in jobs /\ Dead
    /\ socket' = "inactive" /\ jobs' = jobs \ {"stopSocket"}
    /\ conn' = [r \in Requests |-> IF conn[r] = "queued" THEN Refused(r) ELSE conn[r]]
    /\ UNCHANGED <<proxy, failing, invocation, canceled, step, errors, lock, runtime,
                   failure, monitor, history>>

\* mutated IdleExit: the unit has no ExecStopPost
IdleExitBare ==
    /\ proxy = "running" /\ \A r \in Clients : conn[r] # "served"
    /\ proxy' = "inactive"
    /\ UNCHANGED <<socket, failing, invocation, jobs, canceled, step, errors, lock, runtime,
                   failure, conn, monitor, history>>

\* --exit-idle-time has passed without an open connection
IdleExit ==
    /\ proxy = "running" /\ \A r \in Clients : conn[r] # "served"
    /\ EnterStopPost(FALSE, step.cli, errors.cli)
    /\ UNCHANGED <<socket, invocation, jobs, canceled, runtime, failure, monitor, history>>

\* systemd-socket-proxyd is killed
ProxyCrashes ==
    /\ proxy = "running"
    /\ EnterStopPost(TRUE, step.cli, errors.cli)
    /\ UNCHANGED <<socket, invocation, jobs, canceled, runtime, failure, monitor, history>>
-----------------------------------------------------------------------------
(* up, as ExecStartPre.                                                    *)

UpStep(from, to) == step.proxy = from /\ step' = [step EXCEPT !.proxy = to]

UpLocks ==
    /\ UpStep("upLock", "upPod") /\ lock = "none"
    /\ lock' = "proxy"
    /\ UNCHANGED <<units, errors, runtime, failure, conn, monitor, history>>

\* _select_pod: the Pods as <<pod, unsaved, spare>> after it.  Where none is
\* selected, or the selected one has been deleted, it selects the one of that
\* name; an unselected Pod of these does not end by itself.
Selections ==
    IF unsaved THEN {<<TRUE, FALSE, spare>>}
    ELSE {pods} \union (IF ~pod /\ spare # 0 THEN {<<TRUE, FALSE, spare - 1>>} ELSE {})

Become(p, u, n) == pod' = p /\ unsaved' = u /\ spare' = n

\* the selected Pod runs or is started; or POST /pods: the first Pod of the
\* name, or a replacement of the selected one, which is stopped before
UpPod ==
    /\ \/ /\ UpStep("upPod", "upTunnel")
          /\ \E now \in Selections : Become(TRUE, now[2], now[3])
          /\ UNCHANGED unfinished
       \/ /\ UpStep("upPod", "upSelect") /\ ~pod /\ ~unsaved /\ spare = 0
          /\ Become(FALSE, TRUE, 0)
          /\ UNCHANGED unfinished
       \/ /\ UpStep("upPod", "upSwap")
          /\ \E now \in Selections : Become(FALSE, now[2], now[3] + 1)
          /\ unfinished' = unfinished + 1
    /\ UNCHANGED <<units, errors, lock, tunnel, failure, conn, monitor, history>>

\* write_pod_id selects the Pod that has been created
UpSelects ==
    /\ \/ UpStep("upSelect", "upTunnel") /\ Become(TRUE, FALSE, spare) /\ UNCHANGED unfinished
       \/ /\ UpStep("upSwap", "upTunnel") /\ Become(TRUE, unsaved, spare - 1)
          /\ unfinished' = unfinished - 1
    /\ UNCHANGED <<units, errors, lock, tunnel, failure, conn, monitor, history>>

\* mutated UpTunnel: the unit counts as running as soon as the tunnel is up
UpTunnelReady ==
    /\ UpStep("upTunnel", "upVerify")
    /\ tunnel' = TRUE /\ proxy' = "running"
    /\ UNCHANGED <<socket, failing, invocation, jobs, canceled, errors, lock, pods, unfinished,
                   failure, conn, monitor, history>>

\* runtime.env is written and the unit restarted
UpTunnel ==
    /\ UpStep("upTunnel", "upVerify")
    /\ tunnel' = TRUE
    /\ UNCHANGED <<units, errors, lock, pods, unfinished, failure, conn, monitor, history>>

\* vLLM answers through the tunnel: the unit becomes active; an OSError of
\* clear_activation_failure goes unnoticed
UpReturns ==
    /\ UpStep("upVerify", "none") /\ Serving
    /\ failure' \in {failure, 0} /\ leftover' = (failure' # 0)
    /\ lock' = "none"
    /\ proxy' = "running" /\ jobs' = jobs \ {"restart"}
    /\ UNCHANGED <<socket, failing, invocation, canceled, errors, runtime, conn, monitor,
                   fresh, touched>>

\* the start of the unit has failed: a restart job has, too
StartFails == EnterStopPost(TRUE, step.cli, errors.cli) /\ Enqueue({}, {"restart"})

\* record_activation_failure; an OSError goes unnoticed
RecordFailure ==
    \/ failure' = invocation /\ fresh' = (at # "idle") /\ leftover' = FALSE
    \/ UNCHANGED <<failure, fresh, leftover>>

\* mutated UpRaises: ExecStop in place of ExecStopPost does not run after a
\* start that failed
UpRaisesForGood ==
    /\ step.proxy \in UpSteps \ {"upLock"}
    /\ RecordFailure
    /\ proxy' = "failed" /\ step' = [step EXCEPT !.proxy = "none"] /\ lock' = "none"
    /\ Enqueue({}, {"restart"})
    /\ UNCHANGED <<socket, failing, invocation, errors, runtime, conn, monitor, touched>>

\* under the lock: on_error records the failure
UpRaises ==
    /\ step.proxy \in UpSteps \ {"upLock"}
    /\ RecordFailure
    /\ StartFails
    /\ UNCHANGED <<socket, invocation, runtime, monitor, touched>>

\* the lock cannot be had in time, or TimeoutStartSec kills up: no record
UpGivesUp ==
    /\ step.proxy \in UpSteps
    /\ step.proxy = "upLock" => lock # "none"
    /\ StartFails
    /\ UNCHANGED <<socket, invocation, runtime, failure, monitor, history>>
-----------------------------------------------------------------------------
(* down, as ExecStopPost (o is "proxy") and by llm-down (o is "cli").      *)

DownStep(o, from, to) == step[o] = from /\ step' = [step EXCEPT ![o] = to]
Collect(o) == errors' = [errors EXCEPT ![o] = TRUE]

DownLocks(o) ==
    /\ DownStep(o, "downLock", "downTunnel") /\ lock = "none"
    /\ lock' = o
    /\ UNCHANGED <<units, errors, runtime, failure, conn, monitor, history>>

DownTunnel(o) ==
    /\ DownStep(o, "downTunnel", "downPod")
    /\ \/ tunnel' = FALSE /\ UNCHANGED errors
       \/ Collect(o) /\ UNCHANGED tunnel
    /\ UNCHANGED <<units, lock, pods, unfinished, failure, conn, monitor, history>>

\* the Pod that _select_pod selects is stopped, or an error is collected at some point
DownPod(o) ==
    /\ DownStep(o, "downPod", "downFiles")
    /\ \E now \in Selections :
        \/ Become(FALSE, now[2], now[3]) /\ UNCHANGED errors
        \/ /\ Collect(o)
           /\ \E after \in {pods, now, <<FALSE, now[2], now[3]>>} :
                Become(after[1], after[2], after[3])
    /\ UNCHANGED <<units, lock, unfinished, tunnel, failure, conn, monitor, history>>

\* the process ends and loses the lock; an ExecStopPost that fails makes the unit fail
DownEnds(o) ==
    /\ step' = [step EXCEPT ![o] = IF o = "cli" THEN "done" ELSE "none"]
    /\ lock' = IF lock = o THEN "none" ELSE lock
    /\ IF o = "cli"
       THEN UNCHANGED <<proxy, failing, jobs>>
       ELSE /\ proxy' = IF failing \/ errors'[o] THEN "failed" ELSE "inactive"
            /\ failing' = FALSE /\ jobs' = jobs \ {"stopProxy"}
    /\ UNCHANGED <<socket, invocation, canceled, runtime, conn, monitor, fresh, touched>>

DownReturns(o) ==
    /\ step[o] = "downFiles"
    /\ \/ failure' = 0 /\ UNCHANGED errors
       \/ failure' \in {failure, 0} /\ Collect(o)
    /\ leftover' = (leftover /\ failure' # 0)
    /\ DownEnds(o)

\* the lock cannot be had in time, or down is killed: ExecStopPost by
\* TimeoutStopSec, llm-down by its user
DownGivesUp(o) ==
    /\ step[o] \in DownSteps
    /\ step[o] = "downLock" => lock # "none"
    /\ Collect(o)
    /\ DownEnds(o)
    /\ UNCHANGED <<failure, leftover>>
-----------------------------------------------------------------------------
(* llm-down.                                                               *)

LlmDownBegins ==
    /\ step.cli \in {"none", "done"}
    /\ touched' = FALSE
    /\ UNCHANGED <<socket, invocation, runtime, failure, monitor, fresh, leftover>>

\* systemctl stop of a unit returns when its job has ended
Await(job, from, to) ==
    /\ DownStep("cli", from, to)
    /\ job \notin jobs
    /\ errors' = [errors EXCEPT !.cli = @ \/ job \in canceled]
    /\ canceled' = canceled \ {job}
    /\ UNCHANGED <<socket, proxy, failing, invocation, jobs, lock, runtime, failure, conn,
                   monitor, history>>

\* systemctl stop llm-coding.socket fails
StopSocketFails ==
    /\ LlmDownBegins
    /\ step' = [step EXCEPT !.cli = "stopProxy"]
    /\ Collect("cli")
    /\ UNCHANGED <<proxy, failing, jobs, canceled, lock, conn>>

\* mutated StopSocket: llm-down leaves the listener alone
StopSocketNot ==
    /\ LlmDownBegins
    /\ step' = [step EXCEPT !.cli = "stopProxy"]
    /\ errors' = [errors EXCEPT !.cli = FALSE]
    /\ UNCHANGED <<proxy, failing, jobs, canceled, lock, conn>>

\* the proxy requires the socket, so it is stopped with it
StopSocket ==
    /\ LlmDownBegins
    /\ StopUnit("awaitSocket", FALSE)
    /\ Enqueue(IF socket = "listening" THEN {"stopSocket"} ELSE {}, {"restart"})

StopProxy ==
    /\ step.cli = "stopProxy"
    /\ StopUnit("awaitProxy", errors.cli)
    /\ Enqueue(IF Dead THEN {} ELSE {"stopProxy"}, {"restart"})
    /\ UNCHANGED <<socket, invocation, runtime, failure, monitor, history>>

StopProxyFails ==
    /\ DownStep("cli", "stopProxy", "downLock")
    /\ Collect("cli")
    /\ UNCHANGED <<units, lock, runtime, failure, conn, monitor, history>>
-----------------------------------------------------------------------------
(* llm-up.                                                                 *)

Monitor(from, to) == at = from /\ at' = to
Watches == <<units, step, errors, lock, runtime, failure, conn>>

\* ensure_socket: the socket is active and the unit files are as rendered, or
\* they have to be installed
LlmUpBegins ==
    /\ \/ Monitor("idle", "invocation") /\ socket = "listening"
       \/ Monitor("idle", "enable")
    /\ shown' = 0 /\ fresh' = FALSE
    /\ UNCHANGED <<Watches, initial, seen, since, leftover, touched>>

\* install: reset-failed, enable --now llm-coding.socket
EnableSocket ==
    /\ Monitor("enable", "invocation")
    /\ socket' = "listening"
    /\ proxy' = IF proxy = "failed" THEN "inactive" ELSE proxy
    /\ Enqueue({}, {"stopSocket"})
    /\ touched' = (step.cli # "none")
    /\ UNCHANGED <<failing, invocation, step, errors, lock, runtime, failure, conn,
                   initial, seen, since, shown, fresh, leftover>>

ReadInvocation ==
    /\ Monitor("invocation", "state")
    /\ initial' = invocation
    /\ UNCHANGED <<Watches, seen, since, shown, history>>

ReadState ==
    /\ Monitor("state", IF proxy = "running" THEN "probe" ELSE "since")
    /\ UNCHANGED <<Watches, initial, seen, since, shown, history>>

\* the request to the tunnel's port may fail in any case
ProbeTunnel ==
    /\ \/ Monitor("probe", "since") /\ Serving
       \/ Monitor("probe", "recover")
    /\ UNCHANGED <<Watches, initial, seen, since, shown, history>>

\* systemctl restart of the proxy, which brings the socket back
Recover ==
    /\ Monitor("recover", "restarting")
    /\ StopUnit(step.cli, errors.cli)
    /\ Enqueue({"restart"}, {"stopSocket", "stopProxy"})
    /\ socket' = "listening" /\ touched' = (step.cli # "none")
    /\ UNCHANGED <<invocation, runtime, failure, initial, seen, since, shown, fresh,
                   leftover>>

Restarted ==
    /\ Monitor("restarting", "since")
    /\ {"restart"} \intersect (jobs \union canceled) = {}
    /\ UNCHANGED <<Watches, initial, seen, since, shown, history>>

\* curl, like any client, waits in the backlog of a socket that listens
Connects(r) ==
    /\ conn' = [conn EXCEPT ![r] = IF socket = "listening" THEN "queued" ELSE Refused(r)]
    /\ UNCHANGED <<units, step, errors, lock, runtime, failure, history>>

\* mutated LlmUpConnects: any failure counts as that of this activation
LlmUpConnectsUntimed ==
    /\ Monitor("since", "poll")
    /\ Connects(LlmUp)
    /\ UNCHANGED <<initial, seen, since, shown>>

\* failure_started_at is read and curl is started
LlmUpConnects ==
    /\ Monitor("since", "poll")
    /\ since' = failure
    /\ Connects(LlmUp)
    /\ UNCHANGED <<initial, seen, shown>>

\* llm-up ends and its curl with it
LlmUpEnds ==
    /\ at' = "idle"
    /\ conn' = [conn EXCEPT ![LlmUp] = "none"]
    /\ initial' = 0 /\ seen' = 0 /\ since' = 0 /\ fresh' = FALSE
    /\ UNCHANGED <<units, step, errors, lock, runtime, failure, leftover, touched>>

\* the restart has failed: print_activation_failure, of any age
RestartFailed ==
    /\ at = "restarting" /\ "restart" \in canceled \ jobs
    /\ shown' = failure
    /\ LlmUpEnds

\* ensure_socket fails, or the user interrupts llm-up
LlmUpAborts ==
    /\ at # "idle"
    /\ LlmUpEnds
    /\ UNCHANGED shown

\* the request has been answered, with success
LlmUpServed ==
    /\ at = "poll" /\ conn[LlmUp] = "served"
    /\ LlmUpEnds
    /\ UNCHANGED shown

\* the request has failed, or the unit has: the failure, if there is a new one
Explain ==
    /\ at = "explain" \/ (at = "poll" /\ conn[LlmUp] = "failed")
    /\ shown' = IF failure > since THEN failure ELSE 0
    /\ LlmUpEnds

\* while the request waits: a new failure has been recorded
FailureSeen ==
    /\ at = "poll" /\ conn[LlmUp] = "queued"
    /\ failure > since
    /\ shown' = failure
    /\ LlmUpEnds

NoFailureSeen ==
    /\ Monitor("poll", "inspect") /\ conn[LlmUp] = "queued"
    /\ failure <= since
    /\ UNCHANGED <<Watches, initial, seen, since, shown, history>>

\* the proxy unit: is it the activation that was observed, and has it failed?
\* From the first one observed on, initial is not asked any more.
Inspect ==
    /\ seen' = IF seen = 0 /\ proxy \in {"starting", "running"} /\ invocation # initial
               THEN invocation ELSE seen
    /\ initial' = IF seen' = 0 THEN initial ELSE 0
    /\ Monitor("inspect", IF seen' # 0 /\ (proxy = "failed" \/ invocation # seen')
                          THEN "explain" ELSE "poll")
    /\ UNCHANGED <<Watches, since, shown, history>>
-----------------------------------------------------------------------------
(* Clients and the Pod.                                                    *)

ClientConnects ==
    /\ \E r \in Clients : conn[r] = "none" /\ Connects(r)
    /\ UNCHANGED monitor

\* socket-proxyd forwards the connection to the tunnel's port, where ssh may
\* be down for a while
Accept ==
    /\ proxy = "running"
    /\ \E r \in Requests :
        /\ conn[r] = "queued"
        /\ \/ Serving /\ conn' = [conn EXCEPT ![r] = "served"]
           \/ conn' = [conn EXCEPT ![r] = Refused(r)]
    /\ UNCHANGED <<units, step, errors, lock, runtime, failure, monitor, history>>

\* curl --max-time, or a client that gives up or has finished
ClientLeaves ==
    /\ \/ \E r \in Clients : conn[r] # "none" /\ conn' = [conn EXCEPT ![r] = "none"]
       \/ conn[LlmUp] = "queued" /\ conn' = [conn EXCEPT ![LlmUp] = "failed"]
    /\ UNCHANGED <<units, step, errors, lock, runtime, failure, monitor, history>>

PodEnds ==
    /\ pod /\ pod' = FALSE
    /\ UNCHANGED <<units, step, errors, lock, unsaved, spare, unfinished, tunnel, failure, conn, monitor, history>>
-----------------------------------------------------------------------------
UpAction == UpLocks \/ UpPod \/ UpSelects \/ UpTunnel \/ UpReturns \/ UpRaises \/ UpGivesUp
DownAction(o) ==
    DownLocks(o) \/ DownTunnel(o) \/ DownPod(o) \/ DownReturns(o) \/ DownGivesUp(o)
LlmDownAction ==
    \/ StopSocket \/ StopSocketFails \/ StopProxy \/ StopProxyFails
    \/ Await("stopSocket", "awaitSocket", "stopProxy")
    \/ Await("stopProxy", "awaitProxy", "downLock")
LlmUpAction ==
    \/ LlmUpBegins \/ EnableSocket
    \/ ReadInvocation \/ ReadState \/ ProbeTunnel \/ Recover \/ Restarted \/ RestartFailed
    \/ LlmUpConnects \/ LlmUpAborts \/ LlmUpServed \/ Explain \/ FailureSeen \/ NoFailureSeen
    \/ Inspect
Systemd == Activate \/ SocketStops \/ IdleExit \/ ProxyCrashes
Outside == ClientConnects \/ Accept \/ ClientLeaves \/ PodEnds

Next == UpAction \/ DownAction("proxy") \/ DownAction("cli") \/ LlmDownAction \/ LlmUpAction
          \/ Systemd \/ Outside

Spec == Init /\ [][Next]_vars

\* What the proxy unit has set for itself: up and down take a free lock, or end
\* at the latest when TimeoutStartSec and TimeoutStopSec kill them, and the idle
\* timer fires.
FairSpec ==
    /\ Spec
    /\ WF_vars(UpLocks \/ UpGivesUp)
    /\ WF_vars(IdleExit)
    /\ WF_vars(DownLocks("proxy") \/ DownGivesUp("proxy"))
-----------------------------------------------------------------------------
\* llm_down: "disable the listener before stopping the proxy".  When llm-down
\* has returned without an error nothing is left, and no connection brings it
\* back: only an llm-up that starts a unit does.  (Replacements that an up has
\* created and never selected are not in its reach.)
DownStaysDown ==
    step.cli = "done" /\ ~errors.cli /\ ~touched =>
        /\ socket = "inactive" /\ Dead
        /\ ~pod /\ ~unsaved /\ ~tunnel

\* ExecStopPost=down: when the proxy unit is down and its ExecStopPost has
\* reported no error, neither the tunnel nor a first Pod that up had no time to
\* select is left running, however far up had got and whatever ended it; and no
\* other Pod is, unless an up has at some time ended between the POST /pods of a
\* replacement and its write_pod_id: down then stops the Pod that was to be
\* replaced, and the replacement runs on.
NothingRunsWithoutProxy ==
    Dead /\ ~errors.proxy =>
        /\ ~tunnel /\ ~unsaved
        /\ pod \/ spare # 0 => unfinished # 0

\* llm_up, failure_started_at: a failure that llm-up prints was recorded after
\* this llm-up began.  One of an earlier activation is printed only after a
\* failed restart, where its age is not asked, and only if the up that
\* succeeded since could not remove it.
FailureIsFresh ==
    [][shown = 0 /\ shown' # 0 => fresh \/ (at = "restarting" /\ leftover)]_vars

\* Idle shutdown: a Pod does not keep running while nobody is connected, unless
\* the down that should have stopped it reported an error or an up has ended in
\* the middle of a replacement.
IdlePodStops ==
    []<>(\/ ~pod /\ ~unsaved /\ spare = 0
         \/ errors.proxy \/ unfinished # 0
         \/ \E r \in Requests : conn[r] = "queued"
         \/ \E r \in Clients : conn[r] = "served")
=============================================================================
