------------------------------ MODULE RemoteVllm ------------------------------
(***************************************************************************)
(* assets/remote/ensure-vllm.sh on one Pod: instances of the script, each  *)
(* started by an up with its own settings, that reuse or replace the vLLM  *)
(* server, and the three files under /workspace/llm-coding they share.     *)
(* The script outlives the ssh session of an up that is killed, so two     *)
(* instances may overlap; with one element in Scripts they do not.         *)
(***************************************************************************)
CONSTANTS
    Scripts,        \* instances of the script that may run at once
    Configs,        \* the settings that enter the signature
    ServedName,     \* ServedName[c]: the model name that is_healthy looks for
    Pids,           \* process ids of the Pod
    None            \* no file, no process

ASSUME ConstantsAssumption ==
    /\ None \notin Pids /\ None \notin Configs
    /\ DOMAIN ServedName = Configs

VARIABLES
    pc, want,     \* step and settings of each script
    launched,     \* launched[s]: $! of the script's nohup
    alive,        \* pids of vLLM servers that still hold memory or the port
    killed,       \* those of them that got SIGKILL: they run no more, but are not gone
    unrecorded,   \* history: those whose pid could not be written to vllm.pid
    config,       \* config[i]: the settings server i was launched with
    listening,    \* the server that has bound the port, or None
    pidFile,      \* vllm.pid
    signature     \* runtime.signature: the settings it is the hash of

scripts == <<pc, want, launched>>
servers == <<alive, killed, unrecorded, config, listening>>
files == <<pidFile, signature>>
vars == <<scripts, servers, files>>

Locations == {"idle", "checking", "comparing", "stopping", "clearing", "launching",
              "recording", "polling", "signing"}

TypeOK ==
    /\ pc \in [Scripts -> Locations]
    /\ want \in [Scripts -> Configs \union {None}]
    /\ launched \in [Scripts -> Pids \union {None}]
    /\ alive \subseteq Pids
    /\ killed \subseteq alive /\ unrecorded \subseteq alive
    /\ config \in [Pids -> Configs \union {None}]
    /\ listening \in alive \union {None}
    /\ pidFile \in Pids \union {None}
    /\ signature \in Configs \union {None}

Init ==
    /\ pc = [s \in Scripts |-> "idle"]
    /\ want = [s \in Scripts |-> None]
    /\ launched = [s \in Scripts |-> None]
    /\ alive = {} /\ killed = {} /\ unrecorded = {}
    /\ config = [i \in Pids |-> None] /\ listening = None
    /\ pidFile = None /\ signature = None

\* is_healthy: /v1/models on the port names the served model; a server that got
\* SIGKILL answers nothing, though it may keep the port
Healthy(c) ==
    /\ listening # None /\ listening \notin killed
    /\ ServedName[config[listening]] = ServedName[c]

\* server i is gone, with its memory and its port
Gone(i) ==
    /\ alive' = alive \ {i} /\ killed' = killed \ {i} /\ unrecorded' = unrecorded \ {i}
    /\ listening' = IF listening = i THEN None ELSE listening

Goto(s, location) == pc' = [pc EXCEPT ![s] = location] /\ UNCHANGED <<want, launched>>
Exit(s) ==
    /\ pc' = [pc EXCEPT ![s] = "idle"]
    /\ want' = [want EXCEPT ![s] = None]
    /\ launched' = [launched EXCEPT ![s] = None]
-----------------------------------------------------------------------------
\* up runs the script over ssh
Begin(s) ==
    /\ pc[s] = "idle"
    /\ \E c \in Configs : want' = [want EXCEPT ![s] = c]
    /\ pc' = [pc EXCEPT ![s] = "checking"]
    /\ UNCHANGED <<launched, servers, files>>

\* no launcher, no CUDA device
Unfit(s) ==
    /\ pc[s] = "checking"
    /\ Exit(s)
    /\ UNCHANGED <<servers, files>>

Check(s) ==
    /\ pc[s] = "checking"
    /\ Goto(s, IF Healthy(want[s]) THEN "comparing" ELSE "stopping")
    /\ UNCHANGED <<servers, files>>

\* mutated Reuse: a healthy server is enough
ReuseHealthy(s) ==
    /\ pc[s] = "comparing"
    /\ signature' = want[s]
    /\ Exit(s)
    /\ UNCHANGED <<servers, pidFile>>

\* the server is healthy and its signature is the requested one: exit 0
Reuse(s) ==
    /\ pc[s] = "comparing"
    /\ signature = want[s]
    /\ Exit(s)
    /\ UNCHANGED <<servers, files>>

Mismatch(s) ==
    /\ pc[s] = "comparing"
    /\ signature # want[s]
    /\ Goto(s, "stopping")
    /\ UNCHANGED <<servers, files>>

\* mutated StopOld: SIGTERM, and no wait for the process to end
StopOldUnawaited(s) ==
    /\ pc[s] = "stopping"
    /\ Goto(s, "clearing")
    /\ UNCHANGED <<servers, files>>

\* mutated StopOld: the launcher is killed, its worker keeps the port
StopLauncherOnly(s) ==
    /\ pc[s] = "stopping"
    /\ alive' = alive \ {pidFile}
    /\ Goto(s, "clearing")
    /\ UNCHANGED <<killed, unrecorded, config, listening, files>>

\* kill, and wait up to 20 seconds for the recorded process to be gone; then
\* kill -9, without another wait
StopOld(s) ==
    /\ pc[s] = "stopping"
    /\ \/ Gone(pidFile)
       \/ /\ pidFile \in alive
          /\ killed' = killed \union {pidFile}
          /\ UNCHANGED <<alive, unrecorded, listening>>
    /\ Goto(s, "clearing")
    /\ UNCHANGED <<config, files>>

\* rm -f runtime.signature; where it fails, set -e ends the script
Clear(s) ==
    /\ pc[s] = "clearing"
    /\ \/ signature' = None /\ Goto(s, "launching")
       \/ UNCHANGED signature /\ Exit(s)
    /\ UNCHANGED <<servers, pidFile>>

\* nohup start-vllm.sh &
Launch(s) ==
    /\ pc[s] = "launching"
    /\ \E i \in Pids \ alive :
        /\ alive' = alive \union {i}
        /\ config' = [config EXCEPT ![i] = want[s]]
        /\ launched' = [launched EXCEPT ![s] = i]
    /\ pc' = [pc EXCEPT ![s] = "recording"]
    /\ UNCHANGED <<want, killed, unrecorded, listening, files>>

\* echo $! > vllm.pid; where the file cannot be opened or written, set -e ends
\* the script, and the server it has launched runs on
Record(s) ==
    /\ pc[s] = "recording"
    /\ \/ pidFile' = launched[s] /\ Goto(s, "polling") /\ UNCHANGED unrecorded
       \/ /\ pidFile' \in {pidFile, None}
          /\ unrecorded' = unrecorded \union (alive \intersect {launched[s]})
          /\ Exit(s)
    /\ UNCHANGED <<alive, killed, config, listening, signature>>

\* the loop asks for health first ...
PollHealthy(s) ==
    /\ pc[s] = "polling"
    /\ Healthy(want[s])
    /\ Goto(s, "signing")
    /\ UNCHANGED <<servers, files>>

\* ... then whether the recorded process lives: fail vllm_exited
PollExited(s) ==
    /\ pc[s] = "polling"
    /\ ~Healthy(want[s])
    /\ pidFile \notin alive
    /\ Exit(s)
    /\ UNCHANGED <<servers, files>>

\* fail vllm_timeout
PollTimeout(s) ==
    /\ pc[s] = "polling"
    /\ Exit(s)
    /\ UNCHANGED <<servers, files>>

\* 'vLLM is ready.': the signature is written and the script exits with 0, or
\* the write fails and leaves no readable signature
Sign(s) ==
    /\ pc[s] = "signing"
    /\ signature' \in {want[s], None}
    /\ Exit(s)
    /\ UNCHANGED <<servers, pidFile>>

\* The ssh session is gone: the script dies at its next echo, 'Stopping
\* previous vLLM process ...' or 'Starting prebuilt vLLM ...'.
BrokenPipe(s) ==
    /\ pc[s] = "launching" \/ (pc[s] = "stopping" /\ pidFile \in alive)
    /\ Exit(s)
    /\ UNCHANGED <<servers, files>>
-----------------------------------------------------------------------------
\* a server has loaded the model and binds the port, or finds it taken
Ready ==
    /\ \E i \in alive \ (killed \union {listening}) :
        IF listening = None
        THEN listening' = i /\ UNCHANGED <<alive, killed, unrecorded>>
        ELSE Gone(i)
    /\ UNCHANGED <<scripts, config, files>>

\* a server crashes, or the kernel is done with one that got SIGKILL
Crash ==
    /\ \E i \in alive : Gone(i)
    /\ UNCHANGED <<scripts, config, files>>

\* the Pod is stopped and started: no process survives, the volume does
Restart ==
    /\ pc' = [s \in Scripts |-> "idle"]
    /\ want' = [s \in Scripts |-> None]
    /\ launched' = [s \in Scripts |-> None]
    /\ alive' = {} /\ killed' = {} /\ unrecorded' = {} /\ listening' = None
    /\ UNCHANGED <<config, files>>

ScriptStep(s) ==
    \/ Begin(s) \/ Unfit(s) \/ Check(s) \/ Reuse(s) \/ Mismatch(s) \/ StopOld(s)
    \/ Clear(s) \/ Launch(s) \/ Record(s) \/ PollHealthy(s) \/ PollExited(s)
    \/ PollTimeout(s) \/ Sign(s) \/ BrokenPipe(s)

Next == (\E s \in Scripts : ScriptStep(s)) \/ Ready \/ Crash \/ Restart

Spec == Init /\ [][Next]_vars
-----------------------------------------------------------------------------
\* servers that run, but for those whose pid could not be written
OnRecord == alive \ (killed \union unrecorded)

\* ensure-vllm.sh: a signature that matches vouches for the server.  Whenever
\* the script would reuse the healthy server on account of its signature, the
\* server was launched with exactly those settings; a write of vllm.pid that
\* fails leaves a server that no script knows, and of that one alone the
\* signature may be wrong.
SignatureVouchesForServer ==
    signature # None /\ Healthy(signature) /\ listening \in OnRecord =>
        config[listening] = signature

\* ensure-vllm.sh stops the recorded server before it launches another: two
\* servers compete for the GPU and the port only while the kernel still tears
\* down one that got SIGKILL, or where one could not be recorded in vllm.pid.
OneServer == \A i, j \in OnRecord : i = j
=============================================================================
