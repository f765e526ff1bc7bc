# A TLA+ model of llm-coding

llm-coding runs a self-hosted LLM on a RunPod Pod on demand. A client connects
to a local systemd socket; the proxy unit behind it brings up a Pod, an SSH
tunnel and a vLLM server, and takes the Pod down when the last connection has
closed. The code is sequential Python and shell, but it runs in many
processes: `up` and `down` as commands of systemd units, `llm-up` and
`llm-down` in terminals, `ensure-vllm.sh` on the Pod, other installations and
the JetBrains IDE on the same home, and the user at the provider's console. Any of them may be killed between two system calls, the
provider may lose replies, and a mistake costs money (a Pod that keeps running)
or trust (an SSH key accepted for the wrong host). The modules here are about
that.

All paths below are relative to `src/`; `llm_coding/` stands for
`src/python-src/llm_coding/`.

## 1. Inventory

| Component | State | Operations | Interacts with |
|---|---|---|---|
| Lifecycle lock (`state.py: lifecycle_lock`) | the flock on `runtime.lock`, the label in the file | acquire with bounded retries, label, run the body, record a failure, unlock | every lifecycle operation, across processes |
| Private state files (`state.py: atomic_write_private, FileStateStore`) | `runtime.pod-id`, `runtime.pod-spec.json`, `runtime.ssh-endpoint.json`, `runtime.activation-error` | atomic replace, flush of the directory, unlink | lifecycle, SSH trust, the monitor of `llm-up` |
| Runtime lifecycle (`runtime.py: up, down`) | the locals of one operation, the files above, `runtime.env` | select, adopt, create, reconcile, replace, start, stop, discover, probe, prepare vLLM, start the tunnel, verify; stop all; the tunnel's own command | provider, ssh, systemd, state files |
| RunPod client (`runpod.py`) | the provider's Pods: status, endpoint | list, get, create, start, stop | lifecycle |
| SSH endpoint trust (`ssh.py`) | endpoint record, `known_hosts` | enrol, rotate, forget | lifecycle |
| Remote vLLM script (`assets/remote/ensure-vllm.sh`) | `vllm.pid`, `runtime.signature`, processes of the Pod | reuse, stop, launch, poll, sign | started over ssh by `up` |
| Systemd units (`systemd.py`) | unit files, what the manager has read of them, socket, proxy and tunnel units, their jobs | install, ensure the socket; activate, idle exit, restart, stop; `ExecStartPre=up`, `ExecStopPost=down` | `llm-up`, `llm-install`, `llm-down`, `uninstall.sh`, clients |
| Activation and shutdown commands (`cli.py: llm_up, llm_down`) | locals of the monitor; errors of the teardown | ensure the socket, recover a stale proxy, connect and watch; stop the units, run `down` | units, state files |
| Status and doctor (`status.py`, `cli.py`) | none | read-only reports | units, provider, files |
| OpenCode integration (`opencode.py`) | the ACP registry `acp.json`, its lock, the installed executable | register, remove, install, create the configuration, launch | the IDE, other installations, `llm-install`, `up`, `remove-integration` |
| Configuration (`config.py`, `models.py`) | none | parse, validate, look up model profiles | everything |
| vLLM protocol helpers, facade, process helpers (`vllm.py`, `core.py`, `command.py`, `interfaces.py`) | none | parse a response, re-export, run a command | lifecycle, CLI |
| Uninstaller (`uninstall.sh`) | the installation | disable and remove the units, remove the integration | units, manager, `acp.json` |
| Runtime image (`docker/`) | the container | launch vLLM | Pod |

What is hard, and what has to be true of it:

* **Processes contend for one lock.** Bodies must not overlap, a wait must end,
  and a process that gives up must not touch what belongs to the holder.
* **Two files make one fact.** The selected Pod is `runtime.pod-id` with
  `runtime.pod-spec.json`; the trusted host is `runtime.ssh-endpoint.json` with
  an entry of `known_hosts`. Each is written by itself, with a kill possible in
  between; the order of the writes is what keeps them consistent.
* **The provider is unreliable.** A create that reports an error may have taken
  effect, or may still do so; a Pod may be stopped or deleted at the console
  between the request that read its status and the one that acts on it; its
  SSH address may change while it is polled.
* **Cleaning up goes on after a failure.** `down` and `llm-down` collect errors:
  they may report success only when nothing is left.
* **Units restart by themselves.** Any queued connection starts the proxy; a
  teardown has to remove the listener first.
* **Durability.** A state file must survive a power loss entire, and a write that
  has returned must not be undone.
* **Files shared with strangers.** `acp.json` belongs to the IDE and to every
  installation; an update must not undo another's, and a held lock must be let
  go. The executable may be replaced only by what has been verified.
* **Settings become units in steps.** Files are written in place one by one, the
  manager reads them at another time, and a socket that is active keeps what it
  was started with; what the user applied must be what runs.
* **A reused server.** The vLLM server on a Pod must have been launched with the
  settings that the next `up` asks for.

`PROJECT.json` lists each hazard at its line with the properties that cover it.

## 2. Modules

| Module | Models | Notes |
|---|---|---|
| `LifecycleLock` | `state.lifecycle_lock` | one process per lifecycle call; kill at every step |
| `DurableFile` | what `atomic_write_private` promises | abstract: a file with one atomic `Replace`, and `PowerLoss` that keeps what was acknowledged |
| `AtomicFile` | `atomic_write_private`, `_fsync_directory`, unlink, down to system calls | page cache and disk are separate; implements `DurableFile` |
| `EndpointTrust` | the SSH trust policy of `ssh.py` | abstract: a binding, a set of keys, the running Pods |
| `PodLifecycle` | `runtime.up`, `runtime.down` and all their helpers, with the provider and its console | one step per request, file operation and command; implements `EndpointTrust` |
| `RemoteVllm` | `ensure-vllm.sh` | scripts, server processes and three files on one Pod |
| `Activation` | the units, `llm_up`, `llm_down` | composes the units with `up` and `down`, which are reduced to their effect on the Pod, the tunnel and the files |
| `AgentRegistry` | what `opencode.py` promises of `acp.json` | abstract: one entry at a time, others untouched, nobody's update undone |
| `Integration` | `ensure_installed`, `ensure_acp_registration`, `remove_acp_registration` with their lock, as `install`, `up` and `remove_integration` call them | several installations, the IDE and the user; implements `AgentRegistry` |
| `UnitFiles` | `systemd.install`, `ensure_socket`, the units in `uninstall.sh`, `llm-down`'s stop of the socket | files, manager and listener under overlapping commands, kills and new sessions |
| `MC*` | instances for TLC | they EXTEND the module and define symmetry sets and small functions |
| `LifecycleLockProofs`, `AtomicFileProofs`, `PodLifecycleProofs`, `PodOutcomeProofs`, `RemoteVllmProofs`, `ActivationProofs`, `IntegrationProofs`, `UnitFilesProofs` | theorems | they EXTEND the module and TLAPS; `PodOutcomeProofs` EXTENDS `PodLifecycleProofs` |

How they fit: `LifecycleLock` shows that at most one lifecycle body runs, which
is why `PodLifecycle` has one program counter and one set of locals.
`AtomicFile` shows that a state file is replaced in one step and survives, which
is why a write is one step in `PodLifecycle` (with `WriteFailsLate` for the
write that has replaced the file and then raises). `EndpointTrust` is the policy
that `PodLifecycle` implements under the mapping binding = saved endpoint, keys
= what `known_hosts` has from the ssh of `up`, running = the provider's running
Pods. `Activation` uses the
lock and the outcome of `up` and `down` in turn; it starts from units that are
loaded as the settings say, which is what `UnitFiles` is about. `Integration`
has one command at a time per installation, by the lifecycle lock, and replaces
`acp.json` in one step, by `AtomicFile`; its part of `up` is over before the
part that `PodLifecycle` models begins.

### Correspondence with the code

`map` in `PROJECT.json` names the lines of every action and operator that
translates code. Those that stand for the program's surroundings (systemd's
jobs, clients, the provider's console) and small helpers (a jump of a program
counter, a set of steps) are mapped only in part. The conventions:

* `LifecycleLock`: `pc[p]` is the position in `lifecycle_lock`; `flock` is the
  kernel's holder (a kill releases it); `label` is the text of `runtime.lock`,
  with the truncate and the flush as steps of their own; `patience[p]` is the
  number of sleeps left before the deadline. `LOCK_UN` and the close of the file
  are two steps: a label whose flush has failed, or was interrupted, stays in
  the buffer (`pending`) and reaches the file with `Close`, without the lock.
  `late` is history: such a close has written since the file was last emptied.
* `AtomicFile`: `Write` may be short, `Fsync` makes contents durable, `Rename`
  changes the name in the cache only, `SyncDirectory` makes the name durable and
  `SkipDirectory` is the branch for file systems that cannot flush a directory.
  `Fails` is the exception path with its unlink. The litter a kill leaves as a
  temporary file is not modelled: nothing reads it.
* `PodLifecycle`: `pc` names the next external step of `up` or `down`; the five
  files are variables; `sel`, `snap`, `fresh`, `host`, `want` are the locals
  `pod['id']`, `pod['desiredStatus']`, the id returned by `create_pod`, the
  address in use and the fingerprint of the loaded settings. An exception is the
  operator `Throw`: `up` records the activation failure and ends; `down`
  collects it and goes on with the files. `Tick` is the deadline of the polling
  loop under way. `Kill` stands for `TimeoutStartSec`, a user's signal or a
  crash. A missing `ssh-keygen` in `down` raises OSError past its `except`,
  which is the same step. `tunnel` is the address the tunnel unit has read from
  `runtime.env`, or `Restarting` in the five seconds before systemd starts it
  again. Its ssh has the same `known_hosts` and `accept-new` as that of `up`, so
  `TunnelAccepts` adds the key of whatever Pod answers at `tunnel`. `strays` is
  history: the keys that only the tunnel's ssh has accepted; `Accepted` are the
  others. The four Boolean constants switch the faults on.
* `RemoteVllm`: a script is `pc[s]` with its settings `want[s]`; a signature is
  the settings it is the hash of. `BrokenPipe` is the end of a script whose ssh
  session is gone and whose next `echo` fails; the scripts outlive the session
  otherwise, so two can overlap when `Scripts` has two elements. `killed` are
  the servers that have got `kill -9` and are not gone yet: they answer nothing,
  but may keep memory and port while the script launches the next one.
  `unrecorded` is history: servers whose pid could not be written to `vllm.pid`,
  after which `set -e` ends the script.
* `Activation`: `proxy` is the state of the proxy unit, `step.proxy` the position
  of its `ExecStartPre` or `ExecStopPost`, `step.cli` that of `llm-down`, `at`
  that of `llm-up`. `jobs` are the systemd jobs a `systemctl` waits for, and
  `canceled` those that were replaced or failed. `failure` is the activation
  that wrote `runtime.activation-error`, which stands for its modification time.
  `pod` says that the selected Pod runs, `unsaved` and `spare` count running Pods
  between their `POST /pods` and `write_pod_id`: a first one, which the next
  selection finds by its name, and replacements of a selected one, which it does
  not. `unfinished` is history: replacements whose `up` has ended in between.
  `leftover` is history: an `up` has succeeded and could not remove the recorded
  failure. `fresh` says that one has been recorded since `llm-up` began.

* `Integration`: `pc[i]` is the position of an installation's command; `lock` is
  the kernel's holder of the flock; `copy[i]` is the parsed registry between its
  read and its write. A registry is the table `servers` and the two MCP
  defaults, which every registration sets together and which are therefore one
  value; the entry of an installation is the installation itself. `ReadEnds`
  has the three ways out that write nothing, among them the `KeyError` of a
  removal from an object without `agent_servers` (`opencode.py:182`).
* `UnitFiles`: a unit file is the settings it was rendered from, `None` or
  `Torn` (emptied by `write_text`, not yet filled). `unit[p]` is the position
  in the loop over `render_units`. `applied` and `suspect` are history: they say
  when the property speaks.

Definitions that begin with a comment "mutated ..." are faulty variants of the
definition after them. No specification uses them: they are there to confirm
that the property named in `PROJECT.json` notices the fault.

## 3. Runs

The longest runs (`pod_faults`, 2.3 million states, and `pod_ends`, with its
liveness) take less than two and a half minutes with two workers. Four of the
configurations have a VIEW that leaves out what no action and no property of the
run reads any more: in `ReadForTrust` the settings a Pod was requested with,
in `ReadForEnds` whose ssh has accepted a key, in both the status that a
selection has read, once it has been judged; in `ReadLater` what an `llm-up` that
has ended had printed, a canceled restart that nobody waits for, and whether it
was an error or an `llm-up` that spoils the claim of an `llm-down`.

| Run | Instance | Shows |
|---|---|---|
| `lock` | 2 processes, 2 operations, 2 retries | mutual exclusion, label names the running body (unless a close after `LOCK_UN` has written over it), only the holder changes the failure file, every wait runs down and ends |
| `lock_label` (violated) | 3 processes, 1 retry | see findings |
| `atomic_file` | 2 writers, 2 contents of 2 bytes, 4 inodes, 3 changes | never torn, an acknowledged write survives, `DurableFile` is implemented |
| `pod_faults` | 2 Pods, 2 settings, 2 addresses; kills, failed writes, lost replies, late creations, `runtime.pod-id` deleted by hand, the configured name changed | ssh is used only at the bound endpoint, and so is the tunnel while `up` verifies vLLM through it, although it restarts by itself; no key that `up` has accepted outside it; `EndpointTrust` is implemented; a clean `down` leaves no selected Pod, tunnel or `runtime.env` |
| `pod_resets` | 3 Pods, 2 settings, 1 address; `runtime.pod-id` deleted by hand, the configured name changed | an endpoint that is saved for a third Pod is neither used nor forgotten while that Pod may run |
| `pod_ends` | 2 Pods, 2 settings, 2 addresses; failed requests have no effect; fairness | no unselected Pod runs between operations; the saved endpoint is the selected Pod's; vLLM is prepared only on a Pod requested with the loaded settings; an operation goes back only when a Pod moves before the deadline, and ends |
| `pod_stale_spec` (violated) | 2 Pods; local faults | see findings |
| `vllm` | 1 script at a time, 3 settings of which two share a served name, 3 pids | the signature vouches for the healthy server; one server runs (apart from one that could not be recorded) |
| `vllm_overlap` (violated) | 2 scripts | see findings |
| `activation` | 1 client next to the curl of `llm-up`, 2 activations | a clean `llm-down` stays down; a proxy that is down leaves nothing running, and an idle Pod stops, unless an `up` was cut short in the middle of a replacement; no failure from before is printed, but for one left over by a successful `up` and printed when a restart fails |
| `integration` | 2 installations, 2 names, 2 versions of which one is listed, 3 builds, 1 edit by another; fairness | `AgentRegistry` is implemented; an entry changes only by the lock's holder of that name; the lock is given back; only the verified build replaces the executable; every command ends |
| `units` | 2 commands at a time, 2 settings, 2 unit files | after the documented procedure files, manager and listener have the settings as they are |

### Bounds, and why they are enough

* Lock: two processes give the race between the last refused attempt and the
  release; a third adds no new kind of wait, since a waiter sees only
  "taken". The label's divergence needs a third: the earlier holder, the new one
  and the one that gives up. The theorems hold for any number.
* `atomic_file`: two writers make a rename over another's rename, and three
  changes make an acknowledged one, a newer one and one in flight; two bytes
  make a torn content.
* `Pods`: every Pod is created at most once. Two let a replacement run next to
  the old Pod; a third lets the record be that of neither (`DropRefused`), which
  `pod_resets` is for. Two settings and two addresses make any "changed" and
  "changed back"; a Pod's address may be reused by another. Three Pods with
  every fault and two addresses are too many states for a run; the theorems
  hold for any number of each.
* `RemoteVllm`: three pids are the old server, the new one and one that the pid
  file names although it is dead; three settings are needed to have both a
  different signature under the same name and a different name. A pid is
  reused only when its process has gone.
* `activation`: two activations (`MaxInvocations`) are a stale one and a fresh
  one, which is what the monitor tells apart; `llm-up` and `llm-down` may run
  again and again. Each replacement that is cut short takes one activation off
  the bound: one of them, and another activation after it, are enough to see
  that its Pod is in nobody's reach. When the bound is reached a queued
  connection waits for ever, which the properties allow.
* `integration`: two installations make a lost update, a wait for the lock and
  an installation under another's; the one edit comes between any two of their
  steps. A spoiled download would run and report the right version, so only
  the checksum tells; the unlisted version cannot be installed. The theorems
  hold for any number of each, and of edits.
* `units`: a file before and one after any other; the third file adds no case,
  since nothing tells the second from the third. Two commands overlap; the
  settings change and change back. The theorems hold for any number of each.

Deadlock is checked in all runs.

### Fairness

* `PodLifecycle`: weak fairness of `Tick` (the clock reaches the deadline) and of
  `Proceeds`: outside the polling loops every command and request returns, with
  or without success (requests carry timeouts, and the unit's `TimeoutStartSec`
  ends the others); in a loop only the check of the deadline is sure to come.
  A poll may go on without an answer, without an error and without success
  until then: nothing is assumed of the provider, of ssh or of vLLM, and the
  two loops on one deadline end by it or not at all.
* `LifecycleLock`: weak fairness of the steps of a waiter, none of the holder:
  that is the point of the bounded retries.
* `Activation`: weak fairness of the end of `ExecStartPre` and `ExecStopPost`,
  which the lock's timeout, `TimeoutStartSec` and `TimeoutStopSec` bound
  (`UpLocks` or `UpGivesUp`, `DownLocks` or `DownGivesUp`: they take a free lock
  or are killed) and of the proxy's idle timer. Nothing is assumed of clients,
  of `llm-up`, of `llm-down` or of the activation itself.
* `Integration`: weak fairness of the steps of a command (downloads have
  timeouts, files answer) and strong fairness of `Acquire`: the kernel grants
  a blocking flock to its waiters in turn. Nothing is assumed of the IDE.

## 4. Findings

* `lock_label`: between the flock of a new holder and its truncate, the file
  still has the label of the previous operation; a process whose deadline passes
  then names the wrong operation in its message.
* `pod_stale_spec`: the id and the fingerprint of the selected Pod are two
  files. A kill between them pairs a new Pod with the fingerprint of other
  settings, and after the settings are changed back the next `up` accepts it.
* `vllm_overlap`: the script signs whatever answers under the served name; with
  two scripts alive it signs the other one's server.

Each is quoted with its lines in `PROJECT.json`.

Limits that no document denies, each of them in the models and named by the
property that stops short of it:

* When something fails, or `up` is killed, between the creation of a replacement
  and the write of its id (`runtime.py:312-314`), the new Pod runs while the old
  one stays selected, `down` stops only the old one, and a retry creates one
  more. `NoUnselectedPodRuns` is therefore checked and proved where no step on
  this machine fails, no reply is lost and no creation takes effect late;
  `NothingRunsWithoutProxy` and `IdlePodStops` except an `up` that ended there
  (`unfinished`).
* A label whose flush failed is written when the file is closed, after
  `LOCK_UN` (`state.py:143-145`), possibly over that of a new holder:
  `LabelNamesRunningBody` excepts this (`late`), and it is a second way to a
  message that names the wrong operation.
* The tunnel's ssh may restart from a `runtime.env` that is out of date, or still
  be connecting when `up` rotates or forgets the binding, and keep the key of an
  address that no record owns (`strays`). `KeysBelongToBinding` and
  `EndpointTrust` are about the keys that `up` has accepted. The consequence of a
  stray key is a refusal: a Pod that is later mapped to this address has another
  key, and `up` stops with a host key mismatch.
* After `kill -9` the remote script launches the next server without waiting
  (`ensure-vllm.sh:90-98`), and one whose pid cannot be written
  (`ensure-vllm.sh:115`) is known to no later script. `OneServer` counts servers
  that run and are on record; `SignatureVouchesForServer` excepts the latter.
* `clear_activation_failure` swallows an OSError (`state.py:224-228`). When a
  restart has failed, `llm-up` prints whatever is recorded (`cli.py:308`), which may
  then be a failure from before; `FailureIsFresh` excepts this (`leftover`).

That `llm-up` and `llm-down` at the same time may leave the runtime up is
documented (`docs/architecture.md:81`, TEST-GAP-001 in `CONTRIBUTING.md:76`).
`DownStaysDown` therefore speaks of an `llm-down` during which no `llm-up` has
started a unit; every other interleaving is included.

`SettingsApplied` speaks of the procedure that `docs/configuration.md`
("Applying changes") gives: `llm-down`, edit, `llm-install` or `llm-up`. Outside
it the property would not hold, and the model has the behaviours: a command
that is killed between a write and the `daemon-reload` beside a socket that is
active leaves files that match and units that do not, which a later
`ensure_socket` accepts, since it compares files and asks only whether the
socket is active; so does a `daemon-reload` that reads another command's
half-written file when that other is then killed; and a new session between the
edit and `llm-install` starts an enabled socket with the old settings, which
`enable --now` leaves as it is. `suspect` marks these histories until the next
`llm-down` during which nothing else runs.

## 5. Proofs

The theorems hold for any processes, Pods, settings, addresses, installations
and faults, unless the statement names an assumption; besides that they use only
the assumptions on the constants that the modules name.

* **`LifecycleLockProofs`.** `MutualExclusion` is not inductive: that a process
  is past flock says nothing of the kernel's state. `LockInv` adds `FlockInv`
  (a process is past flock exactly when the kernel says it holds the lock) and
  `PatienceInv` (a process sleeps only before its deadline), with the label and
  the types. `LockInvariant` proves it by the actions of the retry loop
  (`WaitStepSafe`) and of the holder (`HoldStepSafe`); `TypeCorrect`,
  `Exclusion`, `LabelOfBody` and the action property `FailureFromHolder` follow.
  `WaitIsBounded` is what `BoundedWait` rests on, for any number of retries:
  until a process holds the lock, each of its steps leaves it fewer `Tries`.
  `LabelOfBody` has the exception of a late close (`late`).
* **`AtomicFileProofs`.** `EntryInv` (what the name stands for is whole and on
  disk, and is nobody's temporary file), `TempInv` (a temporary file has one
  owner) and `AckInv` (no more is acknowledged than is durable) give
  `TypeCorrect` and `AcknowledgedDurable`. By `Mapped`, what readers see and what
  a power loss may leave are then functions of the entries, all of them whole:
  `NeverTorn`. `DurableRefinement` maps a rename to
  `Replace` (or a stutter, for the same content), a power loss to `PowerLoss`
  and every other call to a stutter.
* **`PodLifecycleProofs`.**
  * `PolicyKeepsKeys`: `EndpointTrust` by itself keeps known hosts within the
    bound endpoint.
  * `TypeCorrect` and `SshBinding` rest on `ControlInv`: which locals are Pods at
    which step, that `sel` is the persisted Pod from its selection on, where a
    forgetting returns to, and what the endpoint file holds at the steps that
    rely on it. There is one lemma per group of actions, with one step per
    action.
  * `TrustRefinement` (every behaviour implements `EndpointTrust`) needs more:
    `TrustInv` adds that a Pod the program has met was created (`SeenInv`: a
    replacement cannot reuse its id), that a key is gone before its binding
    changes (`KeyInv`), and that what up and down took for stopped does not run
    (`NotRunningInv`, which is what makes forgetting legal). `TrustStep` maps
    every action to one action of the policy or to a stutter; a key that the
    tunnel's ssh adds is a stray one, and a stutter. `KeysFollowBinding` follows
    from the same invariant.
  * `EndpointOrder`: without `Resets`, the saved endpoint is always that of the
    selected Pod. Its invariant `OrderInv` is the order in which the two files
    are written and removed.
* **`PodOutcomeProofs`**, on the invariants above.
  * `TunnelBinding`: while `up` verifies vLLM, under every fault and restart of
    the tunnel. `TunnelInv` says that `runtime.env` is the address in use once it
    is written, and that the key there is one that `up` has accepted.
  * `DownStops`: under every fault. `DownInv` is what a `down` without errors has
    achieved by each step.
  * `SettingsMatch`: without kills, failed local writes, late creations and
    `Resets` (with local faults it is false: `pod_stale_spec`), but with lost
    replies. `SettingsInv` follows who vouches for the settings of the Pod at
    hand: the file, the request that has just been made, or the reconciliation.
  * `OnlySelectedRuns`: without any of the faults of this machine and lost
    replies (with them it is false, see above). `RunningInv` says which Pod may
    run at each step.
  * `Progress`: the action property `OnlyMovesGoBack`, under every fault. `Ahead`
    ranks the steps of `up` and `down`, with the detours through a forgetting;
    every step of an operation lowers it, but for the answer of a Pod that has
    moved, which leads back only while the deadline has not passed. With the
    fairness stated above this is why `OperationEnds` holds.
* **`RemoteVllmProofs`.** `TypeCorrect` for any number of scripts. For one script
  at a time (with two it is false: `vllm_overlap`) `ServerInv` follows the pid
  file and the signature through stop, launch, recording and signing, which
  gives `SignatureVouches` and `NeverTwoServers`, both about servers on record.
* **`ActivationProofs`.** `TypeCorrect`; `StopPostStops` from what
  `ExecStopPost` has achieved by each step (`StopPostInv`), where `UpPodEffect`
  and `DownPodEffect` say which Pods a selection, a creation and a stop leave;
  `DownLasts` from what `llm-down` has stopped, or asked systemd to stop, by each
  step (`LlmDownInv`); the action property `ShownIsFresh` from how old a recorded
  failure can be at each step of the monitor (`FreshInv`).
* **`IntegrationProofs`.** `Inv` adds to the types who holds the lock
  (`LockIsGivenBack`), what a command has loaded (`LoadedInv`) and what it has
  verified (`StagedInv`). `LockReturns` and `VerifiedReplacement` follow, and
  `RegistryRefinement`, which needs the lock: only its holder has a copy, so an
  update starts from the registry of that moment or from before an edit by
  somebody else. `AgentRegistry` alone does not say who changes an entry;
  `OwnEntryOnly` does, as long as nobody has edited the file by hand. It rests on
  `CopyInv`: what a writer has read is still what the file says.
* **`UnitFilesProofs`.** `SettingsApplied` speaks of the moments when no command
  runs. `SettingsInv`, the invariant behind it, says for every moment, unless the
  history is `suspect`, who will repair what is not as the settings say. What
  a command works with are the settings (`WantInv`). A unit file that somebody
  has compared or written is as they say, or in the hand of another process: an
  installer in the middle of a write, or a removal, which meets the others at
  its end (`FileInv`). The manager cannot start a socket with older ones
  (`LoadedInv`), and none listens with them (`ListeningInv`). When nobody has a
  reload ahead, and the socket is up or about to be, the manager has read the
  files as they are (`ManagerInv`). What is `applied` is in the files when no
  command runs (`AppliedInv`). `SettingsReachUnits` follows, for any number of
  overlapping commands, files and settings, with `TypeCorrect`.

Every invariant and every action property of the passing runs is proved, and so
are the refinements of `AtomicFile`, `PodLifecycle` and `Integration` to their
abstract modules. Only model-checked is liveness (`BoundedWait`, `OperationEnds`,
`IdlePodStops`, `CommandEnds`): it needs ENABLED and fairness, which the prover
does not reach. The safe half of each is proved: a wait runs down
(`WaitIsBounded`), an operation moves on (`Progress`), a proxy unit that is down
has stopped its Pod (`StopPostStops`), and the lock on `acp.json` is with
somebody who is about to give it back (`LockReturns`).

## 6. What is not modelled

* Configuration parsing, model profiles, HTTP and JSON validation, output and
  formatting: sequential and pure. Settings appear as fingerprints.
* Status and doctor: they change nothing and decide nothing.
* `docker/`: build files and a launcher that ends in `exec`.
* In `PodLifecycle`: a stranger at an address that a Pod has given up. All Pods
  carry the configured name, except with `Resets`, where the name of an operation
  may match any of them; the console ends Pods but does not start them.
* In `Activation`: systemd's start limit, a second `llm-up` or `llm-down` at the
  same time, and a creation that takes effect after `up` has failed
  (`PodLifecycle` has it as `LateEffect`). `RUNPOD_POD_NAME` does not change, and
  only the selected Pod may end by itself. The tunnel is started or stopped;
  its restarts, the address it reads and the keys it accepts are in
  `PodLifecycle`.
* In `Integration`: `create_config` (one atomic write) and `launch` (starts
  `llm-up`, executes OpenCode); the format of archives, which is one of the
  refusals (`Raises`); temporary files that a kill leaves; a power loss after the
  rename of the executable, which is not flushed (the next installation compares
  versions and installs again).
* In `UnitFiles`: the content of the units beyond the settings it depends on,
  and the lifecycle lock, which only `llm-install` takes of the commands here.
* Durations. Every timeout may come at any step at which it is armed.

## 7. What would come next

1. Two `llm-up` at the same time in `Activation`, and its composition with
   `UnitFiles`: today the first starts from what the second establishes.
2. The snapshot that `llm-status` takes of moving units, once there is a
   statement of what it should promise.
