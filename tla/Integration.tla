------------------------------ MODULE Integration ------------------------------
(***************************************************************************)
(* How an installation of llm-coding puts itself into the user's home, in  *)
(* two files that it shares with others: the OpenCode executable, which    *)
(* opencode.ensure_installed downloads, verifies and renames into place,   *)
(* and the JetBrains registry ~/.jetbrains/acp.json, which                 *)
(* ensure_acp_registration and remove_acp_registration read, change and    *)
(* replace under a lock of its own.  runtime.install does the first and    *)
(* the second, runtime.up and remove_integration the second.  The          *)
(* lifecycle lock (module LifecycleLock) leaves each installation one such *)
(* command at a time; other installations, the IDE and the user come       *)
(* between any two steps, and a command may be killed at any.              *)
(***************************************************************************)
EXTENDS Naturals

CONSTANTS
    Installations,   \* each stands for the entry it registers, too
    Agents,          \* names an entry may have (JETBRAINS_AGENT_NAME)
    Versions,        \* of OpenCode that a configuration may ask for
    Builds,          \* contents an archive or the executable may have
    Pinned,          \* Pinned[v]: the build whose hash is listed, or None
    Reports,         \* Reports[b]: what --version prints; None: it does not run
    Foreign,         \* an entry of somebody else
    Absent, Broken,  \* acp.json is missing; is not JSON, or not of this form
    Bare,            \* an object without agent_servers
    None,
    MaxEdits         \* bound: changes by the IDE and the user

Entries == Installations \union {Foreign}
Servers == [Agents -> Entries \union {None}]
Registries == [servers : Servers, mcp : Entries \union {None}]
Objects == [servers : Servers \union {Bare}, mcp : Entries \union {None}]

ASSUME ConstantsAssumption ==
    /\ None \notin Entries /\ Foreign \notin Installations
    /\ None \notin Builds /\ None \notin Installations
    /\ Absent \notin Objects /\ Broken \notin Objects /\ Absent # Broken
    /\ Broken \notin Registries /\ Bare \notin Servers
    /\ Pinned \in [Versions -> Builds \union {None}]
    /\ Reports \in [Builds -> Versions \union {None}]
    /\ MaxEdits \in Nat

VARIABLES
    file,            \* ~/.jetbrains/acp.json
    lock,            \* holder of the flock on .acp.json.llm-coding.lock, or None
    binary,          \* ~/.opencode/bin/opencode
    edits,           \* changes by the IDE and the user so far
    pc, op,          \* the step of each installation and what it does to acp.json
    agent, want,     \* the settings it has loaded: name and OpenCode version
    archive,         \* what it has downloaded
    copy             \* the registry it has read

locals == <<op, agent, want, archive, copy>>
vars == <<file, lock, binary, edits, pc, locals>>

InstallSteps == {"check", "download", "checksum", "run", "replace"}
HoldingSteps == {"read", "write", "unlock"}

TypeOK ==
    /\ file \in Objects \union {Absent, Broken}
    /\ lock \in Installations \union {None}
    /\ binary \in Builds \union {None}
    /\ edits \in 0 .. MaxEdits
    /\ pc \in [Installations -> {"idle", "lock"} \union InstallSteps \union HoldingSteps]
    /\ op \in [Installations -> {"none", "register", "remove"}]
    /\ agent \in [Installations -> Agents \union {None}]
    /\ want \in [Installations -> Versions \union {None}]
    /\ archive \in [Installations -> Builds \union {None}]
    /\ copy \in [Installations -> Registries \union {None}]

Init ==
    /\ file = Absent /\ lock = None /\ binary = None /\ edits = 0
    /\ pc = [i \in Installations |-> "idle"]
    /\ op = [i \in Installations |-> "none"]
    /\ agent = [i \in Installations |-> None]
    /\ want = [i \in Installations |-> None]
    /\ archive = [i \in Installations |-> None]
    /\ copy = [i \in Installations |-> None]

Goto(i, step) == pc' = [pc EXCEPT ![i] = step] /\ UNCHANGED locals

\* the command is over, or at least its part in this module
Leave(i) ==
    /\ pc' = [pc EXCEPT ![i] = "idle"]
    /\ op' = [op EXCEPT ![i] = "none"]
    /\ agent' = [agent EXCEPT ![i] = None]
    /\ want' = [want EXCEPT ![i] = None]
    /\ archive' = [archive EXCEPT ![i] = None]
    /\ copy' = [copy EXCEPT ![i] = None]

\* the parsed object, with the defaults that ensure_acp_registration sets
Parsed(content) ==
    IF content = Absent
    THEN [servers |-> [a \in Agents |-> None], mcp |-> None]
    ELSE IF content.servers = Bare
         THEN [content EXCEPT !.servers = [a \in Agents |-> None]]
         ELSE content

\* each command loads the settings of its moment, before it takes a lock
BeginInstall(i) ==
    /\ pc[i] = "idle"
    /\ \E a \in Agents : agent' = [agent EXCEPT ![i] = a]
    /\ \E v \in Versions : want' = [want EXCEPT ![i] = v]
    /\ op' = [op EXCEPT ![i] = "register"]
    /\ pc' = [pc EXCEPT ![i] = "check"]
    /\ UNCHANGED <<file, lock, binary, edits, archive, copy>>

\* runtime.up before anything else, and remove_integration
BeginRegistration(i) ==
    /\ pc[i] = "idle"
    /\ \E a \in Agents : agent' = [agent EXCEPT ![i] = a]
    /\ \E o \in {"register", "remove"} : op' = [op EXCEPT ![i] = o]
    /\ pc' = [pc EXCEPT ![i] = "lock"]
    /\ UNCHANGED <<file, lock, binary, edits, want, archive, copy>>
-----------------------------------------------------------------------------
(* ensure_installed.                                                       *)

\* ensure_installed returns, ensure_acp_registration is called
Installed(i) ==
    /\ pc' = [pc EXCEPT ![i] = "lock"]
    /\ want' = [want EXCEPT ![i] = None]
    /\ archive' = [archive EXCEPT ![i] = None]
    /\ UNCHANGED <<op, agent, copy>>

\* the installed executable reports the configured version
Current(i) == binary # None /\ Reports[binary] = want[i]

CheckCurrent(i) ==
    /\ pc[i] = "check"
    /\ Current(i)
    /\ Installed(i)
    /\ UNCHANGED <<file, lock, binary, edits>>

\* another one, and the configured version is listed for this platform
CheckOther(i) ==
    /\ pc[i] = "check"
    /\ ~Current(i)
    /\ Pinned[want[i]] # None
    /\ Goto(i, "download")
    /\ UNCHANGED <<file, lock, binary, edits>>

\* whatever the server sends, into a file of its own
Download(i) ==
    /\ pc[i] = "download"
    /\ \E b \in Builds : archive' = [archive EXCEPT ![i] = b]
    /\ pc' = [pc EXCEPT ![i] = "checksum"]
    /\ UNCHANGED <<file, lock, binary, edits, op, agent, want, copy>>

\* mutated Checksum: only the length of the download is checked
ChecksumSkipped(i) ==
    /\ pc[i] = "checksum"
    /\ Goto(i, "run")
    /\ UNCHANGED <<file, lock, binary, edits>>

Checksum(i) ==
    /\ pc[i] = "checksum"
    /\ archive[i] = Pinned[want[i]]
    /\ Goto(i, "run")
    /\ UNCHANGED <<file, lock, binary, edits>>

\* extraction into a second file of its own, which has to run and to report
\* the configured version
RunStaged(i) ==
    /\ pc[i] = "run"
    /\ Reports[archive[i]] = want[i]
    /\ Goto(i, "replace")
    /\ UNCHANGED <<file, lock, binary, edits>>

Replace(i) ==
    /\ pc[i] = "replace"
    /\ binary' = archive[i]
    /\ Installed(i)
    /\ UNCHANGED <<file, lock, edits>>

\* a refusal, an error of the network or of the file system: the files of its
\* own go, the command ends
Raises(i) ==
    /\ pc[i] \in InstallSteps
    /\ Leave(i)
    /\ UNCHANGED <<file, lock, binary, edits>>
-----------------------------------------------------------------------------
(* ensure_acp_registration and remove_acp_registration.                    *)

\* the lock file cannot be opened
LockFails(i) ==
    /\ pc[i] = "lock"
    /\ Leave(i)
    /\ UNCHANGED <<file, lock, binary, edits>>

\* mutated Acquire: a shared lock
AcquireShared(i) ==
    /\ pc[i] = "lock"
    /\ lock' = i
    /\ Goto(i, "read")
    /\ UNCHANGED <<file, binary, edits>>

Acquire(i) ==
    /\ pc[i] = "lock"
    /\ lock = None
    /\ lock' = i
    /\ Goto(i, "read")
    /\ UNCHANGED <<file, binary, edits>>

\* a removal goes by the name alone
Removable(i) ==
    /\ file \notin {Absent, Broken} /\ file.servers # Bare
    /\ file.servers[agent[i]] # None

\* mutated Read: the sections that are missing are not filled in
ReadAsIs(i) ==
    /\ pc[i] = "read"
    /\ file # Broken
    /\ op[i] = "remove" => Removable(i)
    /\ copy' = [copy EXCEPT ![i] = file]
    /\ pc' = [pc EXCEPT ![i] = "write"]
    /\ UNCHANGED <<file, lock, binary, edits, op, agent, want, archive>>

Read(i) ==
    /\ pc[i] = "read"
    /\ file # Broken
    /\ op[i] = "remove" => Removable(i)
    /\ copy' = [copy EXCEPT ![i] = Parsed(file)]
    /\ pc' = [pc EXCEPT ![i] = "write"]
    /\ UNCHANGED <<file, lock, binary, edits, op, agent, want, archive>>

\* mutated ReadEnds: a refused content leaves without the unlock
ReadEndsHolding(i) ==
    /\ pc[i] = "read"
    /\ file = Broken
    /\ Leave(i)
    /\ UNCHANGED <<file, lock, binary, edits>>

\* a content that is refused, a removal that finds nothing to remove, or, when
\* there is no agent_servers to remove from, KeyError
ReadEnds(i) ==
    /\ pc[i] = "read"
    /\ file = Broken \/ (op[i] = "remove" /\ ~Removable(i))
    /\ Goto(i, "unlock")
    /\ UNCHANGED <<file, lock, binary, edits>>

\* the file cannot be read or replaced
AccessFails(i) ==
    /\ pc[i] \in {"read", "write"}
    /\ Goto(i, "unlock")
    /\ UNCHANGED <<file, lock, binary, edits>>

\* the copy with the one change
Updated(i) ==
    IF op[i] = "remove"
    THEN [copy[i] EXCEPT !.servers[agent[i]] = None]
    ELSE [servers |-> [copy[i].servers EXCEPT ![agent[i]] = i], mcp |-> i]

\* the file is replaced in one step (module AtomicFile), even when flushing
\* the directory raises afterwards
Write(i) ==
    /\ pc[i] = "write"
    /\ file' = Updated(i)
    /\ Goto(i, "unlock")
    /\ UNCHANGED <<lock, binary, edits>>

\* every way out closes the descriptor
Unlock(i) ==
    /\ pc[i] = "unlock"
    /\ lock' = None
    /\ Leave(i)
    /\ UNCHANGED <<file, binary, edits>>

Kill(i) ==
    /\ pc[i] # "idle"
    /\ lock' = IF lock = i THEN None ELSE lock
    /\ Leave(i)
    /\ UNCHANGED <<file, binary, edits>>
-----------------------------------------------------------------------------
(* The IDE and the user, who take no lock.                                 *)

EditRegistry ==
    /\ edits < MaxEdits
    /\ edits' = edits + 1
    /\ \/ file' \in {Absent, Broken, [servers |-> Bare, mcp |-> None]}
       \/ /\ file # Broken
          /\ \E a \in Agents, e \in {Foreign, None} :
                file' = [Parsed(file) EXCEPT !.servers[a] = e]
    /\ UNCHANGED <<lock, binary, pc, locals>>

\* OpenCode replaced by something else, or removed
EditBinary ==
    /\ edits < MaxEdits
    /\ edits' = edits + 1
    /\ binary' \in {b \in Builds : Reports[b] = None} \union {None}
    /\ UNCHANGED <<file, lock, pc, locals>>
-----------------------------------------------------------------------------
Installing(i) == CheckCurrent(i) \/ CheckOther(i) \/ Download(i) \/ Checksum(i)
                    \/ RunStaged(i) \/ Replace(i) \/ Raises(i)
Registering(i) == Read(i) \/ ReadEnds(i) \/ AccessFails(i) \/ Write(i) \/ Unlock(i)

Next == \/ \E i \in Installations :
            \/ BeginInstall(i) \/ BeginRegistration(i)
            \/ Installing(i) \/ LockFails(i) \/ Acquire(i) \/ Registering(i) \/ Kill(i)
        \/ EditRegistry \/ EditBinary

Spec == Init /\ [][Next]_vars

\* Requests and commands return; the kernel grants the flock in turn.
FairSpec ==
    Spec /\ \A i \in Installations :
                /\ WF_vars(Installing(i) \/ Registering(i))
                /\ SF_vars(Acquire(i))
-----------------------------------------------------------------------------
\* ensure_installed "Securely install": the executable changes, but for the
\* user, only to the listed build of a configured version that has run and
\* reported it, whatever was downloaded and whoever installs at the same time.
OnlyVerifiedReplaces ==
    [][edits' = edits /\ binary' # binary =>
        \E i \in Installations :
            /\ want[i] \in Versions
            /\ binary' = Pinned[want[i]] /\ Reports[binary'] = want[i]]_vars

\* _acp_configuration_lock: the lock is held by exactly the installation that is
\* between taking it and letting it go; no way out, no refused content and no
\* kill leaves it with somebody who does not give it back.
LockIsGivenBack ==
    \A i \in Installations : lock = i <=> pc[i] \in HoldingSteps

\* _acp_configuration_lock is let go on every way out, so no installation
\* waits for ever: a lock that is taken has no time limit here.
CommandEnds == \A i \in Installations : pc[i] # "idle" ~> pc[i] = "idle"

View(content) == IF content = Broken THEN Broken ELSE Parsed(content)

\* ensure_acp_registration "preserving unrelated agents": until somebody edits
\* the file by hand, an entry changes only by the installation that holds the
\* lock and goes by that name, and to what this one has asked for, however the
\* commands of several installations mix.
OnlyOwnEntryChanges ==
    [][edits' = 0 =>
        \A a \in Agents : View(file)'.servers[a] # View(file).servers[a] =>
            \E i \in Installations :
                /\ lock = i /\ agent[i] = a
                /\ View(file)'.servers[a] = IF op[i] = "remove" THEN None ELSE i]_vars

Registry == INSTANCE AgentRegistry WITH
                Unreadable <- Broken,
                registry <- View(file),
                base <- {View(file)} \union {copy[i] : i \in {j \in Installations : pc[j] = "write"}}

\* acp.json keeps what AgentRegistry promises: "preserving unrelated agents"
\* and never undoing the update of another installation.
ImplementsRegistry == Registry!Spec
=============================================================================
