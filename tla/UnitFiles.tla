------------------------------- MODULE UnitFiles -------------------------------
(***************************************************************************)
(* How the user's settings get into the systemd units.  systemd.install    *)
(* writes the unit files one after the other, in place, reloads the        *)
(* manager and starts the socket; systemd.ensure_socket, at the beginning  *)
(* of every llm-up, does the same when a file differs or the socket is not *)
(* active; llm-down stops the socket and uninstall.sh removes everything.  *)
(* runtime.install holds the lifecycle lock, llm-up does not: commands     *)
(* overlap, fail and are killed between any two steps, and the user edits  *)
(* the settings.  What the units do once they are loaded is module         *)
(* Activation.                                                             *)
(***************************************************************************)
EXTENDS Naturals

CONSTANTS
    Processes,       \* that run llm-up, llm-install or uninstall.sh
    Settings,        \* contents of config.env that make a difference to a unit
    UnitCount,       \* unit files in the order of render_units, the socket first
    None,            \* no file, no listener, no settings loaded
    Torn             \* a file that has been emptied and not yet written

Units == 1 .. UnitCount
Socket == 1
Contents == Settings \union {None, Torn}

ASSUME ConstantsAssumption ==
    /\ UnitCount \in Nat \ {0}
    /\ None \notin Settings /\ Torn \notin Settings /\ None # Torn

VARIABLES
    config,          \* the settings as they are
    file,            \* the unit files
    loaded,          \* what the manager has read of them
    listening,       \* the settings the active socket was started with, or None
    enabled,         \* the socket starts with the user's session
    pc,              \* the step of each command
    want,            \* the settings it has loaded
    unit,            \* the unit file it is at
    applied,         \* history: the last command to end has returned normally
    suspect          \* history: since the last quiet llm-down the settings were
                     \* edited or a command cut short beside running units or commands

manager == <<loaded, listening, enabled>>
commands == <<pc, want, unit>>
history == <<applied, suspect>>
vars == <<config, file, manager, commands, history>>

TypeOK ==
    /\ config \in Settings
    /\ file \in [Units -> Contents] /\ loaded \in [Units -> Contents]
    /\ listening \in Settings \union {None} /\ enabled \in BOOLEAN
    /\ pc \in [Processes -> {"idle", "compare", "isActive", "open", "fill", "reload",
                             "enable", "start", "disable", "remove", "forget"}]
    /\ want \in [Processes -> Settings \union {None}]
    /\ unit \in [Processes -> Units]
    /\ applied \in BOOLEAN /\ suspect \in BOOLEAN

Init ==
    /\ config \in Settings
    /\ file = [u \in Units |-> None] /\ loaded = [u \in Units |-> None]
    /\ listening = None /\ enabled = FALSE
    /\ pc = [p \in Processes |-> "idle"]
    /\ want = [p \in Processes |-> None]
    /\ unit = [p \in Processes |-> Socket]
    /\ applied = FALSE /\ suspect = FALSE

Quiet == \A p \in Processes : pc[p] = "idle"
Alone(p) == \A q \in Processes \ {p} : pc[q] = "idle"

At(p, step, u) ==
    /\ pc' = [pc EXCEPT ![p] = step]
    /\ unit' = [unit EXCEPT ![p] = u]
    /\ UNCHANGED want

Leave(p) ==
    /\ pc' = [pc EXCEPT ![p] = "idle"]
    /\ want' = [want EXCEPT ![p] = None]
    /\ unit' = [unit EXCEPT ![p] = Socket]

\* the settings are loaded first: llm-up compares, llm-install writes
Begin(p) ==
    /\ pc[p] = "idle"
    /\ want' = [want EXCEPT ![p] = config]
    /\ \E step \in {"compare", "open"} : pc' = [pc EXCEPT ![p] = step]
    /\ UNCHANGED <<config, file, manager, unit, history>>
-----------------------------------------------------------------------------
(* ensure_socket.                                                          *)

\* the file at hand is missing or other than rendered: install
Differs(p) ==
    /\ pc[p] = "compare"
    /\ file[unit[p]] # want[p]
    /\ At(p, "open", Socket)
    /\ UNCHANGED <<config, file, manager, history>>

\* mutated Same: the comparison goes on past the last file
SameForEver(p) ==
    /\ pc[p] = "compare"
    /\ file[unit[p]] = want[p]
    /\ At(p, "compare", unit[p] + 1)
    /\ UNCHANGED <<config, file, manager, history>>

Same(p) ==
    /\ pc[p] = "compare"
    /\ file[unit[p]] = want[p]
    /\ IF unit[p] < UnitCount THEN At(p, "compare", unit[p] + 1)
                              ELSE At(p, "isActive", Socket)
    /\ UNCHANGED <<config, file, manager, history>>

\* mutated IsInactive: files that match are not written and loaded again
IsInactiveStarts(p) ==
    /\ pc[p] = "isActive"
    /\ listening = None
    /\ At(p, "enable", Socket)
    /\ UNCHANGED <<config, file, manager, history>>

\* systemctl is-active fails: install
IsInactive(p) ==
    /\ pc[p] = "isActive"
    /\ listening = None
    /\ At(p, "open", Socket)
    /\ UNCHANGED <<config, file, manager, history>>

IsActive(p) ==
    /\ pc[p] = "isActive"
    /\ listening # None
    /\ Leave(p)
    /\ applied' = TRUE
    /\ UNCHANGED <<config, file, manager, suspect>>
-----------------------------------------------------------------------------
(* install.                                                                *)

\* Path.write_text empties the file, then writes it
Open(p) ==
    /\ pc[p] = "open"
    /\ file' = [file EXCEPT ![unit[p]] = Torn]
    /\ At(p, "fill", unit[p])
    /\ UNCHANGED <<config, manager, history>>

Fill(p) ==
    /\ pc[p] = "fill"
    /\ file' = [file EXCEPT ![unit[p]] = want[p]]
    /\ IF unit[p] < UnitCount THEN At(p, "open", unit[p] + 1) ELSE At(p, "reload", Socket)
    /\ UNCHANGED <<config, manager, history>>

\* systemctl daemon-reload, and reset-failed
Reload(p) ==
    /\ pc[p] = "reload"
    /\ loaded' = file
    /\ At(p, "enable", Socket)
    /\ UNCHANGED <<config, file, listening, enabled, history>>

\* the first half of enable --now, which may reload once more
Enable(p) ==
    /\ pc[p] = "enable"
    /\ enabled' = TRUE
    /\ loaded' \in {loaded, file}
    /\ At(p, "start", Socket)
    /\ UNCHANGED <<config, file, listening, history>>

\* the second half starts a socket that is not active
Start(p) ==
    /\ pc[p] = "start"
    /\ \/ listening # None /\ UNCHANGED listening
       \/ listening = None /\ loaded[Socket] \in Settings /\ listening' = loaded[Socket]
    /\ Leave(p)
    /\ applied' = TRUE
    /\ UNCHANGED <<config, file, loaded, enabled, suspect>>

\* the manager has read a socket unit that it cannot start
StartRefused(p) ==
    /\ pc[p] = "start"
    /\ listening = None /\ loaded[Socket] \notin Settings
    /\ Leave(p)
    /\ applied' = FALSE
    /\ UNCHANGED <<config, file, manager, suspect>>

\* a kill, or a file or systemctl that fails
CutShort(p) ==
    /\ pc[p] # "idle"
    /\ Leave(p)
    /\ applied' = FALSE
    /\ suspect' = (suspect \/ listening # None \/ ~Alone(p))
    /\ UNCHANGED <<config, file, manager>>
-----------------------------------------------------------------------------
(* llm-down, uninstall.sh, the session and the user.                       *)

\* llm-down stops the socket; the proxy is gone as well before it returns
Down ==
    /\ listening' = None
    /\ applied' = FALSE
    /\ suspect' = (suspect /\ ~Quiet)
    /\ UNCHANGED <<config, file, loaded, enabled, commands>>

BeginUninstall(p) ==
    /\ pc[p] = "idle"
    /\ At(p, "disable", Socket)
    /\ UNCHANGED <<config, file, manager, history>>

\* disable --now, whose failure is not looked at
Disable(p) ==
    /\ pc[p] = "disable"
    /\ \/ enabled' = FALSE /\ listening' = None
       \/ UNCHANGED <<enabled, listening>>
    /\ At(p, "remove", Socket)
    /\ UNCHANGED <<config, file, loaded, history>>

\* rm -f of the unit files, then the entry points
Remove(p) ==
    /\ pc[p] = "remove"
    /\ file' = [file EXCEPT ![unit[p]] = None]
    /\ IF unit[p] < UnitCount THEN At(p, "remove", unit[p] + 1) ELSE At(p, "forget", Socket)
    /\ UNCHANGED <<config, manager, history>>

\* daemon-reload
Forget(p) ==
    /\ pc[p] = "forget"
    /\ loaded' = file
    /\ Leave(p)
    /\ applied' = FALSE
    /\ suspect' = (suspect \/ ~Alone(p))
    /\ UNCHANGED <<config, file, listening, enabled>>

\* The user's session ends and another begins: the manager reads the files
\* anew and starts the socket if it is enabled.
Login ==
    /\ Quiet
    /\ loaded' = file
    /\ listening' = IF enabled /\ file[Socket] \in Settings THEN file[Socket] ELSE None
    /\ suspect' = (suspect \/ listening' \notin {None, config})
    /\ UNCHANGED <<config, file, enabled, commands, applied>>

Edit ==
    /\ config' \in Settings \ {config}
    /\ applied' = FALSE
    /\ suspect' = (suspect \/ listening # None \/ ~Quiet)
    /\ UNCHANGED <<file, manager, commands>>
-----------------------------------------------------------------------------
Ensuring(p) == Differs(p) \/ Same(p) \/ IsInactive(p) \/ IsActive(p)
Installing(p) == Open(p) \/ Fill(p) \/ Reload(p) \/ Enable(p) \/ Start(p) \/ StartRefused(p)
Uninstalling(p) == BeginUninstall(p) \/ Disable(p) \/ Remove(p) \/ Forget(p)

Next == \/ \E p \in Processes :
            Begin(p) \/ Ensuring(p) \/ Installing(p) \/ Uninstalling(p) \/ CutShort(p)
        \/ Down \/ Login \/ Edit

Spec == Init /\ [][Next]_vars
-----------------------------------------------------------------------------
\* docs "Applying changes", ensure_socket: after a quiet llm-down, whatever
\* happened before it, and an edit, llm-install or llm-up leaves the files, the
\* manager and the listener with the settings as they are; also when several
\* of them overlap, when one that ran alone is killed and started again, and
\* across sessions.
SettingsApplied ==
    Quiet /\ applied /\ ~suspect /\ listening # None =>
        /\ \A u \in Units : file[u] = config /\ loaded[u] = config
        /\ listening = config
=============================================================================
