---------------------------- MODULE UnitFilesProofs ----------------------------
(***************************************************************************)
(* Proofs about UnitFiles, for any number of processes, settings and unit  *)
(* files: type correctness, and that after a quiet llm-down a command that *)
(* returns has left the settings as they are everywhere.                   *)
(***************************************************************************)
EXTENDS UnitFiles, TLAPS

Loading == {"compare", "isActive", "open", "fill", "reload", "enable", "start"}

\* the process does not look at unit file u again: it has compared or written it
Past(p, u) == \/ pc[p] \in {"compare", "open", "fill"} /\ u < unit[p]
              \/ pc[p] \in {"isActive", "reload", "enable", "start"}

\* Unit file u may be wrong for now: an installer is writing it, or a removal
\* that has been there will meet the others at its end.
InHand(u) == \E q \in Processes :
                \/ pc[q] = "fill" /\ unit[q] = u
                \/ pc[q] = "remove" /\ u < unit[q]
                \/ pc[q] = "forget"

\* the process has a daemon-reload ahead, after files it changes
Dirty(p) == pc[p] \in {"open", "fill", "reload", "remove", "forget"}

IdleInv == \A p \in Processes : pc[p] = "idle" => unit[p] = Socket

\* nobody works with settings that have been edited since
WantInv == \A p \in Processes : pc[p] \in Loading => want[p] = config

FileInv ==
    \A p \in Processes, u \in Units : Past(p, u) =>
        /\ file[u] \in {config, Torn, None}
        /\ file[u] = config \/ InHand(u)

\* the manager cannot start a socket with old settings
LoadedInv ==
    \A p \in Processes, u \in Units :
        pc[p] \in {"enable", "start"} => loaded[u] \in {config, Torn, None}

ListeningInv == listening \in {None, config}

\* between its reload and its end no installer is overtaken unnoticed
ManagerInv ==
    (\A p \in Processes : ~Dirty(p))
        /\ (listening # None \/ \E p \in Processes : pc[p] \in {"enable", "start"})
    => loaded = file

AppliedInv == Quiet /\ applied => \A u \in Units : file[u] = config

\* what holds as long as nothing has made the history suspect
Sound == WantInv /\ FileInv /\ LoadedInv /\ ListeningInv /\ ManagerInv /\ AppliedInv

\* The inductive invariant behind SettingsApplied, next to the types.
SettingsInv == ~suspect => Sound
-----------------------------------------------------------------------------
(* Types.                                                                  *)

Steps == Loading \union {"idle", "disable", "remove", "forget"}

CommandsOK ==
    /\ pc \in [Processes -> Steps]
    /\ want \in [Processes -> Settings \union {None}]
    /\ unit \in [Processes -> Units]
    /\ IdleInv

\* Going to another step at an existing unit file, or leaving.
LEMMA MoveKeepsTypes ==
  ASSUME ConstantsAssumption, CommandsOK, NEW p \in Processes,
         \/ \E step \in Steps \ {"idle"}, u \in Units : At(p, step, u)
         \/ Leave(p)
  PROVE  CommandsOK'
  <1> USE DEF ConstantsAssumption, CommandsOK, Units, Socket
  <1>1. ASSUME NEW step \in Steps \ {"idle"}, NEW u \in Units, At(p, step, u)
        PROVE  CommandsOK'
    BY <1>1 DEF At, IdleInv
  <1>2. CASE Leave(p)
    BY <1>2 DEF Leave, Steps, IdleInv
  <1>3. QED
    BY <1>1, <1>2

\* Whatever a process does, its step, settings and unit file keep their types.
LEMMA CommandTypes ==
  ASSUME ConstantsAssumption, TypeOK, CommandsOK, NEW p \in Processes,
         Begin(p) \/ Ensuring(p) \/ Installing(p) \/ Uninstalling(p) \/ CutShort(p)
  PROVE  CommandsOK'
  <1> USE DEF Steps, Loading
  <1>1. CASE Begin(p)
    BY <1>1 DEF Begin, TypeOK, CommandsOK, IdleInv
  <1>2. Socket \in Units /\ unit[p] \in Units
        /\ (unit[p] < UnitCount => unit[p] + 1 \in Units)
    BY DEF ConstantsAssumption, Units, Socket, CommandsOK
  <1>3. CASE Ensuring(p)
    BY <1>2, <1>3, MoveKeepsTypes DEF Ensuring, Differs, Same, IsInactive, IsActive
  <1>4. CASE Installing(p)
    BY <1>2, <1>4, MoveKeepsTypes
       DEF Installing, Open, Fill, Reload, Enable, Start, StartRefused
  <1>5. CASE Uninstalling(p) \/ CutShort(p)
    BY <1>2, <1>5, MoveKeepsTypes
       DEF Uninstalling, BeginUninstall, Disable, Remove, Forget, CutShort
  <1>6. QED
    BY <1>1, <1>3, <1>4, <1>5

\* Every step keeps the types, and a process that has ended is back at the
\* first unit file.
LEMMA TypeStep ==
  ASSUME ConstantsAssumption, TypeOK, CommandsOK, [Next]_vars
  PROVE  TypeOK' /\ CommandsOK'
  <1> DEFINE FilesOK == /\ config \in Settings
                        /\ file \in [Units -> Contents] /\ loaded \in [Units -> Contents]
                        /\ listening \in Settings \union {None} /\ enabled \in BOOLEAN
                        /\ applied \in BOOLEAN /\ suspect \in BOOLEAN
  <1> SUFFICES FilesOK' /\ CommandsOK'
    BY DEF TypeOK, CommandsOK, Steps, Loading
  <1>1. FilesOK
    BY DEF TypeOK
  <1>2. ASSUME NEW p \in Processes,
               Begin(p) \/ Ensuring(p) \/ Installing(p) \/ Uninstalling(p) \/ CutShort(p)
        PROVE  FilesOK' /\ CommandsOK'
    <2>1. CommandsOK'
      BY <1>2, CommandTypes
    <2> SUFFICES FilesOK'
      BY <2>1
    <2>2. CASE Begin(p)
      BY <1>1, <2>2 DEF Begin, manager, history
    <2>3. CASE Ensuring(p)
      BY <1>1, <2>3
         DEF Ensuring, Differs, Same, IsInactive, IsActive, manager, history
    <2>4. CASE Open(p) \/ Fill(p) \/ Remove(p)
      <3>1. unit[p] \in Units /\ want[p] \in Contents /\ Torn \in Contents /\ None \in Contents
        BY DEF TypeOK, Contents
      <3>2. UNCHANGED <<config, manager, history>>
        BY <2>4 DEF Open, Fill, Remove
      <3>3. file' \in [Units -> Contents]
        BY <1>1, <2>4, <3>1 DEF Open, Fill, Remove
      <3>4. QED
        BY <1>1, <3>2, <3>3 DEF manager, history
    <2>5. CASE Reload(p) \/ Enable(p)
      BY <1>1, <2>5 DEF Reload, Enable, history
    <2>6. CASE Start(p) \/ StartRefused(p)
      BY <1>1, <2>6 DEF Start, StartRefused, manager
    <2>7. CASE BeginUninstall(p) \/ Disable(p) \/ Forget(p) \/ CutShort(p)
      BY <1>1, <2>7 DEF BeginUninstall, Disable, Forget, CutShort, manager, history
    <2>8. QED
      BY <1>2, <2>1, <2>2, <2>3, <2>4, <2>5, <2>6, <2>7 DEF Installing, Uninstalling
  <1>3. CASE Down \/ Login \/ Edit
    BY <1>1, <1>3 DEF Down, Login, Edit, manager, commands, CommandsOK, IdleInv
  <1>4. CASE UNCHANGED vars
    BY <1>1, <1>4 DEF vars, manager, commands, history, CommandsOK, IdleInv
  <1>5. QED
    BY <1>2, <1>3, <1>4 DEF Next

\* The state variables keep their types; a process between two commands is at
\* the first unit file, where the next command begins.
THEOREM TypeCorrect == Spec => [](TypeOK /\ CommandsOK)
  <1>1. Init => TypeOK /\ CommandsOK
    <2> SUFFICES ASSUME Init PROVE TypeOK /\ CommandsOK
      OBVIOUS
    <2>1. Socket \in Units
      BY ConstantsAssumption DEF ConstantsAssumption, Units, Socket
    <2>2. CommandsOK
      BY <2>1 DEF Init, CommandsOK, IdleInv, Steps
    <2>3. TypeOK
      BY <2>1 DEF Init, TypeOK, Contents
    <2>4. QED
      BY <2>2, <2>3
  <1>2. TypeOK /\ CommandsOK /\ [Next]_vars => (TypeOK /\ CommandsOK)'
    BY ConstantsAssumption, TypeStep
  <1>3. QED
    BY <1>1, <1>2, PTL DEF Spec
-----------------------------------------------------------------------------
(* One lemma for each group of actions, with a step for each action and    *)
(* under it one for each part of the invariant.                            *)

\* What holds of the files goes on holding when no process is past more of
\* them and none is taken out of hand.
LEMMA FilesUntouched ==
  ASSUME FileInv, UNCHANGED <<config, file>>,
         \A q \in Processes, u \in Units : Past(q, u)' => Past(q, u),
         \A u \in Units : InHand(u) => InHand(u)'
  PROVE  FileInv'
  BY DEF FileInv

\* A process begins, or compares the unit files: nothing but its own step changes.
LEMMA ComparingSound ==
  ASSUME ConstantsAssumption, TypeOK, CommandsOK, Sound, ~suspect',
         NEW p \in Processes, Begin(p) \/ Ensuring(p)
  PROVE  Sound'
  <1> USE DEF TypeOK, CommandsOK, Sound, manager, history
  <1>1. CASE Begin(p)
    <2> USE <1>1 DEF Begin
    <2>1. WantInv'
      BY DEF WantInv, Loading
    <2>2. FileInv'
      <3>1. \A q \in Processes, u \in Units : Past(q, u)' => Past(q, u)
        BY DEF Past, IdleInv, Units, Socket, ConstantsAssumption
      <3>2. \A u \in Units : InHand(u) => InHand(u)'
        BY DEF InHand
      <3>3. QED
        BY <3>1, <3>2, FilesUntouched
    <2>3. LoadedInv'
      BY DEF LoadedInv, FileInv, WantInv, Past, Loading
    <2>4. ListeningInv'
      BY DEF ListeningInv, LoadedInv, Units, Socket,
             ConstantsAssumption
    <2>5. ManagerInv'
      BY DEF ManagerInv, Dirty
    <2>6. AppliedInv'
      BY DEF AppliedInv, FileInv, Past, InHand, Quiet
    <2>7. QED
      BY <2>1, <2>2, <2>3, <2>4, <2>5, <2>6
  <1>2. CASE Differs(p)
    <2> USE <1>2 DEF Differs, At
    <2>1. WantInv'
      BY DEF WantInv, Loading
    <2>2. FileInv'
      <3>1. \A q \in Processes, u \in Units : Past(q, u)' => Past(q, u)
        BY DEF Past, IdleInv, Units, Socket, ConstantsAssumption
      <3>2. \A u \in Units : InHand(u) => InHand(u)'
        BY DEF InHand
      <3>3. QED
        BY <3>1, <3>2, FilesUntouched
    <2>3. LoadedInv'
      BY DEF LoadedInv, FileInv, WantInv, Past, Loading
    <2>4. ListeningInv'
      BY DEF ListeningInv, LoadedInv, Units, Socket,
             ConstantsAssumption
    <2>5. ManagerInv'
      BY DEF ManagerInv, Dirty
    <2>6. AppliedInv'
      BY DEF AppliedInv, FileInv, Past, InHand, Quiet
    <2>7. QED
      BY <2>1, <2>2, <2>3, <2>4, <2>5, <2>6
  <1>3. CASE Same(p)
    <2> USE <1>3 DEF Same, At
    <2>1. WantInv'
      BY DEF WantInv, Loading
    <2>2. FileInv'
      <3>1. unit[p] \in Units /\ file[unit[p]] = config
        BY DEF WantInv, Loading
      <3>2. \A u \in Units : InHand(u) => InHand(u)'
        BY DEF InHand
      <3>3. SUFFICES ASSUME NEW q \in Processes, NEW u \in Units, Past(q, u)',
                            u # unit[p]
                     PROVE  Past(q, u)
        BY <3>1, <3>2 DEF FileInv
      <3>4. QED
        BY <3>1, <3>3 DEF Past, Units
    <2>3. LoadedInv'
      BY DEF LoadedInv, FileInv, WantInv, Past, Loading
    <2>4. ListeningInv'
      BY DEF ListeningInv, LoadedInv, Units, Socket,
             ConstantsAssumption
    <2>5. ManagerInv'
      BY DEF ManagerInv, Dirty
    <2>6. AppliedInv'
      BY DEF AppliedInv, FileInv, Past, InHand, Quiet
    <2>7. QED
      BY <2>1, <2>2, <2>3, <2>4, <2>5, <2>6
  <1>4. CASE IsInactive(p)
    <2> USE <1>4 DEF IsInactive, At
    <2>1. WantInv'
      BY DEF WantInv, Loading
    <2>2. FileInv'
      BY DEF FileInv, WantInv, Past, InHand, Loading
    <2>3. LoadedInv'
      BY DEF LoadedInv, FileInv, WantInv, Past, Loading
    <2>4. ListeningInv'
      BY DEF ListeningInv, LoadedInv, Units, Socket,
             ConstantsAssumption
    <2>5. ManagerInv'
      BY DEF ManagerInv, Dirty
    <2>6. AppliedInv'
      BY DEF AppliedInv, FileInv, Past, InHand, Quiet
    <2>7. QED
      BY <2>1, <2>2, <2>3, <2>4, <2>5, <2>6
  <1>5. CASE IsActive(p)
    <2> USE <1>5 DEF IsActive, Leave
    <2>1. WantInv'
      BY DEF WantInv, Loading
    <2>2. FileInv'
      BY DEF FileInv, WantInv, Past, InHand, Loading
    <2>3. LoadedInv'
      BY DEF LoadedInv, FileInv, WantInv, Past, Loading
    <2>4. ListeningInv'
      BY DEF ListeningInv, LoadedInv, Units, Socket,
             ConstantsAssumption
    <2>5. ManagerInv'
      BY DEF ManagerInv, Dirty
    <2>6. AppliedInv'
      BY DEF AppliedInv, FileInv, Past, InHand, Quiet
    <2>7. QED
      BY <2>1, <2>2, <2>3, <2>4, <2>5, <2>6
  <1>6. QED
    BY <1>1, <1>2, <1>3, <1>4, <1>5 DEF Ensuring

\* An installer writes the files, has them read, starts the socket.
LEMMA InstallingSound ==
  ASSUME ConstantsAssumption, TypeOK, CommandsOK, Sound, ~suspect',
         NEW p \in Processes, Installing(p)
  PROVE  Sound'
  <1> USE DEF TypeOK, CommandsOK, Sound, manager, history
  <1>1. CASE Open(p)
    <2> USE <1>1 DEF Open, At
    <2>1. WantInv'
      BY DEF WantInv, Loading
    <2>2. FileInv'
      BY DEF FileInv, WantInv, Past, InHand, Loading
    <2>3. LoadedInv'
      BY DEF LoadedInv, FileInv, WantInv, Past, Loading
    <2>4. ListeningInv'
      BY DEF ListeningInv, LoadedInv, Units, Socket,
             ConstantsAssumption
    <2>5. ManagerInv'
      BY DEF ManagerInv, Dirty
    <2>6. AppliedInv'
      BY DEF AppliedInv, FileInv, Past, InHand, Quiet
    <2>7. QED
      BY <2>1, <2>2, <2>3, <2>4, <2>5, <2>6
  <1>2. CASE Fill(p)
    <2> USE <1>2 DEF Fill, At
    <2>1. WantInv'
      BY DEF WantInv, Loading
    <2>2. FileInv'
      <3>1. unit[p] \in Units /\ file'[unit[p]] = config
        BY DEF WantInv, Loading
      <3>2. SUFFICES ASSUME NEW q \in Processes, NEW u \in Units, Past(q, u)',
                            u # unit[p]
                     PROVE  /\ file[u] \in {config, Torn, None}
                            /\ file[u] = config \/ InHand(u)'
        BY <3>1 DEF FileInv
      <3>3. Past(q, u)
        BY <3>1, <3>2 DEF Past, Units, Socket, ConstantsAssumption
      <3>4. InHand(u) => InHand(u)'
        BY <3>2 DEF InHand
      <3>5. QED
        BY <3>3, <3>4 DEF FileInv
    <2>3. LoadedInv'
      BY DEF LoadedInv, FileInv, WantInv, Past, Loading
    <2>4. ListeningInv'
      BY DEF ListeningInv, LoadedInv, Units, Socket,
             ConstantsAssumption
    <2>5. ManagerInv'
      BY DEF ManagerInv, Dirty
    <2>6. AppliedInv'
      BY DEF AppliedInv, FileInv, Past, InHand, Quiet
    <2>7. QED
      BY <2>1, <2>2, <2>3, <2>4, <2>5, <2>6
  <1>3. CASE Reload(p)
    <2> USE <1>3 DEF Reload, At
    <2>1. WantInv'
      BY DEF WantInv, Loading
    <2>2. FileInv'
      BY DEF FileInv, WantInv, Past, InHand, Loading
    <2>3. LoadedInv'
      BY DEF LoadedInv, FileInv, WantInv, Past, Loading
    <2>4. ListeningInv'
      BY DEF ListeningInv, LoadedInv, Units, Socket,
             ConstantsAssumption
    <2>5. ManagerInv'
      BY DEF ManagerInv, Dirty
    <2>6. AppliedInv'
      BY DEF AppliedInv, FileInv, Past, InHand, Quiet
    <2>7. QED
      BY <2>1, <2>2, <2>3, <2>4, <2>5, <2>6
  <1>4. CASE Enable(p)
    <2> USE <1>4 DEF Enable, At
    <2>1. WantInv'
      BY DEF WantInv, Loading
    <2>2. FileInv'
      BY DEF FileInv, WantInv, Past, InHand, Loading
    <2>3. LoadedInv'
      BY DEF LoadedInv, FileInv, WantInv, Past, Loading
    <2>4. ListeningInv'
      BY DEF ListeningInv, LoadedInv, Units, Socket,
             ConstantsAssumption
    <2>5. ManagerInv'
      BY DEF ManagerInv, Dirty
    <2>6. AppliedInv'
      BY DEF AppliedInv, FileInv, Past, InHand, Quiet
    <2>7. QED
      BY <2>1, <2>2, <2>3, <2>4, <2>5, <2>6
  <1>5. CASE Start(p)
    <2> USE <1>5 DEF Start, Leave
    <2>1. WantInv'
      BY DEF WantInv, Loading
    <2>2. FileInv'
      BY DEF FileInv, WantInv, Past, InHand, Loading
    <2>3. LoadedInv'
      BY DEF LoadedInv, FileInv, WantInv, Past, Loading
    <2>4. ListeningInv'
      BY DEF ListeningInv, LoadedInv, Units, Socket,
             ConstantsAssumption
    <2>5. ManagerInv'
      BY DEF ManagerInv, Dirty
    <2>6. AppliedInv'
      BY DEF AppliedInv, FileInv, Past, InHand, Quiet
    <2>7. QED
      BY <2>1, <2>2, <2>3, <2>4, <2>5, <2>6
  <1>6. CASE StartRefused(p)
    <2> USE <1>6 DEF StartRefused, Leave
    <2>1. WantInv'
      BY DEF WantInv, Loading
    <2>2. FileInv'
      <3>1. \A q \in Processes, u \in Units : Past(q, u)' => Past(q, u)
        BY DEF Past
      <3>2. \A u \in Units : InHand(u) => InHand(u)'
        BY DEF InHand
      <3>3. QED
        BY <3>1, <3>2, FilesUntouched
    <2>3. LoadedInv'
      BY DEF LoadedInv, FileInv, WantInv, Past, Loading
    <2>4. ListeningInv'
      BY DEF ListeningInv, LoadedInv, Units, Socket,
             ConstantsAssumption
    <2>5. ManagerInv'
      BY DEF ManagerInv, Dirty
    <2>6. AppliedInv'
      BY DEF AppliedInv, FileInv, Past, InHand, Quiet
    <2>7. QED
      BY <2>1, <2>2, <2>3, <2>4, <2>5, <2>6
  <1>7. QED
    BY <1>1, <1>2, <1>3, <1>4, <1>5, <1>6 DEF Installing

\* A removal, and a process that is cut short where nothing else is about.
LEMMA RemovingSound ==
  ASSUME ConstantsAssumption, TypeOK, CommandsOK, Sound, ~suspect',
         NEW p \in Processes, Uninstalling(p) \/ CutShort(p)
  PROVE  Sound'
  <1> USE DEF TypeOK, CommandsOK, Sound, manager, history
  <1>1. CASE BeginUninstall(p)
    <2> USE <1>1 DEF BeginUninstall, At
    <2>1. WantInv'
      BY DEF WantInv, Loading
    <2>2. FileInv'
      BY DEF FileInv, WantInv, Past, InHand, Loading
    <2>3. LoadedInv'
      BY DEF LoadedInv, FileInv, WantInv, Past, Loading
    <2>4. ListeningInv'
      BY DEF ListeningInv, LoadedInv, Units, Socket,
             ConstantsAssumption
    <2>5. ManagerInv'
      BY DEF ManagerInv, Dirty
    <2>6. AppliedInv'
      BY DEF AppliedInv, FileInv, Past, InHand, Quiet
    <2>7. QED
      BY <2>1, <2>2, <2>3, <2>4, <2>5, <2>6
  <1>2. CASE Disable(p)
    <2> USE <1>2 DEF Disable, At
    <2>1. WantInv'
      BY DEF WantInv, Loading
    <2>2. FileInv'
      BY DEF FileInv, WantInv, Past, InHand, Loading
    <2>3. LoadedInv'
      BY DEF LoadedInv, FileInv, WantInv, Past, Loading
    <2>4. ListeningInv'
      BY DEF ListeningInv, LoadedInv, Units, Socket,
             ConstantsAssumption
    <2>5. ManagerInv'
      BY DEF ManagerInv, Dirty
    <2>6. AppliedInv'
      BY DEF AppliedInv, FileInv, Past, InHand, Quiet
    <2>7. QED
      BY <2>1, <2>2, <2>3, <2>4, <2>5, <2>6
  <1>3. CASE Remove(p)
    <2> USE <1>3 DEF Remove, At
    <2>1. WantInv'
      BY DEF WantInv, Loading
    <2>2. FileInv'
      <3>1. unit[p] \in Units
        OBVIOUS
      <3>2. SUFFICES ASSUME NEW q \in Processes, NEW u \in Units, Past(q, u)'
                     PROVE  /\ file'[u] \in {config, Torn, None}
                            /\ file'[u] = config \/ InHand(u)'
        BY DEF FileInv
      <3>3. Past(q, u)
        BY <3>2 DEF Past
      <3>4. CASE u = unit[p]
        <4>1. InHand(u)'
          BY <3>1, <3>4 DEF InHand, Units
        <4>2. QED
          BY <3>1, <3>4, <4>1
      <3>5. CASE u # unit[p]
        <4>1. ASSUME NEW r \in Processes,
                     \/ pc[r] = "fill" /\ unit[r] = u
                     \/ pc[r] = "remove" /\ u < unit[r]
                     \/ pc[r] = "forget"
              PROVE  InHand(u)'
          <5>1. CASE r = p
            BY <3>1, <4>1, <5>1 DEF InHand, Units
          <5>2. CASE r # p
            BY <4>1, <5>2 DEF InHand
          <5>3. QED
            BY <5>1, <5>2
        <4>2. QED
          BY <3>3, <3>5, <4>1 DEF FileInv, InHand
      <3>6. QED
        BY <3>4, <3>5
    <2>3. LoadedInv'
      BY DEF LoadedInv, FileInv, WantInv, Past, Loading
    <2>4. ListeningInv'
      BY DEF ListeningInv, LoadedInv, Units, Socket,
             ConstantsAssumption
    <2>5. ManagerInv'
      BY DEF ManagerInv, Dirty
    <2>6. AppliedInv'
      BY DEF AppliedInv, FileInv, Past, InHand, Quiet
    <2>7. QED
      BY <2>1, <2>2, <2>3, <2>4, <2>5, <2>6
  <1>4. CASE Forget(p)
    <2> USE <1>4 DEF Forget, Leave
    <2>0. \A q \in Processes : pc'[q] = "idle"
      BY DEF Alone
    <2>1. WantInv'
      BY DEF WantInv, Loading
    <2>2. FileInv'
      BY <2>0 DEF FileInv, Past
    <2>3. LoadedInv'
      BY DEF LoadedInv, FileInv, WantInv, Past, Loading
    <2>4. ListeningInv'
      BY DEF ListeningInv, LoadedInv, Units, Socket,
             ConstantsAssumption
    <2>5. ManagerInv'
      BY <2>0 DEF ManagerInv
    <2>6. AppliedInv'
      BY DEF AppliedInv, FileInv, Past, InHand, Quiet
    <2>7. QED
      BY <2>1, <2>2, <2>3, <2>4, <2>5, <2>6
  <1>5. CASE CutShort(p)
    <2> USE <1>5 DEF CutShort, Leave
    <2>0. \A q \in Processes : pc'[q] = "idle"
      BY DEF Alone
    <2>1. WantInv'
      BY DEF WantInv, Loading
    <2>2. FileInv'
      BY <2>0 DEF FileInv, Past
    <2>3. LoadedInv'
      BY DEF LoadedInv, FileInv, WantInv, Past, Loading
    <2>4. ListeningInv'
      BY DEF ListeningInv, LoadedInv, Units, Socket,
             ConstantsAssumption
    <2>5. ManagerInv'
      BY <2>0 DEF ManagerInv
    <2>6. AppliedInv'
      BY DEF AppliedInv, FileInv, Past, InHand, Quiet
    <2>7. QED
      BY <2>1, <2>2, <2>3, <2>4, <2>5, <2>6
  <1>6. QED
    BY <1>1, <1>2, <1>3, <1>4, <1>5 DEF Uninstalling

\* The user, llm-down and a new session, which may end the suspicion.
LEMMA OthersSound ==
  ASSUME TypeOK, SettingsInv, Down \/ Login \/ Edit, ~suspect'
  PROVE  Sound'
  <1> USE DEF SettingsInv, Sound, manager, commands
  <1>1. CASE Quiet
    <2>1. \A q \in Processes : pc'[q] = "idle"
      BY <1>1 DEF Quiet, Down, Login, Edit
    <2>2. WantInv' /\ FileInv' /\ LoadedInv'
      BY <2>1 DEF WantInv, Loading, FileInv, Past, LoadedInv
    <2>3. ListeningInv' /\ ManagerInv'
      BY <2>1 DEF Down, Login, Edit, ListeningInv, ManagerInv
    <2>4. AppliedInv'
      BY <1>1, <2>1 DEF Down, Login, Edit, AppliedInv, Quiet
    <2>5. QED
      BY <2>2, <2>3, <2>4
  <1>2. CASE ~Quiet
    <2>1. Down /\ ~suspect
      BY <1>2 DEF Down, Login, Edit
    <2>2. Sound
      BY <2>1
    <2>3. WantInv' /\ FileInv' /\ LoadedInv' /\ ListeningInv' /\ AppliedInv'
      BY <2>1, <2>2
         DEF Down, WantInv, FileInv, Past, InHand, LoadedInv, ListeningInv, AppliedInv
    <2>4. ManagerInv'
      BY <2>1, <2>2 DEF Down, ManagerInv, Dirty
    <2>5. QED
      BY <2>3, <2>4
  <1>3. QED
    BY <1>1, <1>2

\* While no edit and no broken command has come between: nobody works with old
\* settings, a file that someone has done with is right or in hand, and files
\* and manager agree once no reload is ahead.
THEOREM SettingsInvariant == Spec => []SettingsInv
  <1>1. Init => SettingsInv
    <2> SUFFICES ASSUME Init PROVE Sound
      BY DEF SettingsInv
    <2>1. \A p \in Processes : pc[p] = "idle"
      BY DEF Init
    <2>2. QED
      BY <2>1 DEF Init, Sound, WantInv, Loading, FileInv, Past, LoadedInv, ListeningInv,
                  ManagerInv, AppliedInv
  <1>2. TypeOK /\ CommandsOK /\ SettingsInv /\ [Next]_vars => SettingsInv'
    <2> SUFFICES ASSUME TypeOK, CommandsOK, SettingsInv, [Next]_vars, ~suspect'
                 PROVE  Sound'
      BY DEF SettingsInv
    <2>1. ASSUME NEW p \in Processes,
                 Begin(p) \/ Ensuring(p) \/ Installing(p) \/ Uninstalling(p) \/ CutShort(p)
          PROVE  Sound'
      <3>1. ~suspect
        BY <2>1 DEF Begin, Ensuring, Differs, Same, IsInactive, IsActive, Installing, Open,
             Fill, Reload, Enable, Start, StartRefused, Uninstalling, BeginUninstall,
             Disable, Remove, Forget, CutShort, history
      <3>2. Sound
        BY <3>1 DEF SettingsInv
      <3>3. QED
        BY <2>1, <3>2, ConstantsAssumption, ComparingSound, InstallingSound, RemovingSound
    <2>2. CASE Down \/ Login \/ Edit
      BY <2>2, OthersSound
    <2>3. CASE UNCHANGED vars
      BY <2>3 DEF vars, manager, commands, history, SettingsInv, Sound, WantInv, FileInv, Past,
                  InHand, LoadedInv, ListeningInv, ManagerInv, Dirty, AppliedInv, Quiet
    <2>4. QED
      BY <2>1, <2>2, <2>3 DEF Next
  <1>3. QED
    BY <1>1, <1>2, TypeCorrect, PTL DEF Spec

\* After a quiet llm-down and an edit, llm-install or llm-up leaves the settings
\* as they are in every unit file, in the manager and in the listener, however
\* many processes, settings and unit files there are.
THEOREM SettingsReachUnits == Spec => []SettingsApplied
  <1>1. SettingsInv => SettingsApplied
    <2> SUFFICES ASSUME Sound, Quiet, applied, listening # None
                 PROVE  /\ \A u \in Units : file[u] = config /\ loaded[u] = config
                        /\ listening = config
      BY DEF SettingsInv, SettingsApplied
    <2>1. loaded = file
      BY DEF Sound, ManagerInv, Dirty, Quiet
    <2>2. QED
      BY <2>1 DEF Sound, AppliedInv, ListeningInv
  <1>2. QED
    BY <1>1, SettingsInvariant, PTL
=============================================================================
