--------------------------- MODULE IntegrationProofs ---------------------------
(***************************************************************************)
(* Proofs about Integration, for every set of installations, names,        *)
(* versions and builds and every number of edits: type correctness; the    *)
(* executable is only replaced by a verified build; the lock on acp.json   *)
(* is with who gives it back; acp.json behaves as AgentRegistry promises;  *)
(* and until an edit by hand an entry only changes by its own name.        *)
(***************************************************************************)
EXTENDS Integration, TLAPS

\* what a command has loaded and read by the steps that use it
LoadedInv == \A i \in Installations :
    /\ pc[i] # "idle" => agent[i] \in Agents /\ op[i] # "none"
    /\ pc[i] \in InstallSteps => want[i] \in Versions /\ op[i] = "register"
    /\ pc[i] \in {"checksum", "run", "replace"} => archive[i] \in Builds
    /\ pc[i] = "write" => copy[i] \in Registries

\* the staged build is the listed one, and has reported the version
StagedInv == \A i \in Installations :
    /\ pc[i] \in {"run", "replace"} => archive[i] = Pinned[want[i]]
    /\ pc[i] = "replace" => Reports[archive[i]] = want[i]

Inv == TypeOK /\ LockIsGivenBack /\ LoadedInv /\ StagedInv

\* the steps of one installation, and of others
Command(i) == \/ BeginInstall(i) \/ BeginRegistration(i) \/ Installing(i)
              \/ LockFails(i) \/ Acquire(i) \/ Registering(i) \/ Kill(i)

\* A registry that can be read is complete once it is parsed.
LEMMA ParsedIsRegistry ==
  ASSUME NEW content \in Objects \union {Absent}
  PROVE  Parsed(content) \in Registries
  <1> USE DEF Registries, Objects, Servers, Entries, Parsed
  <1>1. CASE content = Absent
    BY <1>1
  <1>2. CASE content # Absent /\ content.servers = Bare
    <2>1. /\ content \in Objects
          /\ Parsed(content) = [servers |-> [a \in Agents |-> None], mcp |-> content.mcp]
      BY <1>2
    <2>2. QED
      BY <2>1
  <1>3. CASE content # Absent /\ content.servers # Bare
    BY <1>3
  <1>4. QED
    BY <1>1, <1>2, <1>3

\* An update yields a registry.
LEMMA UpdateIsRegistry ==
  ASSUME TypeOK, LoadedInv, NEW i \in Installations, pc[i] = "write"
  PROVE  Updated(i) \in Registries
  <1>1. copy[i] \in Registries /\ agent[i] \in Agents
    BY DEF LoadedInv
  <1>2. QED
    BY <1>1 DEF Updated, Registries, Servers, Entries

\* A registry is an object, and its own parse.
LEMMA RegistryParses ==
  ASSUME ConstantsAssumption, NEW r \in Registries
  PROVE  r \in Objects /\ r # Absent /\ r # Broken /\ Parsed(r) = r /\ View(r) = r
  BY DEF ConstantsAssumption, Registries, Objects, Parsed, View

\* Every step of an installation keeps the invariant.
LEMMA CommandStep ==
  ASSUME ConstantsAssumption, Inv, NEW i \in Installations, Command(i)
  PROVE  Inv'
  <1> USE DEF ConstantsAssumption, Inv, TypeOK, LockIsGivenBack, LoadedInv, StagedInv,
              HoldingSteps, InstallSteps, Goto, Leave, locals
  <1>1. CASE BeginInstall(i)
    BY <1>1 DEF BeginInstall
  <1>2. CASE BeginRegistration(i)
    BY <1>2 DEF BeginRegistration
  <1>3. CASE CheckCurrent(i) \/ CheckOther(i)
    BY <1>3 DEF CheckCurrent, CheckOther, Installed
  <1>4. CASE Download(i)
    BY <1>4 DEF Download
  <1>5. CASE Checksum(i)
    BY <1>5 DEF Checksum
  <1>6. CASE RunStaged(i)
    BY <1>6 DEF RunStaged
  <1>7. CASE Replace(i)
    BY <1>7 DEF Replace, Installed
  <1>8. CASE Raises(i)
    BY <1>8 DEF Raises
  <1>9. CASE LockFails(i)
    BY <1>9 DEF LockFails
  <1>10. CASE Acquire(i)
    BY <1>10 DEF Acquire
  <1>11. CASE Read(i)
    <2>1. Parsed(file) \in Registries
      BY <1>11, ParsedIsRegistry DEF Read
    <2>2. QED
      BY <1>11, <2>1 DEF Read
  <1>12. CASE ReadEnds(i) \/ AccessFails(i)
    BY <1>12 DEF ReadEnds, AccessFails
  <1>13. CASE Write(i)
    <2>1. Updated(i) \in Objects
      BY <1>13, UpdateIsRegistry, RegistryParses DEF Write
    <2>2. QED
      BY <1>13, <2>1 DEF Write
  <1>14. CASE Unlock(i)
    BY <1>14 DEF Unlock
  <1>15. CASE Kill(i)
    BY <1>15 DEF Kill
  <1>16. QED
    BY <1>1, <1>2, <1>3, <1>4, <1>5, <1>6, <1>7, <1>8, <1>9, <1>10, <1>11, <1>12,
       <1>13, <1>14, <1>15
       DEF Command, Installing, Registering

\* An edit by hand leaves one of the contents the file may have.
LEMMA EditedFile ==
  ASSUME ConstantsAssumption, TypeOK, EditRegistry
  PROVE  file' \in Objects \union {Absent, Broken}
  <1>1. CASE file' \in {Absent, Broken, [servers |-> Bare, mcp |-> None]}
    BY <1>1 DEF Objects
  <1>2. ASSUME file # Broken, NEW a \in Agents, NEW e \in {Foreign, None},
               file' = [Parsed(file) EXCEPT !.servers[a] = e]
        PROVE  file' \in Objects
    <2>1. Parsed(file) \in Registries
      BY <1>2, ParsedIsRegistry DEF TypeOK
    <2>2. QED
      BY <1>2, <2>1 DEF Registries, Objects, Servers, Entries
  <1>3. QED
    BY <1>1, <1>2 DEF EditRegistry

\* Every step keeps the invariant.
LEMMA InvStep ==
  ASSUME ConstantsAssumption, Inv, [Next]_vars
  PROVE  Inv'
  <1>1. ASSUME NEW i \in Installations, Command(i)
        PROVE  Inv'
    BY <1>1, CommandStep
  <1>2. CASE EditRegistry
    <2>1. file' \in Objects \union {Absent, Broken}
      BY <1>2, EditedFile DEF Inv
    <2>2. QED
      BY <1>2, <2>1
         DEF EditRegistry, locals, ConstantsAssumption, Inv, TypeOK, LockIsGivenBack, LoadedInv,
             StagedInv
  <1>3. CASE EditBinary
    BY <1>3 DEF EditBinary, locals, ConstantsAssumption, Inv, TypeOK, LockIsGivenBack, LoadedInv,
                StagedInv
  <1>4. CASE UNCHANGED vars
    BY <1>4 DEF vars, locals, Inv, TypeOK, LockIsGivenBack, LoadedInv, StagedInv
  <1>5. QED
    BY <1>1, <1>2, <1>3, <1>4 DEF Next, Command

\* The invariant holds in every behaviour, TypeOK with it.
THEOREM TypeCorrect == Spec => [](TypeOK /\ Inv)
  <1>1. Init => Inv
    BY ConstantsAssumption
       DEF ConstantsAssumption, Init, Inv, TypeOK, LockIsGivenBack, LoadedInv, StagedInv,
           HoldingSteps, InstallSteps
  <1>2. Inv /\ [Next]_vars => Inv'
    BY InvStep, ConstantsAssumption
  <1>3. Inv => TypeOK
    BY DEF Inv
  <1>4. QED
    BY <1>1, <1>2, <1>3, PTL DEF Spec

\* However a command ends, the lock on acp.json is with the installation that is
\* going to give it back, or with nobody.
THEOREM LockReturns == Spec => []LockIsGivenBack
  <1>1. Inv => LockIsGivenBack
    BY DEF Inv
  <1>2. QED
    BY <1>1, TypeCorrect, PTL
-----------------------------------------------------------------------------
\* Only Replace and the user change the executable.
LEMMA BinaryChanges ==
  ASSUME [Next]_vars, edits' = edits, binary' # binary, edits \in Nat
  PROVE  \E i \in Installations : Replace(i)
  <1>1. ~EditRegistry /\ ~EditBinary /\ ~UNCHANGED vars
    BY DEF EditRegistry, EditBinary, vars
  <1>2. PICK i \in Installations : Command(i)
    BY <1>1 DEF Next, Command
  <1>3. Replace(i)
    BY <1>2 DEF Command, Installing, Registering, BeginInstall, BeginRegistration,
                CheckCurrent, CheckOther, Download, Checksum, RunStaged, Raises,
                LockFails, Acquire, Read, ReadEnds, AccessFails, Write, Unlock, Kill
  <1>4. QED
    BY <1>3

\* Whatever is downloaded, and however many install at once, the executable
\* only changes to the listed build of a version that has reported it.
THEOREM VerifiedReplacement == Spec => OnlyVerifiedReplaces
  <1> DEFINE Verified ==
        edits' = edits /\ binary' # binary =>
            \E i \in Installations :
                /\ want[i] \in Versions
                /\ binary' = Pinned[want[i]] /\ Reports[binary'] = want[i]
  <1>1. Inv /\ [Next]_vars => Verified
    <2> SUFFICES ASSUME Inv, [Next]_vars, edits' = edits, binary' # binary
                 PROVE  Verified
      OBVIOUS
    <2>1. edits \in Nat
      BY ConstantsAssumption DEF ConstantsAssumption, Inv, TypeOK
    <2>2. PICK i \in Installations : Replace(i)
      BY <2>1, BinaryChanges
    <2>3. QED
      BY <2>2 DEF Replace, Inv, LoadedInv, StagedInv, InstallSteps
  <1>2. Inv /\ [Next]_vars => [Verified]_vars
    BY <1>1
  <1>3. QED
    BY <1>2, TypeCorrect, PTL DEF Spec, OnlyVerifiedReplaces
-----------------------------------------------------------------------------
(* The refinement. *)

Base == {View(file)} \union {copy[i] : i \in {j \in Installations : pc[j] = "write"}}

\* What the file says is a registry or unreadable.
LEMMA ViewType ==
  ASSUME TypeOK
  PROVE  View(file) \in Registries \union {Broken}
  BY ParsedIsRegistry DEF TypeOK, View

\* A step that touches neither the file nor anybody's copy leaves the registry
\* as it is.
LEMMA Stutter ==
  ASSUME UNCHANGED <<file, edits>>,
         \A j \in Installations :
            /\ pc[j] = "write" <=> pc'[j] = "write"
            /\ pc[j] = "write" => copy'[j] = copy[j]
  PROVE  UNCHANGED Registry!vars
  <1>1. Base' = Base
    BY DEF Base, View, Parsed
  <1>2. UNCHANGED View(file)
    BY DEF View, Parsed
  <1>3. QED
    BY <1>1, <1>2 DEF Base, Registry!vars

\* A step of one installation is one of the registry's, or invisible.
LEMMA CommandRefines ==
  ASSUME ConstantsAssumption, Inv, NEW i \in Installations, Command(i)
  PROVE  [Registry!Next]_Registry!vars
  <1> USE DEF Inv, TypeOK
  <1>1. CASE Read(i)
    <2>1. /\ file # Broken /\ UNCHANGED <<file, edits>>
          /\ pc[i] = "read" /\ pc' = [pc EXCEPT ![i] = "write"]
          /\ copy' = [copy EXCEPT ![i] = View(file)]
      BY <1>1 DEF Read, View
    <2>2. View(file)' = View(file)
      BY <2>1 DEF View, Parsed
    <2>3. Base' = Base
      BY <2>1, <2>2 DEF Base
    <2>4. QED
      BY <2>1, <2>2, <2>3 DEF Base, Registry!vars
  <1>2. CASE Write(i)
    <2>1. /\ copy[i] \in Registries /\ agent[i] \in Agents /\ op[i] # "none"
          /\ file' = Updated(i) /\ UNCHANGED <<edits, copy>>
          /\ pc[i] = "write" /\ pc' = [pc EXCEPT ![i] = "unlock"]
      BY <1>2 DEF Write, Goto, locals, LoadedInv
    <2>2. View(file)' = Updated(i)
      BY <2>1, UpdateIsRegistry, RegistryParses DEF View, Parsed
    <2>3. \A j \in Installations : pc[j] = "write" => j = i
      BY <2>1 DEF LockIsGivenBack, HoldingSteps
    <2>4. copy[i] \in Base \ {Broken} /\ Base' = {Updated(i)}
      BY <2>1, <2>2, <2>3, RegistryParses DEF Base
    <2>5. CASE op[i] = "remove"
      BY <2>1, <2>2, <2>4, <2>5 DEF Updated, Base, Registry!Next, Registry!Remove
    <2>6. CASE op[i] = "register"
      <3>1. i \in Entries
        BY DEF Entries
      <3>2. QED
        BY <2>1, <2>2, <2>4, <2>6, <3>1 DEF Updated, Base, Registry!Next, Registry!Register
    <2>7. QED
      BY <2>1, <2>5, <2>6
  <1>3. CASE pc[i] = "write" /\ (AccessFails(i) \/ Kill(i))
    <2>1. /\ UNCHANGED <<file, edits>>
          /\ pc'[i] # "write" /\ \A j \in Installations \ {i} : pc'[j] = pc[j]
      BY <1>3 DEF AccessFails, Kill, Goto, Leave
    <2>2. \A j \in Installations : pc'[j] # "write"
      BY <1>3, <2>1 DEF LockIsGivenBack, HoldingSteps
    <2>3. View(file)' = View(file)
      BY <2>1 DEF View, Parsed
    <2>4. Base' = {View(file)}
      BY <2>2, <2>3 DEF Base
    <2>5. QED
      BY <2>1, <2>3, <2>4 DEF Base, Registry!Next, Registry!Settle
  <1>4. CASE ~Read(i) /\ ~Write(i) /\ ~(pc[i] = "write" /\ (AccessFails(i) \/ Kill(i)))
    <2>1. /\ UNCHANGED <<file, edits>>
          /\ pc[i] # "write" /\ pc'[i] # "write"
          /\ \A j \in Installations \ {i} : pc'[j] = pc[j] /\ copy'[j] = copy[j]
      BY <1>4 DEF Command, Installing, Registering, BeginInstall, BeginRegistration,
                  CheckCurrent, CheckOther, Installed, Download, Checksum, RunStaged,
                  Replace, Raises, LockFails, Acquire, ReadEnds, AccessFails, Unlock,
                  Kill, Goto, Leave, InstallSteps, locals
    <2>2. QED
      BY <2>1, Stutter
  <1>5. QED
    BY <1>1, <1>2, <1>3, <1>4

\* So is an edit.
LEMMA EditRefines ==
  ASSUME ConstantsAssumption, Inv, EditRegistry \/ EditBinary
  PROVE  [Registry!Next]_Registry!vars
  <1>1. edits' = edits + 1 /\ UNCHANGED <<pc, copy>>
    BY DEF EditRegistry, EditBinary, locals
  <1>2. View(file)' \in Registries \union {Broken}
    <2>1. file' \in Objects \union {Absent, Broken}
      BY EditedFile DEF Inv, TypeOK, EditBinary
    <2>2. View(file') \in Registries \union {Broken}
      BY <2>1, ParsedIsRegistry DEF View
    <2>3. QED
      BY <2>2 DEF View, Parsed
  <1>3. /\ Base' \subseteq Base \union {View(file)'} /\ View(file)' \in Base'
    BY <1>1 DEF Base
  <1>4. Registry!Edit
    BY <1>1, <1>2, <1>3 DEF Registry!Edit, Registry!Readable, Base, Registries, Servers
  <1>5. QED
    BY <1>4 DEF Registry!Next

\* acp.json keeps what AgentRegistry promises: an installation changes its
\* entry and no other, and undoes no update of another installation.
THEOREM RegistryRefinement == Spec => ImplementsRegistry
  <1>1. Init => Registry!Init
    BY ConstantsAssumption
       DEF ConstantsAssumption, Init, Registry!Init, Registry!Empty, View, Parsed
  <1>2. Inv /\ [Next]_vars => [Registry!Next]_Registry!vars
    <2> SUFFICES ASSUME Inv, [Next]_vars PROVE [Registry!Next]_Registry!vars
      OBVIOUS
    <2>1. CASE UNCHANGED vars
      BY <2>1, Stutter DEF vars, locals
    <2>2. ASSUME NEW i \in Installations, Command(i)
          PROVE  [Registry!Next]_Registry!vars
      BY <2>2, CommandRefines, ConstantsAssumption
    <2>3. CASE EditRegistry \/ EditBinary
      BY <2>3, EditRefines, ConstantsAssumption
    <2>4. QED
      BY <2>1, <2>2, <2>3 DEF Next, Command
  <1>3. QED
    BY <1>1, <1>2, TypeCorrect, PTL DEF Spec, ImplementsRegistry, Registry!Spec
-----------------------------------------------------------------------------
(* Nobody touches the entry of another. *)

\* Until the first edit by hand, what a writer has read is what the file says:
\* it holds the lock, and nothing else writes.
CopyInv == edits = 0 =>
    /\ file # Broken
    /\ \A i \in Installations : pc[i] = "write" => copy[i] = View(file)

\* Every step of an installation keeps the copy fresh.
LEMMA CommandKeepsCopy ==
  ASSUME ConstantsAssumption, Inv, CopyInv, NEW i \in Installations, Command(i)
  PROVE  CopyInv'
  <1> SUFFICES ASSUME edits = 0, edits' = 0
               PROVE  /\ file' # Broken
                      /\ \A j \in Installations : pc'[j] = "write" => copy'[j] = View(file')
    <2>1. edits' = edits
      BY DEF Command, Installing, Registering, BeginInstall, BeginRegistration,
             CheckCurrent, CheckOther, Download, Checksum, RunStaged, Replace, Raises,
             LockFails, Acquire, Read, ReadEnds, AccessFails, Write, Unlock, Kill
    <2>2. View(file)' = View(file')
      BY DEF View, Parsed
    <2>3. QED
      BY <2>1, <2>2 DEF CopyInv
  <1> USE DEF Inv, TypeOK
  <1>1. CASE Read(i)
    BY <1>1 DEF Read, View, CopyInv
  <1>2. CASE Write(i)
    <2>1. file' = Updated(i) /\ pc[i] = "write" /\ pc' = [pc EXCEPT ![i] = "unlock"]
      BY <1>2 DEF Write, Goto
    <2>2. file' # Broken
      BY <2>1, UpdateIsRegistry, RegistryParses
    <2>3. \A j \in Installations : pc'[j] # "write"
      BY <2>1 DEF LockIsGivenBack, HoldingSteps
    <2>4. QED
      BY <2>2, <2>3
  <1>3. CASE ~Read(i) /\ ~Write(i)
    <2>1. /\ file' = file /\ pc'[i] # "write"
          /\ \A j \in Installations \ {i} : pc'[j] = pc[j] /\ copy'[j] = copy[j]
      BY <1>3 DEF Command, Installing, Registering, BeginInstall, BeginRegistration,
                  CheckCurrent, CheckOther, Installed, Download, Checksum, RunStaged,
                  Replace, Raises, LockFails, Acquire, ReadEnds, AccessFails, Unlock,
                  Kill, Goto, Leave, locals
    <2>2. QED
      BY <2>1 DEF CopyInv
  <1>4. QED
    BY <1>1, <1>2, <1>3

\* Every step does: an edit ends the claim.
LEMMA CopyStep ==
  ASSUME ConstantsAssumption, Inv, CopyInv, [Next]_vars
  PROVE  CopyInv'
  <1>1. ASSUME NEW i \in Installations, Command(i)
        PROVE  CopyInv'
    BY <1>1, CommandKeepsCopy
  <1>2. CASE EditRegistry \/ EditBinary
    <2>1. edits \in Nat /\ edits' = edits + 1
      BY <1>2 DEF EditRegistry, EditBinary, Inv, TypeOK, ConstantsAssumption
    <2>2. edits' # 0
      BY <2>1
    <2>3. QED
      BY <2>2 DEF CopyInv
  <1>3. CASE UNCHANGED vars
    BY <1>3 DEF vars, locals, CopyInv, View, Parsed
  <1>4. QED
    BY <1>1, <1>2, <1>3 DEF Next, Command

\* Only the writer changes the file, and its own entry.
LEMMA WriterChangesOwnEntry ==
  ASSUME ConstantsAssumption, Inv, CopyInv, edits' = 0, [Next]_vars,
         NEW a \in Agents, View(file)'.servers[a] # View(file).servers[a]
  PROVE  \E i \in Installations :
            /\ lock = i /\ agent[i] = a
            /\ View(file)'.servers[a] = IF op[i] = "remove" THEN None ELSE i
  <1>1. file' # file
    BY DEF View, Parsed
  <1>2. ~EditRegistry /\ ~EditBinary
    BY DEF EditRegistry, EditBinary, Inv, TypeOK, ConstantsAssumption
  <1>3. PICK i \in Installations : Command(i)
    BY <1>1, <1>2 DEF Next, Command, vars
  <1>4. Write(i)
    BY <1>1, <1>3 DEF Command, Installing, Registering, BeginInstall, BeginRegistration,
             CheckCurrent, CheckOther, Download, Checksum, RunStaged, Replace, Raises,
             LockFails, Acquire, Read, ReadEnds, AccessFails, Unlock, Kill
  <1>5. pc[i] = "write" /\ file' = Updated(i) /\ edits = 0
    BY <1>4 DEF Write
  <1>6. /\ copy[i] = View(file) /\ copy[i] \in Registries
        /\ agent[i] \in Agents /\ lock = i
    BY <1>5 DEF CopyInv, Inv, LoadedInv, LockIsGivenBack, HoldingSteps
  <1>7. View(file)' = Updated(i)
    BY <1>5, UpdateIsRegistry, RegistryParses DEF Inv, View, Parsed
  <1>8. View(file)'.servers = [View(file).servers EXCEPT ![agent[i]] =
                                  IF op[i] = "remove" THEN None ELSE i]
    BY <1>6, <1>7 DEF Updated, Registries, Servers
  <1>9. View(file).servers \in Servers
    BY <1>6 DEF Registries
  <1>10. QED
    BY <1>6, <1>8, <1>9 DEF Servers

\* Until somebody edits the file by hand, an entry changes only by the holder of
\* the lock that goes by its name, to what this one has asked for.
THEOREM OwnEntryOnly == Spec => OnlyOwnEntryChanges
  <1> DEFINE Own ==
        edits' = 0 =>
            \A a \in Agents : View(file)'.servers[a] # View(file).servers[a] =>
                \E i \in Installations :
                    /\ lock = i /\ agent[i] = a
                    /\ View(file)'.servers[a] = IF op[i] = "remove" THEN None ELSE i
  <1>1. Init => CopyInv
    BY ConstantsAssumption DEF ConstantsAssumption, Init, CopyInv
  <1>2. Inv /\ CopyInv /\ [Next]_vars => CopyInv'
    BY CopyStep, ConstantsAssumption
  <1>3. Inv /\ CopyInv /\ [Next]_vars => [Own]_vars
    BY WriterChangesOwnEntry, ConstantsAssumption
  <1>4. QED
    BY <1>1, <1>2, <1>3, TypeCorrect, PTL DEF Spec, OnlyOwnEntryChanges
=============================================================================
