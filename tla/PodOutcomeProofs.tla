--------------------------- MODULE PodOutcomeProofs ---------------------------
(***************************************************************************)
(* Proofs about what up and down achieve in PodLifecycle, for every set of *)
(* Pods, settings and addresses: the tunnel that up verifies goes to the   *)
(* bound endpoint; a down without errors leaves the selection stopped; and *)
(* under the assumptions on faults that each theorem names, vLLM runs on a *)
(* Pod with the right settings and no Pod runs unselected; and every       *)
(* operation only moves on, but for a Pod that moves while it is polled.   *)
(* Each invariant is shown step by step for the groups of actions that     *)
(* Next is made of.                                                        *)
(***************************************************************************)
EXTENDS PodLifecycleProofs

Entering == BeginUp \/ BeginDown \/ StepFails \/ WriteFailsLate \/ Kill \/ Tick

\* Next and its groups.
LEMMA Groups ==
  ASSUME [Next]_vars
  PROVE  \/ Selecting \/ Forgetting \/ Creating \/ Switching \/ Connecting
         \/ Cleaning \/ Environment \/ Entering \/ UNCHANGED vars
  BY DEF Next, OpStep, Entering
-----------------------------------------------------------------------------
(* The tunnel. *)

\* from the probe on up has accepted the key of the address in use, runtime.env
\* holds that address from its write on, and the tunnel has read it when up
\* verifies
TunnelInv ==
    /\ pc \in {"ensure", "openEnv", "writeEnv", "restartTunnel", "verify"} => host \in Accepted
    /\ pc \in {"restartTunnel", "verify"} => env = host
    /\ pc = "verify" => tunnel \in {host, Restarting}

\* Every step keeps the tunnel at the address in use.
LEMMA TunnelStep ==
  ASSUME ControlInv, TunnelInv, [Next]_vars
  PROVE  TunnelInv'
  <1> USE DEF TunnelInv, ControlInv, ResumeInv, Forgets, Raise, Throw, Return, Goto,
              trust, Accepted
  <1>1. CASE Selecting
    BY <1>1 DEF Selecting, SelectLive, SelectGone, ForgetId, ForgetSpec, FindNone,
                FindOne, FindMany, Adopt, SelectionReturns
  <1>2. CASE Forgetting
    BY <1>2 DEF Forgetting, ConfirmNothing, ConfirmLive, ConfirmGone, DropOld,
                DropRefused, Unkey, Unlink
  <1>3. CASE Creating
    BY <1>3 DEF Creating, Create, CreateErrs, CreateLost, Reconcile, ReconcileFails,
                SaveId, SaveSpec, JudgeMatch, JudgeMismatch, JudgeRefuses
  <1>4. CASE Switching
    BY <1>4 DEF Switching, StopOld, StopPod, StartPod, StopOrStartLost
  <1>5. CASE Connecting
    BY <1>5 DEF Connecting, Discover, Enrol, Rotate, Rewrite, PrepareRefuses, ProbeOk,
                ProbeMoved, HostKeyMismatch, PollFails, EnsureVllm, OpenEnv, WriteEnv,
                RestartTunnel, Verify, disk, locals
  <1>6. CASE Cleaning
    BY <1>6 DEF Cleaning, StopTunnel, RemoveEnv, RemoveFailure
  <1>7. CASE Environment
    BY <1>7 DEF Environment, Assign, ConsoleEnds, LateEffect, TunnelDies, TunnelReturns,
                TunnelAccepts, ResetPodId, disk, locals
  <1>8. CASE Entering
    BY <1>8 DEF Entering, BeginUp, BeginDown, StepFails, WriteFailsLate, Kill, Tick, disk,
                locals
  <1>9. CASE UNCHANGED vars
    BY <1>9 DEF vars, disk, locals
  <1>10. QED
    BY <1>1, <1>2, <1>3, <1>4, <1>5, <1>6, <1>7, <1>8, <1>9, Groups

\* While up verifies vLLM through it, the tunnel goes to the bound endpoint, whose
\* key up has accepted, or waits for its next start, whenever it restarts and
\* reads runtime.env.  Of the tunnel at other times this says nothing.
THEOREM TunnelBinding == Spec => []TunnelUsesBoundEndpoint
  <1>1. Init => TunnelInv
    BY DEF Init, TunnelInv
  <1>2. ControlInv /\ TunnelInv /\ [Next]_vars => TunnelInv'
    BY TunnelStep
  <1>3. ControlInv /\ TunnelInv => TunnelUsesBoundEndpoint
    BY DEF ControlInv, EndpointInv, SshSteps, TunnelInv, TunnelUsesBoundEndpoint
  <1>4. QED
    BY <1>1, <1>2, <1>3, TypeCorrect, PTL DEF Spec
-----------------------------------------------------------------------------
(* down. *)

DownSteps == {"stopTunnel", "select", "confirmOther", "unkey", "unlink", "forgetId",
              "forgetSpec", "find", "adopt", "stopPod", "removeEnv", "removeFailure"}

\* what a down without errors has achieved at each of its steps
DownInv ==
    /\ op = "down" => pc \in DownSteps
    /\ op = "down" /\ pc \in {"confirmOther", "unkey", "unlink"} => resume = "forgetId"
    /\ op = "down" /\ ~errors =>
        /\ pc # "stopTunnel" => tunnel = None
        /\ pc = "removeFailure" => env = None
        /\ pc \in {"removeEnv", "removeFailure"} /\ podId # None =>
            status[podId] # "RUNNING"
    /\ pc \in {"find", "adopt", "forgetSpec"} => podId = None
    /\ pc = "idle" <=> op = "none"

\* Every step keeps what down has achieved.
LEMMA DownStep ==
  ASSUME ConstantsAssumption, TypeOK, TrustInv, DownInv, [Next]_vars
  PROVE  DownInv'
  <1> USE DEF trust, ConstantsAssumption, TypeOK, FlagsOK, DataOK, ProviderOK, Statuses, TrustInv,
              ControlInv, SelInv, ResumeInv, SeenInv, NotRunningInv, SelectedSteps,
              Forgets, DownInv, DownSteps, Exists, Raise, Throw, Return, Goto, provider,
              disk, locals
  <1>1. CASE Selecting
    <2>1. CASE SelectLive
      BY <2>1 DEF SelectLive, SelectionReturns
    <2>2. CASE SelectGone
      BY <2>2 DEF SelectGone
    <2>3. CASE ForgetId
      BY <2>3 DEF ForgetId
    <2>4. CASE ForgetSpec
      BY <2>4 DEF ForgetSpec
    <2>5. CASE FindNone
      BY <2>5 DEF FindNone, Finding, SelectionReturns
    <2>6. CASE FindOne
      BY <2>6 DEF FindOne, Finding, Named
    <2>7. CASE FindMany
      BY <2>7 DEF FindMany, Finding
    <2>8. CASE Adopt
      BY <2>8 DEF Adopt, SelectionReturns
    <2>9. QED
      BY <1>1, <2>1, <2>2, <2>3, <2>4, <2>5, <2>6, <2>7, <2>8 DEF Selecting
  <1>2. CASE Forgetting
    BY <1>2 DEF Forgetting, ConfirmNothing, ConfirmLive, ConfirmGone, DropOld,
                DropRefused, Unkey, Unlink
  <1>3. CASE Creating
    BY <1>3 DEF Creating, Create, CreateErrs, CreateLost, Reconcile, ReconcileFails,
                SaveId, SaveSpec, JudgeMatch, JudgeMismatch, JudgeRefuses
  <1>4. CASE Switching
    <2>1. CASE StopOld
      BY <2>1 DEF StopOld
    <2>2. CASE StopPod
      <3>1. podId \in Pods => status'[podId] # "RUNNING"
        BY <2>2 DEF StopPod, Stopped
      <3>2. QED
        BY <2>2, <3>1 DEF StopPod
    <2>3. CASE StartPod
      BY <2>3 DEF StartPod
    <2>4. CASE StopOrStartLost
      BY <2>4 DEF StopOrStartLost
    <2>5. QED
      BY <1>4, <2>1, <2>2, <2>3, <2>4 DEF Switching
  <1>5. CASE Connecting
    BY <1>5 DEF Connecting, Discover, Enrol, Rotate, Rewrite, PrepareRefuses, ProbeOk,
                ProbeMoved, HostKeyMismatch, PollFails, EnsureVllm, OpenEnv, WriteEnv,
                RestartTunnel, Verify
  <1>6. CASE Cleaning
    BY <1>6 DEF Cleaning, StopTunnel, RemoveEnv, RemoveFailure
  <1>7. CASE Environment
    BY <1>7 DEF Environment, Assign, ConsoleEnds, LateEffect, Created, Named, TunnelDies,
                TunnelReturns, TunnelAccepts, ResetPodId
  <1>8. CASE Entering
    BY <1>8 DEF Entering, BeginUp, BeginDown, StepFails, WriteFailsLate, Kill, Tick
  <1>9. CASE UNCHANGED vars
    BY <1>9 DEF vars
  <1>10. QED
    BY <1>1, <1>2, <1>3, <1>4, <1>5, <1>6, <1>7, <1>8, <1>9, Groups

\* A down that is about to return without an error has stopped the tunnel and
\* the selected Pod and removed runtime.env, with any faults.
THEOREM DownStops == Spec => []DownLeavesSelectionStopped
  <1>1. Init => DownInv
    BY DEF Init, DownInv
  <1>2. TypeOK /\ TrustInv /\ DownInv /\ [Next]_vars => DownInv'
    BY DownStep, ConstantsAssumption
  <1>3. DownInv => DownLeavesSelectionStopped
    BY DEF DownInv, DownLeavesSelectionStopped
  <1>4. QED
    BY <1>1, <1>2, <1>3, TypeCorrect, TrustInvariant, PTL DEF Spec
-----------------------------------------------------------------------------
(* The settings of the Pod. *)

\* the Pod that up is connecting to was requested with the settings it loaded
Vouched ==
    \/ pc \in SshSteps \union {"start", "discover", "prepare", "rewrite"}
    \/ (pc = "confirmOther" \/ Forgets) /\ resume = "discover"

\* the created Pod is still to be saved
Saving == pc \in {"dropOld", "saveId", "saveSpec"} \/ (Forgets /\ resume = "saveId")

\* the saved specification is the selected Pod's, but for the moments between
\* the two writes
SettingsInv ==
    /\ late = None
    /\ op = "up" => want \in Specs
    /\ podId = None /\ pc # "forgetSpec" => podSpec = None
    /\ pc \in {"forgetSpec", "find", "adopt", "create", "reconcile"} => podId = None
    /\ podSpec # None /\ pc \notin {"saveSpec", "forgetSpec"} => spec[podId] = podSpec
    /\ pc = "create" => \A p \in Pods : ~Exists(p)
    /\ pc = "reconcile" => \A p \in Pods : Exists(p) => spec[p] = want
    /\ Saving => spec[fresh] = want
    /\ Vouched => spec[sel] = want

\* Every step keeps the saved specification true.
LEMMA SettingsStep ==
  ASSUME ~LocalFaults, ~LateCreation, ~Resets,
         ConstantsAssumption, TrustInv, DownInv, SettingsInv, [Next]_vars
  PROVE  SettingsInv'
  <1> USE DEF trust, ConstantsAssumption, DataOK, ProviderOK, Statuses, RemoteSteps, LocalSteps,
              TrustInv, ControlInv, SelInv, FreshInv, ResumeInv, SeenInv, SelectedSteps,
              SshSteps, Forgets, DownInv, DownSteps, SettingsInv, Vouched, Saving,
              Matches, Named, Exists, Raise, Throw, Return, Goto, provider, disk, locals
  <1>1. CASE Selecting
    BY <1>1 DEF Selecting, SelectLive, SelectionReturns, SelectGone, ForgetId,
                ForgetSpec, FindNone, Finding, FindOne, FindMany, Adopt
  <1>2. CASE Forgetting
    BY <1>2 DEF Forgetting, ConfirmNothing, ConfirmLive, ConfirmGone, DropOld,
                DropRefused, Unkey, Unlink
  <1>3. CASE Creating
    <2>1. CASE Create
      BY <2>1 DEF Create, Created
    <2>2. CASE CreateErrs
      BY <2>2 DEF CreateErrs, Created
    <2>3. CASE CreateLost
      BY <2>3 DEF CreateLost, Created
    <2>4. CASE Reconcile
      BY <2>4 DEF Reconcile
    <2>5. CASE ReconcileFails
      BY <2>5 DEF ReconcileFails
    <2>6. CASE SaveId
      BY <2>6 DEF SaveId
    <2>7. CASE SaveSpec
      BY <2>7 DEF SaveSpec
    <2>8. CASE JudgeMatch
      BY <2>8 DEF JudgeMatch
    <2>9. CASE JudgeMismatch
      BY <2>9 DEF JudgeMismatch
    <2>10. CASE JudgeRefuses
      BY <2>10 DEF JudgeRefuses
    <2>11. QED
      BY <1>3, <2>1, <2>2, <2>3, <2>4, <2>5, <2>6, <2>7, <2>8, <2>9, <2>10 DEF Creating
  <1>4. CASE Switching
    BY <1>4 DEF Switching, StopOld, Stopped, StopPod, StartPod, Started, StopOrStartLost
  <1>5. CASE Connecting
    BY <1>5 DEF Connecting, Discover, Enrol, Rotate, Rewrite, PrepareRefuses, ProbeOk,
                ProbeMoved, HostKeyMismatch, PollFails, EnsureVllm, OpenEnv, WriteEnv,
                RestartTunnel, Verify
  <1>6. CASE Cleaning
    BY <1>6 DEF Cleaning, StopTunnel, RemoveEnv, RemoveFailure
  <1>7. CASE Environment
    BY <1>7 DEF Environment, Assign, ConsoleEnds, LateEffect, Created, TunnelDies,
                TunnelReturns, TunnelAccepts, ResetPodId
  <1>8. CASE Entering
    BY <1>8 DEF Entering, BeginUp, BeginDown, StepFails, WriteFailsLate, Kill, Tick
  <1>9. CASE UNCHANGED vars
    BY <1>9 DEF vars
  <1>10. QED
    BY <1>1, <1>2, <1>3, <1>4, <1>5, <1>6, <1>7, <1>8, <1>9, Groups

\* Where no local write fails, no create request takes effect late and nobody
\* deletes runtime.pod-id, the fingerprint vouches for the selected Pod,
\* whatever replies are lost and whatever happens on the console.
THEOREM SettingsMatch ==
  ASSUME ~LocalFaults, ~LateCreation, ~Resets
  PROVE  Spec => []PodMatchesSettings
  <1>1. Init => DownInv /\ SettingsInv
    BY DEF Init, DownInv, SettingsInv, Vouched, Saving, SshSteps, Forgets
  <1>2. TypeOK /\ TrustInv /\ DownInv /\ [Next]_vars => DownInv'
    BY DownStep, ConstantsAssumption
  <1>3. TrustInv /\ DownInv /\ SettingsInv /\ [Next]_vars => SettingsInv'
    BY SettingsStep, ConstantsAssumption
  <1>4. SettingsInv => PodMatchesSettings
    BY DEF SettingsInv, PodMatchesSettings, Vouched, SshSteps
  <1>5. QED
    BY <1>1, <1>2, <1>3, <1>4, TypeCorrect, TrustInvariant, PTL DEF Spec
-----------------------------------------------------------------------------
(* No Pod runs beside the selected one. *)

\* the selected Pod has been found to be gone
Losing == pc = "forgetId" \/ ((pc = "confirmOther" \/ Forgets) /\ resume = "forgetId")

\* a running Pod is the selected one or the one about to be selected
RunningInv ==
    /\ late = None
    /\ \A p \in Pods : status[p] = "RUNNING" =>
        IF Saving THEN p = fresh ELSE p = podId
    /\ Losing => status[podId] # "RUNNING"
    /\ pc = "create" => podId = None

\* Every step keeps unselected Pods from running.
LEMMA RunningStep ==
  ASSUME ~LocalFaults, ~LostReplies, ~LateCreation, ~Resets,
         ConstantsAssumption, TrustInv, DownInv, OrderInv, RunningInv, [Next]_vars
  PROVE  RunningInv'
  <1> USE DEF trust, ConstantsAssumption, DataOK, ProviderOK, Statuses, RemoteSteps, LocalSteps,
              TrustInv, ControlInv, SelInv, FreshInv, ResumeInv, SeenInv, NotRunningInv,
              SelectedSteps, SshSteps, Forgets, DownInv, DownSteps, OrderInv, RunningInv,
              Losing, Saving, Matches, Named, Exists, Raise, Throw, Return, Goto,
              provider, disk, locals
  <1>1. CASE Selecting
    <2>1. CASE SelectLive
      BY <2>1 DEF SelectLive, SelectionReturns
    <2>2. CASE SelectGone
      BY <2>2 DEF SelectGone
    <2>3. CASE ForgetId
      BY <2>3 DEF ForgetId
    <2>4. CASE ForgetSpec
      BY <2>4 DEF ForgetSpec
    <2>5. CASE FindNone
      BY <2>5 DEF FindNone, Finding, SelectionReturns
    <2>6. CASE FindOne
      BY <2>6 DEF FindOne, Finding
    <2>7. CASE FindMany
      BY <2>7 DEF FindMany, Finding
    <2>8. CASE Adopt
      BY <2>8 DEF Adopt, SelectionReturns
    <2>9. QED
      BY <1>1, <2>1, <2>2, <2>3, <2>4, <2>5, <2>6, <2>7, <2>8 DEF Selecting
  <1>2. CASE Forgetting
    BY <1>2 DEF Forgetting, ConfirmNothing, ConfirmLive, ConfirmGone, DropOld,
                DropRefused, Unkey, Unlink
  <1>3. CASE Creating
    <2>1. CASE Create
      BY <2>1 DEF Create, Created
    <2>2. CASE CreateErrs
      BY <2>2 DEF CreateErrs, Created
    <2>3. CASE CreateLost
      BY <2>3 DEF CreateLost, Created
    <2>4. CASE Reconcile
      BY <2>4 DEF Reconcile
    <2>5. CASE ReconcileFails
      BY <2>5 DEF ReconcileFails
    <2>6. CASE SaveId
      BY <2>6 DEF SaveId
    <2>7. CASE SaveSpec
      BY <2>7 DEF SaveSpec
    <2>8. CASE JudgeMatch
      BY <2>8 DEF JudgeMatch
    <2>9. CASE JudgeMismatch
      BY <2>9 DEF JudgeMismatch
    <2>10. CASE JudgeRefuses
      BY <2>10 DEF JudgeRefuses
    <2>11. QED
      BY <1>3, <2>1, <2>2, <2>3, <2>4, <2>5, <2>6, <2>7, <2>8, <2>9, <2>10 DEF Creating
  <1>4. CASE Switching
    BY <1>4 DEF Switching, StopOld, Stopped, StopPod, StartPod, Started, StopOrStartLost
  <1>5. CASE Connecting
    BY <1>5 DEF Connecting, Discover, Enrol, Rotate, Rewrite, PrepareRefuses, ProbeOk,
                ProbeMoved, HostKeyMismatch, PollFails, EnsureVllm, OpenEnv, WriteEnv,
                RestartTunnel, Verify
  <1>6. CASE Cleaning
    BY <1>6 DEF Cleaning, StopTunnel, RemoveEnv, RemoveFailure
  <1>7. CASE Environment
    <2>1. CASE Assign
      BY <2>1 DEF Assign
    <2>2. CASE ConsoleEnds
      BY <2>2 DEF ConsoleEnds
    <2>3. CASE LateEffect
      BY <2>3 DEF LateEffect, Created
    <2>4. CASE TunnelDies
      BY <2>4 DEF TunnelDies
    <2>5. CASE TunnelReturns
      BY <2>5 DEF TunnelReturns
    <2>6. CASE ResetPodId
      BY <2>6 DEF ResetPodId
    <2>7. CASE TunnelAccepts
      BY <2>7 DEF TunnelAccepts
    <2>8. QED
      BY <1>7, <2>1, <2>2, <2>3, <2>4, <2>5, <2>6, <2>7 DEF Environment
  <1>8. CASE Entering
    BY <1>8 DEF Entering, BeginUp, BeginDown, StepFails, WriteFailsLate, Kill, Tick
  <1>9. CASE UNCHANGED vars
    BY <1>9 DEF vars
  <1>10. QED
    BY <1>1, <1>2, <1>3, <1>4, <1>5, <1>6, <1>7, <1>8, <1>9, Groups

\* Where no request or write goes wrong unnoticed, no Pod is left running that
\* neither runtime.pod-id nor the next operation knows.
THEOREM OnlySelectedRuns ==
  ASSUME ~LocalFaults, ~LostReplies, ~LateCreation, ~Resets
  PROVE  Spec => []NoUnselectedPodRuns
  <1>1. Init => DownInv /\ OrderInv /\ RunningInv
    BY ConstantsAssumption
       DEF Init, DownInv, OrderInv, RunningInv, Losing, Saving, Forgets
  <1>2. TypeOK /\ TrustInv /\ DownInv /\ [Next]_vars => DownInv'
    BY DownStep, ConstantsAssumption
  <1>3. ControlInv /\ ControlInv' /\ OrderInv /\ [Next]_vars => OrderInv'
    BY OrderStep, ConstantsAssumption
  <1>4. TrustInv /\ DownInv /\ OrderInv /\ RunningInv /\ [Next]_vars => RunningInv'
    BY RunningStep, ConstantsAssumption
  <1>5. RunningInv => NoUnselectedPodRuns
    BY DEF RunningInv, NoUnselectedPodRuns, Saving, Forgets
  <1>6. QED
    BY <1>1, <1>2, <1>3, <1>4, <1>5, TypeCorrect, TrustInvariant,
       PTL DEF Spec
-----------------------------------------------------------------------------
(* Every operation gets nearer to its end. *)

\* An exception leads to the last two steps of down, or out of up.
LEMMA ThrowAdvances ==
  ASSUME ControlInv, Throw, pc \notin {"idle", "removeEnv", "removeFailure"}
  PROVE  Ahead' < Ahead
  <1>1. Ahead' \in {Place["idle"], Place["removeEnv"]}
    BY DEF Throw, Return, Ahead, Detour
  <1>2. Ahead \in Nat /\ Ahead > Place["removeEnv"]
    <2>1. CASE pc \in DOMAIN Detour
      BY <2>1 DEF ControlInv, ResumeInv, Forgets, Ahead, Detour, Place
    <2>2. CASE pc \notin DOMAIN Detour
      BY <2>2 DEF ControlInv, DataOK, Steps, RemoteSteps, LocalSteps, Ahead, Detour, Place
    <2>3. QED
      BY <2>1, <2>2
  <1>3. QED
    BY <1>1, <1>2 DEF Place

\* _select_pod.
LEMMA SelectingAdvances ==
  ASSUME ControlInv, Selecting
  PROVE  Ahead' < Ahead
  <1> USE DEF Ahead, Detour, Place, SelectionReturns, Goto, locals
  <1>1. CASE SelectLive
    BY <1>1 DEF SelectLive
  <1>2. CASE SelectGone
    BY <1>2 DEF SelectGone
  <1>3. CASE ForgetId \/ ForgetSpec
    BY <1>3 DEF ForgetId, ForgetSpec
  <1>4. CASE FindNone
    BY <1>4 DEF FindNone, Finding
  <1>5. CASE FindOne
    BY <1>5 DEF FindOne, Finding
  <1>6. CASE FindMany
    BY <1>6, ThrowAdvances DEF FindMany, Finding, Raise
  <1>7. CASE Adopt
    BY <1>7 DEF Adopt
  <1>8. QED
    BY <1>1, <1>2, <1>3, <1>4, <1>5, <1>6, <1>7 DEF Selecting

\* Forgetting an endpoint returns to a step that is still ahead.
LEMMA ForgettingAdvances ==
  ASSUME ControlInv, Forgetting
  PROVE  Ahead' < Ahead
  <1> USE DEF ControlInv, ResumeInv, Forgets, Ahead, Detour, Place, Goto, locals
  <1>1. CASE ConfirmNothing \/ ConfirmLive \/ ConfirmGone
    BY <1>1 DEF ConfirmNothing, ConfirmLive, ConfirmGone
  <1>2. CASE DropOld
    BY <1>2 DEF DropOld
  <1>3. CASE DropRefused
    BY <1>3, ThrowAdvances DEF DropRefused, Raise
  <1>4. CASE Unkey \/ Unlink
    BY <1>4 DEF Unkey, Unlink
  <1>5. QED
    BY <1>1, <1>2, <1>3, <1>4 DEF Forgetting

\* Creating and replacing a Pod.
LEMMA CreatingAdvances ==
  ASSUME ControlInv, Creating
  PROVE  Ahead' < Ahead
  <1> USE DEF Ahead, Detour, Place, Goto, locals
  <1>1. CASE Create \/ CreateErrs \/ Reconcile
    BY <1>1 DEF Create, CreateErrs, Reconcile
  <1>2. CASE CreateLost \/ ReconcileFails \/ JudgeRefuses
    BY <1>2, ThrowAdvances DEF CreateLost, ReconcileFails, JudgeRefuses, Raise
  <1>3. CASE SaveId \/ SaveSpec
    BY <1>3 DEF SaveId, SaveSpec
  <1>4. CASE JudgeMatch \/ JudgeMismatch
    BY <1>4 DEF JudgeMatch, JudgeMismatch
  <1>5. QED
    BY <1>1, <1>2, <1>3, <1>4 DEF Creating

\* Starting and stopping a Pod, and the steps of down alone.
LEMMA SwitchingAdvances ==
  ASSUME ControlInv, Switching \/ Cleaning
  PROVE  Ahead' < Ahead
  <1> USE DEF Ahead, Detour, Place, Goto, locals
  <1>1. CASE StopOld \/ StopPod
    BY <1>1 DEF StopOld, StopPod
  <1>2. CASE StartPod
    BY <1>2 DEF StartPod, ControlInv, ResumeInv
  <1>3. CASE StopOrStartLost
    BY <1>3, ThrowAdvances DEF StopOrStartLost, Raise
  <1>4. CASE Cleaning
    <2>1. CASE StopTunnel
      BY <2>1 DEF StopTunnel
    <2>2. CASE RemoveEnv
      BY <2>2 DEF RemoveEnv
    <2>3. CASE RemoveFailure
      BY <2>3 DEF RemoveFailure, Return
    <2>4. QED
      BY <1>4, <2>1, <2>2, <2>3 DEF Cleaning
  <1>5. QED
    BY <1>1, <1>2, <1>3, <1>4 DEF Switching

\* Connecting: the one way back is that of a Pod that has moved.
LEMMA ConnectingAdvances ==
  ASSUME ControlInv, Connecting
  PROVE  \/ Ahead' < Ahead
         \/ pc = "probe" /\ ~expired /\ Answers(sel, host') /\ host' # host
  <1>1. CASE Discover \/ Enrol \/ Rotate \/ Rewrite
    BY <1>1 DEF Discover, Enrol, Rotate, Rewrite, Goto, Ahead, Detour, Place
  <1>2. CASE PrepareRefuses \/ HostKeyMismatch \/ PollFails
    BY <1>2, ThrowAdvances DEF PrepareRefuses, HostKeyMismatch, PollFails, Raise
  <1>3. CASE ProbeOk \/ EnsureVllm \/ OpenEnv \/ WriteEnv
    BY <1>3 DEF ProbeOk, EnsureVllm, OpenEnv, WriteEnv, Goto, Ahead, Detour, Place
  <1>4. CASE ProbeMoved
    BY <1>4 DEF ProbeMoved
  <1>5. CASE RestartTunnel
    BY <1>5 DEF RestartTunnel, Ahead, Detour, Place
  <1>6. CASE Verify
    BY <1>6 DEF Verify, Return, Ahead, Detour, Place
  <1>7. QED
    BY <1>1, <1>2, <1>3, <1>4, <1>5, <1>6 DEF Connecting

\* Whatever fails, and whatever the provider does in between, an operation
\* takes no step twice unless its Pod moves before the deadline: what fairness
\* has to add for it to end is only that time passes.
THEOREM Progress == Spec => OnlyMovesGoBack
  <1> DEFINE Rule ==
        OpStep => \/ Ahead' < Ahead
                  \/ pc = "probe" /\ ~expired /\ Answers(sel, host') /\ host' # host
  <1>1. ControlInv /\ [Next]_vars => [Rule]_vars
    <2> SUFFICES ASSUME ControlInv, OpStep PROVE Rule
      OBVIOUS
    <2>1. CASE StepFails \/ WriteFailsLate
      BY <2>1, ThrowAdvances
         DEF StepFails, WriteFailsLate, RemoteSteps, LocalSteps, Raise
    <2>2. QED
      BY <2>1, SelectingAdvances, ForgettingAdvances, CreatingAdvances, SwitchingAdvances,
         ConnectingAdvances DEF OpStep
  <1>2. QED
    BY <1>1, TypeCorrect, PTL DEF Spec, OnlyMovesGoBack
=============================================================================
