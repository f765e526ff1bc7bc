-------------------------- MODULE PodLifecycleProofs --------------------------
(***************************************************************************)
(* Proofs about PodLifecycle, for every set of Pods, settings and          *)
(* addresses and every combination of faults: type correctness, the        *)
(* binding of ssh to the selected Pod, and that PodLifecycle implements    *)
(* EndpointTrust; and, where runtime.pod-id is not deleted by hand, that   *)
(* the saved endpoint always is the selected Pod's.                        *)
(***************************************************************************)
EXTENDS PodLifecycle, TLAPS

\* steps of up that use the ssh endpoint
SshSteps == {"probe", "ensure", "openEnv", "writeEnv", "restartTunnel", "verify"}

\* steps at which the caller of _select_pod works on the selected Pod
SelectedSteps == SshSteps \union {"judge", "stopOld", "createNew", "dropOld", "start",
                                  "discover", "prepare", "rewrite", "stopPod"}

Forgets == pc \in {"unkey", "unlink"}

\* sel is the persisted Pod, from its selection on
SelInv ==
    /\ pc \in SelectedSteps => sel \in Pods /\ sel = podId
    /\ pc = "confirmOther" /\ resume = "discover" => sel \in Pods /\ sel = podId
    /\ Forgets /\ resume \in {"discover", "saveId"} => sel \in Pods /\ sel = podId
    /\ pc = "adopt" => sel \in Pods

\* fresh is the created Pod, until its id and its specification are saved
FreshInv ==
    /\ pc \in {"dropOld", "saveId", "saveSpec"} => fresh \in Pods
    /\ Forgets /\ resume = "saveId" => fresh \in Pods
    /\ pc = "saveSpec" => podId = fresh

ResumeInv ==
    /\ pc = "confirmOther" => resume \in {"forgetId", "discover"}
    /\ Forgets => resume \in {"forgetId", "discover", "saveId"}
    /\ pc = "start" => resume = "discover"

\* what the endpoint file holds at the steps that rely on it
EndpointInv ==
    /\ pc \in SshSteps \union {"prepare", "rewrite"} => host \in Addrs
    /\ pc \in SshSteps => endpoint = [pod |-> sel, addr |-> host]
    /\ Forgets => endpoint \in Bindings
    /\ pc = "rewrite" => endpoint \in Bindings /\ endpoint.pod = sel

\* The inductive invariant behind TypeOK and SshUsesBoundEndpoint.
ControlInv == DataOK /\ SelInv /\ FreshInv /\ ResumeInv /\ EndpointInv
-----------------------------------------------------------------------------
(* Types of the three flags: every action, by the last value it gives them. *)

\* Selecting: the flags stay Boolean.
LEMMA SelectingFlags ==
  ASSUME FlagsOK, Selecting
  PROVE  FlagsOK'
  <1> USE DEF FlagsOK
  <1>1. CASE SelectLive
    BY <1>1 DEF SelectLive, SelectionReturns, disk
  <1>2. CASE SelectGone
    BY <1>2 DEF SelectGone, disk
  <1>3. CASE ForgetId
    BY <1>3 DEF ForgetId, Goto, locals
  <1>4. CASE ForgetSpec
    BY <1>4 DEF ForgetSpec, Goto, locals
  <1>5. CASE FindNone
    BY <1>5 DEF FindNone, SelectionReturns, disk
  <1>6. CASE FindOne
    BY <1>6 DEF FindOne, disk
  <1>7. CASE FindMany
    BY <1>7 DEF FindMany, Raise, Throw, Written, Return
  <1>8. CASE Adopt
    BY <1>8 DEF Adopt, SelectionReturns
  <1>9. QED
    BY <1>1, <1>2, <1>3, <1>4, <1>5, <1>6, <1>7, <1>8 DEF Selecting

\* Forgetting: the flags stay Boolean.
LEMMA ForgettingFlags ==
  ASSUME FlagsOK, Forgetting
  PROVE  FlagsOK'
  <1> USE DEF FlagsOK
  <1>1. CASE ConfirmNothing
    BY <1>1 DEF ConfirmNothing, Goto, locals, disk
  <1>2. CASE ConfirmLive
    BY <1>2 DEF ConfirmLive, Goto, locals, disk
  <1>3. CASE ConfirmGone
    BY <1>3 DEF ConfirmGone, Goto, locals, disk
  <1>4. CASE DropOld
    BY <1>4 DEF DropOld, disk
  <1>5. CASE DropRefused
    BY <1>5 DEF DropRefused, Raise, Throw, Written, Return
  <1>6. CASE Unkey
    BY <1>6 DEF Unkey, RemoveKey, Goto, locals
  <1>7. CASE Unlink
    BY <1>7 DEF Unlink, Goto, locals
  <1>8. QED
    BY <1>1, <1>2, <1>3, <1>4, <1>5, <1>6, <1>7 DEF Forgetting

\* Creating: the flags stay Boolean.
LEMMA CreatingFlags ==
  ASSUME FlagsOK, Creating
  PROVE  FlagsOK'
  <1> USE DEF FlagsOK
  <1>1. CASE Create
    BY <1>1 DEF Create, disk
  <1>2. CASE CreateErrs
    BY <1>2 DEF CreateErrs, Goto, locals, disk
  <1>3. CASE CreateLost
    BY <1>3 DEF CreateLost, Raise, Throw, Written, Return
  <1>4. CASE Reconcile
    BY <1>4 DEF Reconcile, disk
  <1>5. CASE ReconcileFails
    BY <1>5 DEF ReconcileFails, Raise, Throw, Written, Return
  <1>6. CASE SaveId
    BY <1>6 DEF SaveId, Goto, locals
  <1>7. CASE SaveSpec
    BY <1>7 DEF SaveSpec
  <1>8. CASE JudgeMatch
    BY <1>8 DEF JudgeMatch, disk
  <1>9. CASE JudgeMismatch
    BY <1>9 DEF JudgeMismatch, Goto, locals, disk
  <1>10. CASE JudgeRefuses
    BY <1>10 DEF JudgeRefuses, Raise, Throw, Written, Return
  <1>11. QED
    BY <1>1, <1>2, <1>3, <1>4, <1>5, <1>6, <1>7, <1>8, <1>9, <1>10 DEF Creating

\* Switching: the flags stay Boolean.
LEMMA SwitchingFlags ==
  ASSUME FlagsOK, Switching
  PROVE  FlagsOK'
  <1> USE DEF FlagsOK
  <1>1. CASE StopOld
    BY <1>1 DEF StopOld, Goto, locals, disk
  <1>2. CASE StopPod
    BY <1>2 DEF StopPod, Goto, locals, disk
  <1>3. CASE StartPod
    BY <1>3 DEF StartPod, Goto, locals, disk
  <1>4. CASE StopOrStartLost
    BY <1>4 DEF StopOrStartLost, Raise, Throw, Written, Return
  <1>5. QED
    BY <1>1, <1>2, <1>3, <1>4 DEF Switching

\* Connecting: the flags stay Boolean.
LEMMA ConnectingFlags ==
  ASSUME FlagsOK, Connecting
  PROVE  FlagsOK'
  <1> USE DEF FlagsOK
  <1>1. CASE Discover
    BY <1>1 DEF Discover, disk
  <1>2. CASE Enrol
    BY <1>2 DEF Enrol, Goto, locals
  <1>3. CASE Rotate
    BY <1>3 DEF Rotate, RemoveKey, Goto, locals
  <1>4. CASE Rewrite
    BY <1>4 DEF Rewrite, Goto, locals
  <1>5. CASE PrepareRefuses
    BY <1>5 DEF PrepareRefuses, Raise, Throw, Written, Return
  <1>6. CASE ProbeOk
    BY <1>6 DEF ProbeOk, Goto, locals
  <1>7. CASE ProbeMoved
    BY <1>7 DEF ProbeMoved, disk
  <1>8. CASE HostKeyMismatch
    BY <1>8 DEF HostKeyMismatch, Raise, Throw, Written, Return
  <1>9. CASE PollFails
    BY <1>9 DEF PollFails, Raise, Throw, Written, Return
  <1>10. CASE EnsureVllm
    BY <1>10 DEF EnsureVllm, Goto, locals, disk
  <1>11. CASE OpenEnv
    BY <1>11 DEF OpenEnv, Goto, locals
  <1>12. CASE WriteEnv
    BY <1>12 DEF WriteEnv, Goto, locals
  <1>13. CASE RestartTunnel
    BY <1>13 DEF RestartTunnel, disk
  <1>14. CASE Verify
    BY <1>14 DEF Verify, Written, Return
  <1>15. QED
    BY <1>1, <1>2, <1>3, <1>4, <1>5, <1>6, <1>7, <1>8, <1>9, <1>10, <1>11, <1>12, <1>13,
      <1>14 DEF Connecting

\* Cleaning: the flags stay Boolean.
LEMMA CleaningFlags ==
  ASSUME FlagsOK, Cleaning
  PROVE  FlagsOK'
  <1> USE DEF FlagsOK
  <1>1. CASE StopTunnel
    BY <1>1 DEF StopTunnel, disk
  <1>2. CASE RemoveEnv
    BY <1>2 DEF RemoveEnv
  <1>3. CASE RemoveFailure
    BY <1>3 DEF RemoveFailure, Written, Return
  <1>4. QED
    BY <1>1, <1>2, <1>3 DEF Cleaning

\* Environment: the flags stay Boolean.
LEMMA EnvironmentFlags ==
  ASSUME FlagsOK, Environment
  PROVE  FlagsOK'
  <1> USE DEF FlagsOK
  <1>1. CASE Assign
    BY <1>1 DEF Assign, disk, locals
  <1>2. CASE ConsoleEnds
    BY <1>2 DEF ConsoleEnds, disk, locals
  <1>3. CASE LateEffect
    BY <1>3 DEF LateEffect, disk, locals
  <1>4. CASE TunnelDies
    BY <1>4 DEF TunnelDies, disk, locals
  <1>5. CASE ResetPodId
    BY <1>5 DEF ResetPodId, locals
  <1>6. CASE TunnelReturns
    BY <1>6 DEF TunnelReturns, disk, locals
  <1>7. CASE TunnelAccepts
    BY <1>7 DEF TunnelAccepts, provider, locals
  <1>8. QED
    BY <1>1, <1>2, <1>3, <1>4, <1>5, <1>6, <1>7 DEF Environment

-----------------------------------------------------------------------------
(* The control invariant. *)

\* An exception leaves the control invariant intact wherever it is raised,
\* whatever has become of the files.
LEMMA ThrowControl ==
  ASSUME ControlInv, Throw, ProviderOK',
         podId' \in Pods \union {None}, podSpec' \in Specs \union {None},
         endpoint' \in Bindings \union {None}
  PROVE  ControlInv'
  <1> USE DEF trust, ControlInv, DataOK, ProviderOK, Statuses, Bindings, Steps, RemoteSteps,
              LocalSteps, SelInv, FreshInv, ResumeInv, EndpointInv, SshSteps,
              SelectedSteps, Forgets
  <1>1. UNCHANGED <<trust, env, tunnel>>
    BY DEF Throw
  <1>2. CASE Return
    BY <1>1, <1>2 DEF Return
  <1>3. CASE pc' = "removeEnv" /\ UNCHANGED <<op, want, sel, snap, fresh, host, resume>>
    BY <1>1, <1>3
  <1>4. QED
    BY <1>2, <1>3 DEF Throw

\* An exception that touches no file keeps types and control, for up and down.
LEMMA RaiseControl ==
  ASSUME ControlInv, Raise, ProviderOK'
  PROVE  ControlInv'
  BY ThrowControl DEF Raise, ControlInv, DataOK

\* Selecting preserves the control invariant.
LEMMA SelectingControl ==
  ASSUME ConstantsAssumption, ControlInv, Selecting
  PROVE  ControlInv'
  <1> USE DEF trust, ConstantsAssumption, ControlInv, DataOK, ProviderOK, Statuses, Bindings,
              Steps, RemoteSteps, LocalSteps, SelInv, FreshInv, ResumeInv, EndpointInv,
              SshSteps, SelectedSteps, Forgets
  <1>1. CASE SelectLive
    BY <1>1 DEF SelectLive, Exists, SelectionReturns, provider, disk
  <1>2. CASE SelectGone
    BY <1>2 DEF SelectGone, Exists, provider, disk
  <1>3. CASE ForgetId
    BY <1>3 DEF ForgetId, Goto, locals, provider
  <1>4. CASE ForgetSpec
    BY <1>4 DEF ForgetSpec, Goto, locals, provider
  <1>5. CASE FindNone
    BY <1>5 DEF FindNone, Finding, Matches, Named, Exists, SelectionReturns, provider, disk
  <1>6. CASE FindOne
    BY <1>6 DEF FindOne, Finding, Matches, Named, Exists, provider, disk
  <1>7. CASE FindMany
    BY <1>7, RaiseControl DEF FindMany, Finding, Named, Exists, provider
  <1>8. CASE Adopt
    BY <1>8 DEF Adopt, SelectionReturns, provider
  <1>9. QED
    BY <1>1, <1>2, <1>3, <1>4, <1>5, <1>6, <1>7, <1>8 DEF Selecting

\* Forgetting preserves the control invariant.
LEMMA ForgettingControl ==
  ASSUME ConstantsAssumption, ControlInv, Forgetting
  PROVE  ControlInv'
  <1> USE DEF trust, ConstantsAssumption, ControlInv, DataOK, ProviderOK, Statuses, Bindings,
              Steps, RemoteSteps, LocalSteps, SelInv, FreshInv, ResumeInv, EndpointInv,
              SshSteps, SelectedSteps, Forgets
  <1>1. CASE ConfirmNothing
    BY <1>1 DEF ConfirmNothing, Kept, Goto, locals, provider, disk
  <1>2. CASE ConfirmLive
    BY <1>2 DEF ConfirmLive, Kept, Exists, Goto, locals, provider, disk
  <1>3. CASE ConfirmGone
    BY <1>3 DEF ConfirmGone, Kept, Exists, Goto, locals, provider, disk
  <1>4. CASE DropOld
    BY <1>4 DEF DropOld, provider, disk
  <1>5. CASE DropRefused
    BY <1>5, RaiseControl DEF DropRefused, provider
  <1>6. CASE Unkey
    BY <1>6 DEF Unkey, RemoveKey, Goto, locals, provider
  <1>7. CASE Unlink
    BY <1>7 DEF Unlink, Goto, locals, provider
  <1>8. QED
    BY <1>1, <1>2, <1>3, <1>4, <1>5, <1>6, <1>7 DEF Forgetting

\* Creating preserves the control invariant.
LEMMA CreatingControl ==
  ASSUME ConstantsAssumption, ControlInv, Creating
  PROVE  ControlInv'
  <1> USE DEF trust, ConstantsAssumption, ControlInv, DataOK, ProviderOK, Statuses, Bindings,
              Steps, RemoteSteps, LocalSteps, SelInv, FreshInv, ResumeInv, EndpointInv,
              SshSteps, SelectedSteps, Forgets
  <1>1. CASE Create
    BY <1>1 DEF Create, Created, disk
  <1>2. CASE CreateErrs
    BY <1>2 DEF CreateErrs, provider, Created, Goto, locals, disk
  <1>3. CASE CreateLost
    BY <1>3, RaiseControl DEF CreateLost, Created
  <1>4. CASE Reconcile
    BY <1>4 DEF Reconcile, Matches, Named, Exists, provider, disk
  <1>5. CASE ReconcileFails
    BY <1>5, RaiseControl DEF ReconcileFails, Matches, Named, Exists, provider
  <1>6. CASE SaveId
    BY <1>6 DEF SaveId, Goto, locals, provider
  <1>7. CASE SaveSpec
    BY <1>7 DEF SaveSpec, provider
  <1>8. CASE JudgeMatch
    BY <1>8 DEF JudgeMatch, provider, disk
  <1>9. CASE JudgeMismatch
    BY <1>9 DEF JudgeMismatch, Goto, locals, provider, disk
  <1>10. CASE JudgeRefuses
    BY <1>10, RaiseControl DEF JudgeRefuses, provider
  <1>11. QED
    BY <1>1, <1>2, <1>3, <1>4, <1>5, <1>6, <1>7, <1>8, <1>9, <1>10 DEF Creating

\* Switching preserves the control invariant.
LEMMA SwitchingControl ==
  ASSUME ConstantsAssumption, ControlInv, Switching
  PROVE  ControlInv'
  <1> USE DEF trust, ConstantsAssumption, ControlInv, DataOK, ProviderOK, Statuses, Bindings,
              Steps, RemoteSteps, LocalSteps, SelInv, FreshInv, ResumeInv, EndpointInv,
              SshSteps, SelectedSteps, Forgets
  <1>1. CASE StopOld
    BY <1>1 DEF StopOld, Stopped, Exists, Goto, locals, disk
  <1>2. CASE StopPod
    BY <1>2 DEF StopPod, Stopped, Exists, Goto, locals, disk
  <1>3. CASE StartPod
    BY <1>3 DEF StartPod, Started, Goto, locals, disk
  <1>4. CASE StopOrStartLost
    BY <1>4, RaiseControl DEF StopOrStartLost, Stopped, Exists, Started
  <1>5. QED
    BY <1>1, <1>2, <1>3, <1>4 DEF Switching

\* Connecting preserves the control invariant.
LEMMA ConnectingControl ==
  ASSUME ConstantsAssumption, ControlInv, Connecting
  PROVE  ControlInv'
  <1> USE DEF trust, ConstantsAssumption, ControlInv, DataOK, ProviderOK, Statuses, Bindings,
              Steps, RemoteSteps, LocalSteps, SelInv, FreshInv, ResumeInv, EndpointInv,
              SshSteps, SelectedSteps, Forgets
  <1>1. CASE Discover
    BY <1>1 DEF Discover, Answers, provider, disk
  <1>2. CASE Enrol
    BY <1>2 DEF Enrol, Goto, locals, provider
  <1>3. CASE Rotate
    BY <1>3 DEF Rotate, RemoveKey, Goto, locals, provider
  <1>4. CASE Rewrite
    BY <1>4 DEF Rewrite, Goto, locals, provider
  <1>5. CASE PrepareRefuses
    BY <1>5, RaiseControl DEF PrepareRefuses, provider
  <1>6. CASE ProbeOk
    BY <1>6 DEF ProbeOk, Answers, Goto, locals, provider
  <1>7. CASE ProbeMoved
    BY <1>7 DEF ProbeMoved, Answers, provider, disk
  <1>8. CASE HostKeyMismatch
    BY <1>8, RaiseControl DEF HostKeyMismatch, provider
  <1>9. CASE PollFails
    BY <1>9, RaiseControl DEF PollFails, provider
  <1>10. CASE EnsureVllm
    BY <1>10 DEF EnsureVllm, Answers, Goto, locals, provider, disk
  <1>11. CASE OpenEnv
    BY <1>11 DEF OpenEnv, Goto, locals, provider
  <1>12. CASE WriteEnv
    BY <1>12 DEF WriteEnv, Goto, locals, provider
  <1>13. CASE RestartTunnel
    BY <1>13 DEF RestartTunnel, provider, disk
  <1>14. CASE Verify
    BY <1>14 DEF Verify, Answers, Written, Return, provider
  <1>15. QED
    BY <1>1, <1>2, <1>3, <1>4, <1>5, <1>6, <1>7, <1>8, <1>9, <1>10, <1>11, <1>12, <1>13,
      <1>14 DEF Connecting

\* Cleaning preserves the control invariant.
LEMMA CleaningControl ==
  ASSUME ConstantsAssumption, ControlInv, Cleaning
  PROVE  ControlInv'
  <1> USE DEF trust, ConstantsAssumption, ControlInv, DataOK, ProviderOK, Statuses, Bindings,
              Steps, RemoteSteps, LocalSteps, SelInv, FreshInv, ResumeInv, EndpointInv,
              SshSteps, SelectedSteps, Forgets
  <1>1. CASE StopTunnel
    BY <1>1 DEF StopTunnel, provider, disk
  <1>2. CASE RemoveEnv
    BY <1>2 DEF RemoveEnv, provider
  <1>3. CASE RemoveFailure
    BY <1>3 DEF RemoveFailure, Written, Return, provider
  <1>4. QED
    BY <1>1, <1>2, <1>3 DEF Cleaning

\* Environment preserves the control invariant.
LEMMA EnvironmentControl ==
  ASSUME ConstantsAssumption, ControlInv, Environment
  PROVE  ControlInv'
  <1> USE DEF trust, ConstantsAssumption, ControlInv, DataOK, ProviderOK, Statuses, Bindings,
              Steps, RemoteSteps, LocalSteps, SelInv, FreshInv, ResumeInv, EndpointInv,
              SshSteps, SelectedSteps, Forgets
  <1>1. CASE Assign
    BY <1>1 DEF Assign, Answers, disk, locals
  <1>2. CASE ConsoleEnds
    BY <1>2 DEF ConsoleEnds, Named, Exists, disk, locals
  <1>3. CASE LateEffect
    BY <1>3 DEF LateEffect, Created, disk, locals
  <1>4. CASE TunnelDies
    BY <1>4 DEF TunnelDies, provider, disk, locals
  <1>5. CASE ResetPodId
    BY <1>5 DEF ResetPodId, provider, locals
  <1>6. CASE TunnelReturns
    BY <1>6 DEF TunnelReturns, provider, disk, locals
  <1>7. CASE TunnelAccepts
    BY <1>7 DEF TunnelAccepts, provider, locals
  <1>8. QED
    BY <1>1, <1>2, <1>3, <1>4, <1>5, <1>6, <1>7 DEF Environment

\* Entering, failing, being killed, waiting: the flags stay Boolean.
LEMMA EntryFlags ==
  ASSUME FlagsOK, BeginUp \/ BeginDown \/ StepFails \/ WriteFailsLate \/ Kill \/ Tick
  PROVE  FlagsOK'
  <1> USE DEF FlagsOK
  <1>1. CASE BeginUp
    BY <1>1 DEF BeginUp, disk
  <1>2. CASE BeginDown
    BY <1>2 DEF BeginDown, disk, locals
  <1>3. CASE StepFails
    BY <1>3 DEF StepFails, Raise, Throw, Written, Return
  <1>4. CASE WriteFailsLate
    BY <1>4 DEF WriteFailsLate, Throw, Written, Return
  <1>5. CASE Kill
    BY <1>5 DEF Kill, Return, disk
  <1>6. CASE Tick
    BY <1>6 DEF Tick, disk
  <1>7. QED
    BY <1>1, <1>2, <1>3, <1>4, <1>5, <1>6

\* Entering, failing, being killed, waiting preserve the control invariant.
LEMMA EntryControl ==
  ASSUME ConstantsAssumption, ControlInv,
         BeginUp \/ BeginDown \/ StepFails \/ WriteFailsLate \/ Kill \/ Tick
  PROVE  ControlInv'
  <1> USE DEF trust, ConstantsAssumption, ControlInv, DataOK, ProviderOK, Statuses, Bindings,
              Steps, RemoteSteps, LocalSteps, SelInv, FreshInv, ResumeInv, EndpointInv,
              SshSteps, SelectedSteps, Forgets
  <1>1. CASE BeginUp
    BY <1>1 DEF BeginUp, provider, disk
  <1>2. CASE BeginDown
    BY <1>2 DEF BeginDown, provider, disk, locals
  <1>3. CASE StepFails
    BY <1>3, RaiseControl DEF StepFails, provider
  <1>4. CASE WriteFailsLate
    BY <1>4, ThrowControl DEF WriteFailsLate, provider
  <1>5. CASE Kill
    BY <1>5 DEF Kill, Return, provider, disk
  <1>6. CASE Tick
    BY <1>6 DEF Tick, provider, disk
  <1>7. QED
    BY <1>1, <1>2, <1>3, <1>4, <1>5, <1>6

-----------------------------------------------------------------------------
\* Every variable keeps its type in every reachable state, with any faults.
THEOREM TypeCorrect == Spec => [](TypeOK /\ ControlInv)
  <1>1. Init => FlagsOK /\ ControlInv
    BY ConstantsAssumption
       DEF Init, FlagsOK, ConstantsAssumption, ControlInv,
           DataOK, ProviderOK, Statuses, Bindings, Steps, RemoteSteps, LocalSteps,
             SelInv, FreshInv, ResumeInv, EndpointInv, SshSteps, SelectedSteps, Forgets
  <1>2. ASSUME FlagsOK, [Next]_vars PROVE FlagsOK'
    <2>1. CASE UNCHANGED vars
      BY <1>2, <2>1 DEF vars, disk, locals, FlagsOK
    <2>2. QED
      BY <1>2, <2>1,
         SelectingFlags, ForgettingFlags, CreatingFlags, SwitchingFlags,
         ConnectingFlags, CleaningFlags, EnvironmentFlags, EntryFlags
      DEF Next, OpStep
  <1>3. ASSUME ControlInv, [Next]_vars PROVE ControlInv'
    <2>1. CASE UNCHANGED vars
      BY <1>3, <2>1
         DEF vars, provider, disk, trust, locals, ControlInv,
             DataOK, ProviderOK, Statuses, Bindings, Steps, RemoteSteps, LocalSteps,
             SelInv, FreshInv, ResumeInv, EndpointInv, SshSteps, SelectedSteps, Forgets
    <2>2. QED
      BY <1>3, <2>1, ConstantsAssumption,
         SelectingControl, ForgettingControl, CreatingControl, SwitchingControl,
         ConnectingControl, CleaningControl, EnvironmentControl, EntryControl
      DEF Next, OpStep
  <1>4. FlagsOK /\ ControlInv => TypeOK
    BY DEF TypeOK, ControlInv
  <1>5. QED
    BY <1>1, <1>2, <1>3, <1>4, PTL DEF Spec

\* ssh is only ever used at the endpoint bound to the Pod that up has selected
\* and that runtime.pod-id names, whatever was lost, killed or reset.
THEOREM SshBinding == Spec => []SshUsesBoundEndpoint
  <1>1. ControlInv => SshUsesBoundEndpoint
    BY DEF ControlInv, SelInv, EndpointInv, SshSteps, SelectedSteps, SshUsesBoundEndpoint
  <1>2. QED
    BY <1>1, TypeCorrect, PTL
-----------------------------------------------------------------------------
(* PodLifecycle implements EndpointTrust. *)

\* a Pod whose id the program has met has been created
SeenInv ==
    /\ podId # None => status[podId] # "absent"
    /\ endpoint # None => status[endpoint.pod] # "absent"
    /\ sel # None => status[sel] # "absent"
    /\ fresh # None => status[fresh] # "absent"

\* keys are for the bound address, and gone before the binding changes
KeyInv ==
    /\ \A a \in Accepted : endpoint # None /\ a = endpoint.addr
    /\ pc \in {"unlink", "rewrite"} => endpoint.addr \notin Accepted

\* what up and down have been told not to run does not run
NotRunningInv ==
    /\ Forgets => status[endpoint.pod] # "RUNNING"
    /\ pc \in {"createNew", "dropOld"} => status[sel] # "RUNNING"
    /\ pc \in {"judge", "adopt"} /\ snap # "RUNNING" => status[sel] # "RUNNING"

\* The inductive invariant behind ImplementsEndpointTrust.
TrustInv == ControlInv /\ SeenInv /\ KeyInv /\ NotRunningInv

\* An exception leaves the trust invariant intact where no Pod is created
\* or where it ends up.
LEMMA RaiseTrust ==
  ASSUME ConstantsAssumption, TrustInv, Raise, ProviderOK',
         \A p \in Pods : status[p] # "absent" => status'[p] # "absent"
  PROVE  TrustInv'
  <1> USE DEF trust, Accepted, ConstantsAssumption, TrustInv,
           SeenInv, KeyInv, NotRunningInv, Forgets
  <1>1. ControlInv'
    BY RaiseControl
  <1>2. UNCHANGED <<podId, endpoint, Accepted>> /\ pc' \in {"idle", "removeEnv"}
    BY DEF Raise, Throw, Return
  <1>3. /\ sel' \in {sel, None} /\ fresh' \in {fresh, None}
    BY DEF Raise, Throw, Return
  <1>4. SeenInv'
    BY <1>2, <1>3 DEF ControlInv, DataOK, Bindings
  <1>5. KeyInv' /\ NotRunningInv'
    BY <1>2
  <1>6. QED
    BY <1>1, <1>4, <1>5

\* Selecting preserves the trust invariant.
LEMMA SelectingTrust ==
  ASSUME ConstantsAssumption, TrustInv, ControlInv', Selecting
  PROVE  TrustInv'
  <1> USE DEF trust, Accepted, ConstantsAssumption, TrustInv, ControlInv, SeenInv, KeyInv, NotRunningInv,
              DataOK, ProviderOK, Statuses, Bindings, Steps, RemoteSteps, LocalSteps,
              SelInv, FreshInv, ResumeInv, EndpointInv, SshSteps, SelectedSteps, Forgets
  <1>1. CASE SelectLive
    BY <1>1 DEF SelectLive, Exists, SelectionReturns, provider, disk
  <1>2. CASE SelectGone
    BY <1>2 DEF SelectGone, Exists, provider, disk
  <1>3. CASE ForgetId
    BY <1>3 DEF ForgetId, Goto, locals, provider
  <1>4. CASE ForgetSpec
    BY <1>4 DEF ForgetSpec, Goto, locals, provider
  <1>5. CASE FindNone
    BY <1>5 DEF FindNone, Finding, Matches, Named, Exists, SelectionReturns, provider, disk
  <1>6. CASE FindOne
    BY <1>6 DEF FindOne, Finding, Matches, Named, Exists, provider, disk
  <1>7. CASE FindMany
    BY <1>7, RaiseTrust DEF FindMany, Finding, Named, Exists, provider, ControlInv,
      DataOK, ProviderOK, Statuses
  <1>8. CASE Adopt
    BY <1>8 DEF Adopt, SelectionReturns, provider
  <1>9. QED
    BY <1>1, <1>2, <1>3, <1>4, <1>5, <1>6, <1>7, <1>8 DEF Selecting

\* Forgetting preserves the trust invariant.
LEMMA ForgettingTrust ==
  ASSUME ConstantsAssumption, TrustInv, ControlInv', Forgetting
  PROVE  TrustInv'
  <1> USE DEF trust, Accepted, ConstantsAssumption, TrustInv, ControlInv, SeenInv, KeyInv, NotRunningInv,
              DataOK, ProviderOK, Statuses, Bindings, Steps, RemoteSteps, LocalSteps,
              SelInv, FreshInv, ResumeInv, EndpointInv, SshSteps, SelectedSteps, Forgets
  <1>1. CASE ConfirmNothing
    BY <1>1 DEF ConfirmNothing, Kept, Goto, locals, provider, disk
  <1>2. CASE ConfirmLive
    BY <1>2 DEF ConfirmLive, Kept, Exists, Goto, locals, provider, disk
  <1>3. CASE ConfirmGone
    BY <1>3 DEF ConfirmGone, Kept, Exists, Goto, locals, provider, disk
  <1>4. CASE DropOld
    BY <1>4 DEF DropOld, provider, disk
  <1>5. CASE DropRefused
    BY <1>5, RaiseTrust DEF DropRefused, provider, ControlInv, DataOK, ProviderOK,
      Statuses
  <1>6. CASE Unkey
    BY <1>6 DEF Unkey, RemoveKey, Goto, locals, provider
  <1>7. CASE Unlink
    BY <1>7 DEF Unlink, Goto, locals, provider
  <1>8. QED
    BY <1>1, <1>2, <1>3, <1>4, <1>5, <1>6, <1>7 DEF Forgetting

\* Creating preserves the trust invariant.
LEMMA CreatingTrust ==
  ASSUME ConstantsAssumption, TrustInv, ControlInv', Creating
  PROVE  TrustInv'
  <1> USE DEF trust, Accepted, ConstantsAssumption, TrustInv, ControlInv, SeenInv, KeyInv, NotRunningInv,
              DataOK, ProviderOK, Statuses, Bindings, Steps, RemoteSteps, LocalSteps,
              SelInv, FreshInv, ResumeInv, EndpointInv, SshSteps, SelectedSteps, Forgets
  <1>1. CASE Create
    BY <1>1 DEF Create, Created, disk
  <1>2. CASE CreateErrs
    BY <1>2 DEF CreateErrs, provider, Created, Goto, locals, disk
  <1>3. CASE CreateLost
    BY <1>3, RaiseTrust DEF CreateLost, Created, ControlInv, DataOK, ProviderOK, Statuses
  <1>4. CASE Reconcile
    BY <1>4 DEF Reconcile, Matches, Named, Exists, provider, disk
  <1>5. CASE ReconcileFails
    BY <1>5, RaiseTrust DEF ReconcileFails, Matches, Named, Exists, provider, ControlInv, DataOK,
      ProviderOK, Statuses
  <1>6. CASE SaveId
    BY <1>6 DEF SaveId, Goto, locals, provider
  <1>7. CASE SaveSpec
    BY <1>7 DEF SaveSpec, provider
  <1>8. CASE JudgeMatch
    BY <1>8 DEF JudgeMatch, provider, disk
  <1>9. CASE JudgeMismatch
    BY <1>9 DEF JudgeMismatch, Goto, locals, provider, disk
  <1>10. CASE JudgeRefuses
    BY <1>10, RaiseTrust DEF JudgeRefuses, provider, ControlInv, DataOK, ProviderOK,
      Statuses
  <1>11. QED
    BY <1>1, <1>2, <1>3, <1>4, <1>5, <1>6, <1>7, <1>8, <1>9, <1>10 DEF Creating

\* Switching preserves the trust invariant.
LEMMA SwitchingTrust ==
  ASSUME ConstantsAssumption, TrustInv, ControlInv', Switching
  PROVE  TrustInv'
  <1> USE DEF trust, Accepted, ConstantsAssumption, TrustInv, ControlInv, SeenInv, KeyInv, NotRunningInv,
              DataOK, ProviderOK, Statuses, Bindings, Steps, RemoteSteps, LocalSteps,
              SelInv, FreshInv, ResumeInv, EndpointInv, SshSteps, SelectedSteps, Forgets
  <1>1. CASE StopOld
    BY <1>1 DEF StopOld, Stopped, Exists, Goto, locals, disk
  <1>2. CASE StopPod
    BY <1>2 DEF StopPod, Stopped, Exists, Goto, locals, disk
  <1>3. CASE StartPod
    BY <1>3 DEF StartPod, Started, Goto, locals, disk
  <1>4. CASE StopOrStartLost
    BY <1>4, RaiseTrust DEF StopOrStartLost, Stopped, Exists, Started, ControlInv,
      DataOK, ProviderOK, Statuses
  <1>5. QED
    BY <1>1, <1>2, <1>3, <1>4 DEF Switching

\* Connecting preserves the trust invariant.
LEMMA ConnectingTrust ==
  ASSUME ConstantsAssumption, TrustInv, ControlInv', Connecting
  PROVE  TrustInv'
  <1> USE DEF trust, Accepted, ConstantsAssumption, TrustInv, ControlInv, SeenInv, KeyInv, NotRunningInv,
              DataOK, ProviderOK, Statuses, Bindings, Steps, RemoteSteps, LocalSteps,
              SelInv, FreshInv, ResumeInv, EndpointInv, SshSteps, SelectedSteps, Forgets
  <1>1. CASE Discover
    BY <1>1 DEF Discover, Answers, provider, disk
  <1>2. CASE Enrol
    BY <1>2 DEF Enrol, Goto, locals, provider
  <1>3. CASE Rotate
    BY <1>3 DEF Rotate, RemoveKey, Goto, locals, provider
  <1>4. CASE Rewrite
    BY <1>4 DEF Rewrite, Goto, locals, provider
  <1>5. CASE PrepareRefuses
    BY <1>5, RaiseTrust DEF PrepareRefuses, provider, ControlInv, DataOK, ProviderOK,
      Statuses
  <1>6. CASE ProbeOk
    BY <1>6 DEF ProbeOk, Answers, Goto, locals, provider
  <1>7. CASE ProbeMoved
    BY <1>7 DEF ProbeMoved, Answers, provider, disk
  <1>8. CASE HostKeyMismatch
    BY <1>8, RaiseTrust DEF HostKeyMismatch, provider, ControlInv, DataOK, ProviderOK,
      Statuses
  <1>9. CASE PollFails
    BY <1>9, RaiseTrust DEF PollFails, provider, ControlInv, DataOK, ProviderOK, Statuses
  <1>10. CASE EnsureVllm
    BY <1>10 DEF EnsureVllm, Answers, Goto, locals, provider, disk
  <1>11. CASE OpenEnv
    BY <1>11 DEF OpenEnv, Goto, locals, provider
  <1>12. CASE WriteEnv
    BY <1>12 DEF WriteEnv, Goto, locals, provider
  <1>13. CASE RestartTunnel
    BY <1>13 DEF RestartTunnel, provider, disk
  <1>14. CASE Verify
    BY <1>14 DEF Verify, Answers, Written, Return, provider
  <1>15. QED
    BY <1>1, <1>2, <1>3, <1>4, <1>5, <1>6, <1>7, <1>8, <1>9, <1>10, <1>11, <1>12, <1>13,
      <1>14 DEF Connecting

\* Cleaning preserves the trust invariant.
LEMMA CleaningTrust ==
  ASSUME ConstantsAssumption, TrustInv, ControlInv', Cleaning
  PROVE  TrustInv'
  <1> USE DEF trust, Accepted, ConstantsAssumption, TrustInv, ControlInv, SeenInv, KeyInv, NotRunningInv,
              DataOK, ProviderOK, Statuses, Bindings, Steps, RemoteSteps, LocalSteps,
              SelInv, FreshInv, ResumeInv, EndpointInv, SshSteps, SelectedSteps, Forgets
  <1>1. CASE StopTunnel
    BY <1>1 DEF StopTunnel, provider, disk
  <1>2. CASE RemoveEnv
    BY <1>2 DEF RemoveEnv, provider
  <1>3. CASE RemoveFailure
    BY <1>3 DEF RemoveFailure, Written, Return, provider
  <1>4. QED
    BY <1>1, <1>2, <1>3 DEF Cleaning

\* Environment preserves the trust invariant.
LEMMA EnvironmentTrust ==
  ASSUME ConstantsAssumption, TrustInv, ControlInv', Environment
  PROVE  TrustInv'
  <1> USE DEF trust, Accepted, ConstantsAssumption, TrustInv, ControlInv, SeenInv, KeyInv, NotRunningInv,
              DataOK, ProviderOK, Statuses, Bindings, Steps, RemoteSteps, LocalSteps,
              SelInv, FreshInv, ResumeInv, EndpointInv, SshSteps, SelectedSteps, Forgets
  <1>1. CASE Assign
    BY <1>1 DEF Assign, Answers, disk, locals
  <1>2. CASE ConsoleEnds
    BY <1>2 DEF ConsoleEnds, Named, Exists, disk, locals
  <1>3. CASE LateEffect
    <2>1. PICK p \in Pods : Created(p, late)
      BY <1>3 DEF LateEffect
    <2>2. /\ status' = [status EXCEPT ![p] = "RUNNING"] /\ status[p] = "absent"
          /\ UNCHANGED <<podId, endpoint, Accepted, pc, sel, snap, fresh>>
      BY <1>3, <2>1 DEF LateEffect, Created, disk, locals
    <2>3. SeenInv'
      BY <2>2
    <2>4. KeyInv' /\ NotRunningInv'
      BY <2>2
    <2>5. QED
      BY <2>3, <2>4
  <1>4. CASE TunnelDies
    BY <1>4 DEF TunnelDies, provider, disk, locals
  <1>5. CASE ResetPodId
    BY <1>5 DEF ResetPodId, provider, locals
  <1>6. CASE TunnelReturns
    BY <1>6 DEF TunnelReturns, provider, disk, locals
  <1>7. CASE TunnelAccepts
    BY <1>7 DEF TunnelAccepts, provider, locals
  <1>8. QED
    BY <1>1, <1>2, <1>3, <1>4, <1>5, <1>6, <1>7 DEF Environment

\* Entering, failing, being killed, waiting preserve the trust invariant.
LEMMA EntryTrust ==
  ASSUME ConstantsAssumption, TrustInv, ControlInv',
         BeginUp \/ BeginDown \/ StepFails \/ WriteFailsLate \/ Kill \/ Tick
  PROVE  TrustInv'
  <1> USE DEF trust, Accepted, ConstantsAssumption, TrustInv, ControlInv, SeenInv, KeyInv, NotRunningInv,
              DataOK, ProviderOK, Statuses, Bindings, Steps, RemoteSteps, LocalSteps,
              SelInv, FreshInv, ResumeInv, EndpointInv, SshSteps, SelectedSteps, Forgets
  <1>1. CASE BeginUp
    BY <1>1 DEF BeginUp, provider, disk
  <1>2. CASE BeginDown
    BY <1>2 DEF BeginDown, provider, disk, locals
  <1>3. CASE StepFails
    BY <1>3, RaiseTrust DEF StepFails, provider, ControlInv, DataOK, ProviderOK, Statuses
  <1>4. CASE WriteFailsLate
    <2>1. /\ UNCHANGED <<status, Accepted>> /\ pc' \in {"idle", "removeEnv"}
          /\ sel' \in {sel, None} /\ fresh' \in {fresh, None}
      BY <1>4 DEF WriteFailsLate, Throw, Return, provider
    <2>2. SeenInv'
      BY <1>4, <2>1 DEF WriteFailsLate
    <2>3. KeyInv' /\ NotRunningInv'
      BY <1>4, <2>1 DEF WriteFailsLate
    <2>4. QED
      BY <2>2, <2>3
  <1>5. CASE Kill
    BY <1>5 DEF Kill, Return, provider, disk
  <1>6. CASE Tick
    BY <1>6 DEF Tick, provider, disk
  <1>7. QED
    BY <1>1, <1>2, <1>3, <1>4, <1>5, <1>6

\* The inductive invariant behind the use of ssh: at every step where up or
\* down relies on the saved endpoint or on runtime.pod-id, they are what it took
\* them for.
THEOREM TrustInvariant == Spec => []TrustInv
  <1>1. Init /\ ControlInv => TrustInv
    BY ConstantsAssumption DEF Init, ConstantsAssumption, TrustInv,
           SeenInv, KeyInv, Accepted, NotRunningInv, Forgets
  <1>2. TrustInv /\ ControlInv' /\ [Next]_vars => TrustInv'
    <2> SUFFICES ASSUME TrustInv, ControlInv', [Next]_vars PROVE TrustInv'
      OBVIOUS
    <2>1. CASE UNCHANGED vars
      BY <2>1 DEF vars, provider, disk, trust, locals, TrustInv,
           SeenInv, KeyInv, Accepted, NotRunningInv, Forgets
    <2>2. QED
      BY <2>1, ConstantsAssumption,
         SelectingTrust, ForgettingTrust, CreatingTrust, SwitchingTrust,
         ConnectingTrust, CleaningTrust, EnvironmentTrust, EntryTrust
      DEF Next, OpStep
  <1>3. QED
    BY <1>1, <1>2, TypeCorrect, PTL DEF Spec

\* The only key that up has accepted and not removed is that of the saved
\* endpoint, whatever fails, is lost, killed or reset, and whatever the tunnel's
\* ssh adds to known_hosts on its own.
THEOREM KeysFollowBinding == Spec => []KeysBelongToBinding
  <1>1. TrustInv => KeysBelongToBinding
    BY DEF TrustInv, KeyInv, KeysBelongToBinding, Trust!KeysBelongToBinding
  <1>2. QED
    BY <1>1, TrustInvariant, PTL

\* Only six actions touch the binding or the keys.
OtherStep == SelectLive \/ SelectGone \/ ForgetId \/ ForgetSpec \/ FindNone \/ FindOne
             \/ FindMany \/ Adopt \/ ConfirmNothing \/ ConfirmLive \/ ConfirmGone \/
             DropOld \/ DropRefused \/ Create \/ CreateErrs \/ CreateLost \/ Reconcile
             \/ ReconcileFails \/ SaveId \/ SaveSpec \/ JudgeMatch \/ JudgeMismatch \/
             JudgeRefuses \/ StopOld \/ StopPod \/ StartPod \/ StopOrStartLost \/
             Discover \/ PrepareRefuses \/ ProbeMoved \/ HostKeyMismatch \/ PollFails \/
             EnsureVllm \/ OpenEnv \/ WriteEnv \/ RestartTunnel \/ Verify \/ StopTunnel
             \/ RemoveEnv \/ RemoveFailure \/ Assign \/ ConsoleEnds \/ LateEffect \/
             TunnelDies \/ TunnelReturns \/ TunnelAccepts \/ ResetPodId \/ BeginUp \/ BeginDown \/
             StepFails \/ Kill \/ Tick

\* Every one of those other actions leaves the saved endpoint and the accepted
\* keys alone: of what EndpointTrust sees, it can change only which Pods run.
LEMMA OtherStepKeepsTrust ==
  ASSUME OtherStep
  PROVE  UNCHANGED <<endpoint, Accepted>>
  <1> USE DEF trust, Accepted
  <1>1. CASE SelectLive
    BY <1>1 DEF SelectLive, SelectionReturns, disk
  <1>2. CASE SelectGone
    BY <1>2 DEF SelectGone, disk
  <1>3. CASE ForgetId
    BY <1>3 DEF ForgetId, Goto
  <1>4. CASE ForgetSpec
    BY <1>4 DEF ForgetSpec, Goto
  <1>5. CASE FindNone
    BY <1>5 DEF FindNone, SelectionReturns, disk
  <1>6. CASE FindOne
    BY <1>6 DEF FindOne, disk
  <1>7. CASE FindMany
    BY <1>7 DEF FindMany, Raise, Throw, Return
  <1>8. CASE Adopt
    BY <1>8 DEF Adopt, SelectionReturns
  <1>9. CASE ConfirmNothing
    BY <1>9 DEF ConfirmNothing, Goto, disk
  <1>10. CASE ConfirmLive
    BY <1>10 DEF ConfirmLive, Goto, disk
  <1>11. CASE ConfirmGone
    BY <1>11 DEF ConfirmGone, Goto, disk
  <1>12. CASE DropOld
    BY <1>12 DEF DropOld, disk
  <1>13. CASE DropRefused
    BY <1>13 DEF DropRefused, Raise, Throw, Return
  <1>14. CASE Create
    BY <1>14 DEF Create, disk
  <1>15. CASE CreateErrs
    BY <1>15 DEF CreateErrs, Goto, disk
  <1>16. CASE CreateLost
    BY <1>16 DEF CreateLost, Raise, Throw, Return
  <1>17. CASE Reconcile
    BY <1>17 DEF Reconcile, disk
  <1>18. CASE ReconcileFails
    BY <1>18 DEF ReconcileFails, Raise, Throw, Return
  <1>19. CASE SaveId
    BY <1>19 DEF SaveId, Goto
  <1>20. CASE SaveSpec
    BY <1>20 DEF SaveSpec
  <1>21. CASE JudgeMatch
    BY <1>21 DEF JudgeMatch, disk
  <1>22. CASE JudgeMismatch
    BY <1>22 DEF JudgeMismatch, Goto, disk
  <1>23. CASE JudgeRefuses
    BY <1>23 DEF JudgeRefuses, Raise, Throw, Return
  <1>24. CASE StopOld
    BY <1>24 DEF StopOld, Goto, disk
  <1>25. CASE StopPod
    BY <1>25 DEF StopPod, Goto, disk
  <1>26. CASE StartPod
    BY <1>26 DEF StartPod, Goto, disk
  <1>27. CASE StopOrStartLost
    BY <1>27 DEF StopOrStartLost, Raise, Throw, Return
  <1>28. CASE Discover
    BY <1>28 DEF Discover, disk
  <1>29. CASE PrepareRefuses
    BY <1>29 DEF PrepareRefuses, Raise, Throw, Return
  <1>30. CASE ProbeMoved
    BY <1>30 DEF ProbeMoved, disk
  <1>31. CASE HostKeyMismatch
    BY <1>31 DEF HostKeyMismatch, Raise, Throw, Return
  <1>32. CASE PollFails
    BY <1>32 DEF PollFails, Raise, Throw, Return
  <1>33. CASE EnsureVllm
    BY <1>33 DEF EnsureVllm, Goto, disk
  <1>34. CASE OpenEnv
    BY <1>34 DEF OpenEnv, Goto
  <1>35. CASE WriteEnv
    BY <1>35 DEF WriteEnv, Goto
  <1>36. CASE RestartTunnel
    BY <1>36 DEF RestartTunnel, disk
  <1>37. CASE Verify
    BY <1>37 DEF Verify, Return
  <1>38. CASE StopTunnel
    BY <1>38 DEF StopTunnel, disk
  <1>39. CASE RemoveEnv
    BY <1>39 DEF RemoveEnv
  <1>40. CASE RemoveFailure
    BY <1>40 DEF RemoveFailure, Return
  <1>41. CASE Assign
    BY <1>41 DEF Assign, disk
  <1>42. CASE ConsoleEnds
    BY <1>42 DEF ConsoleEnds, disk
  <1>43. CASE LateEffect
    BY <1>43 DEF LateEffect, disk
  <1>44. CASE TunnelDies
    BY <1>44 DEF TunnelDies, disk
  <1>45. CASE ResetPodId
    BY <1>45 DEF ResetPodId
  <1>46. CASE BeginUp
    BY <1>46 DEF BeginUp, disk
  <1>47. CASE BeginDown
    BY <1>47 DEF BeginDown, disk
  <1>48. CASE StepFails
    BY <1>48 DEF StepFails, Raise, Throw, Return
  <1>49. CASE Kill
    BY <1>49 DEF Kill, Return, disk
  <1>50. CASE Tick
    BY <1>50 DEF Tick, disk
  <1>51. CASE TunnelReturns
    BY <1>51 DEF TunnelReturns, disk
  <1>52. CASE TunnelAccepts
    BY <1>52 DEF TunnelAccepts
  <1>53. QED
    BY <1>1, <1>2, <1>3, <1>4, <1>5, <1>6, <1>7, <1>8, <1>9, <1>10, <1>11, <1>12, <1>13,
      <1>14, <1>15, <1>16, <1>17, <1>18, <1>19, <1>20, <1>21, <1>22, <1>23, <1>24,
      <1>25, <1>26, <1>27, <1>28, <1>29, <1>30, <1>31, <1>32, <1>33, <1>34, <1>35,
      <1>36, <1>37, <1>38, <1>39, <1>40, <1>41, <1>42, <1>43, <1>44, <1>45, <1>46,
      <1>47, <1>48, <1>49, <1>50, <1>51, <1>52 DEF OtherStep

\* A step of PodLifecycle is a step of EndpointTrust or leaves it as it is.
LEMMA TrustStep ==
  ASSUME ConstantsAssumption, TrustInv, [Next]_vars
  PROVE  [Trust!Next]_Trust!vars
  <1> DEFINE running == {p \in Pods : status[p] = "RUNNING"}
  <1> USE DEF ConstantsAssumption, TrustInv, ControlInv, DataOK, Bindings
  <1>0. UNCHANGED trust => UNCHANGED Accepted
    BY DEF trust, Accepted
  <1>1. CASE UNCHANGED <<endpoint, Accepted>>
    <2>1. running' \in SUBSET Pods
      OBVIOUS
    <2>2. QED
      BY <1>1, <2>1 DEF Trust!Next, Trust!Provider
  <1>2. CASE Unkey
    <2>1. endpoint # None /\ UNCHANGED <<endpoint, status>>
      BY <1>2 DEF Unkey, EndpointInv, Forgets, provider
    <2>2. Accepted' = Accepted \ {endpoint.addr}
      BY <1>2 DEF Unkey, RemoveKey, Accepted
    <2>3. QED
      BY <2>1, <2>2 DEF Trust!Next, Trust!RemoveKey
  <1>3. CASE Unlink
    <2>1. /\ endpoint # None /\ endpoint.pod \in Pods
          /\ status[endpoint.pod] # "RUNNING" /\ endpoint.addr \notin Accepted
          /\ endpoint' = None /\ UNCHANGED <<Accepted, status>>
      BY <1>0, <1>3 DEF Unlink, EndpointInv, KeyInv, NotRunningInv, Forgets, provider
    <2>2. QED
      BY <2>1 DEF Trust!Next, Trust!Forget
  <1>4. CASE Enrol
    <2>1. sel \in Pods /\ host \in Addrs /\ UNCHANGED <<Accepted, status>>
      BY <1>0, <1>4 DEF Enrol, SelInv, EndpointInv, SelectedSteps, provider
    <2>2. CASE endpoint = None /\ endpoint' = [pod |-> sel, addr |-> host]
      BY <2>1, <2>2 DEF Trust!Next, Trust!Enrol, Trust!Binding
    <2>3. CASE UNCHANGED endpoint
      BY <2>1, <2>3, <1>1
    <2>4. QED
      BY <1>4, <2>2, <2>3 DEF Enrol
  <1>5. CASE Rotate
    <2>1. endpoint # None /\ UNCHANGED <<endpoint, status>>
      BY <1>5 DEF Rotate, provider
    <2>2. Accepted' = Accepted \ {endpoint.addr}
      BY <1>5 DEF Rotate, RemoveKey, Accepted
    <2>3. QED
      BY <2>1, <2>2 DEF Trust!Next, Trust!RemoveKey
  <1>6. CASE Rewrite
    <2>1. /\ endpoint # None /\ endpoint.pod = sel /\ endpoint.addr \notin Accepted
          /\ host \in Addrs /\ endpoint' = [pod |-> sel, addr |-> host]
          /\ UNCHANGED <<Accepted, status>>
      BY <1>0, <1>6 DEF Rewrite, EndpointInv, KeyInv, provider
    <2>2. QED
      BY <2>1 DEF Trust!Next, Trust!Rotate
  <1>7. CASE ProbeOk
    <2>1. /\ endpoint = [pod |-> sel, addr |-> host]
          /\ sel \in Pods /\ host \in Addrs
          /\ UNCHANGED <<endpoint, status>>
      BY <1>7 DEF ProbeOk, SelInv, EndpointInv, SelectedSteps, SshSteps, provider
    <2>2. endpoint # None /\ endpoint.addr = host
      BY <2>1
    <2>3. Accepted' = Accepted \union {host}
      BY <1>7 DEF ProbeOk, Accepted
    <2>4. QED
      BY <2>1, <2>2, <2>3 DEF Trust!Next, Trust!AcceptKey
  <1>8. CASE UNCHANGED vars
    BY <1>0, <1>1, <1>8 DEF vars, disk
  <1>9. CASE OtherStep
    BY <1>1, <1>9, OtherStepKeepsTrust
  <1>10. CASE WriteFailsLate
    <2>1. UNCHANGED <<Accepted, status>>
      BY <1>0, <1>10 DEF WriteFailsLate, Throw, provider
    <2>2. CASE UNCHANGED endpoint
      BY <1>1, <2>1, <2>2
    <2>3. CASE /\ pc = "prepare" /\ endpoint = None
               /\ endpoint' = [pod |-> sel, addr |-> host]
      BY <2>1, <2>3 
         DEF SelInv, EndpointInv, SelectedSteps, Trust!Next, Trust!Enrol, Trust!Binding
    <2>4. CASE pc = "rewrite" /\ endpoint' = [pod |-> sel, addr |-> host]
      <3>1. /\ endpoint # None /\ endpoint.pod = sel /\ endpoint.addr \notin Accepted
            /\ host \in Addrs
        BY <2>4 DEF EndpointInv, KeyInv
      <3>2. QED
        BY <2>1, <2>4, <3>1 DEF Trust!Next, Trust!Rotate
    <2>5. QED
      BY <1>10, <2>2, <2>3, <2>4 DEF WriteFailsLate
  <1>11. QED
    BY <1>2, <1>3, <1>4, <1>5, <1>6, <1>7, <1>8, <1>9, <1>10
       DEF Next, OpStep, Selecting, Forgetting, Creating, Switching, Connecting, Cleaning,
           Environment, OtherStep

\* Whatever implements EndpointTrust keeps the accepted keys within the bound address:
\* the policy is strong enough for what it is there for.
THEOREM PolicyKeepsKeys == Trust!Spec => [](Trust!TypeOK /\ Trust!KeysBelongToBinding)
  <1> USE DEF Trust!TypeOK, Trust!KeysBelongToBinding, Trust!Binding
  <1>1. Trust!Init => Trust!TypeOK /\ Trust!KeysBelongToBinding
    BY DEF Trust!Init
  <1>2. /\ Trust!TypeOK /\ Trust!KeysBelongToBinding
        /\ [Trust!Next]_Trust!vars
        => (Trust!TypeOK /\ Trust!KeysBelongToBinding)'
    <2> SUFFICES ASSUME Trust!TypeOK, Trust!KeysBelongToBinding, [Trust!Next]_Trust!vars
                 PROVE  (Trust!TypeOK /\ Trust!KeysBelongToBinding)'
      OBVIOUS
    <2>1. CASE Trust!Provider
      BY <2>1 DEF Trust!Provider
    <2>2. CASE Trust!Enrol
      BY <2>2 DEF Trust!Enrol
    <2>3. CASE Trust!AcceptKey
      BY <2>3 DEF Trust!AcceptKey
    <2>4. CASE Trust!RemoveKey
      BY <2>4 DEF Trust!RemoveKey
    <2>5. CASE Trust!Rotate
      BY <2>5 DEF Trust!Rotate
    <2>6. CASE Trust!Forget
      BY <2>6 DEF Trust!Forget
    <2>7. CASE UNCHANGED Trust!vars
      BY <2>7 DEF Trust!vars
    <2>8. QED
      BY <2>1, <2>2, <2>3, <2>4, <2>5, <2>6, <2>7 DEF Trust!Next
  <1>3. QED
    BY <1>1, <1>2, PTL DEF Trust!Spec

\* SSH trust in PodLifecycle behaves as EndpointTrust promises: a binding ends
\* only for a Pod that does not run, after its key has been removed.
THEOREM TrustRefinement == Spec => ImplementsEndpointTrust
  <1>1. Init => Trust!Init
    BY ConstantsAssumption DEF Init, Accepted, Trust!Init
  <1>2. TrustInv /\ [Next]_vars => [Trust!Next]_Trust!vars
    BY TrustStep, ConstantsAssumption
  <1>3. QED
    BY <1>1, <1>2, TrustInvariant, PTL DEF Spec, ImplementsEndpointTrust, Trust!Spec
-----------------------------------------------------------------------------
(* The saved endpoint is the selected Pod's, as long as nobody deletes     *)
(* runtime.pod-id by hand.                                                 *)

\* the order in which the two files are written and removed
OrderInv ==
    /\ endpoint # None => podId = endpoint.pod
    /\ pc \in {"create", "reconcile", "find", "adopt", "forgetSpec"} => podId = None
    /\ pc \in {"saveId", "forgetId"} => endpoint = None
    /\ pc = "confirmOther" /\ resume = "forgetId" => endpoint = None

\* Selecting keeps the files in order.
LEMMA SelectingOrder ==
  ASSUME ConstantsAssumption, ~Resets, ControlInv, ControlInv', OrderInv, Selecting
  PROVE  OrderInv'
  <1> USE DEF trust, ConstantsAssumption, ControlInv, DataOK, Bindings, OrderInv, SelInv,
              FreshInv, ResumeInv, EndpointInv, SelectedSteps, SshSteps, Forgets
  <1>1. CASE SelectLive
    BY <1>1 DEF SelectLive, Exists, SelectionReturns, provider, disk
  <1>2. CASE SelectGone
    BY <1>2 DEF SelectGone, Exists, provider, disk
  <1>3. CASE ForgetId
    BY <1>3 DEF ForgetId, Goto, locals, provider
  <1>4. CASE ForgetSpec
    BY <1>4 DEF ForgetSpec, Goto, locals, provider
  <1>5. CASE FindNone
    BY <1>5 DEF FindNone, Finding, Matches, Named, Exists, SelectionReturns, provider, disk
  <1>6. CASE FindOne
    BY <1>6 DEF FindOne, Finding, Matches, Named, Exists, provider, disk
  <1>7. CASE FindMany
    BY <1>7 DEF FindMany, Raise, Throw, Return
  <1>8. CASE Adopt
    BY <1>8 DEF Adopt, SelectionReturns, provider
  <1>9. QED
    BY <1>1, <1>2, <1>3, <1>4, <1>5, <1>6, <1>7, <1>8 DEF Selecting

\* Forgetting keeps the files in order.
LEMMA ForgettingOrder ==
  ASSUME ConstantsAssumption, ~Resets, ControlInv, ControlInv', OrderInv, Forgetting
  PROVE  OrderInv'
  <1> USE DEF trust, ConstantsAssumption, ControlInv, DataOK, Bindings, OrderInv, SelInv,
              FreshInv, ResumeInv, EndpointInv, SelectedSteps, SshSteps, Forgets
  <1>1. CASE ConfirmNothing
    BY <1>1 DEF ConfirmNothing, Kept, Goto, locals, provider, disk
  <1>2. CASE ConfirmLive
    BY <1>2 DEF ConfirmLive, Kept, Exists, Goto, locals, provider, disk
  <1>3. CASE ConfirmGone
    BY <1>3 DEF ConfirmGone, Kept, Exists, Goto, locals, provider, disk
  <1>4. CASE DropOld
    BY <1>4 DEF DropOld, provider, disk
  <1>5. CASE DropRefused
    BY <1>5 DEF DropRefused, Raise, Throw, Return
  <1>6. CASE Unkey
    BY <1>6 DEF Unkey, RemoveKey, Goto, locals, provider
  <1>7. CASE Unlink
    BY <1>7 DEF Unlink, Goto, locals, provider
  <1>8. QED
    BY <1>1, <1>2, <1>3, <1>4, <1>5, <1>6, <1>7 DEF Forgetting

\* Creating keeps the files in order.
LEMMA CreatingOrder ==
  ASSUME ConstantsAssumption, ~Resets, ControlInv, ControlInv', OrderInv, Creating
  PROVE  OrderInv'
  <1> USE DEF trust, ConstantsAssumption, ControlInv, DataOK, Bindings, OrderInv, SelInv,
              FreshInv, ResumeInv, EndpointInv, SelectedSteps, SshSteps, Forgets
  <1>1. CASE Create
    BY <1>1 DEF Create, Created, disk
  <1>2. CASE CreateErrs
    BY <1>2 DEF CreateErrs, provider, Created, Goto, locals, disk
  <1>3. CASE CreateLost
    BY <1>3 DEF CreateLost, Raise, Throw, Return
  <1>4. CASE Reconcile
    BY <1>4 DEF Reconcile, Matches, Named, Exists, provider, disk
  <1>5. CASE ReconcileFails
    BY <1>5 DEF ReconcileFails, Raise, Throw, Return
  <1>6. CASE SaveId
    BY <1>6 DEF SaveId, Goto, locals, provider
  <1>7. CASE SaveSpec
    BY <1>7 DEF SaveSpec, provider
  <1>8. CASE JudgeMatch
    BY <1>8 DEF JudgeMatch, provider, disk
  <1>9. CASE JudgeMismatch
    BY <1>9 DEF JudgeMismatch, Goto, locals, provider, disk
  <1>10. CASE JudgeRefuses
    BY <1>10 DEF JudgeRefuses, Raise, Throw, Return
  <1>11. QED
    BY <1>1, <1>2, <1>3, <1>4, <1>5, <1>6, <1>7, <1>8, <1>9, <1>10 DEF Creating

\* Switching keeps the files in order.
LEMMA SwitchingOrder ==
  ASSUME ConstantsAssumption, ~Resets, ControlInv, ControlInv', OrderInv, Switching
  PROVE  OrderInv'
  <1> USE DEF trust, ConstantsAssumption, ControlInv, DataOK, Bindings, OrderInv, SelInv,
              FreshInv, ResumeInv, EndpointInv, SelectedSteps, SshSteps, Forgets
  <1>1. CASE StopOld
    BY <1>1 DEF StopOld, Stopped, Exists, Goto, locals, disk
  <1>2. CASE StopPod
    BY <1>2 DEF StopPod, Stopped, Exists, Goto, locals, disk
  <1>3. CASE StartPod
    BY <1>3 DEF StartPod, Started, Goto, locals, disk
  <1>4. CASE StopOrStartLost
    BY <1>4 DEF StopOrStartLost, Raise, Throw, Return
  <1>5. QED
    BY <1>1, <1>2, <1>3, <1>4 DEF Switching

\* Connecting keeps the files in order.
LEMMA ConnectingOrder ==
  ASSUME ConstantsAssumption, ~Resets, ControlInv, ControlInv', OrderInv, Connecting
  PROVE  OrderInv'
  <1> USE DEF trust, ConstantsAssumption, ControlInv, DataOK, Bindings, OrderInv, SelInv,
              FreshInv, ResumeInv, EndpointInv, SelectedSteps, SshSteps, Forgets
  <1>1. CASE Discover
    BY <1>1 DEF Discover, Answers, provider, disk
  <1>2. CASE Enrol
    BY <1>2 DEF Enrol, Goto, locals, provider
  <1>3. CASE Rotate
    BY <1>3 DEF Rotate, RemoveKey, Goto, locals, provider
  <1>4. CASE Rewrite
    BY <1>4 DEF Rewrite, Goto, locals, provider
  <1>5. CASE PrepareRefuses
    BY <1>5 DEF PrepareRefuses, Raise, Throw, Return
  <1>6. CASE ProbeOk
    BY <1>6 DEF ProbeOk, Answers, Goto, locals, provider
  <1>7. CASE ProbeMoved
    BY <1>7 DEF ProbeMoved, Answers, provider, disk
  <1>8. CASE HostKeyMismatch
    BY <1>8 DEF HostKeyMismatch, Raise, Throw, Return
  <1>9. CASE PollFails
    BY <1>9 DEF PollFails, Raise, Throw, Return
  <1>10. CASE EnsureVllm
    BY <1>10 DEF EnsureVllm, Answers, Goto, locals, provider, disk
  <1>11. CASE OpenEnv
    BY <1>11 DEF OpenEnv, Goto, locals, provider
  <1>12. CASE WriteEnv
    BY <1>12 DEF WriteEnv, Goto, locals, provider
  <1>13. CASE RestartTunnel
    BY <1>13 DEF RestartTunnel, provider, disk
  <1>14. CASE Verify
    BY <1>14 DEF Verify, Answers, Written, Return, provider
  <1>15. QED
    BY <1>1, <1>2, <1>3, <1>4, <1>5, <1>6, <1>7, <1>8, <1>9, <1>10, <1>11, <1>12, <1>13,
      <1>14 DEF Connecting

\* Cleaning keeps the files in order.
LEMMA CleaningOrder ==
  ASSUME ConstantsAssumption, ~Resets, ControlInv, ControlInv', OrderInv, Cleaning
  PROVE  OrderInv'
  <1> USE DEF trust, ConstantsAssumption, ControlInv, DataOK, Bindings, OrderInv, SelInv,
              FreshInv, ResumeInv, EndpointInv, SelectedSteps, SshSteps, Forgets
  <1>1. CASE StopTunnel
    BY <1>1 DEF StopTunnel, provider, disk
  <1>2. CASE RemoveEnv
    BY <1>2 DEF RemoveEnv, provider
  <1>3. CASE RemoveFailure
    BY <1>3 DEF RemoveFailure, Written, Return, provider
  <1>4. QED
    BY <1>1, <1>2, <1>3 DEF Cleaning

\* Environment keeps the files in order.
LEMMA EnvironmentOrder ==
  ASSUME ConstantsAssumption, ~Resets, ControlInv, ControlInv', OrderInv, Environment
  PROVE  OrderInv'
  <1> USE DEF trust, ConstantsAssumption, ControlInv, DataOK, Bindings, OrderInv, SelInv,
              FreshInv, ResumeInv, EndpointInv, SelectedSteps, SshSteps, Forgets
  <1>1. CASE Assign
    BY <1>1 DEF Assign, Answers, disk, locals
  <1>2. CASE ConsoleEnds
    BY <1>2 DEF ConsoleEnds, Named, Exists, disk, locals
  <1>3. CASE LateEffect
    BY <1>3 DEF LateEffect, Created, disk, locals
  <1>4. CASE TunnelDies
    BY <1>4 DEF TunnelDies, provider, disk, locals
  <1>5. CASE ResetPodId
    BY <1>5 DEF ResetPodId, provider, locals
  <1>6. CASE TunnelReturns
    BY <1>6 DEF TunnelReturns, provider, disk, locals
  <1>7. CASE TunnelAccepts
    BY <1>7 DEF TunnelAccepts, provider, locals
  <1>8. QED
    BY <1>1, <1>2, <1>3, <1>4, <1>5, <1>6, <1>7 DEF Environment

\* Entering, failing, being killed, waiting keep the files in order.
LEMMA EntryOrder ==
  ASSUME ConstantsAssumption, ~Resets, ControlInv, ControlInv', OrderInv,
         BeginUp \/ BeginDown \/ StepFails \/ WriteFailsLate \/ Kill \/ Tick
  PROVE  OrderInv'
  <1> USE DEF trust, ConstantsAssumption, ControlInv, DataOK, Bindings, OrderInv, SelInv,
              FreshInv, ResumeInv, EndpointInv, SelectedSteps, SshSteps, Forgets
  <1>1. CASE BeginUp
    BY <1>1 DEF BeginUp, provider, disk
  <1>2. CASE BeginDown
    BY <1>2 DEF BeginDown, provider, disk, locals
  <1>3. CASE StepFails
    BY <1>3 DEF StepFails, Raise, Throw, Return
  <1>4. CASE WriteFailsLate
    <2>1. pc' \in {"idle", "removeEnv"}
      BY <1>4 DEF WriteFailsLate, Throw, Return
    <2>2. endpoint' # None => podId' = endpoint'.pod
      <3>1. CASE pc = "adopt" /\ podId' = sel /\ UNCHANGED <<podSpec, endpoint>>
        BY <3>1
      <3>2. CASE pc = "saveId" /\ podId' = fresh /\ UNCHANGED <<podSpec, endpoint>>
        BY <3>2
      <3>3. CASE UNCHANGED <<podId, endpoint>>
        BY <3>3
      <3>4. CASE /\ pc \in {"prepare", "rewrite"} /\ UNCHANGED podId
                 /\ endpoint' = [pod |-> sel, addr |-> host]
        BY <3>4
      <3>5. QED
        BY <1>4, <3>1, <3>2, <3>3, <3>4 DEF WriteFailsLate
    <2>3. QED
      BY <2>1, <2>2
  <1>5. CASE Kill
    BY <1>5 DEF Kill, Return, provider, disk
  <1>6. CASE Tick
    BY <1>6 DEF Tick, provider, disk
  <1>7. QED
    BY <1>1, <1>2, <1>3, <1>4, <1>5, <1>6

\* Every step keeps the files in order.
LEMMA OrderStep ==
  ASSUME ConstantsAssumption, ~Resets, ControlInv, ControlInv', OrderInv, [Next]_vars
  PROVE  OrderInv'
  <1>1. CASE UNCHANGED vars
    BY <1>1 DEF vars, disk, locals, OrderInv
  <1>2. QED
    BY <1>1, SelectingOrder, ForgettingOrder, CreatingOrder, SwitchingOrder,
       ConnectingOrder, CleaningOrder, EnvironmentOrder, EntryOrder
    DEF Next, OpStep

\* Without a reset by hand, no kill, failed write or lost reply separates the
\* saved endpoint from the selected Pod.
THEOREM EndpointOrder ==
  ASSUME ~Resets
  PROVE  Spec => []EndpointFollowsSelection
  <1>1. Init => OrderInv
    BY DEF Init, OrderInv
  <1>2. ControlInv /\ ControlInv' /\ OrderInv /\ [Next]_vars => OrderInv'
    BY OrderStep, ConstantsAssumption
  <1>3. OrderInv => EndpointFollowsSelection
    BY DEF OrderInv, EndpointFollowsSelection
  <1>4. QED
    BY <1>1, <1>2, <1>3, TypeCorrect, PTL DEF Spec
=============================================================================
