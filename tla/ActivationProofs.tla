--------------------------- MODULE ActivationProofs ---------------------------
(***************************************************************************)
(* Proofs about Activation, for any clients and any number of activations: *)
(* type correctness, that nothing runs behind a proxy unit that is down,   *)
(* that llm-down lasts, and that llm-up reports its own failures but for   *)
(* one left over from before a restart.                                    *)
(***************************************************************************)
EXTENDS Activation, TLAPS

\* Whatever _select_pod selects, a Pod that was not selected stays one or runs
\* as the selected one.
LEMMA SelectedPods ==
  ASSUME DataOK, FlagsOK, NEW now \in Selections
  PROVE  /\ now[1] \in BOOLEAN /\ now[2] = FALSE
         /\ now[3] \in Nat /\ now[3] <= spare
         /\ now[1] => pod \/ unsaved \/ spare # 0
  <1> /\ spare \in Nat /\ unfinished \in Nat /\ spare <= unfinished
      /\ pod \in BOOLEAN /\ unsaved \in BOOLEAN
    BY DEF DataOK, FlagsOK
  <1>1. CASE unsaved
    <2>1. now = <<TRUE, FALSE, spare>>
      BY <1>1 DEF Selections
    <2>2. now[1] = TRUE /\ now[2] = FALSE
      BY <2>1
    <2>3. now[3] \in Nat /\ now[3] <= spare
      BY <2>1
    <2>4. QED
      BY <1>1, <2>2, <2>3, Zenon
  <1>2. CASE ~unsaved /\ now = pods
    <2>1. now[1] = pod /\ now[2] = unsaved /\ now[3] = spare
      BY <1>2 DEF pods
    <2>2. QED
      BY <1>2, <2>1
  <1>3. CASE ~unsaved /\ spare # 0 /\ now = <<TRUE, FALSE, spare - 1>>
    <2>1. now[1] = TRUE /\ now[2] = FALSE /\ now[3] = spare - 1
      BY <1>3
    <2>2. QED
      BY <1>3, <2>1
  <1>4. QED
    BY <1>1, <1>2, <1>3 DEF Selections

\* What the step of up that selects or creates the Pod does.
LEMMA UpPodEffect ==
  ASSUME DataOK, FlagsOK, UpPod
  PROVE  /\ step.proxy = "upPod"
         /\ \E to \in {"upTunnel", "upSelect", "upSwap"} :
              /\ step' = [step EXCEPT !.proxy = to]
              /\ to = "upSwap" => spare' # 0
         /\ pod' \in BOOLEAN /\ unsaved' \in BOOLEAN
         /\ spare' \in Nat /\ unfinished' \in Nat /\ spare' <= unfinished'
         /\ UNCHANGED <<units, errors, lock, tunnel, failure, conn, monitor, history>>
  <1> /\ spare \in Nat /\ unfinished \in Nat /\ spare <= unfinished
      /\ pod \in BOOLEAN /\ unsaved \in BOOLEAN
    BY DEF DataOK, FlagsOK
  <1>1. CASE /\ UpStep("upPod", "upTunnel")
             /\ \E now \in Selections : Become(TRUE, now[2], now[3])
             /\ UNCHANGED unfinished
    <2>1. PICK now \in Selections : Become(TRUE, now[2], now[3])
      BY <1>1
    <2>2. pod' = TRUE /\ unsaved' = FALSE /\ spare' = now[3]
      BY <2>1, SelectedPods DEF Become
    <2>3. now[3] \in Nat /\ now[3] <= spare
      BY SelectedPods
    <2>4. spare' \in Nat /\ unfinished' \in Nat /\ spare' <= unfinished'
      BY <1>1, <2>2, <2>3
    <2>5. /\ step.proxy = "upPod" /\ step' = [step EXCEPT !.proxy = "upTunnel"]
          /\ UNCHANGED <<units, errors, lock, tunnel, failure, conn, monitor, history>>
      BY <1>1 DEF UpStep, UpPod
    <2>6. QED
      BY <2>2, <2>4, <2>5, Zenon
  <1>2. CASE /\ UpStep("upPod", "upSelect") /\ Become(FALSE, TRUE, 0)
             /\ UNCHANGED unfinished
    <2>1. /\ step.proxy = "upPod" /\ step' = [step EXCEPT !.proxy = "upSelect"]
          /\ pod' = FALSE /\ unsaved' = TRUE
          /\ UNCHANGED <<units, errors, lock, tunnel, failure, conn, monitor, history>>
      BY <1>2 DEF UpStep, Become, UpPod
    <2>2. spare' \in Nat /\ unfinished' \in Nat /\ spare' <= unfinished'
      BY <1>2 DEF Become
    <2>3. QED
      BY <2>1, <2>2, Zenon
  <1>3. CASE /\ UpStep("upPod", "upSwap")
             /\ \E now \in Selections : Become(FALSE, now[2], now[3] + 1)
             /\ unfinished' = unfinished + 1
    <2>1. PICK now \in Selections : Become(FALSE, now[2], now[3] + 1)
      BY <1>3
    <2>2. pod' = FALSE /\ unsaved' = FALSE /\ spare' = now[3] + 1
      BY <2>1, SelectedPods DEF Become
    <2>3. now[3] \in Nat /\ now[3] <= spare
      BY SelectedPods
    <2>4. spare' \in Nat /\ spare' # 0 /\ unfinished' \in Nat /\ spare' <= unfinished'
      BY <1>3, <2>2, <2>3
    <2>5. QED
      BY <1>3, <2>2, <2>4 DEF UpStep, UpPod
  <1>4. QED
    BY <1>1, <1>2, <1>3 DEF UpPod

\* What the step of down that stops the Pod does.
LEMMA DownPodEffect ==
  ASSUME DataOK, FlagsOK, NEW o \in {"proxy", "cli"}, DownPod(o)
  PROVE  /\ step[o] = "downPod" /\ step' = [step EXCEPT ![o] = "downFiles"]
         /\ errors' \in {errors, [errors EXCEPT ![o] = TRUE]}
         /\ errors'[o] \/ (~pod' /\ ~unsaved')
         /\ pod' \in BOOLEAN /\ unsaved' \in BOOLEAN
         /\ unsaved' => unsaved
         /\ pod' => pod \/ unsaved \/ spare # 0
         /\ spare' \in Nat /\ spare' <= spare
         /\ UNCHANGED <<units, lock, unfinished, tunnel, failure, conn, monitor, history>>
  <1> /\ spare \in Nat
      /\ pod \in BOOLEAN /\ unsaved \in BOOLEAN
      /\ errors \in [proxy : BOOLEAN, cli : BOOLEAN]
    BY DEF DataOK, FlagsOK
  <1>1. PICK now \in Selections :
          \/ Become(FALSE, now[2], now[3]) /\ UNCHANGED errors
          \/ /\ Collect(o)
             /\ \E after \in {pods, now, <<FALSE, now[2], now[3]>>} :
                  Become(after[1], after[2], after[3])
    BY DEF DownPod
  <1>2. /\ now[1] \in BOOLEAN /\ now[2] = FALSE
        /\ now[3] \in Nat /\ now[3] <= spare
        /\ now[1] => pod \/ unsaved \/ spare # 0
    BY SelectedPods
  <1>3. CASE Become(FALSE, now[2], now[3]) /\ UNCHANGED errors
    <2>1. pod' = FALSE /\ unsaved' = FALSE /\ spare' = now[3] /\ errors' = errors
      BY <1>2, <1>3 DEF Become
    <2>2. QED
      BY <1>2, <2>1 DEF DownPod, DownStep
  <1>4. CASE /\ Collect(o)
             /\ \E after \in {pods, now, <<FALSE, now[2], now[3]>>} :
                  Become(after[1], after[2], after[3])
    <2>1. PICK after \in {pods, now, <<FALSE, now[2], now[3]>>} :
            pod' = after[1] /\ unsaved' = after[2] /\ spare' = after[3]
      BY <1>4 DEF Become
    <2>2. /\ pod' \in BOOLEAN /\ unsaved' \in BOOLEAN
          /\ unsaved' => unsaved
          /\ pod' => pod \/ unsaved \/ spare # 0
          /\ spare' \in Nat /\ spare' <= spare
      <3>1. CASE after = pods
        BY <2>1, <3>1 DEF pods
      <3>2. CASE after = now
        BY <1>2, <2>1, <3>2
      <3>3. CASE after = <<FALSE, now[2], now[3]>>
        BY <1>2, <2>1, <3>3
      <3>4. QED
        BY <2>1, <3>1, <3>2, <3>3
    <2>3. errors' = [errors EXCEPT ![o] = TRUE]
      BY <1>4 DEF Collect
    <2>4. errors'[o] = TRUE
      BY <2>3
    <2>5. QED
      BY <2>2, <2>3, <2>4 DEF DownPod, DownStep
  <1>5. QED
    BY <1>1, <1>3, <1>4

\* Every step keeps the types of what is not a flag.
LEMMA DataStep ==
  ASSUME ConstantsAssumption, DataOK, FlagsOK, [Next]_vars
  PROVE  DataOK'
  <1> USE DEF DataOK, Requests, Stamps, UpSteps, DownSteps, ConstantsAssumption,
              EnterStopPost, Enqueue, StopUnit, Collect, Refused, Dead, Serving, units,
              pods, runtime, monitor, history
  <1>1. CASE UpAction
    <2>1. CASE UpLocks
      BY <2>1 DEF UpLocks, UpStep, StartFails
    <2>2. CASE UpPod
      <3>1. /\ step.proxy = "upPod"
            /\ \E to \in {"upTunnel", "upSelect", "upSwap"} :
                 step' = [step EXCEPT !.proxy = to] /\ (to = "upSwap" => spare' # 0)
            /\ spare' \in Nat /\ unfinished' \in Nat /\ spare' <= unfinished'
            /\ UNCHANGED <<units, errors, lock, tunnel, failure, conn, monitor, history>>
        BY <2>2, UpPodEffect, FlagsOK
      <3>2. QED
        BY <3>1
    <2>3. CASE UpTunnel
      BY <2>3 DEF UpTunnel, UpStep, StartFails
    <2>4. CASE UpReturns
      BY <2>4 DEF UpReturns, UpStep, StartFails
    <2>5. CASE UpRaises
      BY <2>5 DEF UpRaises, UpStep, StartFails, RecordFailure
    <2>6. CASE UpGivesUp
      BY <2>6 DEF UpGivesUp, UpStep, StartFails
    <2>7. CASE UpSelects
      BY <2>7 DEF UpSelects, UpStep, Become
    <2>8. QED
      BY <1>1, <2>1, <2>2, <2>3, <2>4, <2>5, <2>6, <2>7 DEF UpAction
  <1>2. CASE StopSocket \/ StopSocketFails \/ StopProxy \/ StopProxyFails
    <2>1. CASE StopSocket
      BY <2>1 DEF StopSocket, LlmDownBegins, DownStep
    <2>2. CASE StopSocketFails
      BY <2>2 DEF StopSocketFails, LlmDownBegins, DownStep
    <2>3. CASE StopProxy
      BY <2>3 DEF StopProxy, LlmDownBegins, DownStep
    <2>4. CASE StopProxyFails
      BY <2>4 DEF StopProxyFails, LlmDownBegins, DownStep
    <2>5. QED
      BY <1>2, <2>1, <2>2, <2>3, <2>4
  <1>3. CASE LlmUpAction
    <2>1. CASE LlmUpBegins
      BY <2>1 DEF LlmUpBegins, Monitor, Watches, Connects, LlmUpEnds
    <2>2. CASE EnableSocket
      BY <2>2 DEF EnableSocket, Monitor, Watches, Connects, LlmUpEnds
    <2>3. CASE ReadInvocation
      BY <2>3 DEF ReadInvocation, Monitor, Watches, Connects, LlmUpEnds
    <2>4. CASE ReadState
      BY <2>4 DEF ReadState, Monitor, Watches, Connects, LlmUpEnds
    <2>5. CASE ProbeTunnel
      BY <2>5 DEF ProbeTunnel, Monitor, Watches, Connects, LlmUpEnds
    <2>6. CASE Recover
      BY <2>6 DEF Recover, Monitor, Watches, Connects, LlmUpEnds
    <2>7. CASE Restarted
      BY <2>7 DEF Restarted, Monitor, Watches, Connects, LlmUpEnds
    <2>8. CASE RestartFailed
      BY <2>8 DEF RestartFailed, Monitor, Watches, Connects, LlmUpEnds
    <2>9. CASE LlmUpConnects
      BY <2>9 DEF LlmUpConnects, Monitor, Watches, Connects, LlmUpEnds
    <2>10. CASE LlmUpAborts
      BY <2>10 DEF LlmUpAborts, Monitor, Watches, Connects, LlmUpEnds
    <2>11. CASE LlmUpServed
      BY <2>11 DEF LlmUpServed, Monitor, Watches, Connects, LlmUpEnds
    <2>12. CASE Explain
      BY <2>12 DEF Explain, Monitor, Watches, Connects, LlmUpEnds
    <2>13. CASE FailureSeen
      BY <2>13 DEF FailureSeen, Monitor, Watches, Connects, LlmUpEnds
    <2>14. CASE NoFailureSeen
      BY <2>14 DEF NoFailureSeen, Monitor, Watches, Connects, LlmUpEnds
    <2>15. CASE Inspect
      BY <2>15 DEF Inspect, Monitor, Watches, Connects, LlmUpEnds
    <2>16. QED
      BY <1>3, <2>1, <2>2, <2>3, <2>4, <2>5, <2>6, <2>7, <2>8, <2>9,
         <2>10, <2>11, <2>12, <2>13, <2>14, <2>15 DEF LlmUpAction
  <1>4. CASE Systemd
    <2>1. CASE Activate
      BY <2>1 DEF Activate
    <2>2. CASE SocketStops
      BY <2>2 DEF SocketStops
    <2>3. CASE IdleExit
      BY <2>3 DEF IdleExit
    <2>4. CASE ProxyCrashes
      BY <2>4 DEF ProxyCrashes
    <2>5. QED
      BY <1>4, <2>1, <2>2, <2>3, <2>4 DEF Systemd
  <1>5. CASE Outside
    <2>1. CASE ClientConnects
      BY <2>1 DEF ClientConnects, Connects
    <2>2. CASE Accept
      BY <2>2 DEF Accept, Connects
    <2>3. CASE ClientLeaves
      BY <2>3 DEF ClientLeaves, Connects
    <2>4. CASE PodEnds
      BY <2>4 DEF PodEnds, Connects
    <2>5. QED
      BY <1>5, <2>1, <2>2, <2>3, <2>4 DEF Outside
  <1>6. CASE Await("stopSocket", "awaitSocket", "stopProxy")
    BY <1>6 DEF Await, DownStep
  <1>7. CASE Await("stopProxy", "awaitProxy", "downLock")
    BY <1>7 DEF Await, DownStep
  <1>8. CASE DownAction("proxy")
    <2>1. CASE DownLocks("proxy")
      BY <2>1 DEF DownLocks, DownStep, DownEnds
    <2>2. CASE DownTunnel("proxy")
      BY <2>2 DEF DownTunnel, DownStep, DownEnds
    <2>3. CASE DownPod("proxy")
      <3>1. /\ step["proxy"] = "downPod" /\ step' = [step EXCEPT !["proxy"] = "downFiles"]
            /\ spare' \in Nat /\ spare' <= spare
            /\ UNCHANGED <<units, lock, unfinished, tunnel, failure, conn, monitor, history>>
        BY <2>3, DownPodEffect, FlagsOK
      <3>2. QED
        BY <3>1
    <2>4. CASE DownReturns("proxy")
      <3>1. step["proxy"] = "downFiles" /\ failure' \in {failure, 0}
        BY <2>4 DEF DownReturns
      <3>2. DownEnds("proxy")
        BY <2>4 DEF DownReturns
      <3>3. failure' \in Stamps
        BY <3>1
      <3>4. QED
        BY <3>1, <3>2, <3>3 DEF DownEnds
    <2>5. CASE DownGivesUp("proxy")
      BY <2>5 DEF DownGivesUp, DownStep, DownEnds
    <2>6. QED
      BY <1>8, <2>1, <2>2, <2>3, <2>4, <2>5 DEF DownAction
  <1>9. CASE DownAction("cli")
    <2>1. CASE DownLocks("cli")
      BY <2>1 DEF DownLocks, DownStep, DownEnds
    <2>2. CASE DownTunnel("cli")
      BY <2>2 DEF DownTunnel, DownStep, DownEnds
    <2>3. CASE DownPod("cli")
      <3>1. /\ step["cli"] = "downPod" /\ step' = [step EXCEPT !["cli"] = "downFiles"]
            /\ spare' \in Nat /\ spare' <= spare
            /\ UNCHANGED <<units, lock, unfinished, tunnel, failure, conn, monitor, history>>
        BY <2>3, DownPodEffect, FlagsOK
      <3>2. QED
        BY <3>1
    <2>4. CASE DownReturns("cli")
      <3>1. step["cli"] = "downFiles" /\ failure' \in {failure, 0}
        BY <2>4 DEF DownReturns
      <3>2. DownEnds("cli")
        BY <2>4 DEF DownReturns
      <3>3. failure' \in Stamps
        BY <3>1
      <3>4. QED
        BY <3>1, <3>2, <3>3 DEF DownEnds
    <2>5. CASE DownGivesUp("cli")
      BY <2>5 DEF DownGivesUp, DownStep, DownEnds
    <2>6. QED
      BY <1>9, <2>1, <2>2, <2>3, <2>4, <2>5 DEF DownAction
  <1>10. CASE UNCHANGED vars
    BY <1>10 DEF vars
  <1>11. QED
    BY <1>1, <1>2, <1>3, <1>4, <1>5, <1>6, <1>7, <1>8, <1>9, <1>10 DEF Next,
       LlmDownAction

\* Every step keeps the flags Boolean.
LEMMA FlagsStep ==
  ASSUME DataOK, FlagsOK, [Next]_vars
  PROVE  FlagsOK'
  <1> USE DEF FlagsOK, EnterStopPost, Enqueue, StopUnit, Collect, Refused, Dead,
              Serving, units, pods, runtime,
              monitor, history
  <1>1. CASE UpAction
    <2>1. CASE UpLocks
      BY <2>1 DEF UpLocks, UpStep, StartFails
    <2>2. CASE UpPod
      <3>1. /\ pod' \in BOOLEAN /\ unsaved' \in BOOLEAN
            /\ UNCHANGED <<failing, errors, tunnel, fresh, leftover, touched>>
        BY <2>2, UpPodEffect, DataOK
      <3>2. QED
        BY <3>1
    <2>3. CASE UpTunnel
      BY <2>3 DEF UpTunnel, UpStep, StartFails
    <2>4. CASE UpReturns
      BY <2>4 DEF UpReturns, UpStep, StartFails
    <2>5. CASE UpRaises
      BY <2>5 DEF UpRaises, UpStep, StartFails, RecordFailure
    <2>6. CASE UpGivesUp
      BY <2>6 DEF UpGivesUp, UpStep, StartFails
    <2>7. CASE UpSelects
      BY <2>7 DEF UpSelects, UpStep, Become
    <2>8. QED
      BY <1>1, <2>1, <2>2, <2>3, <2>4, <2>5, <2>6, <2>7 DEF UpAction
  <1>2. CASE StopSocket \/ StopSocketFails \/ StopProxy \/ StopProxyFails
    <2>1. CASE StopSocket
      <3>1. /\ failing' \in BOOLEAN /\ errors' \in [proxy : BOOLEAN, cli : BOOLEAN]
            /\ UNCHANGED <<runtime, fresh, leftover>>
        <4>1. CASE proxy \in {"starting", "running"}
          <5>1. /\ failing' = FALSE /\ UNCHANGED <<runtime, fresh, leftover>>
                /\ errors' = [proxy |-> FALSE, cli |-> FALSE]
            BY <2>1, <4>1 DEF StopSocket, LlmDownBegins
          <5>2. QED
            BY <5>1
        <4>2. CASE proxy \notin {"starting", "running"}
          BY <2>1, <4>2 DEF StopSocket, LlmDownBegins
        <4>3. QED
          BY <4>1, <4>2
      <3>2. touched' \in BOOLEAN
        BY <2>1 DEF StopSocket, LlmDownBegins
      <3>3. QED
        BY <3>1, <3>2
    <2>2. CASE StopSocketFails
      BY <2>2 DEF StopSocketFails, LlmDownBegins, DownStep
    <2>3. CASE StopProxy
      <3>1. /\ failing' \in BOOLEAN /\ errors' \in [proxy : BOOLEAN, cli : BOOLEAN]
            /\ UNCHANGED <<runtime, fresh, leftover>>
        <4>1. CASE proxy \in {"starting", "running"}
          <5>1. /\ failing' = FALSE /\ UNCHANGED <<runtime, fresh, leftover>>
                /\ errors' = [proxy |-> FALSE, cli |-> errors.cli]
            BY <2>3, <4>1 DEF StopProxy
          <5>2. QED
            BY <5>1
        <4>2. CASE proxy \notin {"starting", "running"}
          BY <2>3, <4>2 DEF StopProxy
        <4>3. QED
          BY <4>1, <4>2
      <3>2. touched' \in BOOLEAN
        BY <2>3 DEF StopProxy
      <3>3. QED
        BY <3>1, <3>2
    <2>4. CASE StopProxyFails
      BY <2>4 DEF StopProxyFails, LlmDownBegins, DownStep
    <2>5. QED
      BY <1>2, <2>1, <2>2, <2>3, <2>4
  <1>3. CASE LlmUpAction
    <2>1. CASE LlmUpBegins
      BY <2>1 DEF LlmUpBegins, Monitor, Watches, Connects, LlmUpEnds
    <2>2. CASE EnableSocket
      BY <2>2 DEF EnableSocket, Monitor, Watches, Connects, LlmUpEnds
    <2>3. CASE ReadInvocation
      BY <2>3 DEF ReadInvocation, Monitor, Watches, Connects, LlmUpEnds
    <2>4. CASE ReadState
      BY <2>4 DEF ReadState, Monitor, Watches, Connects, LlmUpEnds
    <2>5. CASE ProbeTunnel
      BY <2>5 DEF ProbeTunnel, Monitor, Watches, Connects, LlmUpEnds
    <2>6. CASE Recover
      <3>1. /\ failing' \in BOOLEAN /\ errors' \in [proxy : BOOLEAN, cli : BOOLEAN]
            /\ UNCHANGED <<runtime, fresh, leftover>>
        <4>1. CASE proxy \in {"starting", "running"}
          <5>1. /\ failing' = FALSE /\ UNCHANGED <<runtime, fresh, leftover>>
                /\ errors' = [proxy |-> FALSE, cli |-> errors.cli]
            BY <2>6, <4>1 DEF Recover
          <5>2. QED
            BY <5>1
        <4>2. CASE proxy \notin {"starting", "running"}
          BY <2>6, <4>2 DEF Recover
        <4>3. QED
          BY <4>1, <4>2
      <3>2. touched' \in BOOLEAN
        BY <2>6 DEF Recover
      <3>3. QED
        BY <3>1, <3>2
    <2>7. CASE Restarted
      BY <2>7 DEF Restarted, Monitor, Watches, Connects, LlmUpEnds
    <2>8. CASE RestartFailed
      BY <2>8 DEF RestartFailed, Monitor, Watches, Connects, LlmUpEnds
    <2>9. CASE LlmUpConnects
      BY <2>9 DEF LlmUpConnects, Monitor, Watches, Connects, LlmUpEnds
    <2>10. CASE LlmUpAborts
      BY <2>10 DEF LlmUpAborts, Monitor, Watches, Connects, LlmUpEnds
    <2>11. CASE LlmUpServed
      BY <2>11 DEF LlmUpServed, Monitor, Watches, Connects, LlmUpEnds
    <2>12. CASE Explain
      BY <2>12 DEF Explain, Monitor, Watches, Connects, LlmUpEnds
    <2>13. CASE FailureSeen
      BY <2>13 DEF FailureSeen, Monitor, Watches, Connects, LlmUpEnds
    <2>14. CASE NoFailureSeen
      BY <2>14 DEF NoFailureSeen, Monitor, Watches, Connects, LlmUpEnds
    <2>15. CASE Inspect
      BY <2>15 DEF Inspect, Monitor, Watches, Connects, LlmUpEnds
    <2>16. QED
      BY <1>3, <2>1, <2>2, <2>3, <2>4, <2>5, <2>6, <2>7, <2>8, <2>9,
         <2>10, <2>11, <2>12, <2>13, <2>14, <2>15 DEF LlmUpAction
  <1>4. CASE Systemd
    <2>1. CASE Activate
      BY <2>1 DEF Activate
    <2>2. CASE SocketStops
      BY <2>2 DEF SocketStops
    <2>3. CASE IdleExit
      BY <2>3 DEF IdleExit
    <2>4. CASE ProxyCrashes
      BY <2>4 DEF ProxyCrashes
    <2>5. QED
      BY <1>4, <2>1, <2>2, <2>3, <2>4 DEF Systemd
  <1>5. CASE Outside
    <2>1. CASE ClientConnects
      BY <2>1 DEF ClientConnects, Connects
    <2>2. CASE Accept
      BY <2>2 DEF Accept, Connects
    <2>3. CASE ClientLeaves
      BY <2>3 DEF ClientLeaves, Connects
    <2>4. CASE PodEnds
      BY <2>4 DEF PodEnds, Connects
    <2>5. QED
      BY <1>5, <2>1, <2>2, <2>3, <2>4 DEF Outside
  <1>6. CASE Await("stopSocket", "awaitSocket", "stopProxy")
    BY <1>6 DEF Await, DownStep
  <1>7. CASE Await("stopProxy", "awaitProxy", "downLock")
    BY <1>7 DEF Await, DownStep
  <1>8. CASE DownAction("proxy")
    <2>1. CASE DownLocks("proxy")
      BY <2>1 DEF DownLocks, DownStep, DownEnds
    <2>2. CASE DownTunnel("proxy")
      BY <2>2 DEF DownTunnel, DownStep, DownEnds
    <2>3. CASE DownPod("proxy")
      <3>1. errors' \in {errors, [errors EXCEPT !["proxy"] = TRUE]}
        BY <2>3, DownPodEffect, DataOK
      <3>2. errors' \in [proxy : BOOLEAN, cli : BOOLEAN]
        BY <3>1
      <3>3. /\ pod' \in BOOLEAN /\ unsaved' \in BOOLEAN
            /\ UNCHANGED <<failing, tunnel, fresh, leftover, touched>>
        BY <2>3, DownPodEffect, DataOK
      <3>4. QED
        BY <3>2, <3>3
    <2>4. CASE DownReturns("proxy")
      BY <2>4 DEF DownReturns, DownStep, DownEnds
    <2>5. CASE DownGivesUp("proxy")
      BY <2>5 DEF DownGivesUp, DownStep, DownEnds
    <2>6. QED
      BY <1>8, <2>1, <2>2, <2>3, <2>4, <2>5 DEF DownAction
  <1>9. CASE DownAction("cli")
    <2>1. CASE DownLocks("cli")
      BY <2>1 DEF DownLocks, DownStep, DownEnds
    <2>2. CASE DownTunnel("cli")
      BY <2>2 DEF DownTunnel, DownStep, DownEnds
    <2>3. CASE DownPod("cli")
      <3>1. errors' \in {errors, [errors EXCEPT !["cli"] = TRUE]}
        BY <2>3, DownPodEffect, DataOK
      <3>2. errors' \in [proxy : BOOLEAN, cli : BOOLEAN]
        BY <3>1
      <3>3. /\ pod' \in BOOLEAN /\ unsaved' \in BOOLEAN
            /\ UNCHANGED <<failing, tunnel, fresh, leftover, touched>>
        BY <2>3, DownPodEffect, DataOK
      <3>4. QED
        BY <3>2, <3>3
    <2>4. CASE DownReturns("cli")
      BY <2>4 DEF DownReturns, DownStep, DownEnds
    <2>5. CASE DownGivesUp("cli")
      BY <2>5 DEF DownGivesUp, DownStep, DownEnds
    <2>6. QED
      BY <1>9, <2>1, <2>2, <2>3, <2>4, <2>5 DEF DownAction
  <1>10. CASE UNCHANGED vars
    BY <1>10 DEF vars
  <1>11. QED
    BY <1>1, <1>2, <1>3, <1>4, <1>5, <1>6, <1>7, <1>8, <1>9, <1>10 DEF Next,
       LlmDownAction

\* Units, commands and files keep their types, with the facts that tie the
\* state of the proxy unit and the lock to the steps of up and down.
THEOREM TypeCorrect == Spec => []TypeOK
  <1>1. Init => DataOK
    BY ConstantsAssumption
       DEF Init, DataOK, Requests, Stamps, UpSteps, DownSteps, ConstantsAssumption
  <1>2. Init => FlagsOK
    <2>1. Init => errors \in [proxy : BOOLEAN, cli : BOOLEAN]
      BY DEF Init
    <2>2. Init => /\ failing \in BOOLEAN /\ pod \in BOOLEAN /\ unsaved \in BOOLEAN
                  /\ tunnel \in BOOLEAN
                  /\ fresh \in BOOLEAN /\ leftover \in BOOLEAN /\ touched \in BOOLEAN
      BY DEF Init
    <2>3. QED
      BY <2>1, <2>2 DEF FlagsOK
  <1>3. TypeOK /\ [Next]_vars => TypeOK'
    BY DataStep, FlagsStep, ConstantsAssumption DEF TypeOK
  <1>4. QED
    BY <1>1, <1>2, <1>3, PTL DEF Spec, TypeOK
-----------------------------------------------------------------------------
\* no Pod runs, but for one that a replacement cut short has left behind
NoPod == ~unsaved /\ (pod \/ spare # 0 => unfinished # 0)

\* what the down of ExecStopPost has achieved at each of its steps
StopPostInv ==
    /\ NothingRunsWithoutProxy
    /\ step.proxy = "downPod" /\ ~errors.proxy => ~tunnel
    /\ step.proxy = "downFiles" /\ ~errors.proxy => ~tunnel /\ NoPod

\* Every step keeps what ExecStopPost has achieved.
LEMMA StopPostInvStep ==
  ASSUME ConstantsAssumption, TypeOK, StopPostInv, [Next]_vars
  PROVE  StopPostInv'
  <1> USE DEF TypeOK, DataOK, FlagsOK, Requests, Stamps, UpSteps, DownSteps,
              ConstantsAssumption, StopPostInv, NothingRunsWithoutProxy, NoPod,
              EnterStopPost, Enqueue, StopUnit, Collect, Refused, Dead, Serving, units, pods, runtime,
              monitor, history
  <1>1. CASE UpAction
    <2>1. CASE UpRaises \/ UpGivesUp
      BY <2>1 DEF UpRaises, UpGivesUp, StartFails
    <2>2. CASE UpLocks \/ UpPod \/ UpSelects \/ UpTunnel \/ UpReturns
      <3>1. step.proxy \in UpSteps
        BY <2>2 DEF UpLocks, UpPod, UpSelects, UpTunnel, UpReturns, UpStep
      <3>2. proxy' \in {"starting", "running"}
        BY <2>2, <3>1 DEF UpLocks, UpPod, UpSelects, UpTunnel, UpReturns
      <3>3. step'.proxy \in UpSteps \union {"none"}
        BY <2>2 DEF UpLocks, UpPod, UpSelects, UpTunnel, UpReturns, UpStep
      <3>4. QED
        BY <3>2, <3>3
    <2>3. QED
      BY <1>1, <2>1, <2>2 DEF UpAction
  <1>2. CASE StopSocket \/ StopSocketFails \/ StopProxy \/ StopProxyFails
    BY <1>2 DEF StopSocket, StopSocketFails, StopProxy, StopProxyFails,
                LlmDownBegins, DownStep
  <1>3. CASE LlmUpAction
    BY <1>3 DEF LlmUpAction, LlmUpBegins, EnableSocket, ReadInvocation,
                ReadState, ProbeTunnel, Recover, Restarted, RestartFailed, LlmUpConnects,
                LlmUpAborts, LlmUpServed, Explain, FailureSeen, NoFailureSeen, Inspect,
                Monitor, Watches, Connects, LlmUpEnds
  <1>4. CASE Systemd
    BY <1>4 DEF Systemd, Activate, SocketStops, IdleExit, ProxyCrashes
  <1>5. CASE Outside
    <2>1. /\ UNCHANGED <<proxy, tunnel, unsaved, spare, unfinished>>
          /\ UNCHANGED <<step, errors>> /\ (pod' => pod)
      BY <1>5 DEF Outside, ClientConnects, Accept, ClientLeaves, PodEnds, Connects
    <2>2. QED
      BY <2>1
  <1>6. CASE Await("stopSocket", "awaitSocket", "stopProxy")
    BY <1>6 DEF Await, DownStep
  <1>7. CASE Await("stopProxy", "awaitProxy", "downLock")
    BY <1>7 DEF Await, DownStep
  <1>8. CASE DownAction("proxy")
    <2>1. CASE DownLocks("proxy")
      BY <2>1 DEF DownLocks, DownStep, DownEnds
    <2>2. CASE DownTunnel("proxy")
      BY <2>2 DEF DownTunnel, DownStep, DownEnds
    <2>3. CASE DownPod("proxy")
      <3>1. /\ step.proxy = "downPod" /\ step' = [step EXCEPT !.proxy = "downFiles"]
            /\ UNCHANGED <<proxy, tunnel, unfinished>>
            /\ spare' \in Nat /\ spare' <= spare
        BY <2>3, DownPodEffect
      <3>2. /\ errors'.proxy \/ (~pod' /\ ~unsaved')
            /\ errors' \in {errors, [errors EXCEPT !.proxy = TRUE]}
        BY <2>3, DownPodEffect
      <3>3. errors.proxy => errors'.proxy
        BY <3>2
      <3>4. spare' # 0 => unfinished' # 0
        BY <3>1
      <3>5. ~Dead' /\ step'.proxy = "downFiles"
        BY <3>1
      <3>6. QED
        BY <3>1, <3>2, <3>3, <3>4, <3>5
    <2>4. CASE DownReturns("proxy")
      BY <2>4 DEF DownReturns, DownStep, DownEnds
    <2>5. CASE DownGivesUp("proxy")
      BY <2>5 DEF DownGivesUp, DownStep, DownEnds
    <2>6. QED
      BY <1>8, <2>1, <2>2, <2>3, <2>4, <2>5 DEF DownAction
  <1>9. CASE DownAction("cli")
    <2>1. CASE DownLocks("cli")
      BY <2>1 DEF DownLocks, DownStep, DownEnds
    <2>2. CASE DownTunnel("cli")
      BY <2>2 DEF DownTunnel, DownStep, DownEnds
    <2>3. CASE DownPod("cli")
      <3>1. /\ UNCHANGED <<proxy, tunnel, unfinished>>
            /\ step' = [step EXCEPT !.cli = "downFiles"]
            /\ spare' \in Nat /\ spare' <= spare
        BY <2>3, DownPodEffect
      <3>2. /\ errors' \in {errors, [errors EXCEPT !.cli = TRUE]}
            /\ unsaved' => unsaved
            /\ pod' => pod \/ unsaved \/ spare # 0
        BY <2>3, DownPodEffect
      <3>3. step'.proxy = step.proxy /\ errors'.proxy = errors.proxy
        BY <3>1, <3>2
      <3>4. spare # 0 => unfinished # 0
        OBVIOUS
      <3>5. spare' # 0 => spare # 0
        BY <3>1
      <3>6. NoPod => NoPod'
        BY <3>1, <3>2, <3>4, <3>5
      <3>7. QED
        BY <3>1, <3>3, <3>6
    <2>4. CASE DownReturns("cli")
      BY <2>4 DEF DownReturns, DownStep, DownEnds
    <2>5. CASE DownGivesUp("cli")
      BY <2>5 DEF DownGivesUp, DownStep, DownEnds
    <2>6. QED
      BY <1>9, <2>1, <2>2, <2>3, <2>4, <2>5 DEF DownAction
  <1>10. CASE UNCHANGED vars
    BY <1>10 DEF vars
  <1>11. QED
    BY <1>1, <1>2, <1>3, <1>4, <1>5, <1>6, <1>7, <1>8, <1>9, <1>10 DEF Next,
       LlmDownAction

\* When the proxy unit is down and its ExecStopPost has reported no error, the
\* tunnel and a first Pod that up had not selected yet are not left running, nor
\* is any Pod unless an up was cut short in the middle of a replacement.
THEOREM StopPostStops == Spec => []NothingRunsWithoutProxy
  <1>1. Init => StopPostInv
    BY DEF Init, StopPostInv, NothingRunsWithoutProxy, NoPod, Dead
  <1>2. TypeOK /\ StopPostInv /\ [Next]_vars => StopPostInv'
    BY StopPostInvStep, ConstantsAssumption
  <1>3. StopPostInv => NothingRunsWithoutProxy
    BY DEF StopPostInv
  <1>4. QED
    BY <1>1, <1>2, <1>3, TypeCorrect, PTL DEF Spec
-----------------------------------------------------------------------------
\* what an llm-down without errors has achieved at each of its steps, unless an
\* llm-up has started a unit meanwhile
LlmDownInv ==
    step.cli # "none" /\ ~errors.cli /\ ~touched =>
        /\ "restart" \notin jobs
        /\ socket = "inactive" \/ (step.cli = "awaitSocket" /\ "stopSocket" \in jobs)
        /\ step.cli = "awaitProxy" => Dead \/ "stopProxy" \in jobs
        /\ step.cli \in DownSteps \union {"done"} => Dead
        /\ step.cli \in {"downPod", "downFiles", "done"} => ~tunnel
        /\ step.cli \in {"downFiles", "done"} => ~pod /\ ~unsaved

\* Every step keeps what llm-down has achieved.
LEMMA LlmDownInvStep ==
  ASSUME ConstantsAssumption, TypeOK, LlmDownInv, [Next]_vars
  PROVE  LlmDownInv'
  <1> USE DEF TypeOK, DataOK, FlagsOK, Requests, Stamps, UpSteps, DownSteps,
              ConstantsAssumption, LlmDownInv, EnterStopPost, Enqueue, StopUnit, Collect,
              Refused, Dead, Serving, units, pods, runtime,
              monitor, history
  <1>1. CASE UpAction
    <2>1. /\ ~Dead
          /\ \/ step.cli \in {"none", "awaitSocket", "stopProxy", "awaitProxy"}
             \/ errors.cli \/ touched
      BY <1>1 DEF UpAction, UpLocks, UpPod, UpSelects, UpTunnel, UpReturns, UpRaises,
                  UpGivesUp, UpStep, StartFails
    <2>2. /\ step'.cli = step.cli /\ errors'.cli = errors.cli
          /\ jobs' \in {jobs, jobs \ {"restart"}} /\ UNCHANGED <<socket, touched>>
      <3>1. CASE UpRaises \/ UpGivesUp
        BY <3>1 DEF UpRaises, UpGivesUp, StartFails
      <3>2. CASE UpPod
        BY <3>2, UpPodEffect
      <3>3. CASE UpLocks \/ UpSelects \/ UpTunnel \/ UpReturns
        BY <3>3 DEF UpLocks, UpSelects, UpTunnel, UpReturns, UpStep
      <3>4. QED
        BY <1>1, <3>1, <3>2, <3>3 DEF UpAction
    <2>3. QED
      BY <2>1, <2>2
  <1>2. CASE StopSocket \/ StopSocketFails \/ StopProxy \/ StopProxyFails
    <2>1. CASE StopSocket
      BY <2>1 DEF StopSocket, LlmDownBegins
    <2>2. CASE StopSocketFails
      BY <2>2 DEF StopSocketFails, LlmDownBegins
    <2>3. CASE StopProxy
      BY <2>3 DEF StopProxy
    <2>4. CASE StopProxyFails
      BY <2>4 DEF StopProxyFails, DownStep
    <2>5. QED
      BY <1>2, <2>1, <2>2, <2>3, <2>4
  <1>3. CASE LlmUpAction
    <2>1. CASE EnableSocket
      <3>1. UNCHANGED <<step, errors>> /\ touched' = (step.cli # "none")
        BY <2>1 DEF EnableSocket
      <3>2. QED
        BY <3>1
    <2>2. CASE Recover
      <3>1. step'.cli = step.cli /\ touched' = (step.cli # "none")
        BY <2>2 DEF Recover
      <3>2. QED
        BY <3>1
    <2>3. CASE ~(EnableSocket \/ Recover)
      <3>1. UNCHANGED <<units, step, errors, pods, tunnel, touched>>
        BY <1>3, <2>3 DEF LlmUpAction, LlmUpBegins, ReadInvocation,
                ReadState, ProbeTunnel, Restarted, RestartFailed, LlmUpConnects,
                LlmUpAborts, LlmUpServed, Explain, FailureSeen, NoFailureSeen, Inspect,
                Watches, Connects, LlmUpEnds
      <3>2. QED
        BY <3>1
    <2>4. QED
      BY <2>1, <2>2, <2>3
  <1>4. CASE Systemd
    BY <1>4 DEF Systemd, Activate, SocketStops, IdleExit, ProxyCrashes
  <1>5. CASE Outside
    BY <1>5 DEF Outside, ClientConnects, Accept, ClientLeaves, PodEnds,
                Connects
  <1>6. CASE Await("stopSocket", "awaitSocket", "stopProxy")
    BY <1>6 DEF Await, DownStep
  <1>7. CASE Await("stopProxy", "awaitProxy", "downLock")
    BY <1>7 DEF Await, DownStep
  <1>8. CASE DownAction("proxy")
    <2>1. CASE DownLocks("proxy")
      BY <2>1 DEF DownLocks, DownStep, DownEnds
    <2>2. CASE DownTunnel("proxy")
      BY <2>2 DEF DownTunnel, DownStep, DownEnds
    <2>3. CASE DownPod("proxy")
      <3>1. /\ step["proxy"] = "downPod" /\ step' = [step EXCEPT !["proxy"] = "downFiles"]
            /\ UNCHANGED <<units, tunnel, touched>>
        BY <2>3, DownPodEffect
      <3>2. /\ errors'["proxy"] \/ (~pod' /\ ~unsaved')
            /\ errors' \in {errors, [errors EXCEPT !["proxy"] = TRUE]}
        BY <2>3, DownPodEffect
      <3>3. errors.cli => errors'.cli
        BY <3>2
      <3>4. QED
        BY <3>1, <3>2, <3>3
    <2>4. CASE DownReturns("proxy")
      BY <2>4 DEF DownReturns, DownStep, DownEnds
    <2>5. CASE DownGivesUp("proxy")
      BY <2>5 DEF DownGivesUp, DownStep, DownEnds
    <2>6. QED
      BY <1>8, <2>1, <2>2, <2>3, <2>4, <2>5 DEF DownAction
  <1>9. CASE DownAction("cli")
    <2>1. CASE DownLocks("cli")
      BY <2>1 DEF DownLocks, DownStep, DownEnds
    <2>2. CASE DownTunnel("cli")
      BY <2>2 DEF DownTunnel, DownStep, DownEnds
    <2>3. CASE DownPod("cli")
      <3>1. /\ step["cli"] = "downPod" /\ step' = [step EXCEPT !["cli"] = "downFiles"]
            /\ UNCHANGED <<units, tunnel, touched>>
        BY <2>3, DownPodEffect
      <3>2. /\ errors'["cli"] \/ (~pod' /\ ~unsaved')
            /\ errors' \in {errors, [errors EXCEPT !["cli"] = TRUE]}
        BY <2>3, DownPodEffect
      <3>3. errors.cli => errors'.cli
        BY <3>2
      <3>4. QED
        BY <3>1, <3>2, <3>3
    <2>4. CASE DownReturns("cli")
      BY <2>4 DEF DownReturns, DownStep, DownEnds
    <2>5. CASE DownGivesUp("cli")
      BY <2>5 DEF DownGivesUp, DownStep, DownEnds
    <2>6. QED
      BY <1>9, <2>1, <2>2, <2>3, <2>4, <2>5 DEF DownAction
  <1>10. CASE UNCHANGED vars
    BY <1>10 DEF vars
  <1>11. QED
    BY <1>1, <1>2, <1>3, <1>4, <1>5, <1>6, <1>7, <1>8, <1>9, <1>10 DEF Next,
       LlmDownAction

\* After an llm-down without errors everything stays down, whatever connects,
\* until an llm-up starts a unit.
THEOREM DownLasts == Spec => []DownStaysDown
  <1>1. Init => LlmDownInv
    BY DEF Init, LlmDownInv
  <1>2. TypeOK /\ LlmDownInv /\ [Next]_vars => LlmDownInv'
    BY LlmDownInvStep, ConstantsAssumption
  <1>3. LlmDownInv => DownStaysDown
    BY DEF LlmDownInv, DownStaysDown
  <1>4. QED
    BY <1>1, <1>2, <1>3, TypeCorrect, PTL DEF Spec
-----------------------------------------------------------------------------
\* a running proxy unit has no failure or one that its up could not remove, so
\* what llm-up meets after it has seen one running, or later than
\* failure_started_at, is new or left over
FreshInv ==
    /\ proxy = "running" => failure = 0 \/ leftover
    /\ at \in {"probe", "recover", "restarting"} /\ failure # 0 => fresh \/ leftover
    /\ at \in {"poll", "inspect", "explain"} /\ failure > since => fresh

\* Every step keeps what is known of the age of a failure.
LEMMA FreshInvStep ==
  ASSUME ConstantsAssumption, TypeOK, FreshInv, [Next]_vars
  PROVE  FreshInv'
  <1> USE DEF TypeOK, DataOK, FlagsOK, Requests, Stamps, UpSteps, DownSteps,
              ConstantsAssumption, FreshInv, EnterStopPost, Enqueue,
              StopUnit, Collect, Refused, Dead, Serving, units, pods, runtime,
              monitor, history
  <1>1. CASE UpAction
    <2>1. CASE UpRaises \/ UpGivesUp
      <3>1. UNCHANGED monitor /\ proxy' = "stopping"
        BY <2>1 DEF UpRaises, UpGivesUp, StartFails
      <3>2. \/ failure' = invocation /\ fresh' = (at # "idle")
            \/ UNCHANGED <<failure, fresh, leftover>>
        BY <2>1 DEF UpRaises, UpGivesUp, RecordFailure
      <3>3. QED
        BY <3>1, <3>2
    <2>2. CASE UpReturns
      <3>1. UNCHANGED <<monitor, fresh>>
        BY <2>2 DEF UpReturns
      <3>2. CASE failure' = 0
        BY <3>1, <3>2
      <3>3. CASE failure' # 0
        <4>1. failure' = failure /\ leftover'
          BY <2>2, <3>3 DEF UpReturns
        <4>2. QED
          BY <3>1, <4>1
      <3>4. QED
        BY <3>2, <3>3
    <2>3. CASE UpPod
      BY <2>3, UpPodEffect
    <2>4. CASE UpLocks \/ UpSelects \/ UpTunnel
      BY <2>4 DEF UpLocks, UpSelects, UpTunnel
    <2>5. QED
      BY <1>1, <2>1, <2>2, <2>3, <2>4 DEF UpAction
  <1>2. CASE StopSocket \/ StopSocketFails \/ StopProxy \/ StopProxyFails
    <2>1. UNCHANGED <<failure, monitor, fresh, leftover>>
          /\ (proxy' = "running" => proxy = "running")
      BY <1>2 DEF StopSocket, StopSocketFails, StopProxy, StopProxyFails, LlmDownBegins
    <2>2. QED
      BY <2>1
  <1>3. CASE LlmUpAction
    <2>1. UNCHANGED <<failure, leftover>> /\ (proxy' = "running" => proxy = "running")
      BY <1>3 DEF LlmUpAction, LlmUpBegins, EnableSocket, ReadInvocation, ReadState,
                  ProbeTunnel, Recover, Restarted, RestartFailed, LlmUpConnects, LlmUpAborts,
                  LlmUpServed, Explain, FailureSeen, NoFailureSeen, Inspect, Watches,
                  Connects, LlmUpEnds
    <2>2. CASE at' \notin {"probe", "recover", "restarting", "poll", "inspect", "explain"}
      BY <2>1, <2>2
    <2>3. CASE ReadState \/ ProbeTunnel \/ Recover \/ LlmUpConnects \/ NoFailureSeen \/ Inspect
      BY <2>3 DEF ReadState, ProbeTunnel, Recover, LlmUpConnects, NoFailureSeen, Inspect,
                  Monitor, Watches, Connects
    <2>4. QED
      BY <1>3, <2>2, <2>3 DEF LlmUpAction, LlmUpBegins, EnableSocket, ReadInvocation,
                  Restarted, RestartFailed, LlmUpAborts, LlmUpServed, Explain, FailureSeen,
                  Monitor, LlmUpEnds
  <1>4. CASE Systemd
    BY <1>4 DEF Systemd, Activate, SocketStops, IdleExit, ProxyCrashes
  <1>5. CASE Outside
    BY <1>5 DEF Outside, ClientConnects, Accept, ClientLeaves, PodEnds,
                Connects
  <1>6. CASE Await("stopSocket", "awaitSocket", "stopProxy")
    BY <1>6 DEF Await, DownStep
  <1>7. CASE Await("stopProxy", "awaitProxy", "downLock")
    BY <1>7 DEF Await, DownStep
  <1>8. ASSUME NEW o \in {"proxy", "cli"}, DownAction(o)
        PROVE  FreshInv'
    <2>1. CASE DownLocks(o) \/ DownTunnel(o)
      BY <2>1 DEF DownLocks, DownTunnel
    <2>2. CASE DownPod(o)
      BY <2>2, DownPodEffect
    <2>3. CASE DownReturns(o) \/ DownGivesUp(o)
      <3>1. UNCHANGED <<monitor, fresh>> /\ proxy' \in {proxy, "failed", "inactive"}
        BY <2>3 DEF DownReturns, DownGivesUp, DownEnds
      <3>2. CASE failure' = 0
        BY <3>1, <3>2
      <3>3. CASE failure' # 0
        <4>1. failure' = failure /\ leftover' = leftover
          BY <2>3, <3>3 DEF DownReturns, DownGivesUp
        <4>2. QED
          BY <3>1, <4>1
      <3>4. QED
        BY <3>2, <3>3
    <2>4. QED
      BY <1>8, <2>1, <2>2, <2>3 DEF DownAction
  <1>9. CASE UNCHANGED vars
    BY <1>9 DEF vars
  <1>10. QED
    BY <1>1, <1>2, <1>3, <1>4, <1>5, <1>6, <1>7, <1>8, <1>9 DEF Next, LlmDownAction

\* Only llm-up's own steps change what it has shown, and they show what is fresh
\* or left over.
LEMMA ShowingStep ==
  ASSUME ConstantsAssumption, TypeOK, FreshInv, [Next]_vars, shown = 0, shown' # 0
  PROVE  fresh \/ (at = "restarting" /\ leftover)
  <1>1. CASE LlmUpAction
    <2>1. CASE RestartFailed
      BY <2>1 DEF RestartFailed, FreshInv
    <2>2. CASE Explain \/ FailureSeen
      BY <2>2 DEF Explain, FailureSeen, FreshInv
    <2>3. CASE ~(RestartFailed \/ Explain \/ FailureSeen)
      BY <1>1, <2>3 DEF LlmUpAction, LlmUpBegins, EnableSocket, ReadInvocation, ReadState,
                        ProbeTunnel, Recover, Restarted, LlmUpConnects, LlmUpAborts,
                        LlmUpServed, NoFailureSeen, Inspect
    <2>4. QED
      BY <2>1, <2>2, <2>3
  <1>2. CASE ~LlmUpAction
    <2>1. shown' = shown
      <3>1. CASE UpAction
        BY <3>1 DEF UpAction, UpLocks, UpPod, UpSelects, UpTunnel, UpReturns, UpRaises,
                    UpGivesUp, monitor
      <3>2. CASE DownAction("proxy") \/ DownAction("cli")
        BY <3>2 DEF DownAction, DownLocks, DownTunnel, DownPod, DownReturns, DownGivesUp,
                    DownEnds, monitor
      <3>3. CASE LlmDownAction
        BY <3>3 DEF LlmDownAction, StopSocket, StopSocketFails, StopProxy, StopProxyFails,
                    LlmDownBegins, Await, monitor
      <3>4. CASE Systemd \/ Outside \/ UNCHANGED vars
        BY <3>4 DEF Systemd, Activate, SocketStops, IdleExit, ProxyCrashes, Outside,
                    ClientConnects, Accept, ClientLeaves, PodEnds, monitor, vars
      <3>5. QED
        BY <1>2, <3>1, <3>2, <3>3, <3>4 DEF Next
    <2>2. QED
      BY <2>1
  <1>3. QED
    BY <1>1, <1>2

\* A failure that llm-up prints was recorded after this llm-up began, but for one
\* that a successful up had left over before a restart that failed.
THEOREM ShownIsFresh == Spec => FailureIsFresh
  <1>1. Init => FreshInv
    BY DEF Init, FreshInv
  <1>2. TypeOK /\ FreshInv /\ [Next]_vars => FreshInv'
    BY FreshInvStep, ConstantsAssumption
  <1>3. TypeOK /\ FreshInv /\ [Next]_vars
          => [shown = 0 /\ shown' # 0 => fresh \/ (at = "restarting" /\ leftover)]_vars
    BY ShowingStep, ConstantsAssumption
  <1>4. QED
    BY <1>1, <1>2, <1>3, TypeCorrect, PTL DEF Spec, FailureIsFresh
=============================================================================
