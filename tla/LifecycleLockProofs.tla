------------------------- MODULE LifecycleLockProofs -------------------------
(***************************************************************************)
(* Proofs about LifecycleLock, for any number of processes and any set of  *)
(* operations: types, mutual exclusion of the operations' bodies, the      *)
(* label seen while a body runs, who records an activation failure, and    *)
(* that a wait runs down.                                                  *)
(***************************************************************************)
EXTENDS LifecycleLock, TLAPS

\* a process is past flock exactly when the kernel says it holds the lock
FlockInv == \A p \in Processes : Holding(p) <=> flock = p

\* a process sleeps only before its deadline
PatienceInv == \A p \in Processes : pc[p] = "sleeping" => patience[p] # 0

\* The inductive invariant behind MutualExclusion and LabelNamesRunningBody.
LockInv == TypeOK /\ FlockInv /\ PatienceInv /\ LabelNamesRunningBody

\* The invariant holds before the first process opens runtime.lock.
LEMMA LockInit == ConstantsAssumption /\ Init => LockInv
  <1> SUFFICES ASSUME ConstantsAssumption, Init PROVE LockInv
    OBVIOUS
  <1>1. pending \in [Processes -> BOOLEAN] /\ late \in BOOLEAN
    BY Zenon DEF Init
  <1>2. TypeOK
    BY <1>1 DEF ConstantsAssumption, Init, TypeOK, Locations, Labels
  <1>3. FlockInv /\ PatienceInv /\ LabelNamesRunningBody
    BY DEF ConstantsAssumption, Init, FlockInv, PatienceInv, LabelNamesRunningBody, Holding
  <1>4. QED
    BY <1>2, <1>3 DEF LockInv

\* The steps of the retry loop keep the lock invariant.
LEMMA WaitStepSafe ==
  ASSUME ConstantsAssumption, LockInv, NEW p \in Processes, Call(p) \/ WaitStep(p)
  PROVE  LockInv'
  <1> USE DEF ConstantsAssumption, LockInv, TypeOK, FlockInv, PatienceInv, LabelNamesRunningBody,
              Holding, Locations, Labels, buffer
  <1>1. CASE Call(p)
    BY <1>1 DEF Call, Goto
  <1>2. CASE Acquire(p)
    BY <1>2 DEF Acquire, Goto
  <1>3. CASE Refused(p)
    BY <1>3 DEF Refused, Goto
  <1>4. CASE Sleep(p)
    BY <1>4 DEF Sleep, Goto
  <1>5. CASE TimeOut(p)
    BY <1>5 DEF TimeOut, Goto
  <1>6. QED
    BY <1>1, <1>2, <1>3, <1>4, <1>5 DEF WaitStep

\* The steps of the process that holds the lock, the close that follows, and a
\* kill, keep it too: a close writes the label only by making it late.
LEMMA HoldStepSafe ==
  ASSUME ConstantsAssumption, LockInv, NEW p \in Processes, HoldStep(p) \/ Kill(p)
  PROVE  LockInv'
  <1> USE DEF ConstantsAssumption, LockInv, TypeOK, FlockInv, PatienceInv, LabelNamesRunningBody,
              Holding, Locations, Labels, buffer
  <1>1. CASE Truncate(p)
    BY <1>1 DEF Truncate, Goto
  <1>2. CASE WriteLabel(p)
    BY <1>2 DEF WriteLabel, Goto
  <1>3. CASE LabelFails(p)
    BY <1>3 DEF LabelFails, Goto
  <1>4. CASE BodyLeaves(p)
    BY <1>4 DEF BodyLeaves, Goto
  <1>5. CASE BodyRaises(p)
    BY <1>5 DEF BodyRaises, Goto
  <1>6. CASE OnError(p)
    BY <1>6 DEF OnError, Goto
  <1>7. CASE Unlock(p)
    BY <1>7 DEF Unlock, Goto
  <1>8. CASE Kill(p)
    BY <1>8 DEF Kill, Goto
  <1>9. CASE Close(p)
    BY <1>9 DEF Close, Goto
  <1>10. QED
    BY <1>1, <1>2, <1>3, <1>4, <1>5, <1>6, <1>7, <1>8, <1>9 DEF HoldStep

\* The inductive invariant of the lock, from which the theorems below follow.
THEOREM LockInvariant == Spec => []LockInv
  <1>1. LockInv /\ [Next]_vars => LockInv'
    <2> SUFFICES ASSUME LockInv, [Next]_vars PROVE LockInv'
      OBVIOUS
    <2>1. CASE UNCHANGED vars
      BY <2>1 DEF vars, LockInv, TypeOK, FlockInv, PatienceInv, LabelNamesRunningBody, Holding
    <2>2. QED
      BY <2>1, ConstantsAssumption, WaitStepSafe, HoldStepSafe DEF Next
  <1>2. QED
    BY <1>1, LockInit, ConstantsAssumption, PTL DEF Spec

\* Every variable keeps its type.
THEOREM TypeCorrect == Spec => []TypeOK
  <1>1. LockInv => TypeOK
    BY DEF LockInv
  <1>2. QED
    BY <1>1, LockInvariant, PTL

\* The bodies of two lifecycle operations never overlap, whoever is killed.
THEOREM Exclusion == Spec => []MutualExclusion
  <1>1. LockInv => MutualExclusion
    BY DEF LockInv, FlockInv, MutualExclusion
  <1>2. QED
    BY <1>1, LockInvariant, PTL

\* runtime.lock names the operation whose body runs, unless a close that came
\* after its own LOCK_UN has written into the file since that operation emptied it.
THEOREM LabelOfBody == Spec => []LabelNamesRunningBody
  <1>1. LockInv => LabelNamesRunningBody
    BY DEF LockInv
  <1>2. QED
    BY <1>1, LockInvariant, PTL

\* An activation failure is written by the holder of the lock for a startup,
\* and removed by a holder; a waiter that times out touches nothing.
THEOREM FailureFromHolder == Spec => FailureOnlyFromHolder
  <1> DEFINE Rule == failure' # failure =>
                       /\ flock # NoOne
                       /\ failure' = NoOne \/ (failure' = flock /\ op[flock] = Startup)
  <1>1. LockInv /\ [Next]_vars => [Rule]_vars
    <2> SUFFICES ASSUME LockInv, Next PROVE Rule
      OBVIOUS
    <2>1. PICK p \in Processes : Call(p) \/ WaitStep(p) \/ HoldStep(p) \/ Kill(p)
      BY DEF Next
    <2>2. CASE OnError(p)
      BY <2>2, ConstantsAssumption
         DEF OnError, LockInv, FlockInv, Holding, ConstantsAssumption
    <2>3. CASE BodyLeaves(p)
      BY <2>3, ConstantsAssumption
         DEF BodyLeaves, LockInv, FlockInv, Holding, ConstantsAssumption
    <2>4. CASE ~OnError(p) /\ ~BodyLeaves(p)
      BY <2>1, <2>4 DEF Call, WaitStep, Acquire, Refused, Sleep, TimeOut, HoldStep,
                        Truncate, WriteLabel, LabelFails, BodyRaises, Unlock, Close, Kill
    <2>5. QED
      BY <2>2, <2>3, <2>4
  <1>2. QED
    BY <1>1, LockInvariant, PTL DEF Spec, FailureOnlyFromHolder

\* A process that asks for the lock is out of the retry loop, with the lock or
\* without, after a number of steps of its own that it knows beforehand, whatever
\* all the others do.
THEOREM WaitIsBounded == Spec => WaitRunsDown
  <1> DEFINE Moves(p) == Waiting(p) => \/ UNCHANGED <<pc[p], patience[p]>>
                                       \/ ~Waiting(p)'
                                       \/ Tries(p)' < Tries(p)
  <1>1. LockInv /\ [Next]_vars => [\A p \in Processes : Moves(p)]_vars
    <2> SUFFICES ASSUME LockInv, NEW q \in Processes, NEW p \in Processes, Waiting(p),
                        Call(q) \/ WaitStep(q) \/ HoldStep(q) \/ Kill(q)
                 PROVE  Moves(p)
      BY DEF Next
    <2> USE DEF LockInv, TypeOK, Goto
    <2>1. CASE q # p
      BY <2>1 DEF Call, WaitStep, Acquire, Refused, Sleep, TimeOut, HoldStep, Truncate,
                  WriteLabel, LabelFails, BodyLeaves, BodyRaises, OnError, Unlock, Close, Kill
    <2>2. CASE Acquire(p) \/ TimeOut(p) \/ Kill(p)
      BY <2>2 DEF Acquire, TimeOut, Kill, Waiting
    <2>3. CASE Refused(p)
      BY <2>3, ConstantsAssumption DEF Refused, Tries, ConstantsAssumption
    <2>4. CASE Sleep(p)
      BY <2>4, ConstantsAssumption DEF Sleep, Tries, PatienceInv, ConstantsAssumption
    <2>5. CASE Call(p) \/ HoldStep(p)
      BY <2>5 DEF Call, HoldStep, Truncate, WriteLabel, LabelFails, BodyLeaves, BodyRaises,
                  OnError, Unlock, Close, Waiting
    <2>6. QED
      BY <2>1, <2>2, <2>3, <2>4, <2>5 DEF WaitStep
  <1>2. QED
    BY <1>1, LockInvariant, PTL DEF Spec, WaitRunsDown
=============================================================================
