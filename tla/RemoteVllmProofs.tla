--------------------------- MODULE RemoteVllmProofs ---------------------------
(***************************************************************************)
(* Proofs about RemoteVllm, for every set of settings and process ids:     *)
(* type correctness for any number of overlapping scripts, and, where at   *)
(* most one script runs at a time, that the signature vouches for the      *)
(* server and that there never are two servers that run and are on record. *)
(***************************************************************************)
EXTENDS RemoteVllm, TLAPS

\* Every step of a script keeps the types.
LEMMA TypeStep ==
  ASSUME ConstantsAssumption, TypeOK, [Next]_vars
  PROVE  TypeOK'
  <1> USE DEF TypeOK, Locations, Goto, Exit, scripts, servers, files
  <1>1. ASSUME NEW s \in Scripts, ScriptStep(s)
        PROVE  TypeOK'
    <2>1. CASE \/ Begin(s) \/ Unfit(s) \/ Check(s) \/ Reuse(s) \/ Mismatch(s)
               \/ PollHealthy(s) \/ PollExited(s) \/ PollTimeout(s) \/ BrokenPipe(s)
      BY <2>1 DEF Begin, Unfit, Check, Reuse, Mismatch, PollHealthy, PollExited,
                  PollTimeout, BrokenPipe
    <2>2. CASE StopOld(s)
      BY <2>2 DEF StopOld, Gone
    <2>3. CASE Launch(s)
      BY <2>3 DEF Launch
    <2>4. CASE Clear(s) \/ Sign(s)
      BY <2>4 DEF Clear, Sign
    <2>5. CASE Record(s)
      BY <2>5 DEF Record
    <2>6. QED
      BY <1>1, <2>1, <2>2, <2>3, <2>4, <2>5 DEF ScriptStep
  <1>2. CASE Ready \/ Crash \/ Restart
    BY <1>2 DEF Ready, Crash, Restart, Gone
  <1>3. CASE UNCHANGED vars
    BY <1>3 DEF vars
  <1>4. QED
    BY <1>1, <1>2, <1>3 DEF Next

\* Scripts, servers and files keep their types, however many scripts overlap.
THEOREM TypeCorrect == Spec => []TypeOK
  <1>1. Init => TypeOK
    BY DEF Init, TypeOK, Locations
  <1>2. TypeOK /\ [Next]_vars => TypeOK'
    BY TypeStep, ConstantsAssumption
  <1>3. QED
    BY <1>1, <1>2, PTL DEF Spec
-----------------------------------------------------------------------------
\* up runs the script under the lifecycle lock, and no session breaks
OneScript == \A s, t \in Scripts : s = t

\* between the kill of the old server and the record of the new one
Replacing == \E s \in Scripts : pc[s] \in {"clearing", "launching", "recording"}

\* vllm.pid knows the only server on record, but for the moment until it is
\* written, and the signature is that of the server in vllm.pid
ServerInv ==
    /\ ~Replacing => OnRecord \subseteq {pidFile}
    /\ ~Replacing /\ signature # None /\ pidFile \in OnRecord => config[pidFile] = signature
    /\ \A s \in Scripts :
        /\ pc[s] # "idle" => want[s] # None
        /\ pc[s] \in {"clearing", "launching"} => OnRecord = {}
        /\ pc[s] \in {"launching", "recording", "polling", "signing"} => signature = None
        /\ pc[s] = "recording" =>
            /\ launched[s] # None /\ OnRecord \subseteq {launched[s]}
            /\ config[launched[s]] = want[s]
        /\ pc[s] \in {"polling", "signing"} =>
            pidFile # None /\ config[pidFile] = want[s]

\* Every step of the one script, of a server or of the Pod keeps them so.
LEMMA ServerStep ==
  ASSUME OneScript, ConstantsAssumption, TypeOK, ServerInv, [Next]_vars
  PROVE  ServerInv'
  <1> USE DEF OneScript, ConstantsAssumption, TypeOK, Locations, ServerInv, Replacing, OnRecord,
              Goto, Exit, scripts, servers, files
  <1>1. ASSUME NEW s \in Scripts, ScriptStep(s)
        PROVE  ServerInv'
    <2>1. CASE Begin(s) \/ Unfit(s) \/ Check(s) \/ Reuse(s) \/ Mismatch(s)
      BY <2>1 DEF Begin, Unfit, Check, Reuse, Mismatch
    <2>2. CASE StopOld(s)
      BY <2>2 DEF StopOld, Gone
    <2>3. CASE Clear(s)
      BY <2>3 DEF Clear
    <2>4. CASE Launch(s)
      BY <2>4 DEF Launch
    <2>5. CASE Record(s)
      BY <2>5 DEF Record
    <2>6. CASE PollHealthy(s) \/ PollExited(s) \/ PollTimeout(s)
      BY <2>6 DEF PollHealthy, PollExited, PollTimeout
    <2>7. CASE Sign(s)
      BY <2>7 DEF Sign
    <2>8. CASE BrokenPipe(s)
      BY <2>8 DEF BrokenPipe
    <2>9. QED
      BY <1>1, <2>1, <2>2, <2>3, <2>4, <2>5, <2>6, <2>7, <2>8 DEF ScriptStep
  <1>2. CASE Ready
    BY <1>2 DEF Ready, Gone
  <1>3. CASE Crash
    BY <1>3 DEF Crash, Gone
  <1>4. CASE Restart
    BY <1>4 DEF Restart
  <1>5. CASE UNCHANGED vars
    BY <1>5 DEF vars
  <1>6. QED
    BY <1>1, <1>2, <1>3, <1>4, <1>5 DEF Next

\* The invariant holds in every behaviour with one script at a time.
LEMMA ServerInvariant ==
  ASSUME OneScript
  PROVE  Spec => [](TypeOK /\ ServerInv)
  <1>1. Init => ServerInv
    BY DEF Init, ServerInv, Replacing, OnRecord
  <1>2. TypeOK /\ ServerInv /\ [Next]_vars => ServerInv'
    BY ServerStep, ConstantsAssumption
  <1>3. QED
    BY <1>1, <1>2, TypeCorrect, PTL DEF Spec

\* With one script at a time, a healthy server whose signature matches was
\* launched with those settings, through crashes, time-outs, Pod restarts and
\* writes that fail, unless its own pid could not be written to vllm.pid.
THEOREM SignatureVouches ==
  ASSUME OneScript
  PROVE  Spec => []SignatureVouchesForServer
  <1>1. TypeOK /\ ServerInv => SignatureVouchesForServer
    BY DEF OneScript, TypeOK, ServerInv, Replacing, SignatureVouchesForServer, Healthy,
           OnRecord
  <1>2. QED
    BY <1>1, ServerInvariant, PTL

\* With one script at a time, two servers live side by side only where one of
\* them has got SIGKILL and is not yet gone, or could not be written to vllm.pid.
THEOREM NeverTwoServers ==
  ASSUME OneScript
  PROVE  Spec => []OneServer
  <1>1. TypeOK /\ ServerInv => OneServer
    BY DEF OneScript, TypeOK, ServerInv, Replacing, OneServer
  <1>2. QED
    BY <1>1, ServerInvariant, PTL
=============================================================================
