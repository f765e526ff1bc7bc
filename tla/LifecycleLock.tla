---------------------------- MODULE LifecycleLock ----------------------------
(***************************************************************************)
(* The lock that serialises llm-runtime up, down, install and remove       *)
(* (state.lifecycle_lock): a non-blocking flock on runtime.lock retried    *)
(* until a deadline, and a label in that file naming the last operation    *)
(* that took it.  Taking the flock, emptying the file, flushing the new    *)
(* label, giving the flock back and closing the file are steps of their    *)
(* own, and the process can be killed after each.  A label whose flush did *)
(* not succeed stays in the buffer until the file is closed.               *)
(***************************************************************************)
EXTENDS Naturals

CONSTANTS Processes,     \* processes that run lifecycle operations
          Operations,    \* _KNOWN_OPERATIONS
          Startup,       \* the operation whose caller passes on_error (runtime.up)
          NoOne,         \* flock is free
          Another,       \* 'another lifecycle operation': no readable label
          MaxRetries     \* sleeps that fit in timeout_seconds

ASSUME ConstantsAssumption ==
    /\ Startup \in Operations
    /\ NoOne \notin Processes
    /\ Another \notin Operations
    /\ MaxRetries \in Nat

VARIABLES
    pc,         \* pc[p]: where p stands in lifecycle_lock
    op,         \* op[p]: the operation p asked for
    patience,   \* patience[p]: sleeps left before p's deadline
    flock,      \* the process holding the kernel lock, or NoOne
    label,      \* content of runtime.lock
    reported,   \* reported[p]: operation named by p's timeout message
    blocker,    \* history: operation of the holder at p's last refused flock
    failure,    \* author of the recorded activation failure, or NoOne
    pending,    \* pending[p]: p's label is in the buffer of its open file
    late        \* history: a close wrote a label since the file was last emptied

vars == <<pc, op, patience, flock, label, reported, blocker, failure, pending, late>>

Locations == {"idle", "trying", "sleeping", "givingUp", "locked", "truncated",
              "body", "raised", "unlocking", "closing"}
Labels == Operations \union {Another}

\* p has acquired the flock and not yet released it
Holding(p) == pc[p] \in {"locked", "truncated", "body", "raised", "unlocking"}
\* p is inside the retry loop
Waiting(p) == pc[p] \in {"trying", "sleeping", "givingUp"}

TypeOK ==
    /\ pc \in [Processes -> Locations]
    /\ op \in [Processes -> Operations]
    /\ patience \in [Processes -> 0 .. MaxRetries]
    /\ flock \in Processes \union {NoOne}
    /\ label \in Labels
    /\ reported \in [Processes -> Labels]
    /\ blocker \in [Processes -> Labels]
    /\ failure \in Processes \union {NoOne}
    /\ pending \in [Processes -> BOOLEAN]
    /\ late \in BOOLEAN

Init ==
    /\ pc = [p \in Processes |-> "idle"]
    /\ op \in [Processes -> {Startup}]
    /\ patience = [p \in Processes |-> 0]
    /\ flock = NoOne
    /\ label = Another
    /\ reported = [p \in Processes |-> Another]
    /\ blocker = [p \in Processes |-> Another]
    /\ failure = NoOne
    /\ pending = [p \in Processes |-> FALSE]
    /\ late = FALSE

buffer == <<pending, late>>

Goto(p, location) == pc' = [pc EXCEPT ![p] = location]

-----------------------------------------------------------------------------
(* Plausible bugs, each the mutated form of the action it is named after.  *)

\* a lock file that is opened and labelled but never locked
AcquireUnlocked(p) ==
    /\ pc[p] = "trying"
    /\ flock' = p
    /\ Goto(p, "locked")
    /\ UNCHANGED <<op, patience, label, reported, blocker, failure, buffer>>

\* the deadline test is "<", so one sleep too many
RefusedPastDeadline(p) ==
    /\ pc[p] = "trying"
    /\ flock # NoOne
    /\ blocker' = [blocker EXCEPT ![p] = op[flock]]
    /\ Goto(p, "sleeping")
    /\ UNCHANGED <<op, patience, flock, label, reported, failure, buffer>>

\* the deadline is recomputed on every iteration
SleepAnew(p) ==
    /\ pc[p] = "sleeping"
    /\ Goto(p, "trying")
    /\ UNCHANGED <<op, patience, flock, label, reported, blocker, failure, buffer>>

\* on_error also covers the wait for the lock
TimeOutRecorded(p) ==
    /\ pc[p] = "givingUp"
    /\ reported' = [reported EXCEPT ![p] = label]
    /\ failure' = IF op[p] = Startup THEN p ELSE failure
    /\ Goto(p, "idle")
    /\ UNCHANGED <<op, patience, flock, label, blocker, buffer>>

\* lock.flush() is missing
WriteLabelUnflushed(p) ==
    /\ pc[p] = "truncated"
    /\ Goto(p, "body")
    /\ UNCHANGED <<op, patience, flock, label, reported, blocker, failure, buffer>>
-----------------------------------------------------------------------------
\* open runtime.lock and compute the deadline
Call(p) ==
    /\ pc[p] = "idle"
    /\ \E o \in Operations : op' = [op EXCEPT ![p] = o]
    /\ patience' = [patience EXCEPT ![p] = MaxRetries]
    /\ reported' = [reported EXCEPT ![p] = Another]
    /\ blocker' = [blocker EXCEPT ![p] = Another]
    /\ Goto(p, "trying")
    /\ UNCHANGED <<flock, label, failure, buffer>>

\* flock(LOCK_EX | LOCK_NB) succeeds
Acquire(p) ==
    /\ pc[p] = "trying"
    /\ flock = NoOne
    /\ flock' = p
    /\ Goto(p, "locked")
    /\ UNCHANGED <<op, patience, label, reported, blocker, failure, buffer>>

\* flock is refused: give up past the deadline, else sleep
Refused(p) ==
    /\ pc[p] = "trying"
    /\ flock # NoOne
    /\ blocker' = [blocker EXCEPT ![p] = op[flock]]
    /\ Goto(p, IF patience[p] = 0 THEN "givingUp" ELSE "sleeping")
    /\ UNCHANGED <<op, patience, flock, label, reported, failure, buffer>>

Sleep(p) ==
    /\ pc[p] = "sleeping"
    /\ patience' = [patience EXCEPT ![p] = @ - 1]
    /\ Goto(p, "trying")
    /\ UNCHANGED <<op, flock, label, reported, blocker, failure, buffer>>

\* the refused process reads the label and raises; on_error is not called
TimeOut(p) ==
    /\ pc[p] = "givingUp"
    /\ reported' = [reported EXCEPT ![p] = label]
    /\ Goto(p, "idle")
    /\ UNCHANGED <<op, patience, flock, label, blocker, failure, buffer>>

\* lock.truncate() empties the file at once
Truncate(p) ==
    /\ pc[p] = "locked"
    /\ label' = Another
    /\ late' = FALSE
    /\ Goto(p, "truncated")
    /\ UNCHANGED <<op, patience, flock, reported, blocker, failure, pending>>

\* the buffered label reaches the file with lock.flush(); over what a late
\* close has written meanwhile, the rest of a longer label may stay behind it
WriteLabel(p) ==
    /\ pc[p] = "truncated"
    /\ label' \in {op[p]} \union (IF late THEN {Another} ELSE {})
    /\ Goto(p, "body")
    /\ UNCHANGED <<op, patience, flock, reported, blocker, failure, buffer>>

\* truncating or flushing the label raises, or Ctrl-C comes before the flush: the
\* body is not entered, and a label already written stays in the buffer
LabelFails(p) ==
    /\ pc[p] \in {"locked", "truncated"}
    /\ pending' \in {pending} \union
           (IF pc[p] = "truncated" THEN {[pending EXCEPT ![p] = TRUE]} ELSE {})
    /\ Goto(p, "unlocking")
    /\ UNCHANGED <<op, patience, flock, label, reported, blocker, failure, late>>

\* the body returns, or leaves with a BaseException (Ctrl-C); runtime.up and
\* runtime.down remove the activation failure when they succeed
BodyLeaves(p) ==
    /\ pc[p] = "body"
    /\ failure' \in {failure, NoOne}
    /\ Goto(p, "unlocking")
    /\ UNCHANGED <<op, patience, flock, label, reported, blocker, buffer>>

\* the body raises an Exception
BodyRaises(p) ==
    /\ pc[p] = "body"
    /\ Goto(p, "raised")
    /\ UNCHANGED <<op, patience, flock, label, reported, blocker, failure, buffer>>

\* on_error, where the caller gave one (runtime.up gives record_activation_failure)
OnError(p) ==
    /\ pc[p] = "raised"
    /\ failure' = IF op[p] = Startup THEN p ELSE failure
    /\ Goto(p, "unlocking")
    /\ UNCHANGED <<op, patience, flock, label, reported, blocker, buffer>>

\* finally: LOCK_UN
Unlock(p) ==
    /\ pc[p] = "unlocking"
    /\ flock' = NoOne
    /\ Goto(p, "closing")
    /\ UNCHANGED <<op, patience, label, reported, blocker, failure, buffer>>

\* finally: lock.close() flushes what is in the buffer, without the lock and at
\* the start of the file, over whatever is there; the flush may fail again
Close(p) ==
    /\ pc[p] = "closing"
    /\ label' \in {label} \union (IF pending[p] THEN {op[p], Another} ELSE {})
    /\ late' = (late \/ pending[p])
    /\ pending' = [pending EXCEPT ![p] = FALSE]
    /\ Goto(p, "idle")
    /\ UNCHANGED <<op, patience, flock, reported, blocker, failure>>

\* SIGTERM or SIGKILL: the kernel closes the descriptor, drops the flock, and the
\* buffer is lost
Kill(p) ==
    /\ pc[p] # "idle"
    /\ flock' = IF flock = p THEN NoOne ELSE flock
    /\ pending' = [pending EXCEPT ![p] = FALSE]
    /\ Goto(p, "idle")
    /\ UNCHANGED <<op, patience, label, reported, blocker, failure, late>>

\* the steps of the retry loop, which the process takes by itself
WaitStep(p) == Acquire(p) \/ Refused(p) \/ Sleep(p) \/ TimeOut(p)
HoldStep(p) == \/ Truncate(p) \/ WriteLabel(p) \/ LabelFails(p) \/ BodyLeaves(p)
               \/ BodyRaises(p) \/ OnError(p) \/ Unlock(p) \/ Close(p)

Next == \E p \in Processes : Call(p) \/ WaitStep(p) \/ HoldStep(p) \/ Kill(p)

Spec == Init /\ [][Next]_vars

\* A process in the retry loop is scheduled; a body may run for ever.
FairSpec == Spec /\ \A p \in Processes : WF_vars(WaitStep(p))
-----------------------------------------------------------------------------
\* lifecycle_lock: at most one process is between flock and LOCK_UN, so the
\* bodies of up, down, install and remove never overlap, kills included.
MutualExclusion ==
    \A p, q \in Processes : Holding(p) /\ Holding(q) => p = q

\* While an operation's body runs, runtime.lock names that operation, unless a
\* process that had already given the lock back has, on closing the file, written
\* its own label into it since this operation emptied it: outside that case the
\* label lags behind the flock only outside the body.
LabelNamesRunningBody ==
    \A p \in Processes :
        pc[p] \in {"body", "raised"} /\ ~late => label = op[p]

\* The activation failure changes only by the hand of the process that holds
\* the lock, and only a startup writes one: a waiter that times out neither
\* reports a failure of its own nor removes that of the operation it met
\* (test_shutdown_times_out_without_mutating_during_startup).
FailureOnlyFromHolder ==
    [][failure' # failure =>
          /\ flock # NoOne
          /\ failure' = NoOne \/ (failure' = flock /\ op[flock] = Startup)]_vars

\* "with a bounded wait": whatever the holder does, a waiting process leaves
\* the retry loop, with the lock or with a timeout.
BoundedWait == \A p \in Processes : Waiting(p) ~> ~Waiting(p)

\* steps that p can still take in the retry loop
Tries(p) == 2 * patience[p] + (IF pc[p] = "trying" THEN 1 ELSE 0)

\* "with a bounded wait", as far as it does not depend on time: with every step
\* of its own a waiting process has one less to take or leaves the loop, and
\* nobody else's step moves it, whoever holds the lock and however often it
\* changes hands.
WaitRunsDown ==
    [][\A p \in Processes : Waiting(p) =>
          \/ UNCHANGED <<pc[p], patience[p]>>
          \/ ~Waiting(p)'
          \/ Tries(p)' < Tries(p)]_vars

\* A timeout message names no operation, or the one that refused the flock
\* (test_timeout_identifies_competing_operation).
TimeoutNamesTheBlocker ==
    \A p \in Processes :
        pc[p] = "idle" => reported[p] \in {Another, blocker[p]}
=============================================================================
