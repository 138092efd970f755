------------------------------ MODULE Collector ------------------------------
(***************************************************************************)
(* The in-memory collector of RouteContract: the thread-bound capture      *)
(* token and the registry (CaptureRegistry), the lock-free capture         *)
(* (MutableCapture, MutableAttempt), the SPI hook instance                 *)
(* (RouteContractSqlExecutionHook) and the one-shot entry point            *)
(* (RouteContract.capture).                                                *)
(*                                                                         *)
(* A step of a thread is one access to shared memory together with the     *)
(* thread-local work around it.  The caller of the collector is left as    *)
(* general as the types allow: any thread may call any hook instance in    *)
(* any order, one call at a time per instance.                             *)
(***************************************************************************)
EXTENDS Naturals, FiniteSets

CONSTANTS Threads,      \* threads that run application code or pool tasks
          Captures,     \* capture tokens, one per call of RouteContract.capture
          Hooks,        \* hook instances, one per physical execution
          MaxRetained,  \* RouteContract.MAX_RETAINED_ATTEMPTS_PER_CAPTURE
          StartInputs,  \* kinds of argument lists a start callback is given
          FinishInputs, \* kinds of terminal callback that may be reported
          NoCapture, NoHook, NoThread

ASSUME CollectorAssumption ==
  /\ MaxRetained \in Nat \ {0}
  /\ IsFiniteSet(Hooks)
  /\ StartInputs \subseteq {"valid", "null", "throws"}
  /\ FinishInputs \subseteq {"returned", "failure", "null failure"}
  /\ NoCapture \notin Captures
  /\ NoHook \notin Hooks
  /\ NoThread \notin Threads

VARIABLES
  ctx,        \* CURRENT_CAPTURE: the token each thread sees
  registry,   \* the keys of CAPTURES
  owner,      \* the thread whose call of RouteContract.capture made the token
  scope,      \* the CaptureScope local of that call, while it runs
  result,     \* what that call delivers to its caller
  observed,   \* captures with startCallbackObserved set
  retained,   \* retainedAttemptCount
  limitFlag,  \* captures with attemptLimitDiagnosticRecorded set
  closed,     \* captures with closed set
  attempts,   \* the attempts queue; an attempt is named by its hook instance
  diags,      \* the collectorDiagnostics queue, as the set of codes in it
  completion, \* MutableAttempt.completion of the attempt of each hook
  lifecycle,  \* the hook instance's lifecycle field
  inFlight,   \* the capture of the hook instance's handle (noop: NoCapture)
  frozen,     \* the outcome closeAndFreeze copied for each attempt
  snapshot,   \* the RouteSnapshot of each capture
  pc, cap, hk, detail  \* each thread's position and locals in the collector

registryVars == <<ctx, registry, owner, scope, result>>
captureVars  == <<observed, retained, limitFlag, closed, attempts, diags>>
hookVars     == <<completion, lifecycle, inFlight>>
closeVars    == <<frozen, snapshot>>
threadVars   == <<pc, cap, hk, detail>>
vars == <<registryVars, captureVars, hookVars, closeVars, threadVars>>

-----------------------------------------------------------------------------
Terminal == {"CALLBACK_RETURNED", "CALLBACK_FAILURE"}
Outcomes == Terminal \cup {"START_REPORTED"}

Codes == {"RC_NULL_ARGUMENT", "RC_COLLECTOR_START_FAILURE", "RC_LATE_START",
          "RC_ATTEMPT_LIMIT_EXCEEDED", "RC_START_WHILE_ATTEMPT_ACTIVE",
          "RC_START_AFTER_FINISH", "RC_ORPHAN_FINISH", "RC_DUPLICATE_FINISH",
          "RC_NULL_FAILURE_CAUSE", "RC_WRONG_CLOSE_CONTEXT",
          "RC_DUPLICATE_CLOSE", "RC_NO_START_CALLBACK_OBSERVED",
          "RC_CALLER_INTERRUPTED_AT_CLOSE"}

(* A snapshot keeps the frozen attempts by outcome: its redundant counts   *)
(* are the cardinalities of these sets.                                    *)
Snapshots == [status   : {"OPEN", "COMPLETE", "REPORTED_EXECUTION_FAILURE",
                          "INCOMPLETE"},
              returned : SUBSET Hooks,
              failed   : SUBSET Hooks,
              unknown  : SUBSET Hooks,
              codes    : SUBSET Codes]

NoSnapshot == [status |-> "OPEN", returned |-> {}, failed |-> {},
               unknown |-> {}, codes |-> {}]

AttemptsIn(s) == s.returned \cup s.failed \cup s.unknown

(* Definitions whose name ends in Bug are plausible wrong versions of the  *)
(* definition that follows them.  No specification uses them: they show    *)
(* that the properties below can fail.                                     *)
CaptureStatusBug(failed, unknown, codes) ==
  IF codes # {} \/ unknown # {} THEN "INCOMPLETE" ELSE "COMPLETE"

(* The status closeAndFreeze computes and RouteSnapshot derives again.     *)
CaptureStatus(failed, unknown, codes) ==
  IF codes # {} \/ unknown # {} THEN "INCOMPLETE"
  ELSE IF failed # {} THEN "REPORTED_EXECUTION_FAILURE" ELSE "COMPLETE"

Init ==
  /\ ctx = [t \in Threads |-> NoCapture]
  /\ registry = {}
  /\ owner = [c \in Captures |-> NoThread]
  /\ scope = [t \in Threads |-> NoCapture]
  /\ result = [c \in Captures |-> "PENDING"]
  /\ observed = {}
  /\ retained = [c \in Captures |-> 0]
  /\ limitFlag = {}
  /\ closed = {}
  /\ attempts = [c \in Captures |-> {}]
  /\ diags = [c \in Captures |-> {}]
  /\ completion = [h \in Hooks |-> "NONE"]
  /\ lifecycle = [h \in Hooks |-> "NEW"]
  /\ inFlight = [h \in Hooks |-> NoCapture]
  /\ frozen = [h \in Hooks |-> "NONE"]
  /\ snapshot = [c \in Captures |-> NoSnapshot]
  /\ pc = [t \in Threads |-> "idle"]
  /\ cap = [t \in Threads |-> NoCapture]
  /\ hk = [t \in Threads |-> NoHook]
  /\ detail = [t \in Threads |-> "none"]

-----------------------------------------------------------------------------
(* Thread-local moves.                                                     *)

Goto(t, label, d) ==
  /\ pc' = [pc EXCEPT ![t] = label]
  /\ detail' = [detail EXCEPT ![t] = d]
  /\ UNCHANGED <<cap, hk>>

Call(t, label, c, h, d) ==
  /\ pc' = [pc EXCEPT ![t] = label]
  /\ cap' = [cap EXCEPT ![t] = c]
  /\ hk' = [hk EXCEPT ![t] = h]
  /\ detail' = [detail EXCEPT ![t] = d]

Return(t) == Call(t, "idle", NoCapture, NoHook, "none")

AddDiag(c, code) == diags' = [diags EXCEPT ![c] = @ \cup {code}]

Idle(t) == pc[t] = "idle"

(* No thread is inside a call of hook instance h.                          *)
Free(h) == \A t \in Threads : hk[t] # h

(* The token the thread sees leads to a registered capture.                *)
HasCapture(t) == ctx[t] \in registry

-----------------------------------------------------------------------------
OpenBug(t, c) ==
  /\ Idle(t)
  /\ owner[c] = NoThread
  /\ owner' = [owner EXCEPT ![c] = t]
  /\ registry' = registry \cup {c}
  /\ ctx' = [ctx EXCEPT ![t] = c]
  /\ scope' = [scope EXCEPT ![t] = c]
  /\ UNCHANGED <<result, captureVars, hookVars, closeVars, threadVars>>

(* RouteContract.capture: CaptureRegistry.open, up to the action.          *)
(* A nested call finds a token and is rejected before it changes anything. *)
Open(t, c) ==
  /\ Idle(t)
  /\ ctx[t] = NoCapture
  /\ owner[c] = NoThread
  /\ owner' = [owner EXCEPT ![c] = t]
  /\ registry' = registry \cup {c}
  /\ ctx' = [ctx EXCEPT ![t] = c]
  /\ scope' = [scope EXCEPT ![t] = c]
  /\ UNCHANGED <<result, captureVars, hookVars, closeVars, threadVars>>

RemoveContextBug(t) == UNCHANGED ctx

RemoveContext(t) == ctx' = [ctx EXCEPT ![t] = NoCapture]

(* The captured action returns or throws; CaptureRegistry.close reads and  *)
(* removes the thread's token.                                             *)
BeginClose(t, threw) ==
  LET c == scope[t] IN
  /\ Idle(t)
  /\ c \in registry
  /\ RemoveContext(t)
  /\ result' = [result EXCEPT ![c] = IF threw THEN "ACTION_FAILURE" ELSE @]
  /\ IF ctx[t] # c THEN AddDiag(c, "RC_WRONG_CLOSE_CONTEXT") ELSE UNCHANGED diags
  /\ Call(t, "closeFlag", c, NoHook, "none")
  /\ UNCHANGED <<registry, owner, scope, observed, retained, limitFlag, closed,
                 attempts, hookVars, closeVars>>

(* closeAndFreeze: the compare-and-set of closed.                          *)
CloseFlag(t) ==
  LET c == cap[t] IN
  /\ pc[t] = "closeFlag"
  /\ closed' = closed \cup {c}
  /\ IF c \in closed THEN AddDiag(c, "RC_DUPLICATE_CLOSE") ELSE UNCHANGED diags
  /\ Goto(t, "closeChecks", "none")
  /\ UNCHANGED <<registryVars, observed, retained, limitFlag, attempts, hookVars,
                 closeVars>>

CloseCodesBug(c, interrupted) ==
  IF c \in observed THEN {} ELSE {"RC_NO_START_CALLBACK_OBSERVED"}

(* closeAndFreeze: what startCallbackObserved and the caller's interrupt   *)
(* flag add to the diagnostics.                                            *)
CloseCodes(c, interrupted) ==
  (IF c \in observed THEN {} ELSE {"RC_NO_START_CALLBACK_OBSERVED"})
    \cup (IF interrupted THEN {"RC_CALLER_INTERRUPTED_AT_CLOSE"} ELSE {})

CloseChecks(t, interrupted) ==
  LET c == cap[t] IN
  /\ pc[t] = "closeChecks"
  /\ diags' = [diags EXCEPT ![c] = @ \cup CloseCodes(c, interrupted)]
  /\ Goto(t, "freeze", "none")
  /\ UNCHANGED <<registryVars, observed, retained, limitFlag, closed, attempts,
                 hookVars, closeVars>>

FrozenOutcomeBug(h) ==
  IF completion[h] = "CALLBACK_FAILURE" THEN completion[h] ELSE "CALLBACK_RETURNED"

(* MutableAttempt.freeze reads the completion once.                        *)
FrozenOutcome(h) == completion[h]

(* closeAndFreeze: the weakly consistent iteration over the queue freezes  *)
(* one attempt at a time ...                                               *)
Freeze(t, h) ==
  /\ pc[t] = "freeze"
  /\ h \in attempts[cap[t]]
  /\ frozen[h] = "NONE"
  /\ frozen' = [frozen EXCEPT ![h] = FrozenOutcome(h)]
  /\ UNCHANGED <<registryVars, captureVars, hookVars, snapshot, threadVars>>

SkipUnfinishedBug(h) == frozen[h] # "NONE" \/ completion[h] = "START_REPORTED"

AwaitTerminalBug(h) == frozen[h] # "NONE" /\ completion[h] \in Terminal

Visited(h) == frozen[h] # "NONE"

(* ... and ends when it finds no further attempt.                          *)
EndFreeze(t) ==
  /\ pc[t] = "freeze"
  /\ \A h \in attempts[cap[t]] : Visited(h)
  /\ Goto(t, "assemble", "none")
  /\ UNCHANGED <<registryVars, captureVars, hookVars, closeVars>>

(* closeAndFreeze: the copy of the diagnostics, the status, and the        *)
(* RouteSnapshot constructor, which refuses a COMPLETE snapshot without    *)
(* attempts.                                                               *)
Assemble(t) ==
  LET c == cap[t]
      With(o) == {h \in attempts[c] : frozen[h] = o}
      failed == With("CALLBACK_FAILURE")
      unknown == With("START_REPORTED")
      new == [status   |-> CaptureStatus(failed, unknown, diags[c]),
              returned |-> With("CALLBACK_RETURNED"),
              failed   |-> failed,
              unknown  |-> unknown,
              codes    |-> diags[c]]
      accepted == new.status = "COMPLETE" => AttemptsIn(new) # {}
  IN
  /\ pc[t] = "assemble"
  /\ snapshot' = [snapshot EXCEPT ![c] = IF accepted THEN new ELSE @]
  /\ Goto(t, "remove", "none")
  /\ UNCHANGED <<registryVars, captureVars, hookVars, frozen>>

DeliveredBug(c) ==
  IF snapshot[c] = NoSnapshot THEN "CLOSE_FAILURE"
  ELSE IF result[c] = "ACTION_FAILURE" THEN "ACTION_FAILURE" ELSE "SNAPSHOT"

(* A failure of the action is rethrown whatever close did.                 *)
Delivered(c) ==
  IF result[c] = "ACTION_FAILURE" THEN "ACTION_FAILURE"
  ELSE IF snapshot[c] = NoSnapshot THEN "CLOSE_FAILURE" ELSE "SNAPSHOT"

(* CaptureRegistry.close's finally, and the return of RouteContract.capture. *)
Remove(t) ==
  LET c == cap[t] IN
  /\ pc[t] = "remove"
  /\ registry' = registry \ {c}
  /\ scope' = [scope EXCEPT ![t] = NoCapture]
  /\ result' = [result EXCEPT ![c] = Delivered(c)]
  /\ Return(t)
  /\ UNCHANGED <<ctx, owner, captureVars, hookVars, closeVars>>

-----------------------------------------------------------------------------
(* RouteContractSqlExecutionHook.start and CaptureRegistry.startAttempt.   *)

(* recordCurrentError: the diagnostic goes to the capture the thread sees, *)
(* if there is one.                                                        *)
RecordCurrent(t, h, code) ==
  IF HasCapture(t) THEN Call(t, "record", ctx[t], h, code)
  ELSE UNCHANGED threadVars

MayStart(h) == lifecycle[h] = "NEW"

StartCall(t, h, input) ==
  /\ Idle(t)
  /\ Free(h)
  /\ MayStart(h)
  /\ lifecycle' = [lifecycle EXCEPT ![h] = "STARTED"]
  /\ IF HasCapture(t) THEN Call(t, "observe", ctx[t], h, input)
     ELSE UNCHANGED threadVars
  /\ UNCHANGED <<registryVars, captureVars, completion, inFlight, closeVars>>

StartMisuse(t, h) ==
  /\ Idle(t)
  /\ Free(h)
  /\ lifecycle[h] # "NEW"
  /\ RecordCurrent(t, h, IF lifecycle[h] = "STARTED"
                         THEN "RC_START_WHILE_ATTEMPT_ACTIVE"
                         ELSE "RC_START_AFTER_FINISH")
  /\ UNCHANGED <<registryVars, captureVars, hookVars, closeVars>>

StartFailureBug(t) == Return(t)

(* A RuntimeException while the arguments are fingerprinted.               *)
StartFailure(t) == Goto(t, "record", "RC_COLLECTOR_START_FAILURE")

(* recordStartCallbackObserved, then the argument list is examined.        *)
Observe(t) ==
  /\ pc[t] = "observe"
  /\ observed' = observed \cup {cap[t]}
  /\ \/ detail[t] = "valid"  /\ Goto(t, "checkClosed", "none")
     \/ detail[t] = "null"   /\ Goto(t, "recordArgument", "none")
     \/ detail[t] = "throws" /\ StartFailure(t)
  /\ UNCHANGED <<registryVars, retained, limitFlag, closed, attempts, diags,
                 hookVars, closeVars>>

(* A null name, SQL or parameter list: the three codes are one here.       *)
RecordArgument(t) ==
  /\ pc[t] = "recordArgument"
  /\ AddDiag(cap[t], "RC_NULL_ARGUMENT")
  /\ Goto(t, "checkClosed", "none")
  /\ UNCHANGED <<registryVars, observed, retained, limitFlag, closed, attempts,
                 hookVars, closeVars>>

(* MutableCapture.start, one shared access at a time.                      *)
CheckClosed(t) ==
  /\ pc[t] = "checkClosed"
  /\ IF cap[t] \in closed THEN Goto(t, "record", "RC_LATE_START")
     ELSE Goto(t, "count", "none")
  /\ UNCHANGED <<registryVars, captureVars, hookVars, closeVars>>

OverLimitBug(attemptNumber) == attemptNumber - 1 > MaxRetained

OverLimit(attemptNumber) == attemptNumber > MaxRetained

Count(t) ==
  LET c == cap[t] IN
  /\ pc[t] = "count"
  /\ retained' = [retained EXCEPT ![c] = @ + 1]
  /\ Goto(t, IF OverLimit(retained[c] + 1) THEN "limit" ELSE "retain", "none")
  /\ UNCHANGED <<registryVars, observed, limitFlag, closed, attempts, diags,
                 hookVars, closeVars>>

Limit(t) ==
  LET c == cap[t] IN
  /\ pc[t] = "limit"
  /\ limitFlag' = limitFlag \cup {c}
  /\ IF c \in limitFlag THEN Return(t)
     ELSE Goto(t, "record", "RC_ATTEMPT_LIMIT_EXCEEDED")
  /\ UNCHANGED <<registryVars, observed, retained, closed, attempts, diags,
                 hookVars, closeVars>>

Retain(t) ==
  LET c == cap[t]  h == hk[t] IN
  /\ pc[t] = "retain"
  /\ attempts' = [attempts EXCEPT ![c] = @ \cup {h}]
  /\ completion' = [completion EXCEPT ![h] = "START_REPORTED"]
  /\ inFlight' = [inFlight EXCEPT ![h] = c]
  /\ Return(t)
  /\ UNCHANGED <<registryVars, observed, retained, limitFlag, closed, diags,
                 lifecycle, closeVars>>

(* recordError, the last thing its callers do before they return.          *)
Record(t) ==
  /\ pc[t] = "record"
  /\ AddDiag(cap[t], detail[t])
  /\ Return(t)
  /\ UNCHANGED <<registryVars, observed, retained, limitFlag, closed, attempts,
                 hookVars, closeVars>>

-----------------------------------------------------------------------------
(* RouteContractSqlExecutionHook.finishSuccess and finishFailure.          *)

FinishCall(t, h, input) ==
  LET c == inFlight[h] IN
  /\ Idle(t)
  /\ Free(h)
  /\ lifecycle[h] = "STARTED"
  /\ lifecycle' = [lifecycle EXCEPT ![h] = "FINISHED"]
  /\ IF c = NoCapture THEN UNCHANGED threadVars
     ELSE Call(t, IF input = "null failure" THEN "recordCause" ELSE "complete",
               c, h, input)
  /\ UNCHANGED <<registryVars, captureVars, completion, inFlight, closeVars>>

FinishMisuse(t, h) ==
  /\ Idle(t)
  /\ Free(h)
  /\ lifecycle[h] # "STARTED"
  /\ lifecycle' = [lifecycle EXCEPT ![h] = "FINISHED"]
  /\ RecordCurrent(t, h, IF lifecycle[h] = "NEW" THEN "RC_ORPHAN_FINISH"
                         ELSE "RC_DUPLICATE_FINISH")
  /\ UNCHANGED <<registryVars, captureVars, completion, inFlight, closeVars>>

RecordCause(t) ==
  /\ pc[t] = "recordCause"
  /\ AddDiag(cap[t], "RC_NULL_FAILURE_CAUSE")
  /\ Goto(t, "complete", detail[t])
  /\ UNCHANGED <<registryVars, observed, retained, limitFlag, closed, attempts,
                 hookVars, closeVars>>

OutcomeOfBug(input) == input

OutcomeOf(input) ==
  IF input = "returned" THEN "CALLBACK_RETURNED" ELSE "CALLBACK_FAILURE"

(* The compare-and-set of the attempt's completion; the hook drops its     *)
(* handle on the way out.                                                  *)
Complete(t) ==
  LET h == hk[t] IN
  /\ pc[t] = "complete"
  /\ inFlight' = [inFlight EXCEPT ![h] = NoCapture]
  /\ IF completion[h] = "START_REPORTED"
     THEN completion' = [completion EXCEPT ![h] = OutcomeOf(detail[t])] /\ Return(t)
     ELSE Goto(t, "record", "RC_DUPLICATE_FINISH") /\ UNCHANGED completion
  /\ UNCHANGED <<registryVars, captureVars, lifecycle, closeVars>>

-----------------------------------------------------------------------------
ReplayBug(t, c) ==
  /\ Idle(t)
  /\ scope[t] = NoCapture
  /\ c \in {d \in Captures : owner[d] # NoThread} \cup {NoCapture}
  /\ ctx' = [ctx EXCEPT ![t] = IF @ = NoCapture THEN c ELSE @]
  /\ UNCHANGED <<registry, owner, scope, result, captureVars, hookVars,
                 closeVars, threadVars>>

(* TransmittableThreadLocal around a pool task: the token seen at          *)
(* submission is replayed before the task and the worker's own value (none, *)
(* because childValue returns null) restored after it.                     *)
Replay(t, c) ==
  /\ Idle(t)
  /\ scope[t] = NoCapture
  /\ c \in {d \in Captures : owner[d] # NoThread} \cup {NoCapture}
  /\ ctx' = [ctx EXCEPT ![t] = c]
  /\ UNCHANGED <<registry, owner, scope, result, captureVars, hookVars,
                 closeVars, threadVars>>

(* The steps inside one call of the hook.                                  *)
HookStep(t) ==
  \/ Observe(t) \/ RecordArgument(t) \/ CheckClosed(t) \/ Count(t) \/ Limit(t)
  \/ Retain(t) \/ Record(t) \/ RecordCause(t) \/ Complete(t)

(* The steps inside RouteContract.capture after the action.                *)
CloseStep(t) ==
  \/ CloseFlag(t)
  \/ \E interrupted \in BOOLEAN : CloseChecks(t, interrupted)
  \/ \E h \in Hooks : Freeze(t, h)
  \/ EndFreeze(t) \/ Assemble(t) \/ Remove(t)

Next ==
  \E t \in Threads :
    \/ \E c \in Captures : Open(t, c)
    \/ \E threw \in BOOLEAN : BeginClose(t, threw)
    \/ \E c \in Captures \cup {NoCapture} : Replay(t, c)
    \/ \E h \in Hooks :
         \/ \E input \in StartInputs : StartCall(t, h, input)
         \/ \E input \in FinishInputs : FinishCall(t, h, input)
         \/ StartMisuse(t, h)
         \/ FinishMisuse(t, h)
    \/ HookStep(t)
    \/ CloseStep(t)

Spec == Init /\ [][Next]_vars
-----------------------------------------------------------------------------
Labels == {"idle", "observe", "recordArgument", "checkClosed", "count", "limit",
           "retain", "record", "recordCause", "complete", "closeFlag",
           "closeChecks", "freeze", "assemble", "remove"}

Details == Codes \cup StartInputs \cup FinishInputs \cup {"none"}

SharedTypes ==
  /\ ctx \in [Threads -> Captures \cup {NoCapture}]
  /\ registry \subseteq Captures
  /\ owner \in [Captures -> Threads \cup {NoThread}]
  /\ scope \in [Threads -> Captures \cup {NoCapture}]
  /\ result \in [Captures -> {"PENDING", "SNAPSHOT", "ACTION_FAILURE",
                              "CLOSE_FAILURE"}]
  /\ observed \subseteq Captures
  /\ retained \in [Captures -> Nat]
  /\ limitFlag \subseteq Captures
  /\ closed \subseteq Captures
  /\ attempts \in [Captures -> SUBSET Hooks]
  /\ diags \in [Captures -> SUBSET Codes]
  /\ completion \in [Hooks -> Outcomes \cup {"NONE"}]
  /\ lifecycle \in [Hooks -> {"NEW", "STARTED", "FINISHED"}]
  /\ inFlight \in [Hooks -> Captures \cup {NoCapture}]
  /\ frozen \in [Hooks -> Outcomes \cup {"NONE"}]
  /\ snapshot \in [Captures -> Snapshots]

ThreadTypes ==
  /\ pc \in [Threads -> Labels]
  /\ cap \in [Threads -> Captures \cup {NoCapture}]
  /\ hk \in [Threads -> Hooks \cup {NoHook}]
  /\ detail \in [Threads -> Details]

TypeOK == SharedTypes /\ ThreadTypes

(* RC-10: whatever the order of the counter increments and the insertions  *)
(* of concurrent starts, a capture never retains more than the limit.      *)
RetainedBound == \A c \in Captures : Cardinality(attempts[c]) <= MaxRetained

(* A snapshot never contradicts the outcome an attempt has now: only an    *)
(* attempt frozen as unknown may still finish, and none is retained by two *)
(* captures.                                                               *)
SnapshotAgrees ==
  \A c \in Captures :
    /\ AttemptsIn(snapshot[c]) \subseteq attempts[c]
    /\ \A h \in snapshot[c].returned : completion[h] = "CALLBACK_RETURNED"
    /\ \A h \in snapshot[c].failed : completion[h] = "CALLBACK_FAILURE"
    /\ \A d \in Captures \ {c} : attempts[c] \cap attempts[d] = {}

(* The thread that owns a capture sees its token until it closes it, so    *)
(* RC_WRONG_CLOSE_CONTEXT and RC_DUPLICATE_CLOSE are never recorded, and a  *)
(* capture leaves the registry with the call that opened it.               *)
OneOwner ==
  /\ \A c \in registry : \E t \in Threads : scope[t] = c /\ owner[c] = t
  /\ \A c \in Captures : diags[c] \cap
       {"RC_WRONG_CLOSE_CONTEXT", "RC_DUPLICATE_CLOSE"} = {}

(* A snapshot, once taken, an outcome, once terminal, and what a capture   *)
(* call delivers, once decided, are never rewritten: not by a late         *)
(* callback and not by a failure of the cleanup.                           *)
EvidenceIsFinal ==
  [][/\ \A c \in Captures : snapshot[c] # NoSnapshot => snapshot'[c] = snapshot[c]
     /\ \A h \in Hooks : completion[h] \in Terminal =>
          completion'[h] = completion[h]
     /\ \A c \in Captures : result[c] # "PENDING" => result'[c] = result[c]]_vars
=============================================================================
