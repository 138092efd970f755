---------------------------- MODULE CaptureSystem ----------------------------
(***************************************************************************)
(* The collector under its supported client: application threads that run  *)
(* synchronous statements inside RouteContract.capture, and the            *)
(* ShardingSphere-JDBC executor, which runs the first execution of a       *)
(* statement on the calling thread and the others as pool tasks, with a    *)
(* fresh hook instance for each physical execution.                        *)
(*                                                                         *)
(* The executor and TransmittableThreadLocal are not part of this          *)
(* repository; they are modelled from what its code and documents rely on. *)
(* On the normal path the caller joins every execution of its statement;   *)
(* after a failed execution or an interrupt it may return without joining  *)
(* the others (docs/specification.md, sections 6 and 12).                  *)
(***************************************************************************)
EXTENDS Collector

CONSTANTS Callers, Workers,
          Faults   \* subset of {"interrupt", "vanish"}: see Interrupt, Vanish

ASSUME SystemAssumption ==
  /\ Threads = Callers \cup Workers
  /\ Callers \cap Workers = {}
  /\ Faults \subseteq {"interrupt", "vanish"}

VARIABLES
  stage,       \* how far the executor is with each physical execution
  origin,      \* the token captured when the execution was submitted
  task,        \* the execution each thread is running
  waits,       \* the executions of a caller's current statement
  interrupted, \* the callers whose interrupt flag is set
  due          \* what of its executions was reported before a capture closed

executorVars == <<stage, origin, task, waits, interrupted>>
systemVars == <<vars, executorVars, due>>

SystemInit ==
  /\ Init
  /\ stage = [h \in Hooks |-> "UNUSED"]
  /\ origin = [h \in Hooks |-> NoCapture]
  /\ task = [t \in Threads |-> NoHook]
  /\ waits = [t \in Callers |-> {}]
  /\ interrupted = {}
  /\ due = [c \in Captures |-> [h \in Hooks |-> "NONE"]]

-----------------------------------------------------------------------------
(* The application thread is between two statements.                       *)
AtRest(t) == Idle(t) /\ task[t] = NoHook /\ waits[t] = {}

(* What callbacks of an execution have returned to the executor by now.    *)
Reported(h) ==
  CASE lifecycle[h] = "NEW" -> "NONE"
    [] lifecycle[h] = "STARTED" -> IF Free(h) THEN "STARTED" ELSE "NONE"
    [] lifecycle[h] = "FINISHED" ->
         IF ~Free(h) THEN "STARTED"
         ELSE IF stage[h] \in {"RETURNING", "RETURNED"} THEN "RETURNED"
         ELSE "FAILED"

OpenCapture(t, c) ==
  /\ AtRest(t)
  /\ Open(t, c)
  /\ UNCHANGED <<executorVars, due>>

EndAction(t, threw) ==
  LET c == scope[t] IN
  /\ AtRest(t)
  /\ BeginClose(t, threw)
  /\ due' = [due EXCEPT ![c] =
               [h \in Hooks |-> IF origin[h] = c THEN Reported(h) ELSE "NONE"]]
  /\ UNCHANGED executorVars

(* A statement with executions S is submitted: each carries the token the  *)
(* caller sees now.                                                        *)
Submit(t, S, trunk) ==
  /\ AtRest(t)
  /\ trunk \in S
  /\ \A h \in S : stage[h] = "UNUSED"
  /\ stage' = [h \in Hooks |-> IF h = trunk THEN "RUNNING"
                               ELSE IF h \in S THEN "QUEUED" ELSE stage[h]]
  /\ origin' = [h \in Hooks |-> IF h \in S THEN ctx[t] ELSE origin[h]]
  /\ task' = [task EXCEPT ![t] = trunk]
  /\ waits' = [waits EXCEPT ![t] = S]
  /\ UNCHANGED <<vars, interrupted, due>>

(* A pool thread takes a task from the queue.                              *)
Take(w, h) ==
  /\ task[w] = NoHook
  /\ stage[h] = "QUEUED"
  /\ Replay(w, origin[h])
  /\ task' = [task EXCEPT ![w] = h]
  /\ stage' = [stage EXCEPT ![h] = "RUNNING"]
  /\ UNCHANGED <<origin, waits, interrupted, due>>

Start(t, input) ==
  /\ task[t] # NoHook
  /\ StartCall(t, task[t], input)
  /\ UNCHANGED <<executorVars, due>>

Finish(t, input) ==
  LET h == task[t] IN
  /\ h # NoHook
  /\ stage[h] = "RUNNING"
  /\ FinishCall(t, h, input)
  /\ stage' = [stage EXCEPT ![h] = IF input = "returned" THEN "RETURNING"
                                   ELSE "FAILING"]
  /\ UNCHANGED <<origin, task, waits, interrupted, due>>

(* The execution leaves with a throwable the executor does not report.     *)
Vanish(t) ==
  LET h == task[t] IN
  /\ "vanish" \in Faults
  /\ Idle(t)
  /\ h # NoHook
  /\ stage[h] = "RUNNING"
  /\ lifecycle[h] = "STARTED"
  /\ stage' = [stage EXCEPT ![h] = "FAILING"]
  /\ UNCHANGED <<vars, origin, task, waits, interrupted, due>>

(* The execution's outcome becomes visible to the statement; a worker      *)
(* restores the context it had before the task.                            *)
EndTask(t) ==
  LET h == task[t] IN
  /\ Idle(t)
  /\ h # NoHook
  /\ stage[h] \in {"RETURNING", "FAILING"}
  /\ stage' = [stage EXCEPT ![h] = IF @ = "RETURNING" THEN "RETURNED" ELSE "FAILED"]
  /\ task' = [task EXCEPT ![t] = NoHook]
  /\ IF t \in Workers THEN Replay(t, NoCapture) ELSE UNCHANGED vars
  /\ UNCHANGED <<origin, waits, interrupted, due>>

(* The statement returns after every execution returned ...                *)
Join(t) ==
  /\ Idle(t)
  /\ task[t] = NoHook
  /\ waits[t] # {}
  /\ \A h \in waits[t] : stage[h] = "RETURNED"
  /\ waits' = [waits EXCEPT ![t] = {}]
  /\ UNCHANGED <<vars, stage, origin, task, interrupted, due>>

(* ... or early, the action being free to catch what it throws.            *)
LeaveEarly(t) ==
  /\ Idle(t)
  /\ task[t] = NoHook
  /\ t \in interrupted \/ \E h \in waits[t] : stage[h] = "FAILED"
  /\ waits[t] # {}
  /\ waits' = [waits EXCEPT ![t] = {}]
  /\ UNCHANGED <<vars, stage, origin, task, interrupted, due>>

(* Another thread interrupts a caller; the flag stays set until close.     *)
Interrupt(t) ==
  /\ "interrupt" \in Faults
  /\ scope[t] # NoCapture
  /\ interrupted' = interrupted \cup {t}
  /\ UNCHANGED <<vars, stage, origin, task, waits, due>>

CollectorStep(t) ==
  /\ \/ HookStep(t)
     \/ CloseFlag(t)
     \/ CloseChecks(t, t \in interrupted)
     \/ \E h \in Hooks : Freeze(t, h)
     \/ EndFreeze(t) \/ Assemble(t) \/ Remove(t)
  /\ UNCHANGED <<executorVars, due>>

CallerStep(t) ==
  \/ \E c \in Captures : OpenCapture(t, c)
  \/ \E threw \in BOOLEAN : EndAction(t, threw)
  \/ \E S \in SUBSET Hooks, trunk \in Hooks : Submit(t, S, trunk)
  \/ Join(t) \/ LeaveEarly(t) \/ Interrupt(t)

ExecutionStep(t) ==
  \/ \E input \in StartInputs : Start(t, input)
  \/ \E input \in FinishInputs : Finish(t, input)
  \/ Vanish(t) \/ EndTask(t)

SystemNext ==
  \/ \E t \in Callers : CallerStep(t)
  \/ \E w \in Workers, h \in Hooks : Take(w, h)
  \/ \E t \in Threads : ExecutionStep(t) \/ CollectorStep(t)

SystemSpec == SystemInit /\ [][SystemNext]_systemVars

(* Runnable threads are scheduled and a physical execution ends; that a    *)
(* captured action ends is not assumed.                                    *)
Fairness ==
  /\ \A t \in Threads : /\ WF_systemVars(CollectorStep(t))
                       /\ WF_systemVars(ExecutionStep(t))
  /\ \A w \in Workers : WF_systemVars(\E h \in Hooks : Take(w, h))
  /\ \A t \in Callers : WF_systemVars(Join(t) \/ LeaveEarly(t))

FairSystemSpec == SystemSpec /\ Fairness
-----------------------------------------------------------------------------
(* An execution is run by one thread at a time: the hook instance's fields *)
(* are not synchronised, and the collector relies on one thread calling    *)
(* them.                                                                   *)
OneRunner ==
  \A t \in Threads : task[t] # NoHook =>
    /\ stage[task[t]] \in {"RUNNING", "RETURNING", "FAILING"}
    /\ \A u \in Threads \ {t} : task[u] # task[t]

SystemTypeOK ==
  /\ stage \in [Hooks -> {"UNUSED", "QUEUED", "RUNNING", "RETURNING", "FAILING",
                          "RETURNED", "FAILED"}]
  /\ origin \in [Hooks -> Captures \cup {NoCapture}]
  /\ task \in [Threads -> Hooks \cup {NoHook}]
  /\ waits \in [Callers -> SUBSET Hooks]
  /\ interrupted \subseteq Callers
  /\ due \in [Captures ->
                [Hooks -> {"NONE", "STARTED", "RETURNED", "FAILED"}]]
  /\ OneRunner

Started(c) == {h \in Hooks : due[c][h] # "NONE"}

(* A COMPLETE snapshot holds exactly the executions submitted under its    *)
(* capture, all returned, although a failed or interrupted statement       *)
(* leaves executions running: sections 6 and 12 of specification.md fail   *)
(* those paths closed.                                                     *)
CompleteIsWhole ==
  \A c \in Captures : snapshot[c].status = "COMPLETE" =>
    snapshot[c].returned = {h \in Hooks : origin[h] = c}

(* RC-01 to RC-03: whatever the interleaving of captures on shared pool    *)
(* threads and of tasks that outlive their capture, an attempt is retained *)
(* only by the capture its execution was submitted under.                  *)
NoCrossCapture ==
  \A c \in Captures : \A h \in attempts[c] : origin[h] = c

(* A start callback that had returned before its capture closed is in the  *)
(* snapshot, or the snapshot carries a diagnostic (RC-09).                 *)
NoSilentLoss ==
  \A c \in Captures : snapshot[c] # NoSnapshot =>
    \/ Started(c) \subseteq AttemptsIn(snapshot[c])
    \/ snapshot[c].status = "INCOMPLETE"

(* A failure reported before the capture closed keeps it from passing.     *)
FailureNeverPasses ==
  \A c \in Captures :
    (\E h \in Hooks : due[c][h] = "FAILED") => snapshot[c].status # "COMPLETE"

(* RC-10: when every execution of a capture has returned and more of them  *)
(* than the limit were started, the capture is INCOMPLETE.                 *)
LimitFailsClosed ==
  \A c \in Captures :
    /\ snapshot[c] # NoSnapshot
    /\ Cardinality(Started(c)) > MaxRetained
    /\ \A h \in Hooks : origin[h] = c => due[c][h] = "RETURNED"
    => snapshot[c].status = "INCOMPLETE"

(* Assembling the snapshot never fails with an internal exception          *)
(* (specification.md section 6).                                           *)
CloseNeverFails == \A c \in Captures : result[c] # "CLOSE_FAILURE"

(* A thread outside a task and outside a capture sees no token: no capture *)
(* becomes the baseline of a pool thread or of a later operation.          *)
ContextRestored ==
  \A t \in Threads :
    Idle(t) /\ task[t] = NoHook /\ scope[t] = NoCapture => ctx[t] = NoCapture

(* No callback and no close waits for another thread: whatever the others  *)
(* do, a call into the collector comes back (RC-04, RC-08).                *)
CallsReturn == \A t \in Threads : pc[t] # "idle" ~> pc[t] = "idle"
=============================================================================
