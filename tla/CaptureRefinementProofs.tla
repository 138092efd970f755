----------------------- MODULE CaptureRefinementProofs -----------------------
(* The proof that the collector under its supported client keeps the       *)
(* promise of OneShotCapture, for every number of threads, captures and    *)
(* executions, while the executions of a capture fit the retention limit.  *)
EXTENDS CaptureRefinement, CaptureSystemProofs

(* A start under way has not retained its attempt, and a snapshot that was *)
(* taken has a status.                                                     *)
StatusOK(t) ==
  pc[t] \in CallbackLabels /\ lifecycle[hk[t]] = "STARTED" => completion[hk[t]] = "NONE"

RefinementInv ==
  /\ OutcomeInv
  /\ \A t \in Threads : StatusOK(t)
  /\ \A c \in Captures : snapshot[c] # NoSnapshot => snapshot[c].status # "OPEN"

(* A start under way keeps having no outcome for its execution.            *)
LEMMA CallbackStatus ==
  ASSUME SystemAssumption, CollectorAssumption, SystemInv, StageInv,
         StageInv', \A t \in Threads : StatusOK(t), [SystemNext]_systemVars
  PROVE  \A t \in Threads : StatusOK(t)'
<1> SUFFICES ASSUME NEW u \in Threads, pc'[u] \in CallbackLabels,
                    lifecycle'[hk'[u]] = "STARTED"
             PROVE  completion'[hk'[u]] = "NONE"
  BY DEF StatusOK
<1>0. /\ DOMAIN pc = Threads /\ DOMAIN completion = Hooks
  BY DEF SystemInv, EvidenceInv, TypeInv, SharedTypes, ThreadInv, ThreadTypes
<1>1. CASE UNCHANGED vars
  BY <1>1 DEF vars, hookVars, threadVars, StatusOK
<1>2. ASSUME NEW t \in Threads, Away(t)
      PROVE  completion'[hk'[u]] = "NONE"
  <2>1. CASE u = t
    <3>1. PICK h \in Hooks : h = task[t] /\ hk'[t] = h
      BY <1>2, <2>1 DEF Away
    <3>2. CASE pc'[t] = "observe"
      <4>1. lifecycle[h] = "NEW"
        BY <1>2, <2>1, <3>1, <3>2 DEF Away
      <4>2. completion[h] = "NONE"
        BY <4>1 DEF SystemInv, EvidenceInv, HookInv, StartInv
      <4> QED BY <1>2, <2>1, <3>1, <4>2 DEF Away
    <3>3. CASE pc'[t] # "observe"
      BY <1>2, <2>1, <3>1, <3>3 DEF Away, StageInv, CallOK
    <3> QED BY <3>2, <3>3
  <2>2. CASE u # t
    <3>1. pc[u] \in CallbackLabels /\ hk'[u] = hk[u]
      BY <1>2, <2>2 DEF Away, Mine
    <3>2. hk[u] \in Hooks
      BY <3>1, OwnHook
    <3>3. hk[u] # task[t]
      BY <2>2, <3>2, OtherHook
    <3>4. lifecycle'[hk[u]] = lifecycle[hk[u]] /\ completion' = completion
      BY <1>2, <3>2, <3>3 DEF Away
    <3> QED BY <3>1, <3>4 DEF StatusOK
  <2> QED BY <2>1, <2>2
<1>3. ASSUME NEW t \in Threads, HookStep(t), Carries(t), Mine(t)
      PROVE  completion'[hk'[u]] = "NONE"
  <2>1. pc[u] \in CallbackLabels /\ hk'[u] = hk[u]
    BY <1>3 DEF Carries, Mine, CallbackLabels, HookLabels
  <2>2. hk[u] \in Hooks /\ completion[hk[u]] = "NONE"
    BY <1>3, <2>1, OwnHook DEF Carries, StatusOK
  <2>3. completion'[hk[u]] = completion[hk[u]]
    <3>1. CASE Retain(t) \/ (Complete(t) /\ completion' # completion)
      <4>1. pc'[t] = "idle" /\ \A h \in Hooks \ {hk[t]} : completion'[h] = completion[h]
        BY <1>0, <3>1 DEF Retain, Complete, Return, Call
      <4>2. u # t
        BY <4>1 DEF CallbackLabels, HookLabels
      <4>3. hk[u] # hk[t]
        BY <2>2, <4>2 DEF SystemInv, EvidenceInv, HookInv, Unshared
      <4> QED BY <2>2, <4>1, <4>3
    <3>2. CASE ~(Retain(t) \/ (Complete(t) /\ completion' # completion))
      BY <1>3, <3>2 DEF HookStep, Observe, RecordArgument, CheckClosed, Count, Limit,
         Record, RecordCause, hookVars
    <3> QED BY <3>1, <3>2
  <2> QED BY <2>1, <2>2, <2>3
<1> QED BY <1>1, <1>2, <1>3, StepKinds

-----------------------------------------------------------------------------
(* What the promise sees of a step.  It sees no capture where calls of     *)
(* RouteContract.capture neither begin nor move on.                        *)
Calm ==
  /\ UNCHANGED <<due, owner, registry, result, snapshot>>
  /\ \A c \in Captures : Closing(c)' = Closing(c)

(* A step of t outside the close, or from one of its steps to another.     *)
LEMMA SameClosing ==
  ASSUME NEW t \in Threads, Mine(t), NEW c \in Captures,
         \/ pc[t] \notin CloseLabels /\ pc'[t] \notin CloseLabels
         \/ pc[t] \in CloseLabels /\ pc'[t] \in CloseLabels /\ cap'[t] = cap[t]
  PROVE  Closing(c)' = Closing(c)
BY DEF Mine, Closing, CloseLabels

(* The phase of a capture only depends on its call.                        *)
LEMMA SamePhase ==
  ASSUME NEW c \in Captures, owner'[c] = owner[c], result'[c] = result[c],
         Closing(c)' = Closing(c), c \in registry' <=> c \in registry
  PROVE  PhaseOf(c)' = PhaseOf(c)
BY DEF PhaseOf

(* A calm step changes no phase, report or delivery.                       *)
LEMMA CalmPhases ==
  ASSUME Calm
  PROVE  \A c \in Captures :
           /\ PhaseOf(c)' = PhaseOf(c) /\ ReportOf(c)' = ReportOf(c)
           /\ result'[c] = result[c] /\ due'[c] = due[c]
BY SamePhase DEF Calm, ReportOf

(* A step that tells nothing is none of the promise ...                    *)
LEMMA PromiseStutters ==
  ASSUME Calm, UNCHANGED origin, \A h \in Hooks : Reported(h)' = Reported(h)
  PROVE  UNCHANGED Promise!promise
<1>1. \A c \in Captures : PhaseOf(c)' = PhaseOf(c) /\ ReportOf(c)' = ReportOf(c)
                          /\ result'[c] = result[c]
  BY CalmPhases
<1>2. UNCHANGED due
  BY DEF Calm
<1> QED BY <1>1, <1>2 DEF Promise!promise

(* ... and one that tells of one execution is a Tell.                      *)
LEMMA PromiseTells ==
  ASSUME Calm, UNCHANGED origin, NEW h \in Hooks,
         \A k \in Hooks \ {h} : Reported(k)' = Reported(k),
         \/ Reported(h) = "NONE" /\ Reported(h)' = "STARTED"
         \/ Reported(h) = "STARTED" /\ Reported(h)' \in {"RETURNED", "FAILED"}
  PROVE  Promise!Tell(h)
<1>1. \A c \in Captures : PhaseOf(c)' = PhaseOf(c) /\ ReportOf(c)' = ReportOf(c)
                          /\ result'[c] = result[c]
  BY CalmPhases
<1>2. UNCHANGED due
  BY DEF Calm
<1> QED BY <1>1, <1>2 DEF Promise!Tell

(* What has been reported of an execution only depends on its lifecycle,   *)
(* its callbacks and whether it returned.                                  *)
LEMMA SameReported ==
  ASSUME NEW h \in Hooks, lifecycle[h] \in {"NEW", "STARTED", "FINISHED"},
         lifecycle'[h] = lifecycle[h], Free(h)' = Free(h),
         lifecycle[h] = "FINISHED" =>
           (stage'[h] \in {"RETURNING", "RETURNED"} <=> stage[h] \in {"RETURNING", "RETURNED"})
  PROVE  Reported(h)' = Reported(h)
<1>1. CASE lifecycle[h] = "NEW"
  BY <1>1 DEF Reported
<1>2. CASE lifecycle[h] = "STARTED"
  BY <1>2 DEF Reported
<1>3. CASE lifecycle[h] = "FINISHED"
  BY <1>3 DEF Reported
<1> QED BY <1>1, <1>2, <1>3

(* Another thread's step leaves the callbacks of h alone.                  *)
LEMMA SameFree ==
  ASSUME NEW t \in Threads, Mine(t), NEW h, h # hk[t], h # hk'[t]
  PROVE  Free(h)' = Free(h)
BY DEF Mine, Free

-----------------------------------------------------------------------------
(* A callback tells where it returns.                                      *)
LEMMA CallbackTells ==
  ASSUME SystemAssumption, CollectorAssumption, SystemInv,
         NEW t \in Threads, CollectorStep(t), HookStep(t)
  PROVE  UNCHANGED Promise!promise \/ \E h \in Hooks : Promise!Tell(h)
<1>1. /\ UNCHANGED <<stage, origin, due>> /\ TypeInv /\ NeverMisclosed
      /\ \A k \in Hooks : lifecycle[k] \in {"NEW", "STARTED", "FINISHED"}
  BY DEF CollectorStep, executorVars, SystemInv, EvidenceInv, OwnerInv, TypeInv, SharedTypes
<1>2. Carries(t) /\ Mine(t) /\ pc[t] \in CallbackLabels /\ lifecycle' = lifecycle
  BY <1>1, HookCarries DEF Carries
<1>3. PICK h \in Hooks : h = hk[t]
  BY <1>2, OwnHook
<1>4. Calm
  <2>1. Outside(t)
    BY <1>1, OutsideSteps
  <2> QED BY <1>1, <1>2, <2>1, SameClosing DEF Calm, Outside
<1>5. ASSUME NEW k \in Hooks, k # h \/ pc'[t] # "idle"
      PROVE  Reported(k)' = Reported(k)
  <2>1. Free(k)' = Free(k)
    <3>1. CASE k # h
      <4>1. k # hk[t] /\ k # hk'[t]
        BY <1>2, <1>3, <3>1 DEF Carries, CollectorAssumption
      <4> QED BY <1>2, <4>1, SameFree
    <3>2. CASE pc'[t] # "idle"
      BY <1>2, <3>2 DEF Carries, Mine, Free
    <3> QED BY <1>5, <3>1, <3>2
  <2> QED BY <1>1, <1>2, <2>1, SameReported
<1>6. CASE pc'[t] # "idle" \/ lifecycle[h] = "NEW"
  <2>1. lifecycle[h] = "NEW" => Reported(h)' = Reported(h)
    BY <1>2 DEF Reported
  <2> QED BY <1>1, <1>4, <1>5, <1>6, <2>1, PromiseStutters
<1>7. CASE pc'[t] = "idle" /\ lifecycle[h] # "NEW"
  <2>1. ~Free(h) /\ Free(h)'
    <3>1. hk'[t] = NoHook
      BY <1>2, <1>7 DEF Carries, CallbackLabels, HookLabels
    <3>2. \A u \in Threads \ {t} : hk'[u] # h
      BY <1>2, <1>3 DEF Mine, SystemInv, EvidenceInv, HookInv, Unshared
    <3> QED BY <1>3, <3>1, <3>2 DEF Free, CollectorAssumption
  <2>2. CASE lifecycle[h] = "STARTED"
    <3>1. Reported(h) = "NONE" /\ Reported(h)' = "STARTED"
      BY <1>2, <2>1, <2>2 DEF Reported
    <3> QED BY <1>1, <1>4, <1>5, <3>1, PromiseTells
  <2>3. CASE lifecycle[h] = "FINISHED"
    <3>1. Reported(h) = "STARTED" /\ Reported(h)' \in {"RETURNED", "FAILED"}
      BY <1>2, <2>1, <2>3 DEF Reported
    <3> QED BY <1>1, <1>4, <1>5, <3>1, PromiseTells
  <2> QED BY <1>1, <1>7, <2>2, <2>3
<1> QED BY <1>6, <1>7

(* The close of a capture tells nothing of an execution.                   *)
LEMMA CloseSilent ==
  ASSUME CollectorAssumption, SystemInv, NEW t \in Threads, CollectorStep(t), CloseStep(t)
  PROVE  /\ Closes(t) /\ Mine(t) /\ UNCHANGED <<origin, due, owner>>
         /\ \A h \in Hooks : Reported(h)' = Reported(h)
<1>1. /\ UNCHANGED <<stage, origin, due>> /\ TypeInv
      /\ \A k \in Hooks : lifecycle[k] \in {"NEW", "STARTED", "FINISHED"}
  BY DEF CollectorStep, executorVars, SystemInv, EvidenceInv, TypeInv, SharedTypes
<1>2. Closes(t) /\ Mine(t) /\ UNCHANGED <<owner, lifecycle>>
  BY <1>1, CloseCloses DEF Closes
<1>3. hk[t] = NoHook /\ hk'[t] = NoHook
  BY <1>2 DEF Closes, SystemInv, ClientInv, TaskInv, TaskOK, CloseLabels, CallbackLabels,
     HookLabels
<1>4. ASSUME NEW h \in Hooks
      PROVE  Reported(h)' = Reported(h)
  <2>1. Free(h)' = Free(h)
    BY <1>2, <1>3, SameFree DEF CollectorAssumption
  <2> QED BY <1>1, <1>2, <2>1, SameReported
<1> QED BY <1>1, <1>2, <1>4

(* Up to the assembly it is no step of the promise.                        *)
LEMMA CloseStutters ==
  ASSUME CollectorAssumption, SystemInv, NEW t \in Threads, CollectorStep(t), CloseStep(t),
         ~Assemble(t), ~Remove(t)
  PROVE  UNCHANGED Promise!promise
<1>1. /\ Closes(t) /\ Mine(t) /\ UNCHANGED <<origin, due, owner>>
      /\ \A h \in Hooks : Reported(h)' = Reported(h)
  BY CloseSilent
<1>2. /\ UNCHANGED <<registry, result, snapshot>> /\ DOMAIN pc = Threads
      /\ CloseFlag(t) \/ (\E i \in BOOLEAN : CloseChecks(t, i))
         \/ (\E h \in Hooks : Freeze(t, h)) \/ EndFreeze(t)
  BY DEF CloseStep, CloseFlag, CloseChecks, Freeze, EndFreeze, registryVars, closeVars,
     SystemInv, EvidenceInv, TypeInv, ThreadInv, ThreadTypes
<1>3. pc'[t] \in CloseLabels /\ cap'[t] = cap[t] /\ pc[t] \in CloseLabels
  BY <1>2 DEF CloseFlag, CloseChecks, Freeze, EndFreeze, Goto, CloseLabels, threadVars
<1>4. Calm
  BY <1>1, <1>2, <1>3, SameClosing DEF Calm
<1> QED BY <1>1, <1>4, PromiseStutters

-----------------------------------------------------------------------------
(* The executor moves executions on without telling anything ...           *)
LEMMA ExecutorStutters ==
  ASSUME CollectorAssumption, SystemInv,
         UNCHANGED <<origin, due, registry, owner, result, snapshot, lifecycle, pc, cap, hk>>,
         \A h \in Hooks : stage'[h] \in {"RETURNING", "RETURNED"}
                            <=> stage[h] \in {"RETURNING", "RETURNED"}
  PROVE  UNCHANGED Promise!promise
<1>1. Calm
  BY DEF Calm, Closing
<1>2. ASSUME NEW h \in Hooks
      PROVE  Reported(h)' = Reported(h)
  <2>1. Free(h)' = Free(h) /\ lifecycle[h] \in {"NEW", "STARTED", "FINISHED"}
    BY DEF Free, SystemInv, EvidenceInv, TypeInv, SharedTypes
  <2> QED BY <2>1, SameReported
<1> QED BY <1>1, <1>2, PromiseStutters

(* ... in what a statement, a task and an interrupt do.                    *)
LEMMA TasksStutter ==
  ASSUME CollectorAssumption, SystemInv, NEW t \in Threads,
         \/ Vanish(t) \/ EndTask(t) \/ \E h \in Hooks : Take(t, h)
         \/ Join(t) \/ LeaveEarly(t) \/ Interrupt(t)
  PROVE  UNCHANGED Promise!promise
<1>1. UNCHANGED <<origin, due, registry, owner, result, snapshot, lifecycle, pc, cap, hk>>
  BY DEF Vanish, EndTask, Take, Join, LeaveEarly, Interrupt, Replay, vars, registryVars,
     hookVars, closeVars, threadVars
<1>2. ASSUME NEW h \in Hooks
      PROVE  stage'[h] \in {"RETURNING", "RETURNED"} <=> stage[h] \in {"RETURNING", "RETURNED"}
  <2>1. DOMAIN stage = Hooks
    BY DEF SystemInv, SystemTypeOK
  <2>2. ASSUME NEW k \in Hooks, Take(t, k)
        PROVE  stage'[h] \in {"RETURNING", "RETURNED"} <=> stage[h] \in {"RETURNING", "RETURNED"}
    BY <2>1, <2>2 DEF Take
  <2>3. CASE Vanish(t)
    BY <2>1, <2>3 DEF Vanish
  <2>4. CASE EndTask(t)
    BY <2>1, <2>4 DEF EndTask
  <2>5. Join(t) \/ LeaveEarly(t) \/ Interrupt(t) => stage' = stage
    BY DEF Join, LeaveEarly, Interrupt
  <2> QED BY <2>2, <2>3, <2>4, <2>5
<1> QED BY <1>1, <1>2, ExecutorStutters

(* A callback of h is called, and goes on inside the collector or not.      *)
Called(h, t) ==
  /\ \A k \in Hooks \ {h} : lifecycle'[k] = lifecycle[k] /\ stage'[k] = stage[k]
  /\ \/ lifecycle[h] = "NEW" /\ lifecycle'[h] = "STARTED"
     \/ lifecycle[h] = "STARTED" /\ lifecycle'[h] = "FINISHED"
  /\ \/ UNCHANGED threadVars
     \/ Mine(t) /\ hk'[t] = h /\ pc'[t] \in {"observe", "recordCause", "complete"}

(* A callback that finds no capture, or no handle, tells where it is       *)
(* called; another one is told of where it returns.                        *)
LEMMA CallTells ==
  ASSUME SystemAssumption, CollectorAssumption, SystemInv, NEW t \in Threads,
         \/ \E input \in StartInputs : Start(t, input)
         \/ \E input \in FinishInputs : Finish(t, input)
  PROVE  UNCHANGED Promise!promise \/ \E h \in Hooks : Promise!Tell(h)
<1>1. PICK h \in Hooks : h = task[t]
  BY DEF Start, Finish, SystemInv, SystemTypeOK
<1>2. /\ UNCHANGED <<origin, due, registry, owner, result, snapshot>>
      /\ pc[t] = "idle" /\ Free(h)
      /\ \A k \in Hooks : lifecycle[k] \in {"NEW", "STARTED", "FINISHED"}
      /\ DOMAIN pc = Threads /\ DOMAIN hk = Threads /\ DOMAIN cap = Threads
      /\ DOMAIN detail = Threads /\ DOMAIN lifecycle = Hooks /\ DOMAIN stage = Hooks
  BY <1>1 DEF Start, Finish, StartCall, FinishCall, Idle, executorVars, registryVars,
     closeVars, SystemInv, SystemTypeOK, EvidenceInv, TypeInv, SharedTypes, ThreadInv,
     ThreadTypes
<1>3. Called(h, t)
  <2>1. ASSUME NEW input \in StartInputs, Start(t, input)
        PROVE  Called(h, t)
    <3>1. /\ lifecycle[h] = "NEW" /\ lifecycle' = [lifecycle EXCEPT ![h] = "STARTED"]
          /\ stage' = stage
          /\ Call(t, "observe", ctx[t], h, input) \/ UNCHANGED threadVars
      BY <1>1, <2>1 DEF Start, StartCall, MayStart, executorVars
    <3> QED BY <1>2, <3>1 DEF Called, Call, Mine
  <2>2. ASSUME NEW input \in FinishInputs, Finish(t, input)
        PROVE  Called(h, t)
    <3>1. /\ FinishCall(t, h, input)
          /\ \A k \in Hooks \ {h} : stage'[k] = stage[k]
      BY <1>1, <1>2, <2>2 DEF Finish
    <3>2. /\ lifecycle[h] = "STARTED" /\ lifecycle' = [lifecycle EXCEPT ![h] = "FINISHED"]
          /\ \/ UNCHANGED threadVars
             \/ Call(t, "recordCause", inFlight[h], h, input)
             \/ Call(t, "complete", inFlight[h], h, input)
      BY <3>1 DEF FinishCall
    <3> QED BY <1>2, <3>1, <3>2 DEF Called, Call, Mine
  <2> QED BY <2>1, <2>2
<1>4. Calm /\ Mine(t) /\ (hk'[t] = h \/ UNCHANGED threadVars)
  <2>1. CASE UNCHANGED threadVars
    BY <1>2, <2>1 DEF Calm, Closing, Mine, threadVars
  <2>2. CASE /\ Mine(t) /\ hk'[t] = h
             /\ pc'[t] \in {"observe", "recordCause", "complete"}
    <3>1. pc[t] \notin CloseLabels /\ pc'[t] \notin CloseLabels
      BY <1>2, <2>2 DEF CloseLabels
    <3>2. \A c \in Captures : Closing(c)' = Closing(c)
      BY <2>2, <3>1, SameClosing
    <3> QED BY <1>2, <2>2, <3>2 DEF Calm, Called
  <2> QED BY <1>3, <2>1, <2>2 DEF Called
<1>5. ASSUME NEW k \in Hooks \ {h}
      PROVE  Reported(k)' = Reported(k)
  <2>1. Free(k)' = Free(k)
    <3>1. CASE UNCHANGED threadVars
      BY <3>1 DEF Free, threadVars
    <3>2. CASE hk'[t] = h
      <4>1. hk[t] = NoHook
        BY <1>2 DEF SystemInv, ClientInv, TaskInv, TaskOK, CallbackLabels, HookLabels
      <4> QED BY <1>4, <3>2, <4>1, SameFree DEF CollectorAssumption
    <3> QED BY <1>4, <3>1, <3>2
  <2> QED BY <1>2, <1>3, <2>1, SameReported DEF Called
<1>6. CASE UNCHANGED threadVars
  <2>1. Free(h)'
    BY <1>2, <1>6 DEF Free, threadVars
  <2>2. \/ Reported(h) = "NONE" /\ Reported(h)' = "STARTED"
        \/ Reported(h) = "STARTED" /\ Reported(h)' \in {"RETURNED", "FAILED"}
    BY <1>2, <1>3, <2>1 DEF Called, Reported
  <2> QED BY <1>2, <1>4, <1>5, <2>2, PromiseTells
<1>7. CASE hk'[t] = h
  <2>1. ~Free(h)'
    BY <1>7 DEF Free
  <2>2. Reported(h)' = Reported(h)
    BY <1>2, <1>3, <2>1 DEF Called, Reported
  <2> QED BY <1>2, <1>4, <1>5, <2>2, PromiseStutters
<1> QED BY <1>4, <1>6, <1>7

-----------------------------------------------------------------------------
(* While its action runs, nobody is inside the close of a capture.         *)
LEMMA RunningPhase ==
  ASSUME CollectorAssumption, SystemInv, NEW t \in Threads, pc[t] \notin CloseLabels,
         NEW c \in Captures
  PROVE  /\ owner[c] = NoThread => PhaseOf(c) = "unused" /\ ~Closing(c)
         /\ scope[t] = c =>
              PhaseOf(c) = "running" /\ ~Closing(c) /\ owner[c] # NoThread
<1>1. ASSUME NEW u \in Threads, cap[u] = c, pc[u] \in CloseLabels
      PROVE  scope[u] = c /\ owner[c] = u
  BY <1>1 DEF SystemInv, EvidenceInv, OwnerInv, ScopeInv, Scoped, Running
<1>2. NoThread \notin Threads /\ NoCapture \notin Captures
  BY DEF CollectorAssumption
<1>3. scope[t] = c => owner[c] = t /\ c \in registry
  BY <1>2 DEF SystemInv, EvidenceInv, OwnerInv, ScopeInv, Scoped, Running
<1>4. owner[c] = NoThread \/ scope[t] = c => ~Closing(c)
  BY <1>1, <1>2, <1>3 DEF Closing, CloseLabels
<1>5. owner[c] = NoThread => c \notin registry
  BY <1>2 DEF SystemInv, EvidenceInv, OwnerInv, RegistryInv
<1>6. owner[c] = NoThread => PhaseOf(c) = "unused"
  BY <1>4, <1>5 DEF PhaseOf
<1>7. scope[t] = c => PhaseOf(c) = "running"
  <2>1. scope[t] = c => owner[c] # NoThread
    BY <1>2, <1>3
  <2> QED BY <1>3, <1>4, <2>1 DEF PhaseOf
<1> QED BY <1>2, <1>3, <1>4, <1>6, <1>7

(* A call of RouteContract.capture begins ...                              *)
LEMMA OpenBegins ==
  ASSUME SystemAssumption, CollectorAssumption, SystemInv,
         NEW t \in Callers, NEW c \in Captures, OpenCapture(t, c)
  PROVE  Promise!Begin(c)
<1>1. /\ t \in Threads /\ pc[t] = "idle" /\ owner[c] = NoThread
      /\ owner' = [owner EXCEPT ![c] = t] /\ registry' = registry \cup {c}
      /\ UNCHANGED <<origin, due, result, snapshot, lifecycle, stage, pc, cap, hk>>
      /\ DOMAIN owner = Captures /\ t # NoThread
  BY DEF OpenCapture, Open, Idle, executorVars, hookVars, closeVars, threadVars,
     SystemAssumption, CollectorAssumption, SystemInv, EvidenceInv, TypeInv, SharedTypes
<1>2. PhaseOf(c) = "unused" /\ ~Closing(c)
  BY <1>1, RunningPhase DEF CloseLabels
<1>3. \A d \in Captures : Closing(d)' = Closing(d)
  BY <1>1 DEF Closing
<1>4. PhaseOf(c)' = "running"
  BY <1>1, <1>2, <1>3 DEF PhaseOf
<1>5. \A d \in Captures \ {c} : PhaseOf(d)' = PhaseOf(d)
  BY <1>1, <1>3, SamePhase
<1>6. \A h \in Hooks : Reported(h)' = Reported(h)
  BY <1>1 DEF Reported, Free
<1>7. \A d \in Captures : ReportOf(d)' = ReportOf(d)
  BY <1>1 DEF ReportOf
<1> QED BY <1>1, <1>2, <1>4, <1>5, <1>6, <1>7 DEF Promise!Begin

(* ... its action submits statements ...                                   *)
LEMMA SubmitSubmits ==
  ASSUME SystemAssumption, CollectorAssumption, SystemInv, NEW t \in Callers,
         NEW S \in SUBSET Hooks, NEW trunk \in Hooks, Submit(t, S, trunk)
  PROVE  UNCHANGED Promise!promise \/ \E c \in Captures : Promise!Submit(c)
<1>1. /\ t \in Threads /\ pc[t] = "idle"
      /\ UNCHANGED <<due, registry, owner, result, snapshot, lifecycle, pc, cap, hk>>
      /\ \A h \in S : stage[h] = "UNUSED"
      /\ \A h \in Hooks : stage'[h] = stage[h] \/
           (stage[h] = "UNUSED" /\ stage'[h] \in {"RUNNING", "QUEUED"})
      /\ origin' = [h \in Hooks |-> IF h \in S THEN ctx[t] ELSE origin[h]]
      /\ origin \in [Hooks -> Captures \cup {NoCapture}]
  BY DEF Submit, AtRest, Idle, vars, registryVars, hookVars, closeVars, threadVars,
     SystemAssumption, SystemInv, SystemTypeOK
<1>2. \A h \in S : origin[h] = NoCapture /\ lifecycle[h] = "NEW"
  BY <1>1 DEF SystemInv, ClientInv, PlaceInv, PlaceOK
<1>3. \A h \in Hooks : stage'[h] \in {"RETURNING", "RETURNED"}
                         <=> stage[h] \in {"RETURNING", "RETURNED"}
  BY <1>1
<1>4. CASE ctx[t] = NoCapture
  <2>1. origin' = origin
    BY <1>1, <1>2, <1>4
  <2> QED BY <1>1, <1>3, <2>1, ExecutorStutters
<1>5. CASE ctx[t] # NoCapture
  <2>0. ctx \in [Threads -> Captures \cup {NoCapture}]
    BY DEF SystemInv, EvidenceInv, TypeInv, SharedTypes
  <2>1. PICK c \in Captures : c = ctx[t]
    BY <1>1, <1>5, <2>0
  <2>2. PhaseOf(c) = "running"
    <3>1. scope[t] = c /\ pc[t] \notin CloseLabels
      BY <2>1, CallerContext
    <3> QED BY <1>1, <3>1, RunningPhase
  <2>3. \A h \in S : Reported(h) = "NONE"
    BY <1>2 DEF Reported
  <2>4. Calm
    BY <1>1 DEF Calm, Closing
  <2>5. \A h \in Hooks : Reported(h)' = Reported(h)
    <3>1. \A h \in Hooks : Free(h)' = Free(h) /\ lifecycle[h] \in {"NEW", "STARTED", "FINISHED"}
      BY <1>1 DEF Free, SystemInv, EvidenceInv, TypeInv, SharedTypes
    <3> QED BY <1>1, <1>3, <3>1, SameReported
  <2>6. \A d \in Captures : /\ PhaseOf(d)' = PhaseOf(d) /\ ReportOf(d)' = ReportOf(d)
                            /\ result'[d] = result[d]
    BY <2>4, CalmPhases
  <2>7. S \in SUBSET {h \in Hooks : /\ origin[h] = NoCapture
                                    /\ [k \in Hooks |-> Reported(k)][h] = "NONE"}
    BY <1>2, <2>3
  <2>8. origin' = [h \in Hooks |-> IF h \in S THEN c ELSE origin[h]]
    BY <1>1, <2>1
  <2>9. UNCHANGED <<due, [h \in Hooks |-> Reported(h)],
                    [d \in Captures |-> PhaseOf(d)], [d \in Captures |-> ReportOf(d)],
                    [d \in Captures |->
                       IF PhaseOf(d) = "delivered" THEN result[d] ELSE "PENDING"]>>
    BY <1>1, <2>5, <2>6
  <2>10. [d \in Captures |-> PhaseOf(d)][c] = "running"
    BY <2>2
  <2>11. Promise!Submit(c)
    BY <2>7, <2>8, <2>9, <2>10 DEF Promise!Submit
  <2> QED BY <2>11
<1> QED BY <1>4, <1>5

(* ... and ends.                                                           *)
LEMMA EndActionEnds ==
  ASSUME SystemAssumption, CollectorAssumption, SystemInv,
         NEW t \in Callers, NEW threw \in BOOLEAN, EndAction(t, threw)
  PROVE  \E c \in Captures : Promise!EndAction(c)
<1>1. PICK c \in Captures : c = scope[t]
  BY DEF EndAction, BeginClose, SystemInv, EvidenceInv, TypeInv, SharedTypes
<1>2. /\ t \in Threads /\ pc[t] = "idle" /\ Call(t, "closeFlag", c, NoHook, "none")
      /\ UNCHANGED <<origin, registry, owner, snapshot, lifecycle, stage>>
      /\ result' = [result EXCEPT ![c] = IF threw THEN "ACTION_FAILURE" ELSE @]
      /\ due' = [due EXCEPT ![c] =
                   [h \in Hooks |-> IF origin[h] = c THEN Reported(h) ELSE "NONE"]]
      /\ DOMAIN pc = Threads /\ DOMAIN cap = Threads /\ DOMAIN hk = Threads
      /\ DOMAIN result = Captures
      /\ DOMAIN detail = Threads
  BY <1>1 DEF EndAction, BeginClose, AtRest, Idle, executorVars, hookVars, closeVars,
     SystemAssumption, SystemInv, EvidenceInv, TypeInv, SharedTypes, ThreadInv, ThreadTypes
<1>3. Mine(t) /\ pc'[t] = "closeFlag" /\ cap'[t] = c /\ hk'[t] = NoHook
  BY <1>2 DEF Call, Mine
<1>4. PhaseOf(c) = "running" /\ owner[c] # NoThread
  BY <1>1, <1>2, RunningPhase DEF CloseLabels
<1>5. PhaseOf(c)' \in {"closing", "failing"}
  BY <1>2, <1>3, <1>4 DEF PhaseOf, Closing
<1>6. ASSUME NEW d \in Captures \ {c}
      PROVE  PhaseOf(d)' = PhaseOf(d) /\ result'[d] = result[d]
  <2>1. Closing(d)' = Closing(d)
    BY <1>2, <1>3 DEF Closing, Mine
  <2> QED BY <1>2, <2>1, SamePhase
<1>7. \A h \in Hooks : Reported(h)' = Reported(h)
  <2>1. hk[t] = NoHook
    BY <1>2 DEF SystemInv, ClientInv, TaskInv, TaskOK, CallbackLabels, HookLabels
  <2>2. \A h \in Hooks : Free(h)' = Free(h)
    BY <1>2, <1>3, <2>1, SameFree DEF CollectorAssumption
  <2> QED BY <1>2, <2>2 DEF Reported
<1>8. \A d \in Captures : ReportOf(d)' = ReportOf(d)
  BY <1>2 DEF ReportOf
<1>9. due' = [due EXCEPT ![c] =
        [h \in Hooks |-> IF h \in Promise!Of(c) THEN [k \in Hooks |-> Reported(k)][h]
                         ELSE "NONE"]]
  BY <1>2 DEF Promise!Of
<1>10. UNCHANGED <<origin, [h \in Hooks |-> Reported(h)],
                   [d \in Captures |-> ReportOf(d)],
                   [d \in Captures |->
                      IF PhaseOf(d) = "delivered" THEN result[d] ELSE "PENDING"]>>
  <2>1. \A d \in Captures :
          (IF PhaseOf(d)' = "delivered" THEN result'[d] ELSE "PENDING")
            = (IF PhaseOf(d) = "delivered" THEN result[d] ELSE "PENDING")
    BY <1>4, <1>5, <1>6
  <2> QED BY <1>2, <1>7, <1>8, <2>1
<1>11. \E after \in {"closing", "failing"} :
         [d \in Captures |-> PhaseOf(d)]' = [[d \in Captures |-> PhaseOf(d)] EXCEPT ![c] = after]
  BY <1>5, <1>6
<1>12. [d \in Captures |-> PhaseOf(d)][c] = "running"
  BY <1>4
<1>13. Promise!EndAction(c)
  BY <1>9, <1>10, <1>11, <1>12 DEF Promise!EndAction
<1> QED BY <1>13

-----------------------------------------------------------------------------
(* Without a snapshot there is no report.                                  *)
LEMMA EmptyReport ==
  ASSUME NEW c, snapshot[c] = NoSnapshot
  PROVE  ReportOf(c) = Promise!NoReport
<1>1. /\ snapshot[c].status = "OPEN" /\ snapshot[c].returned = {}
      /\ snapshot[c].failed = {} /\ snapshot[c].unknown = {}
  BY DEF NoSnapshot
<1> QED BY <1>1 DEF ReportOf, Promise!NoReport

(* The close assembles one snapshot, of the outcomes it has frozen.        *)
LEMMA AssembleMakes ==
  ASSUME CollectorAssumption, SystemInv, NEW t \in Threads, Assemble(t),
         NEW c \in Captures, c = cap[t]
  PROVE  /\ snapshot[c] = NoSnapshot
         /\ \A d \in Captures \ {c} : snapshot'[d] = snapshot[d]
         /\ snapshot'[c] # NoSnapshot =>
              /\ snapshot'[c].status = CaptureStatus(With(c, "CALLBACK_FAILURE"),
                                         With(c, "START_REPORTED"), diags[c])
              /\ snapshot'[c].returned = With(c, "CALLBACK_RETURNED")
              /\ snapshot'[c].failed = With(c, "CALLBACK_FAILURE")
              /\ snapshot'[c].unknown = With(c, "START_REPORTED")
<1>1. snapshot[c] = NoSnapshot
  <2>1. pc[t] = "assemble" /\ DeliveryInv
    BY DEF Assemble, SystemInv, EvidenceInv
  <2>2. c = scope[t] /\ scope[t] # NoCapture
    BY <2>1, ClosingScope DEF CloseLabels, SystemInv, EvidenceInv
  <2> QED BY <2>1, <2>2 DEF DeliveryInv, Undecided
<1>2. DOMAIN snapshot = Captures
  BY DEF SystemInv, EvidenceInv, TypeInv, SharedTypes
<1> QED BY <1>1, <1>2 DEF Assemble, With

(* A snapshot that was taken has a status.                                 *)
LEMMA TakenStatus ==
  ASSUME SystemAssumption, CollectorAssumption, RefinementInv, [SystemNext]_systemVars,
         NEW c \in Captures, snapshot'[c] # NoSnapshot
  PROVE  snapshot'[c].status # "OPEN"
<1>1. SystemInv /\ [Next]_vars /\ TypeInv /\ DeliveryFinal
  BY ClientStep, EvidenceStep DEF RefinementInv, OutcomeInv, SystemInv, EvidenceInv
<1>2. CASE snapshot[c] # NoSnapshot
  BY <1>1, <1>2 DEF RefinementInv, DeliveryFinal
<1>3. CASE snapshot[c] = NoSnapshot
  <2>1. PICK t \in Threads : Assemble(t) /\ snapshot'[c] # snapshot[c]
    BY <1>1, <1>3, QuietSnapshots
  <2>2. c = cap[t]
    <3>1. PICK s : snapshot' = [snapshot EXCEPT ![cap[t]] = s]
      BY <2>1 DEF Assemble
    <3> QED BY <1>1, <2>1, <3>1 DEF TypeInv, SharedTypes
  <2>3. snapshot'[c].status =
          CaptureStatus(With(c, "CALLBACK_FAILURE"), With(c, "START_REPORTED"), diags[c])
    BY <1>1, <2>1, <2>2, AssembleMakes
  <2> QED BY <2>3 DEF CaptureStatus
<1> QED BY <1>2, <1>3

(* So the invariant of the refinement holds ...                            *)
LEMMA RefinementInit ==
  ASSUME SystemAssumption, CollectorAssumption, SystemInit
  PROVE  RefinementInv
<1>1. OutcomeInv
  BY OutcomeInit
<1> QED BY <1>1 DEF SystemInit, Init, RefinementInv, StatusOK, CallbackLabels, HookLabels

(* ... in every step.                                                      *)
LEMMA RefinementStep ==
  ASSUME SystemAssumption, CollectorAssumption, RefinementInv, [SystemNext]_systemVars
  PROVE  RefinementInv'
<1>1. OutcomeInv'
  BY OutcomeStep DEF RefinementInv
<1>2. \A t \in Threads : StatusOK(t)'
  BY <1>1, CallbackStatus DEF RefinementInv, OutcomeInv
<1>3. \A c \in Captures : snapshot'[c] # NoSnapshot => snapshot'[c].status # "OPEN"
  BY TakenStatus
<1> QED BY <1>1, <1>2, <1>3 DEF RefinementInv

(* An outcome the close has frozen has been told.                          *)
LEMMA FrozenTold ==
  ASSUME CollectorAssumption, RefinementInv, NEW c \in Captures, NEW h \in attempts[c]
  PROVE  /\ h \in Hooks /\ origin[h] = c
         /\ frozen[h] = "CALLBACK_RETURNED" => Reported(h) = "RETURNED"
         /\ frozen[h] = "CALLBACK_FAILURE" => Reported(h) = "FAILED"
         /\ Reported(h) \in {"STARTED", "RETURNED", "FAILED"}
<1>1. SystemInv /\ StageInv /\ TypeInv
  BY DEF RefinementInv, OutcomeInv, SystemInv, EvidenceInv
<1>2. h \in Hooks /\ origin[h] = c
  <2>1. attempts[c] \subseteq Hooks
    BY <1>1 DEF TypeInv, SharedTypes
  <2> QED BY <1>1, <2>1 DEF SystemInv, ClientInv, PlaceInv, NoCrossCapture
<1>3. /\ completion[h] # "NONE" /\ lifecycle[h] \in {"STARTED", "FINISHED"}
      /\ frozen[h] \in Terminal => completion[h] = frozen[h]
  <2>1. lifecycle[h] \in {"NEW", "STARTED", "FINISHED"}
    BY <1>1, <1>2 DEF TypeInv, SharedTypes
  <2> QED BY <1>1, <1>2, <2>1 DEF SystemInv, EvidenceInv, HookInv, AttemptInv, StartInv
<1>4. ASSUME NEW u \in Threads, hk[u] = h
      PROVE  completion[h] \notin Terminal /\ lifecycle[h] # "STARTED"
  <2>1. pc[u] \in CallbackLabels
    BY <1>1, <1>2, <1>4 DEF SystemInv, ClientInv, TaskInv, TaskOK, CollectorAssumption
  <2>2. StatusOK(u) /\ CallOK(u)
    BY <1>1 DEF RefinementInv, StageInv
  <2> QED BY <1>3, <1>4, <2>1, <2>2 DEF StatusOK, CallOK
<1>5. completion[h] \in Terminal \/ lifecycle[h] = "STARTED" => Free(h)
  BY <1>4 DEF Free
<1>6. StageOK(h)
  BY <1>1, <1>2 DEF StageInv
<1>7. completion[h] = "CALLBACK_RETURNED" => Reported(h) = "RETURNED"
  BY <1>5, <1>6 DEF StageOK, Terminal, Reported
<1>8. completion[h] = "CALLBACK_FAILURE" => Reported(h) = "FAILED"
  BY <1>5, <1>6 DEF StageOK, Terminal, Reported
<1>9. Reported(h) \in {"STARTED", "RETURNED", "FAILED"}
  <2>1. CASE lifecycle[h] = "STARTED"
    BY <1>5, <2>1 DEF Reported
  <2>2. CASE lifecycle[h] = "FINISHED"
    BY <2>2 DEF Reported
  <2> QED BY <1>3, <2>1, <2>2
<1> QED BY <1>2, <1>3, <1>7, <1>8, <1>9 DEF Terminal

-----------------------------------------------------------------------------
(* Inside its close a capture is closing, until the close removes it.      *)
LEMMA ClosingPhase ==
  ASSUME CollectorAssumption, SystemInv, NEW t \in Threads, pc[t] \in CloseLabels,
         NEW c \in Captures, c = cap[t]
  PROVE  /\ owner[c] # NoThread /\ Closing(c)
         /\ PhaseOf(c) = IF result[c] = "ACTION_FAILURE" THEN "failing" ELSE "closing"
         /\ \A u \in Threads \ {t} : ~(cap[u] = c /\ pc[u] \in CloseLabels)
<1>1. owner[c] # NoThread
  BY ClosingEnded DEF Ended
<1>2. Closing(c)
  BY DEF Closing, CloseLabels
<1>3. ASSUME NEW u \in Threads, cap[u] = c, pc[u] \in CloseLabels
      PROVE  u = t
  <2>1. scope[u] = c /\ scope[t] = c /\ scope[t] # NoCapture
    BY <1>3, ClosingScope DEF SystemInv, EvidenceInv
  <2> QED BY <2>1, ScopesDiffer DEF SystemInv, EvidenceInv
<1>4. PhaseOf(c) = IF result[c] = "ACTION_FAILURE" THEN "failing" ELSE "closing"
  BY <1>1, <1>2 DEF PhaseOf
<1> QED BY <1>1, <1>2, <1>3, <1>4

(* The close ends in the delivery.                                         *)
LEMMA RemoveDelivers ==
  ASSUME SystemAssumption, CollectorAssumption, RefinementInv,
         \A c \in Captures : Within(c),
         NEW t \in Threads, CollectorStep(t), CloseStep(t), Remove(t)
  PROVE  \E c \in Captures : Promise!Deliver(c)
<1>0. SystemInv /\ pc[t] = "remove" /\ pc[t] \in CloseLabels
  BY DEF RefinementInv, OutcomeInv, Remove, CloseLabels
<1>1. PICK c \in Captures : c = cap[t]
  BY <1>0, ClosingEnded
<1>2. /\ Closes(t) /\ Mine(t) /\ UNCHANGED <<origin, due, owner, snapshot>>
      /\ \A h \in Hooks : Reported(h)' = Reported(h)
      /\ pc'[t] = "idle" /\ registry' = registry \ {c}
      /\ result' = [result EXCEPT ![c] = Delivered(c)]
      /\ DOMAIN result = Captures
  <2>1. pc'[t] = "idle"
    BY <1>0 DEF Remove, Return, Call, SystemInv, EvidenceInv, TypeInv, ThreadInv, ThreadTypes
  <2>2. DOMAIN result = Captures
    BY <1>0 DEF SystemInv, EvidenceInv, TypeInv, SharedTypes
  <2> QED BY <1>0, <1>1, <2>1, <2>2, CloseSilent DEF Remove, closeVars
<1>3. /\ owner[c] # NoThread
      /\ PhaseOf(c) = IF result[c] = "ACTION_FAILURE" THEN "failing" ELSE "closing"
      /\ \A u \in Threads \ {t} : ~(cap[u] = c /\ pc[u] \in CloseLabels)
  BY <1>0, <1>1, ClosingPhase
<1>4. snapshot[c] # NoSnapshot /\ snapshot[c].status # "OPEN"
  BY <1>0, <1>1 DEF RefinementInv, OutcomeInv, SnapInv
<1>5. PhaseOf(c)' = "delivered"
  <2>1. ~Closing(c)'
    BY <1>2, <1>3 DEF Mine, Closing, CloseLabels
  <2> QED BY <1>2, <1>3, <2>1 DEF PhaseOf
<1>6. ASSUME NEW d \in Captures \ {c}
      PROVE  PhaseOf(d)' = PhaseOf(d) /\ result'[d] = result[d]
  <2>1. Closing(d)' = Closing(d)
    BY <1>1, <1>2 DEF Mine, Closing
  <2> QED BY <1>2, <2>1, SamePhase
<1>7. result'[c] = IF PhaseOf(c) = "failing" THEN "ACTION_FAILURE" ELSE "SNAPSHOT"
  BY <1>2, <1>3, <1>4 DEF Delivered
<1>8. PhaseOf(c) \in {"closing", "failing"} /\ ReportOf(c) # Promise!NoReport
  BY <1>3, <1>4 DEF ReportOf, Promise!NoReport
<1>9. \A d \in Captures : ReportOf(d)' = ReportOf(d)
  BY <1>2 DEF ReportOf
<1>10. [d \in Captures |-> PhaseOf(d)]' = [[d \in Captures |-> PhaseOf(d)] EXCEPT ![c] = "delivered"]
  BY <1>5, <1>6
<1>11. [d \in Captures |-> IF PhaseOf(d) = "delivered" THEN result[d] ELSE "PENDING"]'
         = [[d \in Captures |-> IF PhaseOf(d) = "delivered" THEN result[d] ELSE "PENDING"]
              EXCEPT ![c] = IF [d \in Captures |-> PhaseOf(d)][c] = "failing"
                            THEN "ACTION_FAILURE" ELSE "SNAPSHOT"]
  BY <1>5, <1>6, <1>7
<1>12. UNCHANGED <<origin, [h \in Hooks |-> Reported(h)], due, [d \in Captures |-> ReportOf(d)]>>
  BY <1>2, <1>9
<1>13. /\ [d \in Captures |-> PhaseOf(d)][c] \in {"closing", "failing"}
       /\ [d \in Captures |-> ReportOf(d)][c] # Promise!NoReport
  BY <1>8
<1>14. Promise!Deliver(c)
  BY <1>10, <1>11, <1>12, <1>13 DEF Promise!Deliver
<1> QED BY <1>14

(* The snapshot the close assembles is justified by what was due and told. *)
LEMMA AssembleJustified ==
  ASSUME SystemAssumption, CollectorAssumption, RefinementInv,
         NEW t \in Threads, pc[t] = "assemble",
         NEW c \in Captures, c = cap[t], Within(c),
         NEW status, status = CaptureStatus(With(c, "CALLBACK_FAILURE"),
                                            With(c, "START_REPORTED"), diags[c])
  PROVE  Promise!Justified(c, status, With(c, "CALLBACK_RETURNED"),
                           With(c, "CALLBACK_FAILURE"), With(c, "START_REPORTED"))
<1>1. /\ SystemInv /\ StageInv /\ CountInv /\ LossInv /\ DueInv /\ CloseInv
      /\ Promise!Of(c) = Of(c)
  BY DEF RefinementInv, OutcomeInv, Promise!Of, Of
<1>2. CASE status = "COMPLETE"
  <2>1. diags[c] = {} /\ With(c, "START_REPORTED") = {} /\ With(c, "CALLBACK_FAILURE") = {}
    BY <1>2 DEF CaptureStatus
  <2>2. With(c, "CALLBACK_RETURNED") = Of(c) /\ Of(c) # {}
    BY <1>1, <2>1, Gathered
  <2>3. ASSUME NEW h \in Hooks, due[c][h] = "FAILED"
        PROVE  FALSE
    <3>1. h \in Of(c) /\ stage[h] \in {"FAILING", "FAILED"} /\ StageOK(h)
      BY <1>1, <2>3 DEF DueInv, DueOK, Started, StageInv
    <3>2. frozen[h] = "CALLBACK_RETURNED"
      BY <2>2, <3>1 DEF With
    <3>3. completion[h] = "CALLBACK_RETURNED"
      BY <1>1, <3>2 DEF SystemInv, EvidenceInv, HookInv, AttemptInv, Terminal
    <3> QED BY <3>1, <3>3 DEF StageOK
  <2> QED BY <1>1, <1>2, <2>1, <2>2, <2>3 DEF Promise!Justified
<1>3. CASE status = "REPORTED_EXECUTION_FAILURE"
  <2>1. diags[c] = {} /\ With(c, "START_REPORTED") = {} /\ With(c, "CALLBACK_FAILURE") # {}
    BY <1>3 DEF CaptureStatus
  <2>2. Started(c) \subseteq With(c, "CALLBACK_RETURNED") \cup With(c, "CALLBACK_FAILURE")
    BY <1>1, <2>1, Gathered
  <2> QED BY <1>3, <2>1, <2>2 DEF Promise!Justified, Started
<1>4. CASE status = "INCOMPLETE"
  BY <1>4 DEF Promise!Justified
<1> QED BY <1>2, <1>3, <1>4 DEF CaptureStatus

(* The assembly is the report.                                             *)
LEMMA AssembleReports ==
  ASSUME SystemAssumption, CollectorAssumption, RefinementInv,
         \A c \in Captures : Within(c),
         NEW t \in Threads, CollectorStep(t), CloseStep(t), Assemble(t)
  PROVE  \E c \in Captures : Promise!Report(c)
<1>0. SystemInv /\ pc[t] = "assemble" /\ pc[t] \in CloseLabels
  BY DEF RefinementInv, OutcomeInv, Assemble, CloseLabels
<1>1. PICK c \in Captures : c = cap[t]
  BY <1>0, ClosingEnded
<1>2. /\ Closes(t) /\ Mine(t) /\ UNCHANGED <<origin, due, owner, registry, result>>
      /\ \A h \in Hooks : Reported(h)' = Reported(h)
      /\ pc'[t] \in CloseLabels /\ cap'[t] = cap[t]
  <2>1. pc'[t] \in CloseLabels /\ cap'[t] = cap[t]
    BY <1>0 DEF Assemble, Goto, CloseLabels, SystemInv, EvidenceInv, TypeInv, ThreadInv,
       ThreadTypes
  <2> QED BY <1>0, <2>1, CloseSilent DEF Assemble, registryVars
<1>3. \A d \in Captures : PhaseOf(d)' = PhaseOf(d)
  <2>1. \A d \in Captures : Closing(d)' = Closing(d)
    BY <1>0, <1>2, SameClosing
  <2> QED BY <1>2, <2>1, SamePhase
<1>4. PhaseOf(c) \in {"closing", "failing"}
  BY <1>0, <1>1, ClosingPhase
<1>5. snapshot'[c] # NoSnapshot
  BY <1>0, <1>1, AssembleTakes DEF RefinementInv, OutcomeInv
<1> DEFINE returned == With(c, "CALLBACK_RETURNED")
           failed == With(c, "CALLBACK_FAILURE")
           unknown == With(c, "START_REPORTED")
           status == CaptureStatus(failed, unknown, diags[c])
<1>6. /\ ReportOf(c) = Promise!NoReport
      /\ \A d \in Captures \ {c} : ReportOf(d)' = ReportOf(d)
      /\ ReportOf(c)' = [status |-> status, returned |-> returned, failed |-> failed,
                         unknown |-> unknown]
  <2>1. /\ snapshot[c] = NoSnapshot
        /\ \A d \in Captures \ {c} : snapshot'[d] = snapshot[d]
        /\ snapshot'[c].status = status /\ snapshot'[c].returned = returned
        /\ snapshot'[c].failed = failed /\ snapshot'[c].unknown = unknown
    BY <1>0, <1>1, <1>5, AssembleMakes
  <2> HIDE DEF returned, failed, unknown, status
  <2>2. ReportOf(c) = Promise!NoReport
    BY <2>1, EmptyReport
  <2>3. ReportOf(c)' = [status |-> status, returned |-> returned, failed |-> failed,
                        unknown |-> unknown]
    BY <2>1 DEF ReportOf
  <2>4. \A d \in Captures \ {c} : ReportOf(d)' = ReportOf(d)
    BY <2>1 DEF ReportOf
  <2> QED BY <2>2, <2>3, <2>4
<1>7. /\ returned \in SUBSET Promise!Told(c, {"RETURNED"})
      /\ failed \in SUBSET Promise!Told(c, {"FAILED"})
      /\ unknown \in SUBSET Promise!Told(c, {"STARTED", "RETURNED", "FAILED"})
  BY FrozenTold DEF With, Promise!Told, Promise!Of
<1>8. /\ status \in {"COMPLETE", "REPORTED_EXECUTION_FAILURE", "INCOMPLETE"}
      /\ unknown \cap (returned \cup failed) = {}
  BY DEF CaptureStatus, With
<1>9. Promise!Justified(c, status, returned, failed, unknown)
  BY <1>0, <1>1, AssembleJustified
<1> HIDE DEF returned, failed, unknown, status
<1>10. [d \in Captures |-> ReportOf(d)]' = [[d \in Captures |-> ReportOf(d)] EXCEPT
         ![c] = [status |-> status, returned |-> returned, failed |-> failed,
                 unknown |-> unknown]]
  BY <1>6
<1>11. /\ [d \in Captures |-> PhaseOf(d)][c] \in {"closing", "failing"}
       /\ [d \in Captures |-> ReportOf(d)][c] = Promise!NoReport
  BY <1>4, <1>6
<1>12. UNCHANGED <<origin, [h \in Hooks |-> Reported(h)], [d \in Captures |-> PhaseOf(d)], due,
                   [d \in Captures |->
                      IF PhaseOf(d) = "delivered" THEN result[d] ELSE "PENDING"]>>
  BY <1>2, <1>3
<1>13. Promise!Report(c)
  <2>1. \E s \in {"COMPLETE", "REPORTED_EXECUTION_FAILURE", "INCOMPLETE"},
           r \in SUBSET Promise!Told(c, {"RETURNED"}), f \in SUBSET Promise!Told(c, {"FAILED"}),
           u \in SUBSET Promise!Told(c, {"STARTED", "RETURNED", "FAILED"}) :
          /\ u \cap (r \cup f) = {}
          /\ Promise!Justified(c, s, r, f, u)
          /\ [d \in Captures |-> ReportOf(d)]' = [[d \in Captures |-> ReportOf(d)] EXCEPT
               ![c] = [status |-> s, returned |-> r, failed |-> f, unknown |-> u]]
    <3> USE <1>7, <1>8
    <3> WITNESS status \in {"COMPLETE", "REPORTED_EXECUTION_FAILURE", "INCOMPLETE"},
                returned \in SUBSET Promise!Told(c, {"RETURNED"}),
                failed \in SUBSET Promise!Told(c, {"FAILED"}),
                unknown \in SUBSET Promise!Told(c, {"STARTED", "RETURNED", "FAILED"})
    <3> QED BY <1>8, <1>9, <1>10
  <2> QED BY <1>11, <1>12, <2>1 DEF Promise!Report
<1> QED BY <1>13

-----------------------------------------------------------------------------
(* Every step of the system is one of the promise or none.                 *)
LEMMA PromiseStep ==
  ASSUME SystemAssumption, CollectorAssumption, RefinementInv,
         \A c \in Captures : Within(c), [SystemNext]_systemVars
  PROVE  [Promise!Next]_(Promise!promise)
<1>0. SystemInv /\ Callers \subseteq Threads /\ Workers \subseteq Threads
  BY DEF RefinementInv, OutcomeInv, SystemAssumption
<1>1. ASSUME NEW t \in Callers, CallerStep(t)
      PROVE  [Promise!Next]_(Promise!promise)
  <2>1. ASSUME NEW c \in Captures, OpenCapture(t, c)
        PROVE  [Promise!Next]_(Promise!promise)
    BY <1>0, <2>1, OpenBegins DEF Promise!Next
  <2>2. ASSUME NEW threw \in BOOLEAN, EndAction(t, threw)
        PROVE  [Promise!Next]_(Promise!promise)
    BY <1>0, <2>2, EndActionEnds DEF Promise!Next
  <2>3. ASSUME NEW S \in SUBSET Hooks, NEW trunk \in Hooks, Submit(t, S, trunk)
        PROVE  [Promise!Next]_(Promise!promise)
    BY <1>0, <2>3, SubmitSubmits DEF Promise!Next
  <2>4. CASE Join(t) \/ LeaveEarly(t) \/ Interrupt(t)
    BY <1>0, <2>4, TasksStutter
  <2> QED BY <1>1, <2>1, <2>2, <2>3, <2>4 DEF CallerStep
<1>2. ASSUME NEW w \in Workers, NEW h \in Hooks, Take(w, h)
      PROVE  [Promise!Next]_(Promise!promise)
  BY <1>0, <1>2, TasksStutter
<1>3. ASSUME NEW t \in Threads, ExecutionStep(t)
      PROVE  [Promise!Next]_(Promise!promise)
  <2>1. CASE Vanish(t) \/ EndTask(t)
    BY <1>0, <2>1, TasksStutter
  <2>2. CASE \/ \E input \in StartInputs : Start(t, input)
             \/ \E input \in FinishInputs : Finish(t, input)
    BY <1>0, <2>2, CallTells DEF Promise!Next
  <2> QED BY <1>3, <2>1, <2>2 DEF ExecutionStep
<1>4. ASSUME NEW t \in Threads, CollectorStep(t)
      PROVE  [Promise!Next]_(Promise!promise)
  <2>1. CASE HookStep(t)
    BY <1>0, <1>4, <2>1, CallbackTells DEF Promise!Next
  <2>2. CASE CloseStep(t) /\ ~Assemble(t) /\ ~Remove(t)
    BY <1>0, <1>4, <2>2, CloseStutters
  <2>3. CASE CloseStep(t) /\ Assemble(t)
    BY <1>4, <2>3, AssembleReports DEF Promise!Next
  <2>4. CASE CloseStep(t) /\ Remove(t)
    BY <1>4, <2>4, RemoveDelivers DEF Promise!Next
  <2> QED BY <1>4, <2>1, <2>2, <2>3, <2>4, CollectorClient
<1>5. CASE UNCHANGED systemVars
  <2>1. /\ UNCHANGED <<origin, due, registry, owner, result, snapshot, lifecycle, pc, cap, hk>>
        /\ stage' = stage
    BY <1>5 DEF systemVars, vars, executorVars, registryVars, hookVars, closeVars, threadVars
  <2> QED BY <1>0, <2>1, ExecutorStutters
<1> QED BY <1>1, <1>2, <1>3, <1>4, <1>5 DEF SystemNext

(* It starts where the promise starts.                                     *)
LEMMA PromiseInit ==
  ASSUME CollectorAssumption, SystemInit
  PROVE  Promise!Init
<1>1. ASSUME NEW c \in Captures
      PROVE  PhaseOf(c) = "unused" /\ ReportOf(c) = Promise!NoReport
  <2>1. owner[c] = NoThread /\ registry = {} /\ ~Closing(c) /\ snapshot[c] = NoSnapshot
    BY DEF SystemInit, Init, Closing
  <2>2. PhaseOf(c) = "unused"
    BY <2>1 DEF PhaseOf
  <2>3. ReportOf(c) = Promise!NoReport
    BY <2>1, EmptyReport
  <2> QED BY <2>2, <2>3
<1>2. \A h \in Hooks : Reported(h) = "NONE"
  BY DEF SystemInit, Init, Reported
<1>3. /\ origin = [h \in Hooks |-> NoCapture]
      /\ due = [c \in Captures |-> [h \in Hooks |-> "NONE"]]
  BY DEF SystemInit
<1> QED BY <1>1, <1>2, <1>3 DEF Promise!Init

(* As long as the executions of each capture fit the retention limit, the  *)
(* collector under its supported client keeps the promise of a one-shot    *)
(* capture: whatever callbacks run while and after the capture closes, it  *)
(* makes one report, of its own executions and of each no more than was    *)
(* told, that passes only when nothing is open, and then delivers it or    *)
(* the failure of the action (RouteContract.capture, closeAndFreeze).      *)
THEOREM RefinesOneShot ==
  SystemSpec /\ [](\A c \in Captures : Within(c)) => ImplementsOneShot
<1>1. SystemInit => Promise!Init /\ RefinementInv
  BY PromiseInit, RefinementInit, SystemAssumption, CollectorAssumption
<1>2. RefinementInv /\ [SystemNext]_systemVars => RefinementInv'
  BY RefinementStep, SystemAssumption, CollectorAssumption
<1>3. RefinementInv /\ (\A c \in Captures : Within(c)) /\ [SystemNext]_systemVars
        => [Promise!Next]_(Promise!promise)
  BY PromiseStep, SystemAssumption, CollectorAssumption
<1> QED BY <1>1, <1>2, <1>3, PTL DEF SystemSpec, ImplementsOneShot, Promise!Spec
=============================================================================
