------------------------- MODULE CaptureSystemProofs -------------------------
(* Proofs about CaptureSystem, for every number of callers, workers,       *)
(* captures and executions: executions keep to their capture, threads to   *)
(* their context, and what a snapshot tells of its executions.             *)
EXTENDS CaptureSystem, CollectorProofs

(* Inside a callback a thread works on a hook instance.                    *)
CallbackLabels == HookLabels \cup {"record"}

(* A thread calls the hook of its own task only, and with the token its    *)
(* execution was submitted with.                                           *)
TaskOK(t) ==
  /\ task[t] # NoHook => ctx[t] = origin[task[t]]
  /\ pc[t] \in CallbackLabels =>
       hk[t] \in Hooks /\ hk[t] = task[t] /\ cap[t] = origin[hk[t]]
  /\ pc[t] \notin CallbackLabels => hk[t] = NoHook

TaskInv == \A t \in Threads : TaskOK(t)

(* What an execution has left in the collector is with its own capture.    *)
PlaceOK(h) ==
  /\ stage[h] = "UNUSED" => origin[h] = NoCapture
  /\ stage[h] \in {"UNUSED", "QUEUED"} => lifecycle[h] = "NEW"
  /\ lifecycle[h] = "NEW" => inFlight[h] = NoCapture
  /\ inFlight[h] # NoCapture => inFlight[h] = origin[h]

PlaceInv == NoCrossCapture /\ \A h \in Hooks : PlaceOK(h)

(* Outside its tasks and captures a thread has no token.                   *)
ContextInv ==
  /\ \A w \in Workers :
       scope[w] = NoCapture /\ (task[w] = NoHook => ctx[w] = NoCapture)
  /\ \A t \in Callers :
       scope[t] = NoCapture \/ pc[t] \in CloseLabels => ctx[t] = NoCapture

ClientInv == TaskInv /\ PlaceInv /\ ContextInv

(* A step inside the collector belongs to a callback or to a close.        *)
LEMMA CollectorClient ==
  ASSUME NEW t \in Threads, CollectorStep(t)
  PROVE  HookStep(t) \/ CloseStep(t)
<1>1. (t \in interrupted) \in BOOLEAN
  OBVIOUS
<1> QED BY <1>1 DEF CollectorStep, CloseStep

(* The task of a thread is an execution, so every step of the system that  *)
(* touches the collector is one its general client could take.             *)
LEMMA ClientStep ==
  ASSUME SystemAssumption, SystemTypeOK, [SystemNext]_systemVars
  PROVE  [Next]_vars
<1> USE SystemAssumption DEF SystemAssumption
<1>1. CASE UNCHANGED systemVars
  BY <1>1 DEF systemVars
<1>2. ASSUME NEW t \in Callers, CallerStep(t)
      PROVE  [Next]_vars
  <2>1. t \in Threads
    OBVIOUS
  <2>2. ASSUME NEW c \in Captures, OpenCapture(t, c)
        PROVE  Next
    BY <2>1, <2>2 DEF OpenCapture, Next
  <2>3. ASSUME NEW threw \in BOOLEAN, EndAction(t, threw)
        PROVE  Next
    BY <2>1, <2>3 DEF EndAction, Next
  <2>4. ASSUME \/ \E S \in SUBSET Hooks, trunk \in Hooks : Submit(t, S, trunk)
               \/ Join(t) \/ LeaveEarly(t) \/ Interrupt(t)
        PROVE  UNCHANGED vars
    BY <2>4 DEF Submit, Join, LeaveEarly, Interrupt
  <2> QED BY <1>2, <2>2, <2>3, <2>4 DEF CallerStep
<1>3. ASSUME NEW w \in Workers, NEW h \in Hooks, Take(w, h)
      PROVE  [Next]_vars
  <2>1. w \in Threads /\ origin[h] \in Captures \cup {NoCapture}
    BY DEF SystemTypeOK
  <2>2. Replay(w, origin[h])
    BY <1>3 DEF Take
  <2> QED BY <2>1, <2>2 DEF Next
<1>4. ASSUME NEW t \in Threads, ExecutionStep(t)
      PROVE  [Next]_vars
  <2>1. task[t] # NoHook => task[t] \in Hooks
    BY DEF SystemTypeOK
  <2>2. ASSUME NEW input \in StartInputs, Start(t, input)
        PROVE  Next
    BY <2>1, <2>2 DEF Start, Next
  <2>3. ASSUME NEW input \in FinishInputs, Finish(t, input)
        PROVE  Next
    BY <2>1, <2>3 DEF Finish, Next
  <2>4. ASSUME Vanish(t)
        PROVE  UNCHANGED vars
    BY <2>4 DEF Vanish
  <2>5. ASSUME EndTask(t)
        PROVE  [Next]_vars
    BY <2>5 DEF EndTask, Next
  <2> QED BY <1>4, <2>2, <2>3, <2>4, <2>5 DEF ExecutionStep
<1>5. ASSUME NEW t \in Threads, CollectorStep(t)
      PROVE  [Next]_vars
  BY <1>5, CollectorClient DEF Next
<1> QED BY <1>1, <1>2, <1>3, <1>4, <1>5 DEF SystemNext

-----------------------------------------------------------------------------
(* Types of the executor.                                                  *)
LEMMA SystemTypeStep ==
  ASSUME SystemAssumption, CollectorAssumption, SharedTypes, SystemTypeOK,
         [SystemNext]_systemVars
  PROVE  SystemTypeOK'
<1>0. Callers \subseteq Threads /\ Workers \subseteq Threads /\ NoHook \notin Hooks
  BY DEF SystemAssumption, CollectorAssumption
<1>1. CASE UNCHANGED <<executorVars, due>>
  BY <1>1 DEF SystemTypeOK, OneRunner, executorVars
<1>2. ASSUME NEW t \in Callers, NEW threw \in BOOLEAN, EndAction(t, threw)
      PROVE  SystemTypeOK'
  <2> DEFINE told == [h \in Hooks |-> IF origin[h] = scope[t] THEN Reported(h) ELSE "NONE"]
  <2>1. told \in [Hooks -> {"NONE", "STARTED", "RETURNED", "FAILED"}]
    BY DEF Reported, SharedTypes
  <2>2. due' = [due EXCEPT ![scope[t]] = told] /\ UNCHANGED executorVars
    BY <1>2 DEF EndAction
  <2> HIDE DEF told
  <2>3. due' \in [Captures -> [Hooks -> {"NONE", "STARTED", "RETURNED", "FAILED"}]]
    BY <2>1, <2>2 DEF SystemTypeOK
  <2> QED BY <2>2, <2>3 DEF executorVars, SystemTypeOK, OneRunner
<1>3. ASSUME NEW t \in Callers, NEW S \in SUBSET Hooks, NEW trunk \in Hooks,
             Submit(t, S, trunk)
      PROVE  SystemTypeOK'
  <2>1. /\ trunk \in S /\ \A h \in S : stage[h] = "UNUSED"
        /\ stage' = [h \in Hooks |-> IF h = trunk THEN "RUNNING"
                                     ELSE IF h \in S THEN "QUEUED" ELSE stage[h]]
        /\ origin' = [h \in Hooks |-> IF h \in S THEN ctx[t] ELSE origin[h]]
        /\ task' = [task EXCEPT ![t] = trunk]
        /\ waits' = [waits EXCEPT ![t] = S]
        /\ UNCHANGED <<interrupted, due>>
    BY <1>3 DEF Submit
  <2>2. t \in Threads /\ ctx[t] \in Captures \cup {NoCapture}
    BY <1>0 DEF SharedTypes
  <2>3. SystemTypeOK' \/ ~OneRunner'
    BY <2>1, <2>2 DEF SystemTypeOK
  <2>4. OneRunner'
    <3>1. /\ task' = [task EXCEPT ![t] = trunk] /\ DOMAIN task = Threads
          /\ OneRunner
      BY <2>1 DEF SystemTypeOK
    <3>2. task'[t] = trunk /\ \A v \in Threads \ {t} : task'[v] = task[v]
      BY <2>2, <3>1
    <3>3. ASSUME NEW v \in Threads, task[v] # NoHook
          PROVE  /\ task[v] \notin S /\ stage'[task[v]] = stage[task[v]]
                 /\ stage[task[v]] \in {"RUNNING", "RETURNING", "FAILING"}
      <4>1. task[v] \in Hooks
        BY <3>3 DEF SystemTypeOK
      <4>2. stage[task[v]] \in {"RUNNING", "RETURNING", "FAILING"}
        BY <3>1, <3>3 DEF OneRunner
      <4>3. task[v] \notin S
        BY <2>1, <4>2
      <4> QED BY <2>1, <4>1, <4>2, <4>3
    <3>4. stage'[trunk] = "RUNNING" /\ trunk \in S
      BY <2>1
    <3>5. ASSUME NEW v \in Threads, task'[v] # NoHook
          PROVE  /\ stage'[task'[v]] \in {"RUNNING", "RETURNING", "FAILING"}
                 /\ \A u \in Threads \ {v} : task'[u] # task'[v]
      <4>0. ASSUME NEW u \in Threads, u # t
            PROVE  task'[u] # trunk
        <5>1. task'[u] = task[u]
          BY <3>2, <4>0
        <5>2. CASE task[u] = NoHook
          BY <1>0, <5>1, <5>2
        <5>3. CASE task[u] # NoHook
          BY <3>3, <3>4, <5>1, <5>3
        <5> QED BY <5>2, <5>3
      <4>1. CASE v = t
        BY <3>2, <3>4, <4>0, <4>1
      <4>2. CASE v # t
        <5>1. task'[v] = task[v] /\ task[v] \notin S
          BY <3>2, <3>3, <3>5, <4>2
        <5> QED BY <3>1, <3>2, <3>3, <3>4, <3>5, <4>2, <5>1 DEF OneRunner
      <4> QED BY <4>1, <4>2
    <3> QED BY <3>5 DEF OneRunner
  <2> QED BY <2>3, <2>4
<1>4. ASSUME NEW t \in Callers, Join(t) \/ LeaveEarly(t) \/ Interrupt(t)
      PROVE  SystemTypeOK'
  <2>1. /\ waits' = [waits EXCEPT ![t] = {}] \/ waits' = waits
        /\ interrupted' \in {interrupted, interrupted \cup {t}}
        /\ UNCHANGED <<stage, origin, task, due>>
    BY <1>4 DEF Join, LeaveEarly, Interrupt
  <2>2. waits' \in [Callers -> SUBSET Hooks] /\ interrupted' \subseteq Callers
    BY <2>1 DEF SystemTypeOK
  <2> QED BY <2>1, <2>2 DEF SystemTypeOK, OneRunner
<1>5. ASSUME NEW w \in Workers, NEW h \in Hooks, Take(w, h)
      PROVE  SystemTypeOK'
  BY <1>0, <1>5 DEF Take, SystemTypeOK, OneRunner
<1>6. ASSUME NEW t \in Threads, NEW input \in FinishInputs, Finish(t, input)
      PROVE  SystemTypeOK'
  BY <1>6 DEF Finish, SystemTypeOK, OneRunner
<1>7. ASSUME NEW t \in Threads, Vanish(t)
      PROVE  SystemTypeOK'
  BY <1>7 DEF Vanish, SystemTypeOK, OneRunner
<1>8. ASSUME NEW t \in Threads, EndTask(t)
      PROVE  SystemTypeOK'
  BY <1>8 DEF EndTask, SystemTypeOK, OneRunner
<1>9. ASSUME NEW t \in Threads,
             CollectorStep(t) \/ \E input \in StartInputs : Start(t, input)
      PROVE  UNCHANGED <<executorVars, due>>
  BY <1>9 DEF CollectorStep, Start
<1>10. ASSUME NEW t \in Callers, NEW c \in Captures, OpenCapture(t, c)
       PROVE  UNCHANGED <<executorVars, due>>
  BY <1>10 DEF OpenCapture
<1>11. UNCHANGED systemVars => UNCHANGED <<executorVars, due>>
  BY DEF systemVars
<1>12. ASSUME NEW t \in Callers, CallerStep(t)
       PROVE  SystemTypeOK'
  BY <1>1, <1>2, <1>3, <1>4, <1>10, <1>12 DEF CallerStep
<1>13. ASSUME NEW t \in Threads, ExecutionStep(t) \/ CollectorStep(t)
       PROVE  SystemTypeOK'
  BY <1>1, <1>6, <1>7, <1>8, <1>9, <1>13 DEF ExecutionStep
<1> QED BY <1>1, <1>5, <1>11, <1>12, <1>13 DEF SystemNext

-----------------------------------------------------------------------------
(* Executions, threads and captures.                                       *)

(* A step of a callback stays with the thread's hook instance and capture, *)
(* or returns.                                                             *)
Carries(t) ==
  /\ Mine(t)
  /\ pc[t] \in CallbackLabels
  /\ \/ pc'[t] = "idle" /\ hk'[t] = NoHook
     \/ pc'[t] \in CallbackLabels /\ hk'[t] = hk[t] /\ cap'[t] = cap[t]
  /\ UNCHANGED lifecycle

(* Every step of a callback does no more than Carries says.                *)
LEMMA HookCarries ==
  ASSUME TypeInv, NEW t \in Threads, HookStep(t)
  PROVE  Carries(t)
<1> USE DEF TypeInv, ThreadInv, ThreadTypes, Carries, Mine, CallbackLabels, HookLabels,
        Goto, Return, Call
<1>1. ASSUME Observe(t) PROVE Carries(t)
  BY <1>1 DEF Observe, StartFailure, hookVars
<1>2. ASSUME RecordArgument(t) PROVE Carries(t)
  BY <1>2 DEF RecordArgument, hookVars
<1>3. ASSUME CheckClosed(t) PROVE Carries(t)
  BY <1>3 DEF CheckClosed, hookVars
<1>4. ASSUME Count(t) PROVE Carries(t)
  BY <1>4 DEF Count, hookVars
<1>5. ASSUME Limit(t) PROVE Carries(t)
  BY <1>5 DEF Limit, hookVars
<1>6. ASSUME Retain(t) PROVE Carries(t)
  BY <1>6 DEF Retain
<1>7. ASSUME Record(t) PROVE Carries(t)
  BY <1>7 DEF Record, hookVars
<1>8. ASSUME RecordCause(t) PROVE Carries(t)
  BY <1>8 DEF RecordCause, hookVars
<1>9. ASSUME Complete(t) PROVE Carries(t)
  BY <1>9 DEF Complete
<1> QED BY <1>1, <1>2, <1>3, <1>4, <1>5, <1>6, <1>7, <1>8, <1>9 DEF HookStep

(* A step of the close leaves attempts, hook instances and tokens alone.   *)
Closes(t) ==
  /\ Mine(t)
  /\ pc[t] \in CloseLabels
  /\ \/ pc'[t] = "idle" /\ pc[t] = "remove" /\ hk'[t] = NoHook /\ scope'[t] = NoCapture
     \/ pc'[t] \in CloseLabels /\ hk'[t] = hk[t] /\ cap'[t] = cap[t] /\ scope'[t] = scope[t]
  /\ \A u \in Threads \ {t} : scope'[u] = scope[u]
  /\ UNCHANGED <<ctx, owner, attempts, completion, lifecycle, inFlight>>

(* Every step of a close does no more than Closes says.                    *)
LEMMA CloseCloses ==
  ASSUME TypeInv, NEW t \in Threads, CloseStep(t)
  PROVE  Closes(t)
<1>0. scope \in [Threads -> Captures \cup {NoCapture}]
  BY DEF TypeInv, SharedTypes
<1> USE DEF TypeInv, ThreadInv, ThreadTypes, Closes, Mine, CloseLabels, Goto, Return, Call
<1>1. ASSUME CloseFlag(t) PROVE Closes(t)
  BY <1>1 DEF CloseFlag, hookVars, registryVars
<1>2. ASSUME NEW interrupt \in BOOLEAN, CloseChecks(t, interrupt) PROVE Closes(t)
  BY <1>2 DEF CloseChecks, hookVars, registryVars
<1>3. ASSUME NEW h \in Hooks, Freeze(t, h) PROVE Closes(t)
  BY <1>3 DEF Freeze, hookVars, registryVars, captureVars, threadVars
<1>4. ASSUME EndFreeze(t) PROVE Closes(t)
  BY <1>4 DEF EndFreeze, hookVars, registryVars, captureVars
<1>5. ASSUME Assemble(t) PROVE Closes(t)
  BY <1>5 DEF Assemble, hookVars, registryVars, captureVars
<1>6. ASSUME Remove(t) PROVE Closes(t)
  BY <1>0, <1>6 DEF Remove, hookVars, captureVars
<1> QED BY <1>1, <1>2, <1>3, <1>4, <1>5, <1>6 DEF CloseStep

(* A step of thread t keeps what the others' tasks rely on, if it leaves   *)
(* their tokens, their tasks and the origins of these alone.               *)
LEMMA TaskKept ==
  ASSUME CollectorAssumption, TaskInv, NEW t \in Threads, Mine(t), TaskOK(t)',
         \A u \in Threads \ {t} : task'[u] = task[u] /\ ctx'[u] = ctx[u],
         \A u \in Threads : task[u] # NoHook => origin'[task[u]] = origin[task[u]]
  PROVE  TaskInv'
<1> SUFFICES ASSUME NEW u \in Threads, u # t
             PROVE  TaskOK(u)'
  BY DEF TaskInv
<1>1. TaskOK(u) /\ task'[u] = task[u] /\ ctx'[u] = ctx[u]
  BY DEF TaskInv
<1>2. pc'[u] = pc[u] /\ cap'[u] = cap[u] /\ hk'[u] = hk[u]
  BY DEF Mine
<1>3. CASE pc[u] \in CallbackLabels
  <2>1. hk[u] \in Hooks /\ hk[u] = task[u] /\ task[u] # NoHook
    BY <1>1, <1>3 DEF TaskOK, CollectorAssumption
  <2>2. origin'[task[u]] = origin[task[u]]
    BY <2>1
  <2> QED BY <1>1, <1>2, <1>3, <2>1, <2>2 DEF TaskOK
<1>4. CASE pc[u] \notin CallbackLabels
  BY <1>1, <1>2, <1>4 DEF TaskOK
<1> QED BY <1>3, <1>4

(* No step inside the collector takes a thread to a foreign execution or   *)
(* token.                                                                  *)
LEMMA InsideTask ==
  ASSUME CollectorAssumption, TypeInv, OwnerInv, TaskInv,
         NEW t \in Threads, CollectorStep(t)
  PROVE  TaskInv'
<1>1. UNCHANGED <<ctx, task, origin>> /\ (Carries(t) \/ Closes(t))
  <2>1. HookStep(t) => ctx' = ctx /\ Carries(t)
    BY HookCarries, OutsideSteps DEF Outside, OwnerInv
  <2>2. HookStep(t) \/ CloseStep(t)
    BY CollectorClient
  <2>3. CloseStep(t) => ctx' = ctx /\ Closes(t)
    BY CloseCloses DEF Closes
  <2>4. UNCHANGED <<task, origin>>
    BY DEF CollectorStep, executorVars
  <2> QED BY <2>1, <2>2, <2>3, <2>4
<1>2. TaskOK(t) /\ Mine(t)
  BY <1>1 DEF TaskInv, Carries, Closes
<1>3. TaskOK(t)'
  <2>1. CASE Carries(t)
    <3>1. CASE pc'[t] = "idle" /\ hk'[t] = NoHook
      BY <1>1, <1>2, <3>1 DEF TaskOK, CallbackLabels, HookLabels
    <3>2. CASE /\ pc[t] \in CallbackLabels /\ pc'[t] \in CallbackLabels
               /\ hk'[t] = hk[t] /\ cap'[t] = cap[t]
      BY <1>1, <1>2, <3>2 DEF TaskOK
    <3> QED BY <2>1, <3>1, <3>2 DEF Carries
  <2>2. CASE Closes(t)
    BY <1>1, <1>2, <2>2 DEF Closes, TaskOK, CallbackLabels, HookLabels, CloseLabels
  <2> QED BY <1>1, <2>1, <2>2
<1> QED BY <1>1, <1>2, <1>3, TaskKept

(* Retaining an attempt is the one step that adds to a capture.            *)
LEMMA InsidePlace ==
  ASSUME CollectorAssumption, TypeInv, HookInv, TaskInv, PlaceInv,
         NEW t \in Threads, CollectorStep(t)
  PROVE  PlaceInv'
<1>1. UNCHANGED <<stage, origin>>
  BY DEF CollectorStep, executorVars
<1>2. CASE Retain(t)
  <2> DEFINE h == hk[t]
             c == cap[t]
  <2>1. /\ attempts' = [attempts EXCEPT ![c] = @ \cup {h}]
        /\ inFlight' = [inFlight EXCEPT ![h] = c]
        /\ lifecycle' = lifecycle /\ pc[t] = "retain"
    BY <1>2 DEF Retain
  <2>2. h \in Hooks /\ c = origin[h]
    BY <2>1 DEF TaskInv, TaskOK, CallbackLabels, HookLabels
  <2>3. lifecycle[h] # "NEW"
    BY <2>1 DEF HookInv, StartInv, Starting
  <2>4. DOMAIN attempts = Captures /\ DOMAIN inFlight = Hooks
    BY DEF TypeInv, SharedTypes
  <2> HIDE DEF h, c
  <2>5. NoCrossCapture'
    BY <1>1, <2>1, <2>2, <2>4 DEF PlaceInv, NoCrossCapture
  <2>6. ASSUME NEW k \in Hooks
        PROVE  PlaceOK(k)'
    <3>1. PlaceOK(k) /\ stage' = stage /\ origin' = origin
      BY <1>1 DEF PlaceInv
    <3>2. CASE k = h
      BY <2>1, <2>2, <2>3, <2>4, <3>1, <3>2 DEF PlaceOK
    <3>3. CASE k # h
      BY <2>1, <2>4, <3>1, <3>3 DEF PlaceOK
    <3> QED BY <3>2, <3>3
  <2> QED BY <2>5, <2>6 DEF PlaceInv
<1>3. CASE Complete(t)
  <2>1. /\ inFlight' = [inFlight EXCEPT ![hk[t]] = NoCapture]
        /\ UNCHANGED <<attempts, lifecycle>>
    BY <1>3 DEF Complete, captureVars
  <2>2. DOMAIN inFlight = Hooks
    BY DEF TypeInv, SharedTypes
  <2>3. ASSUME NEW k \in Hooks
        PROVE  PlaceOK(k)'
    <3>1. PlaceOK(k) /\ inFlight'[k] \in {inFlight[k], NoCapture}
      BY <2>1, <2>2 DEF PlaceInv
    <3> QED BY <1>1, <2>1, <3>1 DEF PlaceOK
  <2> QED BY <1>1, <2>1, <2>3 DEF PlaceInv, NoCrossCapture
<1>4. CASE ~Retain(t) /\ ~Complete(t)
  <2>1. UNCHANGED <<attempts, inFlight, lifecycle>>
    <3>1. CASE HookStep(t)
      <4>1. \/ Observe(t) \/ RecordArgument(t) \/ CheckClosed(t) \/ Count(t)
            \/ Limit(t) \/ Record(t) \/ RecordCause(t)
        BY <1>4, <3>1 DEF HookStep
      <4>2. UNCHANGED <<attempts, hookVars>>
        BY <4>1 DEF Observe, RecordArgument, CheckClosed, Count, Limit, Record,
           RecordCause, captureVars
      <4> QED BY <4>2 DEF hookVars
    <3>2. CASE ~HookStep(t)
      <4>1. CloseStep(t)
        BY <3>2, CollectorClient
      <4> QED BY <4>1, CloseCloses DEF Closes
    <3> QED BY <3>1, <3>2
  <2> QED BY <1>1, <2>1 DEF PlaceInv, NoCrossCapture, PlaceOK
<1> QED BY <1>2, <1>3, <1>4

(* No step inside the collector leaves a token on a thread that has no use *)
(* for it.                                                                 *)
LEMMA InsideContext ==
  ASSUME SystemAssumption, CollectorAssumption, TypeInv, OwnerInv, ContextInv,
         NEW t \in Threads, CollectorStep(t)
  PROVE  ContextInv'
<1>1. UNCHANGED task
  BY DEF CollectorStep, executorVars
<1>2. CASE HookStep(t)
  <2>1. Outside(t)
    BY <1>2, OutsideSteps DEF OwnerInv
  <2> QED BY <1>1, <2>1 DEF Outside, Mine, ContextInv, SystemAssumption
<1>3. CASE CloseStep(t)
  <2>1. Closes(t)
    BY <1>3, CloseCloses
  <2>2. scope[t] # NoCapture
    BY <2>1, ClosingScope DEF Closes
  <2>3. t \notin Workers /\ t \in Callers /\ ctx[t] = NoCapture
    BY <2>1, <2>2 DEF ContextInv, SystemAssumption, Closes
  <2>4. ASSUME NEW w \in Workers
        PROVE  scope'[w] = NoCapture /\ (task'[w] = NoHook => ctx'[w] = NoCapture)
    <3>1. w \in Threads \ {t}
      BY <2>3 DEF SystemAssumption
    <3> QED BY <1>1, <2>1, <3>1 DEF Closes, ContextInv
  <2>5. ASSUME NEW u \in Callers, scope'[u] = NoCapture \/ pc'[u] \in CloseLabels
        PROVE  ctx'[u] = NoCapture
    <3>1. CASE u = t
      BY <2>1, <2>3, <3>1 DEF Closes
    <3>2. CASE u # t
      <4>1. u \in Threads \ {t}
        BY <3>2 DEF SystemAssumption
      <4> QED BY <2>1, <2>5, <4>1 DEF Closes, Mine, ContextInv
    <3> QED BY <3>1, <3>2
  <2> QED BY <2>4, <2>5 DEF ContextInv
<1> QED BY <1>2, <1>3, CollectorClient

(* The client's invariant survives every step inside the collector.        *)
LEMMA InsideClient ==
  ASSUME SystemAssumption, CollectorAssumption, EvidenceInv, ClientInv,
         NEW t \in Threads, CollectorStep(t)
  PROVE  ClientInv'
BY InsideTask, InsidePlace, InsideContext DEF ClientInv, EvidenceInv

(* An open capture gives its token to a caller that runs no execution ...  *)
LEMMA OpenClient ==
  ASSUME SystemAssumption, CollectorAssumption, SystemTypeOK, EvidenceInv, ClientInv,
         NEW t \in Callers, NEW c \in Captures, OpenCapture(t, c)
  PROVE  ClientInv'
<1>1. /\ task[t] = NoHook /\ pc[t] = "idle"
      /\ ctx' = [ctx EXCEPT ![t] = c] /\ scope' = [scope EXCEPT ![t] = c]
      /\ UNCHANGED <<stage, origin, task, attempts, lifecycle, inFlight, pc, cap, hk, detail>>
  BY DEF OpenCapture, Open, AtRest, Idle, executorVars, captureVars, hookVars, threadVars
<1>2. t \in Threads /\ t \notin Workers /\ Workers \subseteq Threads /\ Callers \subseteq Threads
  BY DEF SystemAssumption
<1>3. DOMAIN ctx = Threads /\ DOMAIN scope = Threads /\ NoCapture \notin Captures
  BY DEF EvidenceInv, TypeInv, SharedTypes, CollectorAssumption
<1>4. TaskInv'
  <2>1. TaskOK(t)' /\ Mine(t)
    BY <1>1, <1>2 DEF ClientInv, TaskInv, TaskOK, Mine
  <2>2. \A u \in Threads \ {t} : ctx'[u] = ctx[u]
    BY <1>1, <1>3
  <2> QED BY <1>1, <1>2, <2>1, <2>2, TaskKept DEF ClientInv
<1>5. PlaceInv'
  BY <1>1 DEF ClientInv, PlaceInv, NoCrossCapture, PlaceOK
<1>6. ASSUME NEW w \in Workers
      PROVE  scope'[w] = NoCapture /\ (task'[w] = NoHook => ctx'[w] = NoCapture)
  <2>1. w # t /\ w \in Threads
    BY <1>2
  <2> QED BY <1>1, <1>3, <2>1 DEF ClientInv, ContextInv
<1>7. ASSUME NEW u \in Callers, scope'[u] = NoCapture \/ pc'[u] \in CloseLabels
      PROVE  ctx'[u] = NoCapture
  <2>1. u # t
    BY <1>1, <1>2, <1>3, <1>7 DEF CloseLabels
  <2> QED BY <1>1, <1>2, <1>3, <1>7, <2>1 DEF ClientInv, ContextInv
<1>8. ContextInv'
  BY <1>6, <1>7 DEF ContextInv
<1> QED BY <1>4, <1>5, <1>8 DEF ClientInv

(* ... and its close takes the token away.                                 *)
LEMMA EndActionClient ==
  ASSUME SystemAssumption, CollectorAssumption, SystemTypeOK, EvidenceInv, ClientInv,
         NEW t \in Callers, NEW threw \in BOOLEAN, EndAction(t, threw)
  PROVE  ClientInv'
<1>1. /\ task[t] = NoHook /\ hk'[t] = NoHook /\ pc'[t] = "closeFlag"
      /\ ctx' = [ctx EXCEPT ![t] = NoCapture] /\ Mine(t)
      /\ UNCHANGED <<scope, stage, origin, task, attempts, lifecycle, inFlight>>
  <2>1. t \in Threads
    BY DEF SystemAssumption
  <2>2. Call(t, "closeFlag", scope[t], NoHook, "none")
    BY DEF EndAction, BeginClose
  <2>3. hk'[t] = NoHook /\ pc'[t] = "closeFlag" /\ Mine(t)
    BY <2>1, <2>2 DEF Call, Mine, EvidenceInv, TypeInv, ThreadInv, ThreadTypes
  <2> QED
    BY <2>3 DEF EndAction, BeginClose, RemoveContext, AtRest, executorVars, hookVars
<1>2. t \in Threads /\ t \notin Workers /\ Workers \subseteq Threads /\ Callers \subseteq Threads
  BY DEF SystemAssumption
<1>3. DOMAIN ctx = Threads
  BY DEF EvidenceInv, TypeInv, SharedTypes
<1>4. TaskInv'
  <2>1. TaskOK(t)'
    BY <1>1 DEF TaskOK, CallbackLabels, HookLabels
  <2>2. \A u \in Threads \ {t} : ctx'[u] = ctx[u]
    BY <1>1, <1>3
  <2> QED BY <1>1, <1>2, <2>1, <2>2, TaskKept DEF ClientInv
<1>5. PlaceInv'
  BY <1>1 DEF ClientInv, PlaceInv, NoCrossCapture, PlaceOK
<1>6. ASSUME NEW w \in Workers
      PROVE  scope'[w] = NoCapture /\ (task'[w] = NoHook => ctx'[w] = NoCapture)
  <2>1. w # t /\ w \in Threads
    BY <1>2
  <2> QED BY <1>1, <1>3, <2>1 DEF ClientInv, ContextInv
<1>7. ASSUME NEW u \in Callers, scope'[u] = NoCapture \/ pc'[u] \in CloseLabels
      PROVE  ctx'[u] = NoCapture
  <2>1. CASE u = t
    BY <1>1, <1>2, <1>3, <2>1
  <2>2. CASE u # t
    <3>1. pc'[u] = pc[u] /\ ctx'[u] = ctx[u] /\ scope'[u] = scope[u]
      BY <1>1, <1>2, <1>3, <2>2 DEF Mine
    <3> QED BY <1>7, <3>1 DEF ClientInv, ContextInv
  <2> QED BY <2>1, <2>2
<1>8. ContextInv'
  BY <1>6, <1>7 DEF ContextInv
<1> QED BY <1>4, <1>5, <1>8 DEF ClientInv

(* Executions are submitted before anything of them is known.              *)
LEMMA SubmitClient ==
  ASSUME SystemAssumption, CollectorAssumption, SystemTypeOK, EvidenceInv, ClientInv,
         NEW t \in Callers, NEW S \in SUBSET Hooks, NEW trunk \in Hooks,
         Submit(t, S, trunk)
  PROVE  ClientInv'
<1>1. /\ task[t] = NoHook /\ pc[t] = "idle" /\ trunk \in S
      /\ \A h \in S : stage[h] = "UNUSED"
      /\ \A h \in Hooks : stage'[h] = IF h = trunk THEN "RUNNING"
                                      ELSE IF h \in S THEN "QUEUED" ELSE stage[h]
      /\ \A h \in Hooks : origin'[h] = IF h \in S THEN ctx[t] ELSE origin[h]
      /\ task' = [task EXCEPT ![t] = trunk]
      /\ UNCHANGED <<ctx, scope, attempts, lifecycle, inFlight, pc, cap, hk, detail>>
  BY DEF Submit, AtRest, Idle, vars, registryVars, captureVars, hookVars, threadVars
<1>2. t \in Threads /\ t \notin Workers /\ Workers \subseteq Threads /\ Callers \subseteq Threads
  BY DEF SystemAssumption
<1>3. /\ DOMAIN task = Threads /\ trunk # NoHook
      /\ \A u \in Threads : task[u] # NoHook => task[u] \in Hooks
  BY DEF SystemTypeOK, CollectorAssumption
<1>4. /\ \A u \in Threads : TaskOK(u)
      /\ \A h \in Hooks : PlaceOK(h)
  BY DEF ClientInv, TaskInv, PlaceInv
<1>5. ASSUME NEW u \in Threads, task[u] # NoHook
      PROVE  task[u] \notin S
  BY <1>1, <1>5 DEF SystemTypeOK, OneRunner
<1>6. hk[t] = NoHook
  BY <1>1, <1>4 DEF TaskOK
<1>7. TaskInv'
  <2>1. TaskOK(t)'
    BY <1>1, <1>2, <1>3, <1>6 DEF TaskOK, CallbackLabels, HookLabels
  <2>2. \A u \in Threads \ {t} : task'[u] = task[u]
    BY <1>1, <1>3
  <2>3. \A u \in Threads : task[u] # NoHook => origin'[task[u]] = origin[task[u]]
    BY <1>1, <1>3, <1>5
  <2> QED BY <1>1, <1>2, <2>1, <2>2, <2>3, TaskKept DEF ClientInv, Mine
<1>8. ASSUME NEW h \in S
      PROVE  /\ lifecycle[h] = "NEW" /\ inFlight[h] = NoCapture
             /\ \A c \in Captures : h \notin attempts[c]
  <2>1. lifecycle[h] = "NEW" /\ inFlight[h] = NoCapture
    BY <1>1, <1>4 DEF PlaceOK
  <2>2. completion[h] = "NONE"
    BY <2>1 DEF EvidenceInv, HookInv, StartInv
  <2> QED BY <2>1, <2>2 DEF EvidenceInv, HookInv, AttemptInv
<1>9. PlaceInv'
  <2>1. NoCrossCapture'
    <3>1. \A c \in Captures : attempts[c] \subseteq Hooks
      BY DEF EvidenceInv, TypeInv, SharedTypes
    <3> QED BY <1>1, <1>8, <3>1 DEF ClientInv, PlaceInv, NoCrossCapture
  <2>2. ASSUME NEW h \in Hooks
        PROVE  PlaceOK(h)'
    <3>1. CASE h \in S
      BY <1>1, <1>8, <3>1 DEF PlaceOK
    <3>2. CASE h \notin S
      BY <1>1, <1>4, <3>2 DEF PlaceOK
    <3> QED BY <3>1, <3>2
  <2> QED BY <2>1, <2>2 DEF PlaceInv
<1>10. ContextInv'
  <2>1. \A w \in Workers : task'[w] = task[w]
    BY <1>1, <1>2, <1>3
  <2> QED BY <1>1, <2>1 DEF ClientInv, ContextInv
<1> QED BY <1>7, <1>9, <1>10 DEF ClientInv

(* A pool thread gets the token of the execution it takes ...              *)
LEMMA TakeClient ==
  ASSUME SystemAssumption, CollectorAssumption, SystemTypeOK, EvidenceInv, ClientInv,
         NEW w \in Workers, NEW h \in Hooks, Take(w, h)
  PROVE  ClientInv'
<1>1. /\ task[w] = NoHook /\ pc[w] = "idle" /\ stage[h] = "QUEUED"
      /\ ctx' = [ctx EXCEPT ![w] = origin[h]]
      /\ task' = [task EXCEPT ![w] = h]
      /\ stage' = [stage EXCEPT ![h] = "RUNNING"]
      /\ UNCHANGED <<scope, origin, attempts, lifecycle, inFlight, pc, cap, hk, detail>>
  BY DEF Take, Replay, Idle, captureVars, hookVars, threadVars
<1>2. w \in Threads /\ w \notin Callers /\ Workers \subseteq Threads /\ Callers \subseteq Threads
  BY DEF SystemAssumption
<1>3. /\ DOMAIN task = Threads /\ h # NoHook /\ DOMAIN stage = Hooks
      /\ DOMAIN ctx = Threads
  BY DEF SystemTypeOK, CollectorAssumption, EvidenceInv, TypeInv, SharedTypes
<1>4. TaskInv'
  <2>1. TaskOK(w)
    BY <1>2 DEF ClientInv, TaskInv
  <2>2. TaskOK(w)'
    BY <1>1, <1>2, <1>3, <2>1 DEF TaskOK, CallbackLabels, HookLabels
  <2>3. \A u \in Threads \ {w} : task'[u] = task[u] /\ ctx'[u] = ctx[u]
    BY <1>1, <1>3
  <2> QED BY <1>1, <1>2, <2>2, <2>3, TaskKept DEF ClientInv, Mine
<1>5. PlaceInv'
  <2>1. ASSUME NEW k \in Hooks
        PROVE  PlaceOK(k)'
    <3>1. PlaceOK(k) /\ stage'[k] \in {stage[k], "RUNNING"}
      BY <1>1, <1>3 DEF ClientInv, PlaceInv
    <3> QED BY <1>1, <3>1 DEF PlaceOK
  <2> QED BY <1>1, <2>1 DEF ClientInv, PlaceInv, NoCrossCapture
<1>6. ASSUME NEW v \in Workers
      PROVE  scope'[v] = NoCapture /\ (task'[v] = NoHook => ctx'[v] = NoCapture)
  BY <1>1, <1>2, <1>3 DEF ClientInv, ContextInv
<1>7. ASSUME NEW u \in Callers, scope'[u] = NoCapture \/ pc'[u] \in CloseLabels
      PROVE  ctx'[u] = NoCapture
  <2>1. ctx'[u] = ctx[u]
    BY <1>1, <1>2, <1>3
  <2> QED BY <1>1, <1>7, <2>1 DEF ClientInv, ContextInv
<1>8. ContextInv'
  BY <1>6, <1>7 DEF ContextInv
<1> QED BY <1>4, <1>5, <1>8 DEF ClientInv

(* ... and loses it when it ends.                                          *)
LEMMA EndTaskClient ==
  ASSUME SystemAssumption, CollectorAssumption, SystemTypeOK, EvidenceInv, ClientInv,
         NEW t \in Threads, EndTask(t)
  PROVE  ClientInv'
<1>1. /\ pc[t] = "idle" /\ task[t] # NoHook /\ stage[task[t]] \in {"RETURNING", "FAILING"}
      /\ task' = [task EXCEPT ![t] = NoHook]
      /\ ctx' = IF t \in Workers THEN [ctx EXCEPT ![t] = NoCapture] ELSE ctx
      /\ stage' = [stage EXCEPT ![task[t]] = IF @ = "RETURNING" THEN "RETURNED" ELSE "FAILED"]
      /\ UNCHANGED <<scope, origin, attempts, lifecycle, inFlight, pc, cap, hk, detail>>
  BY DEF EndTask, Replay, Idle, captureVars, hookVars, threadVars, vars, registryVars
<1>2. Workers \subseteq Threads /\ Callers \subseteq Threads /\ Callers \cap Workers = {}
  BY DEF SystemAssumption
<1>3. /\ DOMAIN task = Threads /\ DOMAIN stage = Hooks /\ DOMAIN ctx = Threads
      /\ task[t] \in Hooks
  BY <1>1 DEF SystemTypeOK, EvidenceInv, TypeInv, SharedTypes
<1>4. ASSUME NEW u \in Threads
      PROVE  TaskOK(u)'
  <2>1. TaskOK(u)
    BY DEF ClientInv, TaskInv
  <2>2. CASE u = t
    <3>1. task'[t] = NoHook /\ pc[t] \notin CallbackLabels /\ UNCHANGED <<pc, hk>>
      BY <1>1, <1>3 DEF CallbackLabels, HookLabels
    <3> QED BY <2>1, <2>2, <3>1 DEF TaskOK
  <2>3. CASE u # t
    BY <1>1, <1>3, <2>1, <2>3 DEF TaskOK
  <2> QED BY <2>2, <2>3
<1>5. PlaceInv'
  <2>1. ASSUME NEW k \in Hooks
        PROVE  PlaceOK(k)'
    <3>1. PlaceOK(k)
      BY DEF ClientInv, PlaceInv
    <3>2. stage'[k] \in {stage[k], "RETURNED", "FAILED"}
      BY <1>1, <1>3
    <3> QED BY <1>1, <3>1, <3>2 DEF PlaceOK
  <2> QED BY <1>1, <2>1 DEF ClientInv, PlaceInv, NoCrossCapture
<1>6. ASSUME NEW v \in Workers
      PROVE  scope'[v] = NoCapture /\ (task'[v] = NoHook => ctx'[v] = NoCapture)
  <2>1. CASE v = t
    BY <1>1, <1>2, <1>3, <2>1 DEF ClientInv, ContextInv
  <2>2. CASE v # t
    BY <1>1, <1>2, <1>3, <2>2 DEF ClientInv, ContextInv
  <2> QED BY <2>1, <2>2
<1>7. ASSUME NEW u \in Callers, scope'[u] = NoCapture \/ pc'[u] \in CloseLabels
      PROVE  ctx'[u] = NoCapture
  <2>1. ctx'[u] = ctx[u]
    BY <1>1, <1>2, <1>3
  <2> QED BY <1>1, <1>7, <2>1 DEF ClientInv, ContextInv
<1>8. ContextInv'
  BY <1>6, <1>7 DEF ContextInv
<1> QED BY <1>4, <1>5, <1>8 DEF ClientInv, TaskInv

(* A callback is entered with the token of the task: a start through the   *)
(* thread's context, a terminal callback through the hook's handle.        *)
LEMMA CallClient ==
  ASSUME SystemAssumption, CollectorAssumption, SystemTypeOK, EvidenceInv, ClientInv,
         NEW t \in Threads,
         \/ \E input \in StartInputs : Start(t, input)
         \/ \E input \in FinishInputs : Finish(t, input)
  PROVE  ClientInv'
<1> DEFINE h == task[t]
<1>1. h # NoHook /\ h \in Hooks /\ pc[t] = "idle" /\ t \in Threads
  BY DEF Start, Finish, StartCall, FinishCall, Idle, SystemTypeOK
<1>2. /\ stage[h] \in {"RUNNING", "RETURNING", "FAILING"}
      /\ ctx[t] = origin[h] /\ hk[t] = NoHook
      /\ inFlight[h] # NoCapture => inFlight[h] = origin[h]
  <2>1. stage[h] \in {"RUNNING", "RETURNING", "FAILING"}
    BY <1>1 DEF SystemTypeOK, OneRunner
  <2>2. TaskOK(t) /\ PlaceOK(h)
    BY <1>1 DEF ClientInv, TaskInv, PlaceInv
  <2> QED
    BY <1>1, <2>1, <2>2 DEF TaskOK, PlaceOK, CallbackLabels, HookLabels
<1>3. /\ UNCHANGED <<ctx, scope, origin, task, attempts, inFlight>>
      /\ lifecycle' \in {[lifecycle EXCEPT ![h] = "STARTED"],
                         [lifecycle EXCEPT ![h] = "FINISHED"]}
      /\ stage' \in {stage, [stage EXCEPT ![h] = "RETURNING"],
                     [stage EXCEPT ![h] = "FAILING"]}
  <2>1. CASE \E input \in StartInputs : Start(t, input)
    BY <2>1 DEF Start, StartCall, executorVars, registryVars, captureVars
  <2>2. CASE \E input \in FinishInputs : Finish(t, input)
    BY <2>2 DEF Finish, FinishCall, registryVars, captureVars
  <2> QED BY <2>1, <2>2
<1>4. \/ UNCHANGED <<pc, cap, hk>>
      \/ /\ \E l \in CallbackLabels : pc' = [pc EXCEPT ![t] = l]
         /\ cap' = [cap EXCEPT ![t] = origin[h]] /\ hk' = [hk EXCEPT ![t] = h]
  <2>1. \/ UNCHANGED threadVars
        \/ \E l \in CallbackLabels, c \in {ctx[t], inFlight[h]}, d \in StartInputs \cup FinishInputs :
             c = origin[h] /\ Call(t, l, c, h, d)
    <3>1. ASSUME NEW input \in StartInputs, Start(t, input)
          PROVE  \/ UNCHANGED threadVars
                 \/ Call(t, "observe", ctx[t], h, input)
      BY <3>1 DEF Start, StartCall
    <3>2. ASSUME NEW input \in FinishInputs, Finish(t, input)
          PROVE  \/ UNCHANGED threadVars
                 \/ \E l \in {"recordCause", "complete"} :
                      inFlight[h] # NoCapture /\ Call(t, l, inFlight[h], h, input)
      BY <3>2 DEF Finish, FinishCall
    <3> QED BY <1>2, <3>1, <3>2 DEF CallbackLabels, HookLabels
  <2> QED BY <2>1 DEF Call, threadVars
<1> HIDE DEF h
<1>5. /\ DOMAIN pc = Threads /\ DOMAIN cap = Threads /\ DOMAIN hk = Threads
      /\ DOMAIN lifecycle = Hooks /\ DOMAIN stage = Hooks
      /\ Callers \subseteq Threads
  BY DEF SystemTypeOK, EvidenceInv, TypeInv, SharedTypes, ThreadInv, ThreadTypes,
     SystemAssumption
<1>6. \A u \in Threads \ {t} : pc'[u] = pc[u] /\ cap'[u] = cap[u] /\ hk'[u] = hk[u]
  BY <1>4, <1>5
<1>7. \/ UNCHANGED <<pc, cap, hk>>
      \/ pc'[t] \in CallbackLabels /\ cap'[t] = origin[h] /\ hk'[t] = h
  BY <1>1, <1>4, <1>5
<1>8. TaskInv'
  <2>1. TaskOK(t)'
    <3>1. CASE UNCHANGED <<pc, cap, hk>>
      BY <1>3, <3>1 DEF ClientInv, TaskInv, TaskOK
    <3>2. CASE /\ pc'[t] \in CallbackLabels /\ cap'[t] = origin[h] /\ hk'[t] = h
      BY <1>1, <1>2, <1>3, <3>2 DEF TaskOK, h
    <3> QED BY <1>7, <3>1, <3>2
  <2>2. ASSUME NEW u \in Threads \ {t}
        PROVE  TaskOK(u)'
    BY <1>3, <1>6 DEF ClientInv, TaskInv, TaskOK
  <2> QED BY <2>1, <2>2 DEF TaskInv
<1>9. PlaceInv'
  <2>1. ASSUME NEW k \in Hooks
        PROVE  PlaceOK(k)'
    <3>1. PlaceOK(k)
      BY DEF ClientInv, PlaceInv
    <3>2. CASE k = h
      <4>1. lifecycle'[h] # "NEW" /\ stage'[h] \in {"RUNNING", "RETURNING", "FAILING"}
        BY <1>1, <1>2, <1>3, <1>5
      <4> QED BY <1>2, <1>3, <3>2, <4>1 DEF PlaceOK
    <3>3. CASE k # h
      <4>1. lifecycle'[k] = lifecycle[k] /\ stage'[k] = stage[k]
        BY <1>1, <1>3, <1>5, <3>3
      <4> QED BY <1>3, <3>1, <4>1 DEF PlaceOK
    <3> QED BY <3>2, <3>3
  <2> QED BY <1>3, <2>1 DEF ClientInv, PlaceInv, NoCrossCapture
<1>10. ContextInv'
  <2>1. \A u \in Callers : pc'[u] \in CloseLabels => pc[u] \in CloseLabels
    BY <1>5, <1>6, <1>7 DEF CloseLabels, CallbackLabels, HookLabels
  <2> QED BY <1>3, <2>1 DEF ClientInv, ContextInv
<1> QED BY <1>8, <1>9, <1>10 DEF ClientInv

(* The statement and the interrupt leave the collector alone.              *)
LEMMA SilentClient ==
  ASSUME SystemTypeOK, ClientInv,
         \/ \E t \in Threads : Vanish(t)
         \/ \E t \in Callers : Join(t) \/ LeaveEarly(t) \/ Interrupt(t)
         \/ UNCHANGED systemVars
  PROVE  ClientInv'
<1>1. UNCHANGED <<vars, origin, task>>
  BY DEF Vanish, Join, LeaveEarly, Interrupt, systemVars, executorVars
<1>2. UNCHANGED <<ctx, scope, attempts, lifecycle, inFlight, pc, cap, hk>>
  BY <1>1 DEF vars, registryVars, captureVars, hookVars, threadVars
<1>3. ASSUME NEW h \in Hooks
      PROVE  stage'[h] = stage[h] \/ stage'[h] = "FAILING"
  BY DEF Vanish, Join, LeaveEarly, Interrupt, systemVars, executorVars, SystemTypeOK
<1>4. ASSUME NEW h \in Hooks
      PROVE  PlaceOK(h)'
  BY <1>1, <1>2, <1>3 DEF ClientInv, PlaceInv, PlaceOK
<1> QED
  BY <1>1, <1>2, <1>4
  DEF ClientInv, TaskInv, TaskOK, PlaceInv, NoCrossCapture, ContextInv

(* The client's invariant survives every step of the system.               *)
LEMMA ClientInvStep ==
  ASSUME SystemAssumption, CollectorAssumption, SystemTypeOK, EvidenceInv, ClientInv,
         [SystemNext]_systemVars
  PROVE  ClientInv'
<1>1. ASSUME NEW t \in Callers, CallerStep(t)
      PROVE  ClientInv'
  BY <1>1, OpenClient, EndActionClient, SubmitClient, SilentClient DEF CallerStep
<1>2. ASSUME NEW t \in Threads, ExecutionStep(t)
      PROVE  ClientInv'
  BY <1>2, CallClient, EndTaskClient, SilentClient DEF ExecutionStep
<1> QED BY <1>1, <1>2, TakeClient, InsideClient, SilentClient DEF SystemNext

-----------------------------------------------------------------------------
(* The invariants of the collector hold under this client, with its own.   *)
SystemInv == SystemTypeOK /\ EvidenceInv /\ ClientInv

(* Initially nothing runs and no thread has a token.                       *)
LEMMA SystemInvInit ==
  ASSUME SystemAssumption, CollectorAssumption, SystemInit
  PROVE  SystemInv
<1>1. EvidenceInv
  BY EvidenceInit DEF SystemInit
<1>2. SystemTypeOK
  BY DEF SystemInit, SystemTypeOK, OneRunner
<1>3. ClientInv
  <2>1. \A t \in Threads : TaskOK(t)
    BY DEF SystemInit, Init, TaskOK, CallbackLabels, HookLabels
  <2>2. PlaceInv
    BY DEF SystemInit, Init, PlaceInv, PlaceOK, NoCrossCapture
  <2>3. ContextInv
    BY DEF SystemInit, Init, ContextInv, SystemAssumption
  <2> QED BY <2>1, <2>2, <2>3 DEF ClientInv, TaskInv
<1> QED BY <1>1, <1>2, <1>3 DEF SystemInv

(* Every step of the system keeps the invariant.                           *)
LEMMA SystemInvStep ==
  ASSUME SystemAssumption, CollectorAssumption, SystemInv, [SystemNext]_systemVars
  PROVE  SystemInv'
<1>1. SystemTypeOK'
  BY SystemTypeStep DEF SystemInv, EvidenceInv, TypeInv
<1>2. EvidenceInv'
  BY ClientStep, EvidenceStep DEF SystemInv
<1>3. ClientInv'
  BY ClientInvStep DEF SystemInv
<1> QED BY <1>1, <1>2, <1>3 DEF SystemInv

(* The supported client is one of the clients the collector is modelled    *)
(* under: application threads and the executor only ever do what Collector *)
(* lets any thread do, so everything proved of Collector holds of them.    *)
THEOREM ClientImplementsCollector == SystemSpec => Spec
<1>1. SystemInit => SystemInv /\ Init
  BY SystemInvInit, SystemAssumption, CollectorAssumption DEF SystemInit
<1>2. SystemInv /\ [SystemNext]_systemVars => SystemInv' /\ [Next]_vars
  BY SystemInvStep, ClientStep, SystemAssumption, CollectorAssumption DEF SystemInv
<1> QED BY <1>1, <1>2, PTL DEF SystemSpec, Spec

(* The executor's variables keep their types, and no two threads ever run  *)
(* the same execution: the hook instance's plain fields have one user.     *)
THEOREM SystemTypeCorrect == SystemSpec => []SystemTypeOK
<1>1. SystemInit => SystemInv
  BY SystemInvInit, SystemAssumption, CollectorAssumption
<1>2. SystemInv /\ [SystemNext]_systemVars => SystemInv'
  BY SystemInvStep, SystemAssumption, CollectorAssumption
<1>3. SystemInv => SystemTypeOK
  BY DEF SystemInv
<1> QED BY <1>1, <1>2, <1>3, PTL DEF SystemSpec

(* RC-01 to RC-03: whatever the number of captures and pool threads and    *)
(* however their tasks outlive them, an attempt is only ever retained by   *)
(* the capture its execution was submitted under.                          *)
THEOREM CapturesIsolated == SystemSpec => []NoCrossCapture
<1>1. SystemInit => SystemInv
  BY SystemInvInit, SystemAssumption, CollectorAssumption
<1>2. SystemInv /\ [SystemNext]_systemVars => SystemInv'
  BY SystemInvStep, SystemAssumption, CollectorAssumption
<1>3. SystemInv => NoCrossCapture
  BY DEF SystemInv, ClientInv, PlaceInv
<1> QED BY <1>1, <1>2, <1>3, PTL DEF SystemSpec

(* No capture's token outlives the capture or the task on a thread: pool   *)
(* threads and later operations start without one.                         *)
THEOREM NoTokenLeaks == SystemSpec => []ContextRestored
<1>1. SystemInit => SystemInv
  BY SystemInvInit, SystemAssumption, CollectorAssumption
<1>2. SystemInv /\ [SystemNext]_systemVars => SystemInv'
  BY SystemInvStep, SystemAssumption, CollectorAssumption
<1>3. SystemInv => ContextRestored
  BY SystemAssumption DEF SystemInv, ClientInv, ContextInv, ContextRestored, SystemAssumption
<1> QED BY <1>1, <1>2, <1>3, PTL DEF SystemSpec

-----------------------------------------------------------------------------
(***************************************************************************)
(* What a snapshot tells of its executions.                                *)
(***************************************************************************)
(* The executions submitted under a capture.                               *)
Of(c) == {h \in Hooks : origin[h] = c}

-----------------------------------------------------------------------------
(* A callback runs on the execution its thread runs, and no other thread   *)
(* is inside a callback of it.                                             *)
LEMMA OwnHook ==
  ASSUME CollectorAssumption, SystemInv, NEW t \in Threads, pc[t] \in CallbackLabels
  PROVE  /\ hk[t] \in Hooks /\ hk[t] = task[t]
         /\ cap[t] = origin[hk[t]] /\ cap[t] \in Captures /\ hk[t] \in Of(cap[t])
<1>1. hk[t] \in Hooks /\ hk[t] = task[t] /\ cap[t] = origin[hk[t]]
  BY DEF SystemInv, ClientInv, TaskInv, TaskOK
<1>2. cap[t] \in Captures
  <2>1. FrameOK(pc[t], cap[t], hk[t], detail[t])
    BY DEF SystemInv, EvidenceInv, TypeInv, ThreadInv, LocalsOK
  <2> QED BY <2>1 DEF FrameOK, CallbackLabels, HookLabels
<1> QED BY <1>1, <1>2 DEF Of

(* The callback another thread is inside belongs to another running        *)
(* execution.                                                              *)
LEMMA OtherHook ==
  ASSUME CollectorAssumption, SystemInv, NEW t \in Threads,
         NEW u \in Threads \ {t}, hk[u] \in Hooks
  PROVE  /\ pc[u] \in CallbackLabels /\ hk[u] = task[u] /\ hk[u] # task[t]
         /\ stage[hk[u]] \in {"RUNNING", "RETURNING", "FAILING"}
<1>1. TaskOK(u) /\ NoHook \notin Hooks
  BY DEF SystemInv, ClientInv, TaskInv, CollectorAssumption
<1>2. pc[u] \in CallbackLabels /\ hk[u] = task[u] /\ task[u] # NoHook
  BY <1>1 DEF TaskOK
<1> QED BY <1>1, <1>2 DEF SystemInv, SystemTypeOK, OneRunner

-----------------------------------------------------------------------------
(* The lifecycle of a hook instance, and the outcome of its attempt, go    *)
(* with the stage of the execution, which a terminal callback decides.     *)
StageOK(h) ==
  /\ stage[h] \in {"RETURNING", "RETURNED"} => lifecycle[h] = "FINISHED"
  /\ stage[h] \in {"FAILING", "FAILED"} => lifecycle[h] # "NEW"
  /\ lifecycle[h] = "FINISHED" =>
       stage[h] \in {"RETURNING", "RETURNED", "FAILING", "FAILED"}
  /\ completion[h] = "CALLBACK_RETURNED" => stage[h] \in {"RETURNING", "RETURNED"}
  /\ completion[h] = "CALLBACK_FAILURE" =>
       stage[h] \in {"FAILING", "FAILED"} /\ lifecycle[h] = "FINISHED"

CallOK(t) ==
  /\ pc[t] \in CallbackLabels => completion[hk[t]] \notin Terminal
  /\ pc[t] \in {"recordCause", "complete"} =>
       /\ lifecycle[hk[t]] = "FINISHED"
       /\ stage[hk[t]] = IF detail[t] = "returned" THEN "RETURNING" ELSE "FAILING"

StageInv == (\A h \in Hooks : StageOK(h)) /\ (\A t \in Threads : CallOK(t))

Touched(h) == ~UNCHANGED <<stage[h], lifecycle[h], completion[h]>>

(* A step of t touches its own execution, or executions nobody runs yet.   *)
LEMMA StageTouches ==
  ASSUME CollectorAssumption, SystemInv, StageInv, NEW t \in Threads, Mine(t),
         \A h \in Hooks : Touched(h) =>
            StageOK(h)' /\ (h = task[t] \/ stage[h] \in {"UNUSED", "QUEUED"}),
         CallOK(t)'
  PROVE  StageInv'
<1>1. ASSUME NEW h \in Hooks
      PROVE  StageOK(h)'
  <2>1. StageOK(h)
    BY DEF StageInv
  <2> QED BY <2>1 DEF StageOK, Touched
<1>2. ASSUME NEW u \in Threads \ {t}
      PROVE  CallOK(u)'
  <2>1. /\ CallOK(u) /\ pc'[u] = pc[u] /\ hk'[u] = hk[u] /\ detail'[u] = detail[u]
    BY DEF StageInv, Mine
  <2>2. CASE pc[u] \in CallbackLabels
    <3>1. hk[u] \in Hooks
      BY <2>2, OwnHook
    <3>2. hk[u] # task[t] /\ stage[hk[u]] \notin {"UNUSED", "QUEUED"}
      BY <3>1, OtherHook
    <3>3. ~Touched(hk[u])
      BY <3>1, <3>2
    <3> QED BY <2>1, <3>3 DEF CallOK, Touched
  <2>3. CASE pc[u] \notin CallbackLabels
    BY <2>1, <2>3 DEF CallOK, CallbackLabels, HookLabels
  <2> QED BY <2>2, <2>3
<1> QED BY <1>1, <1>2 DEF StageInv

(* The steps inside a callback: only Retain and Complete set an outcome.   *)
LEMMA StageCollector ==
  ASSUME CollectorAssumption, SystemInv, StageInv, NEW t \in Threads, CollectorStep(t)
  PROVE  StageInv'
<1>1. UNCHANGED <<stage, task, origin>> /\ TypeInv
  BY DEF CollectorStep, executorVars, SystemInv, EvidenceInv
<1>2. DOMAIN completion = Hooks /\ DOMAIN pc = Threads /\ DOMAIN detail = Threads
  BY <1>1 DEF TypeInv, SharedTypes, ThreadInv, ThreadTypes
<1>3. CASE HookStep(t)
  <2>1. Carries(t) /\ pc[t] \in CallbackLabels /\ lifecycle' = lifecycle /\ Mine(t)
    BY <1>1, <1>3, HookCarries DEF Carries
  <2>2. PICK h \in Hooks : h = hk[t] /\ h = task[t] /\ StageOK(h) /\ CallOK(t)
    BY <2>1, OwnHook DEF StageInv
  <2>3. ASSUME completion' = completion,
               pc'[t] \in {"recordCause", "complete"} =>
                 pc[t] \in {"recordCause", "complete"} /\ detail'[t] = detail[t]
        PROVE  StageInv'
    <3>1. CallOK(t)'
      <4>1. CASE pc'[t] \in CallbackLabels /\ hk'[t] = hk[t]
        BY <1>1, <2>1, <2>2, <2>3, <4>1 DEF CallOK
      <4>2. CASE pc'[t] = "idle"
        BY <4>2 DEF CallOK, CallbackLabels, HookLabels
      <4> QED BY <2>1, <4>1, <4>2 DEF Carries
    <3> QED BY <1>1, <2>1, <2>3, <3>1, StageTouches DEF Touched
  <2>4. CASE Retain(t)
    <3>1. /\ completion' = [completion EXCEPT ![h] = "START_REPORTED"]
          /\ pc' = [pc EXCEPT ![t] = "idle"]
      BY <2>2, <2>4 DEF Retain, Return, Call
    <3>2. StageOK(h)'
      BY <1>1, <1>2, <2>1, <2>2, <3>1 DEF StageOK
    <3>3. CallOK(t)'
      BY <1>2, <3>1 DEF CallOK, CallbackLabels, HookLabels
    <3>4. \A k \in Hooks : Touched(k) => k = h
      BY <1>1, <1>2, <2>1, <3>1 DEF Touched
    <3> QED BY <2>1, <2>2, <3>2, <3>3, <3>4, StageTouches
  <2>5. CASE Complete(t) /\ completion' # completion
    <3>1. /\ completion' = [completion EXCEPT ![h] = OutcomeOf(detail[t])]
          /\ pc' = [pc EXCEPT ![t] = "idle"] /\ pc[t] = "complete"
      BY <2>2, <2>5 DEF Complete, Return, Call
    <3>2. StageOK(h)'
      BY <1>1, <1>2, <2>1, <2>2, <3>1 DEF StageOK, CallOK, OutcomeOf
    <3>3. CallOK(t)'
      BY <1>2, <3>1 DEF CallOK, CallbackLabels, HookLabels
    <3>4. \A k \in Hooks : Touched(k) => k = h
      BY <1>1, <1>2, <2>1, <3>1 DEF Touched
    <3> QED BY <2>1, <2>2, <3>2, <3>3, <3>4, StageTouches
  <2>6. CASE Complete(t) /\ completion' = completion
    <3>1. Return(t) \/ Goto(t, "record", "RC_DUPLICATE_FINISH")
      BY <2>6 DEF Complete
    <3>2. pc'[t] \in {"idle", "record"}
      BY <1>2, <3>1 DEF Return, Call, Goto
    <3> QED BY <2>3, <2>6, <3>2
  <2>7. ASSUME \/ Observe(t) \/ RecordArgument(t) \/ CheckClosed(t) \/ Count(t)
               \/ Limit(t) \/ Record(t) \/ RecordCause(t)
        PROVE  StageInv'
    <3>1. completion' = completion
      BY <2>7 DEF Observe, RecordArgument, CheckClosed, Count, Limit, Record,
                  RecordCause, hookVars
    <3>2. CASE RecordCause(t)
      BY <1>2, <2>3, <3>1, <3>2 DEF RecordCause, Goto
    <3>3. CASE ~RecordCause(t)
      <4>1. pc'[t] \notin {"recordCause", "complete"}
        BY <1>2, <2>7, <3>3 DEF Observe, StartFailure, RecordArgument, CheckClosed,
           Count, Limit, Record, Return, Call, Goto
      <4> QED BY <2>3, <3>1, <4>1
    <3> QED BY <3>2, <3>3
  <2> QED BY <1>3, <2>4, <2>5, <2>6, <2>7 DEF HookStep
<1>4. CASE CloseStep(t)
  <2>1. Closes(t)
    BY <1>1, <1>4, CloseCloses
  <2>2. CallOK(t)' /\ UNCHANGED <<completion, lifecycle>> /\ Mine(t)
    BY <2>1 DEF Closes, CallOK, CallbackLabels, HookLabels, CloseLabels
  <2> QED BY <1>1, <2>2, StageTouches DEF Touched
<1> QED BY <1>3, <1>4, CollectorClient

(* A callback is entered: the first of an execution that runs, or the      *)
(* terminal one, which decides its stage.                                  *)
LEMMA StageCalls ==
  ASSUME CollectorAssumption, SystemInv, StageInv, NEW t \in Threads,
         \/ \E input \in StartInputs : Start(t, input)
         \/ \E input \in FinishInputs : Finish(t, input)
  PROVE  StageInv'
<1>1. PICK h \in Hooks : h = task[t]
  BY DEF Start, Finish, SystemInv, SystemTypeOK
<1>2. /\ TypeInv /\ StageOK(h) /\ pc[t] = "idle"
      /\ stage[h] \in {"RUNNING", "RETURNING", "FAILING"}
      /\ NoHook \notin Hooks
  BY <1>1 DEF Start, Finish, StartCall, FinishCall, Idle, SystemInv, EvidenceInv,
     SystemTypeOK, OneRunner, StageInv, CollectorAssumption
<1>3. /\ DOMAIN pc = Threads /\ DOMAIN cap = Threads /\ DOMAIN hk = Threads
      /\ DOMAIN detail = Threads /\ DOMAIN lifecycle = Hooks /\ DOMAIN stage = Hooks
  BY <1>2 DEF TypeInv, SharedTypes, ThreadInv, ThreadTypes, SystemInv, SystemTypeOK
<1>4. ASSUME NEW input \in StartInputs, Start(t, input)
      PROVE  StageInv'
  <2>1. /\ lifecycle[h] = "NEW" /\ lifecycle' = [lifecycle EXCEPT ![h] = "STARTED"]
        /\ UNCHANGED <<stage, completion>>
        /\ Call(t, "observe", ctx[t], h, input) \/ UNCHANGED threadVars
    BY <1>1, <1>4 DEF Start, StartCall, MayStart, executorVars
  <2>2. completion[h] = "NONE"
    BY <2>1 DEF SystemInv, EvidenceInv, HookInv, StartInv
  <2>3. StageOK(h)'
    BY <1>2, <1>3, <2>1, <2>2 DEF StageOK
  <2>4. Mine(t) /\ CallOK(t)'
    <3>1. CASE Call(t, "observe", ctx[t], h, input)
      BY <1>3, <2>1, <2>2, <3>1 DEF Call, Mine, CallOK, Terminal
    <3>2. CASE UNCHANGED threadVars
      BY <1>2, <3>2 DEF threadVars, Mine, CallOK, CallbackLabels, HookLabels
    <3> QED BY <2>1, <3>1, <3>2
  <2>5. \A k \in Hooks : Touched(k) => k = h
    BY <1>3, <2>1 DEF Touched
  <2> QED BY <1>1, <2>3, <2>4, <2>5, StageTouches
<1>5. ASSUME NEW input \in FinishInputs, Finish(t, input)
      PROVE  StageInv'
  <2> DEFINE new == IF input = "returned" THEN "RETURNING" ELSE "FAILING"
  <2>1. /\ stage[h] = "RUNNING" /\ lifecycle' = [lifecycle EXCEPT ![h] = "FINISHED"]
        /\ stage' = [stage EXCEPT ![h] = new] /\ completion' = completion
        /\ \/ UNCHANGED threadVars
           \/ \E l \in {"recordCause", "complete"}, c \in {inFlight[h]} :
                Call(t, l, c, h, input)
    BY <1>1, <1>5 DEF Finish, FinishCall
  <2>2. completion[h] \notin Terminal
    BY <1>2, <2>1 DEF StageOK, Terminal
  <2>3. StageOK(h)'
    BY <1>2, <1>3, <2>1, <2>2 DEF StageOK, Terminal
  <2>4. Mine(t) /\ CallOK(t)'
    <3>1. ASSUME NEW l \in {"recordCause", "complete"}, NEW c,
                 Call(t, l, c, h, input)
          PROVE  Mine(t) /\ CallOK(t)'
      BY <1>3, <2>1, <2>2, <3>1 DEF Call, Mine, CallOK
    <3>2. CASE UNCHANGED threadVars
      BY <1>2, <3>2 DEF threadVars, Mine, CallOK, CallbackLabels, HookLabels
    <3> QED BY <2>1, <3>1, <3>2
  <2>5. \A k \in Hooks : Touched(k) => k = h
    BY <1>3, <2>1 DEF Touched
  <2> QED BY <1>1, <2>3, <2>4, <2>5, StageTouches
<1> QED BY <1>4, <1>5

(* The executor moves executions on without the collector.                 *)
LEMMA StageExecutor ==
  ASSUME CollectorAssumption, SystemInv, StageInv, NEW t \in Threads,
         \/ Vanish(t) \/ EndTask(t) \/ \E h \in Hooks : Take(t, h)
         \/ \E S \in SUBSET Hooks, trunk \in Hooks : Submit(t, S, trunk)
  PROVE  StageInv'
<1>1. /\ UNCHANGED <<lifecycle, completion, pc, hk, detail, cap>> /\ pc[t] = "idle"
  BY DEF Vanish, EndTask, Take, Submit, Replay, vars, hookVars, threadVars, AtRest, Idle
<1>2. Mine(t) /\ CallOK(t)'
  BY <1>1 DEF Mine, CallOK, CallbackLabels, HookLabels
<1>3. ASSUME NEW h \in Hooks, Touched(h)
      PROVE  StageOK(h)' /\ (h = task[t] \/ stage[h] \in {"UNUSED", "QUEUED"})
  <2>1. /\ DOMAIN stage = Hooks /\ StageOK(h) /\ PlaceOK(h) /\ stage'[h] # stage[h]
        /\ lifecycle[h] = "NEW" => completion[h] = "NONE"
    BY <1>1, <1>3 DEF Touched, SystemInv, SystemTypeOK, StageInv, ClientInv, PlaceInv,
       EvidenceInv, HookInv, StartInv
  <2>2. CASE Vanish(t)
    <3>1. /\ h = task[t] /\ stage[h] = "RUNNING" /\ stage'[h] = "FAILING"
          /\ lifecycle[h] = "STARTED"
      BY <2>1, <2>2 DEF Vanish
    <3> QED BY <1>1, <2>1, <3>1 DEF StageOK
  <2>3. CASE EndTask(t)
    <3>1. /\ h = task[t]
          /\ \/ stage[h] = "RETURNING" /\ stage'[h] = "RETURNED"
             \/ stage[h] = "FAILING" /\ stage'[h] = "FAILED"
      BY <2>1, <2>3 DEF EndTask
    <3> QED BY <1>1, <2>1, <3>1 DEF StageOK
  <2>4. CASE \/ \E k \in Hooks : Take(t, k)
             \/ \E S \in SUBSET Hooks, trunk \in Hooks : Submit(t, S, trunk)
    <3>1. stage[h] \in {"UNUSED", "QUEUED"} /\ stage'[h] \in {"QUEUED", "RUNNING"}
      <4>1. ASSUME NEW k \in Hooks, Take(t, k)
            PROVE  stage[h] = "QUEUED" /\ stage'[h] = "RUNNING"
        BY <2>1, <4>1 DEF Take
      <4>2. ASSUME NEW S \in SUBSET Hooks, NEW trunk \in Hooks, Submit(t, S, trunk)
            PROVE  stage[h] = "UNUSED" /\ stage'[h] \in {"QUEUED", "RUNNING"}
        BY <2>1, <4>2 DEF Submit
      <4> QED BY <2>4, <4>1, <4>2
    <3>2. lifecycle[h] = "NEW" /\ completion[h] = "NONE"
      BY <2>1, <3>1 DEF PlaceOK
    <3> QED BY <1>1, <3>1, <3>2 DEF StageOK
  <2> QED BY <2>2, <2>3, <2>4
<1> QED BY <1>2, <1>3, StageTouches

(* Every step keeps an execution's stage and its callbacks in agreement.   *)
LEMMA StageStep ==
  ASSUME SystemAssumption, CollectorAssumption, SystemInv, StageInv,
         [SystemNext]_systemVars
  PROVE  StageInv'
<1>1. Callers \subseteq Threads /\ Workers \subseteq Threads
  BY DEF SystemAssumption
<1>2. ASSUME UNCHANGED <<stage, lifecycle, completion, pc, hk, detail>>
      PROVE  StageInv'
  BY <1>2 DEF StageInv, StageOK, CallOK
<1>3. ASSUME NEW t \in Callers,
             \/ \E c \in Captures : OpenCapture(t, c)
             \/ Join(t) \/ LeaveEarly(t) \/ Interrupt(t)
      PROVE  StageInv'
  BY <1>2, <1>3 DEF OpenCapture, Open, Join, LeaveEarly, Interrupt, vars, executorVars,
     hookVars, threadVars
<1>4. ASSUME NEW t \in Callers, NEW threw \in BOOLEAN, EndAction(t, threw)
      PROVE  StageInv'
  <2>1. UNCHANGED <<stage, lifecycle, completion>> /\ Call(t, "closeFlag", scope[t], NoHook, "none")
    BY <1>4 DEF EndAction, BeginClose, executorVars, hookVars
  <2>2. Mine(t) /\ CallOK(t)'
    BY <1>1, <2>1 DEF Call, Mine, CallOK, CallbackLabels, HookLabels, SystemInv,
       EvidenceInv, TypeInv, ThreadInv, ThreadTypes
  <2> QED BY <1>1, <2>1, <2>2, StageTouches DEF Touched
<1>5. CASE UNCHANGED systemVars
  BY <1>2, <1>5 DEF systemVars, vars, executorVars, hookVars, threadVars
<1>6. ASSUME NEW t \in Callers, CallerStep(t)
      PROVE  StageInv'
  BY <1>1, <1>3, <1>4, <1>6, StageExecutor DEF CallerStep
<1>7. ASSUME NEW t \in Threads, ExecutionStep(t)
      PROVE  StageInv'
  BY <1>7, StageCalls, StageExecutor DEF ExecutionStep
<1> QED
  BY <1>1, <1>5, <1>6, <1>7, StageExecutor, StageCollector DEF SystemNext

-----------------------------------------------------------------------------
(* What is never taken back.                                               *)
CollectorGrows ==
  /\ \A h \in Hooks : /\ lifecycle[h] # "NEW" => lifecycle'[h] # "NEW"
                      /\ frozen[h] # "NONE" => frozen'[h] = frozen[h]
  /\ \A c \in Captures : /\ attempts[c] \subseteq attempts'[c]
                         /\ diags[c] \subseteq diags'[c]
                         /\ owner[c] # NoThread => owner'[c] = owner[c]
  /\ observed \subseteq observed' /\ limitFlag \subseteq limitFlag'

ExecutorGrows ==
  \A h \in Hooks :
    /\ stage[h] # "UNUSED" => stage'[h] # "UNUSED" /\ origin'[h] = origin[h]
    /\ stage[h] = "RETURNED" => stage'[h] = "RETURNED"
    /\ stage[h] = "FAILED" => stage'[h] = "FAILED"
    /\ stage[h] = "FAILING" => stage'[h] \in {"FAILING", "FAILED"}
    /\ origin'[h] # origin[h] => lifecycle'[h] = lifecycle[h] /\ stage[h] = "UNUSED"

(* No step takes back what the collector has recorded.                     *)
LEMMA CollectorGrowsStep ==
  ASSUME CollectorAssumption, TypeInv, [Next]_vars
  PROVE  CollectorGrows
<1>0. /\ DOMAIN attempts = Captures /\ DOMAIN diags = Captures /\ DOMAIN owner = Captures
      /\ DOMAIN lifecycle = Hooks /\ DOMAIN frozen = Hooks
  BY DEF TypeInv, SharedTypes
<1> USE <1>0 DEF CollectorGrows, AddDiag
<1>1. CASE UNCHANGED vars
  BY <1>1 DEF vars, registryVars, captureVars, hookVars, closeVars
<1>2. ASSUME NEW t \in Threads, NEW c \in Captures, Open(t, c)
      PROVE  CollectorGrows
  BY <1>2 DEF Open, captureVars, hookVars, closeVars
<1>3. ASSUME NEW t \in Threads, NEW threw \in BOOLEAN, BeginClose(t, threw)
      PROVE  CollectorGrows
  BY <1>3 DEF BeginClose, hookVars, closeVars
<1>7. ASSUME NEW t \in Threads, NEW c \in Captures \cup {NoCapture}, Replay(t, c)
      PROVE  CollectorGrows
  BY <1>7 DEF Replay, captureVars, hookVars, closeVars
<1>4. ASSUME NEW t \in Threads, NEW h \in Hooks,
             \/ \E input \in StartInputs : StartCall(t, h, input)
             \/ \E input \in FinishInputs : FinishCall(t, h, input)
             \/ StartMisuse(t, h)
             \/ FinishMisuse(t, h)
      PROVE  CollectorGrows
  BY <1>4 DEF StartCall, FinishCall, StartMisuse, FinishMisuse, registryVars,
     captureVars, hookVars, closeVars
<1>5. ASSUME NEW t \in Threads, HookStep(t)
      PROVE  CollectorGrows
  <2>1. Observe(t) => CollectorGrows
    BY DEF Observe, registryVars, hookVars, closeVars
  <2>2. RecordArgument(t) => CollectorGrows
    BY DEF RecordArgument, registryVars, hookVars, closeVars
  <2>3. CheckClosed(t) => CollectorGrows
    BY DEF CheckClosed, registryVars, captureVars, hookVars, closeVars
  <2>4. Count(t) => CollectorGrows
    BY DEF Count, registryVars, hookVars, closeVars
  <2>5. Limit(t) => CollectorGrows
    BY DEF Limit, registryVars, hookVars, closeVars
  <2>6. Retain(t) => CollectorGrows
    BY DEF Retain, registryVars, closeVars
  <2>7. Record(t) => CollectorGrows
    BY DEF Record, registryVars, hookVars, closeVars
  <2>8. RecordCause(t) => CollectorGrows
    BY DEF RecordCause, registryVars, hookVars, closeVars
  <2>9. Complete(t) => CollectorGrows
    BY DEF Complete, registryVars, captureVars, closeVars
  <2> QED
    BY <1>5, <2>1, <2>2, <2>3, <2>4, <2>5, <2>6, <2>7, <2>8, <2>9 DEF HookStep
<1>6. ASSUME NEW t \in Threads, CloseStep(t)
      PROVE  CollectorGrows
  <2>1. ASSUME CloseFlag(t)
        PROVE  CollectorGrows
    <3>1. /\ UNCHANGED <<lifecycle, frozen, attempts, owner, observed, limitFlag>>
          /\ diags' = diags \/ AddDiag(cap[t], "RC_DUPLICATE_CLOSE")
      BY <2>1 DEF CloseFlag, registryVars, hookVars, closeVars
    <3>2. \A c \in Captures : diags[c] \subseteq diags'[c]
      BY <3>1
    <3> QED BY <3>1, <3>2
  <2>2. ASSUME NEW interrupt \in BOOLEAN, CloseChecks(t, interrupt)
        PROVE  CollectorGrows
    BY <2>2 DEF CloseChecks, registryVars, hookVars, closeVars
  <2>3. ASSUME NEW h \in Hooks, Freeze(t, h)
        PROVE  CollectorGrows
    BY <2>3 DEF Freeze, registryVars, captureVars, hookVars
  <2>5. EndFreeze(t) => CollectorGrows
    BY DEF EndFreeze, registryVars, captureVars, hookVars, closeVars
  <2>6. Assemble(t) => CollectorGrows
    BY DEF Assemble, registryVars, captureVars, hookVars
  <2>4. Remove(t) => CollectorGrows
    BY DEF Remove, captureVars, hookVars, closeVars
  <2> QED BY <1>6, <2>1, <2>2, <2>3, <2>4, <2>5, <2>6 DEF CloseStep
<1> QED BY <1>1, <1>2, <1>3, <1>4, <1>5, <1>6, <1>7 DEF Next

(* No step takes an execution back to an earlier stage.                    *)
LEMMA ExecutorGrowsStep ==
  ASSUME SystemAssumption, SystemTypeOK, [SystemNext]_systemVars
  PROVE  ExecutorGrows
<1>0. /\ DOMAIN stage = Hooks /\ DOMAIN origin = Hooks
      /\ Callers \subseteq Threads /\ Workers \subseteq Threads
  BY DEF SystemTypeOK, SystemAssumption
<1> USE <1>0 DEF ExecutorGrows
<1>1. CASE UNCHANGED <<stage, origin>>
  BY <1>1
<1>2. ASSUME NEW t \in Callers, CallerStep(t)
      PROVE  ExecutorGrows
  <2>1. ASSUME NEW S \in SUBSET Hooks, NEW trunk \in Hooks, Submit(t, S, trunk)
        PROVE  ExecutorGrows
    BY <2>1 DEF Submit, vars, hookVars
  <2>2. ASSUME \/ \E c \in Captures : OpenCapture(t, c)
               \/ \E threw \in BOOLEAN : EndAction(t, threw)
               \/ Join(t) \/ LeaveEarly(t) \/ Interrupt(t)
        PROVE  UNCHANGED <<stage, origin>>
    BY <2>2 DEF OpenCapture, EndAction, Join, LeaveEarly, Interrupt, executorVars
  <2> QED BY <1>1, <1>2, <2>1, <2>2 DEF CallerStep
<1>3. ASSUME NEW w \in Workers, NEW h \in Hooks, Take(w, h)
      PROVE  ExecutorGrows
  BY <1>3 DEF Take
<1>4. ASSUME NEW t \in Threads, ExecutionStep(t)
      PROVE  ExecutorGrows
  BY <1>1, <1>4 DEF ExecutionStep, Start, Finish, Vanish, EndTask, executorVars
<1>5. ASSUME NEW t \in Threads, CollectorStep(t)
      PROVE  ExecutorGrows
  BY <1>1, <1>5 DEF CollectorStep, executorVars
<1>6. UNCHANGED systemVars => UNCHANGED <<stage, origin>>
  BY DEF systemVars, executorVars
<1> QED BY <1>1, <1>2, <1>3, <1>4, <1>5, <1>6 DEF SystemNext

(* A step of t outside the callbacks: it may enter one, of its own task.   *)
Away(t) ==
  /\ Mine(t) /\ pc[t] \notin CallbackLabels
  /\ UNCHANGED <<retained, limitFlag, observed, attempts, completion, inFlight>>
  /\ \A c \in registry' \ registry : owner[c] = NoThread
  /\ \A h \in Hooks \ {task[t]} : lifecycle'[h] = lifecycle[h]
  /\ pc'[t] \in CallbackLabels =>
       /\ hk'[t] = task[t] /\ task[t] \in Hooks
       /\ pc'[t] \in {"observe", "recordCause", "complete"}
       /\ pc'[t] = "observe" =>
            lifecycle[task[t]] = "NEW" /\ lifecycle'[task[t]] = "STARTED"
       /\ pc'[t] # "observe" => inFlight[task[t]] # NoCapture
  /\ task[t] \in Hooks /\ lifecycle[task[t]] = "NEW" /\ lifecycle'[task[t]] # "NEW" =>
       pc'[t] = "observe" \/ ctx[t] \notin registry

(* Outside the callbacks no step counts, retains or completes anything.    *)
LEMMA AwaySteps ==
  ASSUME SystemAssumption, CollectorAssumption, SystemInv, NEW t \in Threads
  PROVE  /\ t \in Callers /\ CallerStep(t) => Away(t) \/ UNCHANGED vars
         /\ ExecutionStep(t) => Away(t)
         /\ \A h \in Hooks : Take(t, h) => Away(t)
         /\ CollectorStep(t) => HookStep(t) \/ Away(t)
<1>0. /\ TypeInv
      /\ DOMAIN pc = Threads /\ DOMAIN cap = Threads /\ DOMAIN hk = Threads
      /\ DOMAIN detail = Threads /\ DOMAIN lifecycle = Hooks
      /\ task[t] # NoHook => task[t] \in Hooks
  BY DEF SystemInv, SystemTypeOK, EvidenceInv, TypeInv, SharedTypes, ThreadInv, ThreadTypes
<1>1. ASSUME /\ UNCHANGED <<retained, limitFlag, observed, attempts, hookVars, threadVars>>
             /\ pc[t] = "idle" /\ \A c \in registry' \ registry : owner[c] = NoThread
      PROVE  Away(t)
  BY <1>1 DEF Away, Mine, hookVars, threadVars, CallbackLabels, HookLabels
<1>2. ASSUME t \in Callers, CallerStep(t)
      PROVE  Away(t) \/ UNCHANGED vars
  <2>1. ASSUME NEW c \in Captures, OpenCapture(t, c)
        PROVE  Away(t)
    BY <1>1, <2>1 DEF OpenCapture, Open, Idle, captureVars
  <2>2. ASSUME NEW threw \in BOOLEAN, EndAction(t, threw)
        PROVE  Away(t)
    <3>1. /\ UNCHANGED <<registry, retained, limitFlag, observed, attempts, hookVars>>
          /\ pc[t] = "idle" /\ Call(t, "closeFlag", scope[t], NoHook, "none")
      BY <2>2 DEF EndAction, BeginClose, Idle
    <3>2. Mine(t) /\ pc'[t] = "closeFlag"
      BY <1>0, <3>1 DEF Call, Mine
    <3> QED BY <3>1, <3>2 DEF Away, hookVars, CallbackLabels, HookLabels
  <2>3. ASSUME \/ \E S \in SUBSET Hooks, trunk \in Hooks : Submit(t, S, trunk)
               \/ Join(t) \/ LeaveEarly(t)
        PROVE  Away(t)
    BY <1>1, <2>3 DEF Submit, AtRest, Join, LeaveEarly, Idle, vars, captureVars,
       registryVars
  <2>4. Interrupt(t) => UNCHANGED vars
    BY DEF Interrupt
  <2> QED BY <1>2, <2>1, <2>2, <2>3, <2>4 DEF CallerStep
<1>3. ASSUME NEW input \in StartInputs, Start(t, input)
      PROVE  Away(t)
  <2>1. /\ UNCHANGED <<retained, limitFlag, observed, attempts, completion, inFlight>>
        /\ registry' = registry
        /\ lifecycle[task[t]] = "NEW" /\ pc[t] = "idle" /\ task[t] \in Hooks
        /\ lifecycle' = [lifecycle EXCEPT ![task[t]] = "STARTED"]
        /\ IF HasCapture(t) THEN Call(t, "observe", ctx[t], task[t], input)
           ELSE UNCHANGED threadVars
    BY <1>0, <1>3 DEF Start, StartCall, Idle, MayStart, captureVars, registryVars
  <2>2. CASE HasCapture(t)
    <3>1. /\ Mine(t) /\ pc'[t] = "observe" /\ hk'[t] = task[t]
      BY <1>0, <2>1, <2>2 DEF Call, Mine
    <3>2. lifecycle'[task[t]] = "STARTED" /\ \A h \in Hooks \ {task[t]} : lifecycle'[h] = lifecycle[h]
      BY <1>0, <2>1
    <3>3. pc[t] \notin CallbackLabels
      BY <2>1 DEF CallbackLabels, HookLabels
    <3> QED BY <2>1, <3>1, <3>2, <3>3 DEF Away
  <2>3. CASE ~HasCapture(t)
    BY <1>0, <2>1, <2>3 DEF HasCapture, Away, Mine, threadVars, CallbackLabels, HookLabels
  <2> QED BY <2>2, <2>3
<1>4. ASSUME NEW input \in FinishInputs, Finish(t, input)
      PROVE  Away(t)
  <2>1. /\ UNCHANGED <<retained, limitFlag, observed, attempts, completion, inFlight>>
        /\ registry' = registry
        /\ lifecycle[task[t]] = "STARTED" /\ pc[t] = "idle" /\ task[t] \in Hooks
        /\ lifecycle' = [lifecycle EXCEPT ![task[t]] = "FINISHED"]
        /\ \/ UNCHANGED threadVars
           \/ \E l \in {"recordCause", "complete"} : inFlight[task[t]] # NoCapture /\
                Call(t, l, inFlight[task[t]], task[t], input)
    BY <1>0, <1>4 DEF Finish, FinishCall, Idle, captureVars, registryVars
  <2>2. ASSUME NEW l \in {"recordCause", "complete"}, inFlight[task[t]] # NoCapture,
               Call(t, l, inFlight[task[t]], task[t], input)
        PROVE  Away(t)
    <3>1. /\ Mine(t) /\ pc'[t] \in {"recordCause", "complete"} /\ hk'[t] = task[t]
      BY <1>0, <2>2 DEF Call, Mine
    <3>2. \A h \in Hooks \ {task[t]} : lifecycle'[h] = lifecycle[h]
      BY <1>0, <2>1
    <3>3. pc[t] \notin CallbackLabels
      BY <2>1 DEF CallbackLabels, HookLabels
    <3> QED BY <2>1, <2>2, <3>1, <3>2, <3>3 DEF Away
  <2>3. CASE UNCHANGED threadVars
    BY <1>0, <2>1, <2>3 DEF Away, Mine, threadVars, CallbackLabels, HookLabels
  <2> QED BY <2>1, <2>2, <2>3
<1>5. ASSUME Vanish(t) \/ EndTask(t) \/ \E h \in Hooks : Take(t, h)
      PROVE  Away(t)
  <2>1. /\ UNCHANGED <<retained, limitFlag, observed, attempts, hookVars, threadVars>>
        /\ pc[t] = "idle" /\ registry' = registry
    BY <1>5 DEF Vanish, EndTask, Take, Replay, Idle, vars, captureVars, registryVars
  <2> QED BY <1>1, <2>1
<1>6. ASSUME CollectorStep(t), ~HookStep(t)
      PROVE  Away(t)
  <2>1. CloseStep(t) /\ Closes(t)
    BY <1>0, <1>6, CollectorClient, CloseCloses
  <2>2. UNCHANGED <<retained, limitFlag, observed>> /\ registry' \subseteq registry
    BY <2>1 DEF CloseStep, CloseFlag, CloseChecks, Freeze, EndFreeze, Assemble, Remove,
       captureVars, registryVars
  <2> QED
    BY <2>1, <2>2 DEF Closes, Away, CloseLabels, CallbackLabels, HookLabels
<1> QED BY <1>2, <1>3, <1>4, <1>5, <1>6 DEF ExecutionStep

(* So a step of the system is one inside a callback, one outside all of    *)
(* them, or one that leaves the collector alone.                           *)
LEMMA StepKinds ==
  ASSUME SystemAssumption, CollectorAssumption, SystemInv, [SystemNext]_systemVars
  PROVE  \/ UNCHANGED vars
         \/ \E t \in Threads : Away(t)
         \/ \E t \in Threads : HookStep(t) /\ Carries(t) /\ Mine(t)
<1>0. Callers \subseteq Threads /\ Workers \subseteq Threads /\ TypeInv
  BY DEF SystemAssumption, SystemInv, EvidenceInv
<1>1. ASSUME NEW t \in Callers, CallerStep(t)
      PROVE  Away(t) \/ UNCHANGED vars
  BY <1>0, <1>1, AwaySteps
<1>2. ASSUME NEW w \in Workers, NEW h \in Hooks, Take(w, h)
      PROVE  Away(w)
  BY <1>0, <1>2, AwaySteps
<1>3. ASSUME NEW t \in Threads, ExecutionStep(t)
      PROVE  Away(t)
  BY <1>3, AwaySteps
<1>4. ASSUME NEW t \in Threads, CollectorStep(t)
      PROVE  Away(t) \/ (HookStep(t) /\ Carries(t) /\ Mine(t))
  <2>1. CASE HookStep(t)
    BY <1>0, <2>1, HookCarries DEF Carries
  <2>2. HookStep(t) \/ Away(t)
    BY <1>4, AwaySteps
  <2> QED BY <2>1, <2>2
<1>5. UNCHANGED systemVars => UNCHANGED vars
  BY DEF systemVars
<1> QED BY <1>0, <1>1, <1>2, <1>3, <1>4, <1>5 DEF SystemNext

-----------------------------------------------------------------------------
(* RC-10: the limit is only exceeded by a capture with more executions.    *)
PreCount == {"observe", "recordArgument", "checkClosed", "count"}

Counted(c) ==
  {h \in Of(c) : /\ lifecycle[h] # "NEW"
                 /\ \A t \in Threads : hk[t] = h => pc[t] \notin PreCount}

CountOK(c) ==
  /\ retained[c] <= Cardinality(Counted(c))
  /\ c \in limitFlag => retained[c] > MaxRetained
  /\ \A t \in Threads : pc[t] = "limit" /\ cap[t] = c => retained[c] > MaxRetained

CountInv == \A c \in Captures : CountOK(c)

(* The started executions of a capture are finitely many.                  *)
LEMMA CountedFinite ==
  ASSUME CollectorAssumption, NEW c
  PROVE  IsFiniteSet(Counted(c)) /\ Cardinality(Counted(c)) \in Nat
<1>1. Counted(c) \subseteq Hooks
  BY DEF Counted, Of
<1> QED BY <1>1, FS_Subset, FS_CardinalityType DEF CollectorAssumption

(* An execution that is counted stays counted.                             *)
Uncounts(t) ==
  /\ Mine(t)
  /\ pc'[t] \in PreCount =>
       \/ pc[t] \in PreCount /\ hk'[t] = hk[t]
       \/ hk'[t] \in Hooks /\ lifecycle[hk'[t]] = "NEW"

(* What has been counted stays counted.                                    *)
LEMMA CountedKept ==
  ASSUME SystemInv, CollectorGrows, ExecutorGrows, NEW c \in Captures,
         NEW h \in Counted(c),
         UNCHANGED vars \/ \E t \in Threads : Uncounts(t)
  PROVE  h \in Counted(c)'
<1>1. /\ h \in Hooks /\ origin[h] = c /\ lifecycle[h] # "NEW"
      /\ \A t \in Threads : hk[t] = h => pc[t] \notin PreCount
  BY DEF Counted, Of
<1>2. stage[h] # "UNUSED"
  BY <1>1 DEF SystemInv, ClientInv, PlaceInv, PlaceOK
<1>3. origin'[h] = c /\ lifecycle'[h] # "NEW"
  BY <1>1, <1>2 DEF CollectorGrows, ExecutorGrows
<1>4. ASSUME NEW u \in Threads, hk'[u] = h
      PROVE  pc'[u] \notin PreCount
  <2>1. CASE UNCHANGED vars
    BY <1>1, <1>4, <2>1 DEF vars, threadVars
  <2>2. ASSUME NEW t \in Threads, Uncounts(t)
        PROVE  pc'[u] \notin PreCount
    <3>1. CASE u = t
      BY <1>1, <1>4, <2>2, <3>1 DEF Uncounts
    <3>2. CASE u # t
      BY <1>1, <1>4, <2>2, <3>2 DEF Uncounts, Mine
    <3> QED BY <3>1, <3>2
  <2> QED BY <2>1, <2>2
<1> QED BY <1>1, <1>3, <1>4 DEF Counted, Of

(* Only the step at "limit" flags a capture.                               *)
LimitOnly(t) ==
  \/ limitFlag' = limitFlag
  \/ pc[t] = "limit" /\ limitFlag' = limitFlag \cup {cap[t]}

(* The arithmetic of a bound that is passed on.                            *)
LEMMA AtLeast ==
  \A n, m, r \in Nat : n <= m /\ m <= r => n <= r
OBVIOUS

(* A step that does not count keeps what the count stands for.             *)
LEMMA CountKept ==
  ASSUME CollectorAssumption, SystemInv, CollectorGrows, ExecutorGrows, CountInv,
         retained' = retained,
         UNCHANGED vars \/ \E t \in Threads :
           Uncounts(t) /\ pc'[t] # "limit" /\ LimitOnly(t)
  PROVE  CountInv'
<1> SUFFICES ASSUME NEW c \in Captures
             PROVE  CountOK(c)'
  BY DEF CountInv
<1>1. CountOK(c) /\ retained[c] \in Nat
  BY DEF CountInv, SystemInv, EvidenceInv, TypeInv, SharedTypes
<1>2. retained'[c] <= Cardinality(Counted(c)')
  <2>1. Counted(c) \subseteq Counted(c)'
    BY CountedKept
  <2>2. IsFiniteSet(Counted(c)) /\ Cardinality(Counted(c)) \in Nat
    BY CountedFinite
  <2>3. IsFiniteSet(Counted(c)') /\ Cardinality(Counted(c)') \in Nat
    <3>1. Counted(c)' \subseteq Hooks
      BY DEF Counted, Of
    <3> QED BY <3>1, FS_Subset, FS_CardinalityType DEF CollectorAssumption
  <2>4. Cardinality(Counted(c)) <= Cardinality(Counted(c)')
    BY <2>1, <2>3, FS_Subset
  <2> QED BY <1>1, <2>2, <2>3, <2>4, AtLeast DEF CountOK
<1>3. c \in limitFlag' => retained'[c] > MaxRetained
  BY <1>1 DEF CountOK, LimitOnly, vars, captureVars
<1>4. ASSUME NEW u \in Threads, pc'[u] = "limit", cap'[u] = c
      PROVE  pc[u] = "limit" /\ cap[u] = c
  BY <1>4 DEF Uncounts, Mine, vars, threadVars
<1> QED BY <1>1, <1>2, <1>3, <1>4 DEF CountOK

(* The arithmetic of an increment, below and above a bound.                *)
LEMMA OneMore ==
  /\ \A n, r, k, m \in Nat : n <= r /\ k = r + 1 /\ k <= m => n + 1 <= m
  /\ \A n, m \in Nat : n > m => n + 1 > m
OBVIOUS

(* The step that counts adds its execution to those that are counted.      *)
LEMMA CountCounts ==
  ASSUME CollectorAssumption, SystemInv, CollectorGrows, ExecutorGrows, CountInv,
         NEW t \in Threads, Count(t), Mine(t)
  PROVE  CountInv'
<1>1. PICK h \in Hooks : h = hk[t] /\ h \in Of(cap[t]) /\ cap[t] \in Captures
  BY OwnHook DEF Count, CallbackLabels, HookLabels
<1>2. /\ pc[t] = "count" /\ retained' = [retained EXCEPT ![cap[t]] = @ + 1]
      /\ pc'[t] = IF OverLimit(retained[cap[t]] + 1) THEN "limit" ELSE "retain"
      /\ hk'[t] = hk[t] /\ cap'[t] = cap[t] /\ limitFlag' = limitFlag
  BY DEF Count, Goto, SystemInv, EvidenceInv, TypeInv, ThreadInv, ThreadTypes
<1>3. /\ retained \in [Captures -> Nat] /\ MaxRetained \in Nat
      /\ \A c \in Captures : CountOK(c)
  BY DEF SystemInv, EvidenceInv, TypeInv, SharedTypes, CollectorAssumption, CountInv
<1>4. Uncounts(t)
  BY <1>2 DEF Uncounts, PreCount
<1>5. ASSUME NEW c \in Captures
      PROVE  CountOK(c)'
  <2>1. /\ IsFiniteSet(Counted(c)) /\ Cardinality(Counted(c)) \in Nat
        /\ IsFiniteSet(Counted(c)') /\ Cardinality(Counted(c)') \in Nat
    <3>1. Counted(c)' \subseteq Hooks
      BY DEF Counted, Of
    <3> QED BY <3>1, CountedFinite, FS_Subset, FS_CardinalityType DEF CollectorAssumption
  <2>2. Counted(c) \subseteq Counted(c)'
    BY <1>4, CountedKept
  <2>3. CASE c = cap[t]
    <3>1. h \notin Counted(c) /\ h \in Counted(c)'
      <4>1. h \notin Counted(c)
        BY <1>1, <1>2 DEF Counted, PreCount
      <4>2. lifecycle[h] # "NEW" /\ stage[h] # "UNUSED"
        BY <1>1, <1>2 DEF SystemInv, EvidenceInv, HookInv, StartInv, Starting,
           ClientInv, PlaceInv, PlaceOK
      <4>3. origin'[h] = c /\ lifecycle'[h] # "NEW"
        BY <1>1, <2>3, <4>2 DEF CollectorGrows, ExecutorGrows, Of
      <4>4. ASSUME NEW u \in Threads, hk'[u] = h
            PROVE  pc'[u] \notin PreCount
        <5>1. u = t
          BY <1>1, <4>4 DEF Mine, SystemInv, EvidenceInv, HookInv, Unshared
        <5> QED BY <1>2, <5>1 DEF PreCount
      <4> QED BY <4>1, <4>3, <4>4 DEF Counted, Of
    <3>2. /\ Cardinality(Counted(c) \cup {h}) = Cardinality(Counted(c)) + 1
          /\ Cardinality(Counted(c) \cup {h}) <= Cardinality(Counted(c)')
          /\ Cardinality(Counted(c) \cup {h}) \in Nat
      <4>1. Counted(c) \cup {h} \subseteq Counted(c)'
        BY <2>2, <3>1
      <4> QED BY <2>1, <3>1, <4>1, FS_AddElement, FS_Subset, FS_CardinalityType
    <3>3. retained[c] <= Cardinality(Counted(c)) /\ retained[c] \in Nat
      BY <1>3 DEF CountOK
    <3>4. retained[c] + 1 <= Cardinality(Counted(c)')
      BY <2>1, <3>2, <3>3, OneMore
    <3>5. retained'[c] = retained[c] + 1
      BY <1>2, <1>3, <2>3
    <3>6. pc'[t] = "limit" => retained'[c] > MaxRetained
      BY <1>2, <1>3, <2>3, <3>5 DEF OverLimit
    <3>7. retained[c] > MaxRetained => retained'[c] > MaxRetained
      <4>1. retained[c] \in Nat /\ MaxRetained \in Nat
        BY <1>3, <3>3
      <4>2. retained[c] > MaxRetained => retained[c] + 1 > MaxRetained
        BY <4>1, OneMore
      <4> QED BY <3>5, <4>2
    <3>8. ASSUME NEW u \in Threads, pc'[u] = "limit", cap'[u] = c
          PROVE  retained'[c] > MaxRetained
      <4>1. CASE u = t
        BY <3>6, <3>8, <4>1
      <4>2. CASE u # t
        <5>1. pc[u] = "limit" /\ cap[u] = c
          BY <3>8, <4>2 DEF Mine
        <5> QED BY <1>3, <3>7, <5>1 DEF CountOK
      <4> QED BY <4>1, <4>2
    <3>9. c \in limitFlag' => retained'[c] > MaxRetained
      BY <1>2, <1>3, <3>7 DEF CountOK
    <3> QED BY <3>4, <3>5, <3>8, <3>9 DEF CountOK
  <2>4. CASE c # cap[t]
    <3>1. retained'[c] = retained[c] /\ retained[c] \in Nat
      BY <1>2, <1>3, <2>4
    <3>2. Cardinality(Counted(c)) <= Cardinality(Counted(c)')
      BY <2>1, <2>2, FS_Subset
    <3>3. retained'[c] <= Cardinality(Counted(c)')
      BY <1>3, <2>1, <3>1, <3>2, AtLeast DEF CountOK
    <3>4. ASSUME NEW u \in Threads, pc'[u] = "limit", cap'[u] = c
          PROVE  retained'[c] > MaxRetained
      <4>1. u # t
        BY <1>2, <2>4, <3>4
      <4>2. pc[u] = "limit" /\ cap[u] = c
        BY <3>4, <4>1 DEF Mine
      <4> QED BY <1>3, <3>1, <4>2 DEF CountOK
    <3> QED BY <1>2, <1>3, <3>1, <3>3, <3>4 DEF CountOK
  <2> QED BY <2>3, <2>4
<1> QED BY <1>5 DEF CountInv

(* Every step keeps the counters right.                                    *)
LEMMA CountStep ==
  ASSUME SystemAssumption, CollectorAssumption, SystemInv, CollectorGrows, ExecutorGrows,
         CountInv, [SystemNext]_systemVars
  PROVE  CountInv'
<1>1. CASE UNCHANGED vars
  BY <1>1, CountKept DEF vars, captureVars
<1>2. ASSUME NEW t \in Threads, Away(t)
      PROVE  CountInv'
  <2>1. Uncounts(t) /\ pc'[t] # "limit"
    BY <1>2 DEF Away, Uncounts, PreCount, CallbackLabels, HookLabels
  <2>2. retained' = retained /\ limitFlag' = limitFlag
    BY <1>2 DEF Away
  <2>3. \E u \in Threads :
          Uncounts(u) /\ pc'[u] # "limit" /\ LimitOnly(u)
    BY <2>1, <2>2 DEF LimitOnly
  <2> QED BY <2>2, <2>3, CountKept
<1>3. ASSUME NEW t \in Threads, HookStep(t), Carries(t), Mine(t)
      PROVE  CountInv'
  <2>1. CASE Count(t)
    BY <1>3, <2>1, CountCounts
  <2>2. CASE ~Count(t)
    <3>0. DOMAIN pc = Threads
      BY DEF SystemInv, EvidenceInv, TypeInv, ThreadInv, ThreadTypes
    <3>1. pc'[t] # "limit" /\ retained' = retained
      BY <1>3, <2>2, <3>0 DEF HookStep, Observe, StartFailure, RecordArgument, CheckClosed,
         Limit, Retain, Record, RecordCause, Complete, Goto, Return, Call, captureVars
    <3>2. pc'[t] \in PreCount => pc[t] \in PreCount /\ hk'[t] = hk[t]
      BY <1>3, <2>2, <3>0 DEF HookStep, Observe, StartFailure, RecordArgument, CheckClosed,
         Limit, Retain, Record, RecordCause, Complete, Goto, Return, Call, PreCount
    <3>3. LimitOnly(t)
      <4>1. CASE Limit(t)
        BY <4>1 DEF Limit, LimitOnly
      <4>2. CASE ~Limit(t)
        <5>1. \/ Observe(t) \/ RecordArgument(t) \/ CheckClosed(t) \/ Retain(t)
              \/ Record(t) \/ RecordCause(t) \/ Complete(t)
          BY <1>3, <2>2, <4>2 DEF HookStep
        <5> QED BY <5>1 DEF Observe, RecordArgument, CheckClosed,
           Retain, Record, RecordCause, Complete, captureVars, LimitOnly
      <4> QED BY <4>1, <4>2
    <3> QED BY <1>3, <3>1, <3>2, <3>3, CountKept DEF Uncounts
  <2> QED BY <2>1, <2>2
<1> QED BY <1>1, <1>2, <1>3, StepKinds

-----------------------------------------------------------------------------
(* A start callback that has returned left something in its capture: an    *)
(* attempt, a diagnostic, or the flag of a thread about to record one.     *)
Telling == Starting \cup {"record"}

Told(h) == lifecycle[h] # "NEW" /\ \A t \in Threads : hk[t] = h => pc[t] \notin Telling

Noticed(c, h) == h \in attempts[c] \/ diags[c] # {} \/ c \in limitFlag

LossInv ==
  /\ \A h \in Hooks : origin[h] \in Captures => owner[origin[h]] # NoThread
  /\ \A c \in observed : \E h \in Of(c) : lifecycle[h] # "NEW"
  /\ \A c \in registry : \A h \in Of(c) : Told(h) => Noticed(c, h)
  /\ \A c \in limitFlag :
       diags[c] # {} \/ \E t \in Threads : pc[t] = "record" /\ cap[t] = c

(* Outside its close, a caller that sees a token runs that capture.        *)
LEMMA CallerContext ==
  ASSUME SystemAssumption, CollectorAssumption, SystemInv, NEW t \in Callers,
         ctx[t] \in Captures
  PROVE  /\ scope[t] = ctx[t] /\ owner[ctx[t]] = t /\ t # NoThread
         /\ pc[t] \notin CloseLabels
<1>1. t \in Threads /\ t # NoThread /\ NoCapture \notin Captures
  BY DEF SystemAssumption, CollectorAssumption
<1>2. scope[t] # NoCapture /\ pc[t] \notin CloseLabels
  BY <1>1 DEF SystemInv, ClientInv, ContextInv
<1> QED BY <1>1, <1>2 DEF SystemInv, EvidenceInv, OwnerInv, ScopeInv, Scoped, Running

(* Executions keep being submitted under captures that have been opened.   *)
LEMMA OwnedStep ==
  ASSUME SystemAssumption, CollectorAssumption, SystemInv, CollectorGrows, LossInv,
         [SystemNext]_systemVars
  PROVE  \A h \in Hooks : origin'[h] \in Captures => owner'[origin'[h]] # NoThread
<1>0. NoThread \notin Threads /\ Callers \subseteq Threads
  BY DEF SystemAssumption, CollectorAssumption
<1>1. ASSUME UNCHANGED origin, NEW h \in Hooks, origin'[h] \in Captures
      PROVE  owner'[origin'[h]] # NoThread
  BY <1>1 DEF LossInv, CollectorGrows
<1>2. ASSUME NEW t \in Callers, NEW S \in SUBSET Hooks, NEW trunk \in Hooks,
             Submit(t, S, trunk), NEW h \in Hooks, origin'[h] \in Captures
      PROVE  owner'[origin'[h]] # NoThread
  <2>1. origin'[h] \in {origin[h], ctx[t]} /\ UNCHANGED owner
    BY <1>2 DEF Submit, vars, registryVars
  <2>2. CASE origin'[h] = origin[h]
    BY <1>2, <2>1, <2>2 DEF LossInv
  <2>3. CASE origin'[h] = ctx[t]
    BY <1>0, <1>2, <2>1, <2>3, CallerContext
  <2> QED BY <2>1, <2>2, <2>3
<1>3. ASSUME NEW t \in Callers, CallerStep(t)
      PROVE  \A h \in Hooks : origin'[h] \in Captures => owner'[origin'[h]] # NoThread
  <2>1. ASSUME \/ \E c \in Captures : OpenCapture(t, c)
               \/ \E threw \in BOOLEAN : EndAction(t, threw)
               \/ Join(t) \/ LeaveEarly(t) \/ Interrupt(t)
        PROVE  UNCHANGED origin
    BY <2>1 DEF OpenCapture, EndAction, Join, LeaveEarly, Interrupt, executorVars
  <2> QED BY <1>1, <1>2, <1>3, <2>1 DEF CallerStep
<1>4. ASSUME NEW w \in Workers, NEW h \in Hooks, Take(w, h)
      PROVE  UNCHANGED origin
  BY <1>4 DEF Take
<1>5. ASSUME NEW t \in Threads, ExecutionStep(t) \/ CollectorStep(t)
      PROVE  UNCHANGED origin
  BY <1>5 DEF ExecutionStep, CollectorStep, Start, Finish, Vanish, EndTask, executorVars
<1>6. UNCHANGED systemVars => UNCHANGED origin
  BY DEF systemVars, executorVars
<1> QED BY <1>1, <1>3, <1>4, <1>5, <1>6 DEF SystemNext

(* What the steps inside a callback leave behind.                          *)
LEMMA HookTells ==
  ASSUME CollectorAssumption, SystemInv, NEW t \in Threads, HookStep(t)
  PROVE  /\ UNCHANGED registry
         /\ observed' \subseteq observed \cup {cap[t]}
         /\ observed' # observed => pc[t] = "observe"
         /\ limitFlag' \subseteq limitFlag \cup {cap[t]}
         /\ cap[t] \in limitFlag' \ limitFlag =>
              pc'[t] = "record" /\ cap'[t] = cap[t]
         /\ pc[t] = "record" => diags'[cap[t]] # {}
         /\ pc[t] \in Telling =>
              \/ pc'[t] \in Telling /\ hk'[t] = hk[t]
              \/ hk[t] \in attempts'[cap[t]] \/ diags'[cap[t]] # {}
              \/ cap[t] \in limitFlag
<1>0. /\ DOMAIN pc = Threads /\ DOMAIN attempts = Captures /\ DOMAIN diags = Captures
      /\ cap[t] \in Captures
  <2>1. Carries(t)
    BY HookCarries DEF SystemInv, EvidenceInv
  <2> QED BY <2>1, OwnHook DEF Carries, SystemInv, EvidenceInv, TypeInv, SharedTypes,
         ThreadInv, ThreadTypes
<1> USE <1>0 DEF Telling, Starting
<1>1. CASE Observe(t)
  BY <1>1 DEF Observe, StartFailure, Goto, registryVars
<1>2. CASE RecordArgument(t) \/ CheckClosed(t) \/ Count(t) \/ RecordCause(t)
  BY <1>2 DEF RecordArgument, CheckClosed, Count, RecordCause, Goto, registryVars, captureVars
<1>3. CASE Limit(t)
  BY <1>3 DEF Limit, Return, Call, Goto, registryVars
<1>4. CASE Retain(t)
  BY <1>4 DEF Retain, registryVars
<1>5. CASE Record(t)
  BY <1>5 DEF Record, AddDiag, registryVars
<1>6. CASE Complete(t)
  BY <1>6 DEF Complete, Return, Call, Goto, registryVars, captureVars
<1> QED BY <1>1, <1>2, <1>3, <1>4, <1>5, <1>6 DEF HookStep

(* The flag of a start callback keeps having an execution that was started.*)
LEMMA ObservedStep ==
  ASSUME SystemAssumption, CollectorAssumption, SystemInv, CollectorGrows, ExecutorGrows,
         LossInv, [SystemNext]_systemVars
  PROVE  \A c \in observed' : \E h \in Of(c)' : lifecycle'[h] # "NEW"
<1> SUFFICES ASSUME NEW c \in observed'
             PROVE  \E h \in Of(c)' : lifecycle'[h] # "NEW"
  OBVIOUS
<1>1. \E h \in Of(c) : lifecycle[h] # "NEW"
  <2>1. CASE c \in observed
    BY <2>1 DEF LossInv
  <2>2. CASE c \notin observed
    <3>1. ~UNCHANGED vars /\ \A t \in Threads : ~Away(t)
      BY <2>2 DEF vars, captureVars, Away
    <3>2. PICK t \in Threads : HookStep(t) /\ Carries(t) /\ Mine(t)
      BY <3>1, StepKinds
    <3>3. c = cap[t] /\ pc[t] = "observe"
      BY <2>2, <3>2, HookTells
    <3>4. hk[t] \in Of(c) /\ lifecycle[hk[t]] # "NEW"
      BY <3>3, OwnHook DEF CallbackLabels, HookLabels, SystemInv, EvidenceInv, HookInv,
         StartInv, Starting
    <3> QED BY <3>4
  <2> QED BY <2>1, <2>2
<1>2. PICK h \in Of(c) : lifecycle[h] # "NEW"
  BY <1>1
<1>3. lifecycle'[h] # "NEW" /\ h \in Of(c)'
  <2>1. stage[h] # "UNUSED"
    BY <1>2 DEF Of, SystemInv, ClientInv, PlaceInv, PlaceOK
  <2> QED BY <1>2, <2>1 DEF Of, CollectorGrows, ExecutorGrows
<1> QED BY <1>3

(* What has been told of an open capture keeps leaving a trace in it.      *)
LEMMA NoticedStep ==
  ASSUME SystemAssumption, CollectorAssumption, SystemInv, CollectorGrows, ExecutorGrows,
         LossInv, [SystemNext]_systemVars
  PROVE  \A c \in registry' : \A h \in Of(c)' : Told(h)' => Noticed(c, h)'
<1> SUFFICES ASSUME NEW c \in registry', NEW h \in Hooks, origin'[h] = c, Told(h)'
             PROVE  Noticed(c, h)'
  BY DEF Of
<1>0. registry' \subseteq Captures
  BY ClientStep, EvidenceStep DEF SystemInv, EvidenceInv, TypeInv, SharedTypes
<1>1. origin[h] = c /\ c \in Captures
  <2>1. lifecycle'[h] # "NEW"
    BY DEF Told
  <2>2. stage[h] = "UNUSED" => lifecycle[h] = "NEW"
    BY DEF SystemInv, ClientInv, PlaceInv, PlaceOK
  <2> QED BY <1>0, <2>1, <2>2 DEF ExecutorGrows
<1>2. ASSUME Noticed(c, h) PROVE Noticed(c, h)'
  BY <1>1, <1>2 DEF Noticed, CollectorGrows
<1>3. CASE UNCHANGED vars
  <2>1. c \in registry /\ Told(h)
    BY <1>3 DEF Told, vars, registryVars, hookVars, threadVars
  <2> QED BY <1>1, <1>2, <2>1 DEF LossInv, Of
<1>4. ASSUME NEW t \in Threads, Away(t)
      PROVE  Noticed(c, h)'
  <2>1. c \in registry
    <3>1. owner[c] # NoThread
      <4>1. \A k \in Hooks : origin[k] \in Captures => owner[origin[k]] # NoThread
        BY DEF LossInv
      <4> QED BY <1>1, <4>1
    <3> QED BY <1>4, <3>1 DEF Away
  <2>2. ASSUME NEW u \in Threads, hk[u] = h, pc[u] \in Telling
        PROVE  FALSE
    <3>1. u # t
      BY <1>4, <2>2 DEF Away, Telling, Starting, CallbackLabels, HookLabels
    <3> QED BY <1>4, <2>2, <3>1 DEF Told, Away, Mine
  <2>3. lifecycle[h] # "NEW"
    <3>1. SUFFICES ASSUME lifecycle[h] = "NEW" PROVE FALSE
      OBVIOUS
    <3>2. lifecycle'[h] # "NEW" /\ h = task[t]
      BY <1>4, <3>1 DEF Told, Away
    <3>3. pc'[t] = "observe" \/ ctx[t] \notin registry
      BY <1>4, <3>1, <3>2 DEF Away
    <3>4. ctx[t] = c
      BY <1>1, <3>2 DEF SystemInv, ClientInv, TaskInv, TaskOK, CollectorAssumption
    <3>5. pc'[t] = "observe" => hk'[t] = h
      BY <1>4, <3>2 DEF Away, CallbackLabels, HookLabels
    <3> QED BY <2>1, <3>3, <3>4, <3>5 DEF Told, Telling, Starting
  <2>4. Told(h)
    BY <2>2, <2>3 DEF Told
  <2> QED BY <1>1, <1>2, <2>1, <2>4 DEF LossInv, Of
<1>5. ASSUME NEW t \in Threads, HookStep(t), Carries(t), Mine(t)
      PROVE  Noticed(c, h)'
  <2>1. c \in registry
    BY <1>5, HookTells
  <2>2. lifecycle[h] # "NEW"
    BY <1>5 DEF Carries, Told
  <2>3. CASE Told(h)
    BY <1>1, <1>2, <2>1, <2>3 DEF LossInv, Of
  <2>4. CASE ~Told(h)
    <3>1. PICK u \in Threads : hk[u] = h /\ pc[u] \in Telling
      BY <2>2, <2>4 DEF Told
    <3>2. u = t
      BY <1>5, <3>1 DEF Told, Mine
    <3>3. cap[t] = c
      BY <1>1, <3>1, <3>2, OwnHook DEF Telling, Starting, CallbackLabels, HookLabels
    <3>4. h \in attempts'[c] \/ diags'[c] # {} \/ c \in limitFlag
      <4>1. \/ pc'[t] \in Telling /\ hk'[t] = hk[t]
            \/ hk[t] \in attempts'[cap[t]] \/ diags'[cap[t]] # {}
            \/ cap[t] \in limitFlag
        BY <1>5, <3>1, <3>2, HookTells
      <4> QED BY <3>1, <3>2, <3>3, <4>1 DEF Told
    <3> QED BY <3>4 DEF Noticed, CollectorGrows
  <2> QED BY <2>3, <2>4
<1> QED BY <1>3, <1>4, <1>5, StepKinds

(* The limit's flag keeps having its diagnostic, or a thread about to add  *)
(* it.                                                                     *)
LEMMA FlagStep ==
  ASSUME SystemAssumption, CollectorAssumption, SystemInv, CollectorGrows, LossInv,
         [SystemNext]_systemVars
  PROVE  \A c \in limitFlag' :
           diags'[c] # {} \/ \E t \in Threads : pc'[t] = "record" /\ cap'[t] = c
<1> SUFFICES ASSUME NEW c \in limitFlag', diags'[c] = {}
             PROVE  \E t \in Threads : pc'[t] = "record" /\ cap'[t] = c
  OBVIOUS
<1>0. limitFlag' \subseteq Captures
  BY ClientStep, EvidenceStep DEF SystemInv, EvidenceInv, TypeInv, SharedTypes
<1>1. diags[c] = {}
  BY <1>0 DEF CollectorGrows
<1>2. CASE UNCHANGED vars
  BY <1>1, <1>2 DEF LossInv, vars, captureVars, threadVars
<1>3. ASSUME NEW t \in Threads, Away(t)
      PROVE  \E u \in Threads : pc'[u] = "record" /\ cap'[u] = c
  <2>1. PICK u \in Threads : pc[u] = "record" /\ cap[u] = c
    BY <1>1, <1>3 DEF LossInv, Away
  <2>2. u # t
    BY <1>3, <2>1 DEF Away, CallbackLabels, HookLabels
  <2> QED BY <1>3, <2>1, <2>2 DEF Away, Mine
<1>4. ASSUME NEW t \in Threads, HookStep(t), Mine(t)
      PROVE  \E u \in Threads : pc'[u] = "record" /\ cap'[u] = c
  <2>1. CASE c \in limitFlag
    <3>1. PICK u \in Threads : pc[u] = "record" /\ cap[u] = c
      BY <1>1, <2>1 DEF LossInv
    <3>2. u # t
      BY <1>4, <3>1, HookTells
    <3> QED BY <1>4, <3>1, <3>2 DEF Mine
  <2>2. CASE c \notin limitFlag
    <3>1. c = cap[t]
      BY <1>4, <2>2, HookTells
    <3>2. pc'[t] = "record" /\ cap'[t] = cap[t]
      BY <1>4, <2>2, <3>1, HookTells
    <3> QED BY <3>1, <3>2
  <2> QED BY <2>1, <2>2
<1> QED BY <1>2, <1>3, <1>4, StepKinds

(* Every step keeps the traces of what has been told.                      *)
LEMMA LossStep ==
  ASSUME SystemAssumption, CollectorAssumption, SystemInv, CollectorGrows, ExecutorGrows,
         LossInv, [SystemNext]_systemVars
  PROVE  LossInv'
<1>1. \A h \in Hooks : origin'[h] \in Captures => owner'[origin'[h]] # NoThread
  BY OwnedStep
<1>2. \A c \in observed' : \E h \in Of(c)' : lifecycle'[h] # "NEW"
  BY ObservedStep
<1>3. \A c \in registry' : \A h \in Of(c)' : Told(h)' => Noticed(c, h)'
  BY NoticedStep
<1>4. \A c \in limitFlag' :
        diags'[c] # {} \/ \E t \in Threads : pc'[t] = "record" /\ cap'[t] = c
  BY FlagStep
<1> QED BY <1>1, <1>2, <1>3, <1>4 DEF LossInv

-----------------------------------------------------------------------------
(* The action of a capture ends with its executions returned, unless one   *)
(* has failed or the caller was interrupted.                               *)
Broken(c) == \E h \in Of(c) : stage[h] = "FAILED"

WaitOK(t) ==
  /\ \A h \in waits[t] : h \in Hooks /\ origin[h] = scope[t] /\ stage[h] # "UNUSED"
  /\ pc[t] \in CloseLabels => waits[t] = {} /\ task[t] = NoHook
  /\ scope[t] # NoCapture /\ pc[t] \notin CloseLabels =>
       \/ t \in interrupted
       \/ Broken(scope[t])
       \/ \A h \in Of(scope[t]) : h \in waits[t] \/ stage[h] = "RETURNED"

WaitInv == \A t \in Callers : WaitOK(t)

(* What caller t waits for does not depend on the others, as long as they  *)
(* submit nothing under its capture.                                       *)
LEMMA WaitKept ==
  ASSUME ExecutorGrows, NEW t \in Callers, WaitOK(t),
         waits'[t] = waits[t], scope'[t] = scope[t], task'[t] \in {task[t], NoHook},
         pc'[t] \in CloseLabels <=> pc[t] \in CloseLabels,
         interrupted \subseteq interrupted',
         \A h \in Hooks : origin'[h] = scope[t] /\ scope[t] # NoCapture =>
                            origin[h] = scope[t]
  PROVE  WaitOK(t)'
<1>1. \A h \in waits[t] : h \in Hooks /\ origin'[h] = scope[t] /\ stage'[h] # "UNUSED"
  BY DEF WaitOK, ExecutorGrows
<1>2. ASSUME scope[t] # NoCapture, Broken(scope[t])
      PROVE  Broken(scope[t])'
  BY <1>2 DEF Broken, Of, ExecutorGrows
<1>3. ASSUME scope[t] # NoCapture,
             \A h \in Of(scope[t]) : h \in waits[t] \/ stage[h] = "RETURNED",
             NEW h \in Hooks, origin'[h] = scope[t]
      PROVE  h \in waits[t] \/ stage'[h] = "RETURNED"
  BY <1>3 DEF Of, ExecutorGrows
<1> QED BY <1>1, <1>2, <1>3 DEF WaitOK, Of

(* The caller's own statement.                                             *)
LEMMA SubmitWait ==
  ASSUME SystemAssumption, CollectorAssumption, SystemInv, ExecutorGrows,
         NEW t \in Callers, WaitOK(t),
         NEW S \in SUBSET Hooks, NEW trunk \in Hooks, Submit(t, S, trunk)
  PROVE  WaitOK(t)'
<1>1. /\ waits[t] = {} /\ waits'[t] = S /\ pc[t] = "idle" /\ UNCHANGED <<pc, scope, interrupted>>
      /\ \A h \in S : stage[h] = "UNUSED" /\ stage'[h] # "UNUSED" /\ origin'[h] = ctx[t]
      /\ \A h \in Hooks \ S : origin'[h] = origin[h]
  <2>1. DOMAIN waits = Callers
    BY DEF SystemInv, SystemTypeOK
  <2> QED BY <2>1 DEF Submit, AtRest, Idle, vars, registryVars, threadVars
<1>2. ctx[t] = scope[t]
  <2>1. t \in Threads /\ pc[t] \notin CloseLabels
    BY <1>1 DEF SystemAssumption, CloseLabels
  <2>2. CASE scope[t] = NoCapture
    BY <2>2 DEF SystemInv, ClientInv, ContextInv
  <2>3. CASE scope[t] # NoCapture
    BY <2>1, <2>3 DEF SystemInv, EvidenceInv, OwnerInv, ScopeInv, Scoped, Running
  <2> QED BY <2>2, <2>3
<1>3. ASSUME scope[t] # NoCapture, t \notin interrupted, ~Broken(scope[t]),
             NEW h \in Of(scope[t])'
      PROVE  h \in waits'[t] \/ stage'[h] = "RETURNED"
  <2>1. CASE h \in S
    BY <1>1, <2>1
  <2>2. CASE h \notin S
    <3>1. h \in Of(scope[t])
      BY <1>1, <2>2 DEF Of
    <3> QED BY <1>1, <1>3, <3>1 DEF WaitOK, ExecutorGrows, CloseLabels, Of
  <2> QED BY <2>1, <2>2
<1>4. Broken(scope[t]) => Broken(scope[t])'
  BY <1>1 DEF Broken, Of, ExecutorGrows
<1> QED BY <1>1, <1>2, <1>3, <1>4 DEF WaitOK, CloseLabels

(* A failed execution breaks the statement of the capture it belongs to.   *)
LEMMA LeaveWait ==
  ASSUME NEW t \in Callers, WaitOK(t), SystemTypeOK, Join(t) \/ LeaveEarly(t)
  PROVE  WaitOK(t)'
<1>1. /\ waits'[t] = {} /\ pc[t] = "idle" /\ UNCHANGED <<pc, scope, origin, stage, interrupted>>
  BY DEF Join, LeaveEarly, Idle, vars, registryVars, threadVars, SystemTypeOK
<1>2. CASE Join(t)
  BY <1>1, <1>2 DEF Join, WaitOK, Broken, Of, CloseLabels
<1>3. CASE LeaveEarly(t)
  <2>1. t \in interrupted \/ \E h \in waits[t] : stage[h] = "FAILED"
    BY <1>3 DEF LeaveEarly
  <2>2. t \in interrupted \/ Broken(scope[t])
    BY <2>1 DEF WaitOK, Broken, Of
  <2> QED BY <1>1, <2>2 DEF WaitOK, Broken, Of, CloseLabels
<1> QED BY <1>2, <1>3

(* A step of the collector keeps its thread inside the close, or outside,  *)
(* or ends the close.                                                      *)
LEMMA CollectorWait ==
  ASSUME SystemAssumption, CollectorAssumption, SystemInv, ExecutorGrows,
         NEW t \in Callers, WaitOK(t), NEW u \in Threads, CollectorStep(u)
  PROVE  WaitOK(t)'
<1>1. /\ UNCHANGED <<stage, origin, task, waits, interrupted>>
      /\ t \in Threads /\ TypeInv /\ OwnerInv
  BY DEF CollectorStep, executorVars, SystemAssumption, SystemInv, EvidenceInv
<1>2. CASE HookStep(u)
  <2>1. Outside(u)
    BY <1>1, <1>2, OutsideSteps DEF OwnerInv
  <2>2. scope' = scope /\ (pc'[t] \in CloseLabels <=> pc[t] \in CloseLabels)
    BY <1>1, <2>1 DEF Outside, Mine
  <2> QED BY <1>1, <2>2, WaitKept
<1>3. CASE CloseStep(u)
  <2>1. Closes(u)
    BY <1>1, <1>3, CloseCloses
  <2>2. CASE scope'[t] = scope[t]
    <3>1. pc'[t] \in CloseLabels <=> pc[t] \in CloseLabels
      <4>1. CASE u = t
        <5>1. scope[t] # NoCapture
          BY <1>1, <2>1, <4>1, ClosingScope DEF Closes
        <5> QED BY <2>1, <2>2, <4>1, <5>1 DEF Closes
      <4>2. CASE u # t
        BY <1>1, <2>1, <4>2 DEF Closes, Mine
      <4> QED BY <4>1, <4>2
    <3> QED BY <1>1, <2>2, <3>1, WaitKept
  <2>3. CASE scope'[t] # scope[t]
    <3>1. u = t /\ pc[t] \in CloseLabels /\ pc'[t] = "idle" /\ scope'[t] = NoCapture
      BY <1>1, <2>1, <2>3 DEF Closes
    <3> QED BY <1>1, <3>1 DEF WaitOK, CloseLabels
  <2> QED BY <2>2, <2>3
<1> QED BY <1>2, <1>3, CollectorClient

(* Another thread's start, finish or task leaves a caller's statement.     *)
LEMMA ExecutionWait ==
  ASSUME SystemAssumption, CollectorAssumption, SystemInv, ExecutorGrows,
         NEW t \in Callers, WaitOK(t), NEW u \in Threads,
         ExecutionStep(u) \/ \E h \in Hooks : u \in Workers /\ Take(u, h)
  PROVE  WaitOK(t)'
<1>1. UNCHANGED <<origin, waits, interrupted, scope>>
  BY DEF ExecutionStep, Start, StartCall, Finish, FinishCall, Vanish, EndTask, Take,
     Replay, vars, registryVars, executorVars
<1>2. task'[t] \in {task[t], NoHook}
  <2>1. t \in Threads /\ t \notin Workers /\ DOMAIN task = Threads
    BY DEF SystemAssumption, SystemInv, SystemTypeOK
  <2>2. ASSUME NEW h \in Hooks, u \in Workers, Take(u, h)
        PROVE  task'[t] = task[t]
    BY <2>1, <2>2 DEF Take
  <2>3. ASSUME ExecutionStep(u)
        PROVE  task' \in {task, [task EXCEPT ![u] = NoHook]}
    BY <2>3 DEF ExecutionStep, Start, Finish, Vanish, EndTask, executorVars
  <2> QED BY <2>1, <2>2, <2>3
<1>3. pc'[t] \in CloseLabels <=> pc[t] \in CloseLabels
  <2>1. Away(u) /\ t \in Threads
    BY AwaySteps DEF SystemAssumption
  <2>2. CASE u # t
    BY <2>1, <2>2 DEF Away, Mine
  <2>3. CASE u = t
    <3>1. pc[t] = "idle" /\ DOMAIN pc = Threads
      BY <2>3 DEF ExecutionStep, Start, StartCall, Finish, FinishCall, Vanish, EndTask, Take,
         Replay, Idle, SystemInv, EvidenceInv, TypeInv, ThreadInv, ThreadTypes
    <3>2. pc'[t] \in {"idle", "observe", "recordCause", "complete"}
      BY <2>3, <3>1 DEF ExecutionStep, Start, StartCall, Finish, FinishCall, Vanish,
         EndTask, Take, Replay, Call, vars, threadVars
    <3> QED BY <3>1, <3>2 DEF CloseLabels
  <2> QED BY <2>2, <2>3
<1> QED BY <1>1, <1>2, <1>3, WaitKept

(* A caller's step keeps what its own and the other statements wait for.   *)
LEMMA CallerWait ==
  ASSUME SystemAssumption, CollectorAssumption, SystemInv, ExecutorGrows, LossInv,
         NEW t \in Callers, WaitOK(t), NEW u \in Callers, CallerStep(u)
  PROVE  WaitOK(t)'
<1>0. /\ t \in Threads /\ u \in Threads /\ NoCapture \notin Captures
      /\ DOMAIN scope = Threads /\ DOMAIN waits = Callers /\ DOMAIN task = Threads
      /\ DOMAIN pc = Threads
  BY DEF SystemAssumption, CollectorAssumption, SystemInv, SystemTypeOK, EvidenceInv,
     TypeInv, SharedTypes, ThreadInv, ThreadTypes
<1>1. ASSUME NEW c \in Captures, OpenCapture(u, c)
      PROVE  WaitOK(t)'
  <2>1. /\ scope' = [scope EXCEPT ![u] = c] /\ pc[u] = "idle" /\ waits[u] = {}
        /\ owner[c] = NoThread
        /\ UNCHANGED <<stage, origin, task, waits, interrupted, pc>>
    BY <1>1 DEF OpenCapture, Open, AtRest, Idle, executorVars, threadVars
  <2>2. CASE u = t
    <3>1. scope'[t] = c /\ Of(c) = {}
      <4>1. \A h \in Hooks : origin[h] \in Captures => owner[origin[h]] # NoThread
        BY DEF LossInv
      <4> QED BY <1>0, <2>1, <2>2, <4>1 DEF Of
    <3> QED BY <2>1, <2>2, <3>1 DEF WaitOK, Of, CloseLabels
  <2>3. CASE u # t
    <3>1. scope'[t] = scope[t]
      BY <1>0, <2>1, <2>3
    <3> QED BY <2>1, <3>1, WaitKept
  <2> QED BY <2>2, <2>3
<1>2. ASSUME NEW threw \in BOOLEAN, EndAction(u, threw)
      PROVE  WaitOK(t)'
  <2>1. /\ pc' = [pc EXCEPT ![u] = "closeFlag"] /\ pc[u] = "idle" /\ waits[u] = {}
        /\ task[u] = NoHook
        /\ UNCHANGED <<stage, origin, task, waits, interrupted, scope>>
    BY <1>2 DEF EndAction, BeginClose, Call, AtRest, Idle, executorVars
  <2>2. CASE u = t
    BY <1>0, <2>1, <2>2 DEF WaitOK, Of, CloseLabels
  <2>3. CASE u # t
    BY <1>0, <2>1, <2>3, WaitKept
  <2> QED BY <2>2, <2>3
<1>3. ASSUME NEW S \in SUBSET Hooks, NEW trunk \in Hooks, Submit(u, S, trunk), u # t
      PROVE  WaitOK(t)'
  <2>1. /\ waits' = [waits EXCEPT ![u] = S] /\ task' = [task EXCEPT ![u] = trunk]
        /\ UNCHANGED <<pc, scope, interrupted>>
        /\ \A h \in Hooks : origin'[h] = origin[h] \/ origin'[h] = ctx[u]
    BY <1>3 DEF Submit, vars, registryVars, threadVars
  <2>2. waits'[t] = waits[t] /\ task'[t] = task[t]
    BY <1>0, <1>3, <2>1
  <2>3. scope[t] # NoCapture => ctx[u] # scope[t]
    <3>1. SUFFICES ASSUME scope[t] # NoCapture, ctx[u] = scope[t] PROVE FALSE
      OBVIOUS
    <3>2. ctx[u] \in Captures
      BY <1>0, <3>1 DEF SystemInv, EvidenceInv, TypeInv, SharedTypes
    <3>3. scope[u] = ctx[u]
      BY <3>2, CallerContext
    <3> QED BY <1>0, <1>3, <3>1, <3>3, ScopesDiffer DEF SystemInv, EvidenceInv
  <2> QED BY <2>1, <2>2, <2>3, WaitKept
<1>4. ASSUME Join(u) \/ LeaveEarly(u), u # t
      PROVE  WaitOK(t)'
  <2>1. /\ waits' = [waits EXCEPT ![u] = {}]
        /\ UNCHANGED <<pc, scope, origin, task, interrupted>>
    BY <1>4 DEF Join, LeaveEarly, vars, registryVars, threadVars
  <2> QED BY <1>0, <1>4, <2>1, WaitKept
<1>5. ASSUME Interrupt(u)
      PROVE  WaitOK(t)'
  <2>1. /\ UNCHANGED <<waits, pc, scope, origin, task>> /\ interrupted \subseteq interrupted'
    BY <1>5 DEF Interrupt, vars, registryVars, threadVars
  <2> QED BY <2>1, WaitKept
<1>6. SystemTypeOK
  BY DEF SystemInv
<1> QED
  BY <1>1, <1>2, <1>3, <1>4, <1>5, <1>6, SubmitWait, LeaveWait DEF CallerStep

(* Every step keeps what the statements wait for.                          *)
LEMMA WaitStep ==
  ASSUME SystemAssumption, CollectorAssumption, SystemInv, ExecutorGrows, LossInv, WaitInv,
         [SystemNext]_systemVars
  PROVE  WaitInv'
<1> SUFFICES ASSUME NEW t \in Callers
             PROVE  WaitOK(t)'
  BY DEF WaitInv
<1>1. WaitOK(t) /\ Workers \subseteq Threads
  BY DEF WaitInv, SystemAssumption
<1>2. CASE UNCHANGED systemVars
  BY <1>1, <1>2, WaitKept DEF systemVars, executorVars, vars, registryVars, threadVars
<1>3. ASSUME NEW u \in Callers, CallerStep(u)
      PROVE  WaitOK(t)'
  BY <1>1, <1>3, CallerWait
<1>4. ASSUME NEW w \in Workers, NEW h \in Hooks, Take(w, h)
      PROVE  WaitOK(t)'
  BY <1>1, <1>4, ExecutionWait
<1>5. ASSUME NEW u \in Threads, ExecutionStep(u) \/ CollectorStep(u)
      PROVE  WaitOK(t)'
  BY <1>1, <1>5, ExecutionWait, CollectorWait
<1> QED BY <1>2, <1>3, <1>4, <1>5 DEF SystemNext

-----------------------------------------------------------------------------
(* An open handle is of a retained attempt, and a terminal callback works  *)
(* on one.                                                                 *)
HandleOK(t) ==
  pc[t] \in CallbackLabels /\ lifecycle[hk[t]] = "FINISHED" =>
    pc[t] \notin Starting /\ hk[t] \in attempts[cap[t]]

HandleInv ==
  /\ \A h \in Hooks : inFlight[h] # NoCapture => h \in attempts[inFlight[h]]
  /\ \A t \in Threads : HandleOK(t)

(* A callback opens a handle where it retains the attempt, and a terminal  *)
(* one never starts again.                                                 *)
LEMMA HookHandles ==
  ASSUME CollectorAssumption, SystemInv, NEW t \in Threads, HookStep(t)
  PROVE  /\ \A h \in Hooks : \/ inFlight'[h] \in {inFlight[h], NoCapture}
                             \/ h \in attempts'[inFlight'[h]]
         /\ pc'[t] \in Starting => pc[t] \in Starting
<1>0. /\ DOMAIN pc = Threads /\ DOMAIN attempts = Captures /\ DOMAIN inFlight = Hooks
      /\ cap[t] \in Captures
  <2>1. Carries(t)
    BY HookCarries DEF SystemInv, EvidenceInv
  <2> QED BY <2>1, OwnHook DEF Carries, SystemInv, EvidenceInv, TypeInv, SharedTypes,
         ThreadInv, ThreadTypes
<1> USE <1>0 DEF Starting, Goto, Return, Call
<1>1. CASE Observe(t)
  BY <1>1 DEF Observe, StartFailure, hookVars
<1>2. CASE RecordArgument(t) \/ CheckClosed(t) \/ Count(t) \/ RecordCause(t)
  BY <1>2 DEF RecordArgument, CheckClosed, Count, RecordCause, hookVars
<1>3. CASE Limit(t) \/ Record(t)
  BY <1>3 DEF Limit, Record, hookVars
<1>4. CASE Retain(t)
  BY <1>4 DEF Retain
<1>5. CASE Complete(t)
  BY <1>5 DEF Complete
<1> QED BY <1>1, <1>2, <1>3, <1>4, <1>5 DEF HookStep

(* A step outside the callbacks opens no handle: it enters a terminal      *)
(* callback only through one.                                              *)
LEMMA AwayHandle ==
  ASSUME SystemAssumption, CollectorAssumption, SystemInv, SystemInv', ExecutorGrows,
         HandleInv, NEW t \in Threads, Away(t)
  PROVE  HandleInv'
<1>1. ASSUME NEW u \in Threads, u # t
      PROVE  HandleOK(u)'
  <2>1. HandleOK(u) /\ pc'[u] = pc[u] /\ hk'[u] = hk[u] /\ cap'[u] = cap[u]
    BY <1>1 DEF HandleInv, Away, Mine
  <2>2. attempts' = attempts
    BY DEF Away
  <2>3. CASE pc[u] \in CallbackLabels
    <3>1. hk[u] \in Hooks
      BY <2>3, OwnHook
    <3>2. hk[u] # task[t]
      BY <1>1, <3>1, OtherHook
    <3>3. lifecycle'[hk[u]] = lifecycle[hk[u]]
      BY <3>1, <3>2 DEF Away
    <3> QED BY <2>1, <2>2, <3>3 DEF HandleOK
  <2>4. CASE pc[u] \notin CallbackLabels
    BY <2>1, <2>4 DEF HandleOK
  <2> QED BY <2>3, <2>4
<1>2. HandleOK(t)'
  <2>1. SUFFICES ASSUME pc'[t] \in CallbackLabels, lifecycle'[hk'[t]] = "FINISHED"
                 PROVE  pc'[t] \notin Starting /\ hk'[t] \in attempts'[cap'[t]]
    BY DEF HandleOK
  <2>2. /\ hk'[t] = task[t] /\ task[t] \in Hooks /\ attempts' = attempts
        /\ pc'[t] \in {"recordCause", "complete"} /\ inFlight[task[t]] # NoCapture
    BY <2>1 DEF Away
  <2>3. PICK h \in Hooks : h = task[t]
    BY <2>2
  <2>4. h \in attempts[inFlight[h]] /\ inFlight[h] = origin[h]
    BY <2>2, <2>3 DEF HandleInv, SystemInv, ClientInv, PlaceInv, PlaceOK
  <2>5. cap'[t] = origin'[h]
    BY <2>1, <2>2, <2>3 DEF SystemInv, ClientInv, TaskInv, TaskOK
  <2>6. stage[h] # "UNUSED"
    BY <2>3 DEF SystemInv, SystemTypeOK, OneRunner, CollectorAssumption
  <2>7. origin'[h] = origin[h]
    BY <2>6 DEF ExecutorGrows
  <2> QED BY <2>2, <2>3, <2>4, <2>5, <2>7 DEF Starting
<1>3. \A h \in Hooks : inFlight'[h] # NoCapture => h \in attempts'[inFlight'[h]]
  BY DEF HandleInv, Away
<1> QED BY <1>1, <1>2, <1>3 DEF HandleInv

(* The handles and the terminal callbacks keep to retained attempts.       *)
LEMMA HandleStep ==
  ASSUME SystemAssumption, CollectorAssumption, SystemInv, SystemInv', CollectorGrows,
         ExecutorGrows, HandleInv, [SystemNext]_systemVars
  PROVE  HandleInv'
<1>1. CASE UNCHANGED vars
  BY <1>1 DEF vars, captureVars, hookVars, threadVars, HandleInv, HandleOK
<1>2. ASSUME NEW t \in Threads, HookStep(t), Carries(t), Mine(t)
      PROVE  HandleInv'
  <2>1. ASSUME NEW h \in Hooks, inFlight'[h] # NoCapture
        PROVE  h \in attempts'[inFlight'[h]]
    <3>1. CASE inFlight'[h] = inFlight[h]
      <4>1. inFlight[h] \in Captures /\ h \in attempts[inFlight[h]]
        BY <2>1, <3>1 DEF HandleInv, SystemInv, EvidenceInv, TypeInv, SharedTypes
      <4> QED BY <3>1, <4>1 DEF CollectorGrows
    <3> QED BY <1>2, <2>1, <3>1, HookHandles
  <2>2. ASSUME NEW u \in Threads, pc'[u] \in CallbackLabels, lifecycle'[hk'[u]] = "FINISHED"
        PROVE  pc'[u] \notin Starting /\ hk'[u] \in attempts'[cap'[u]]
    <3>1. /\ pc[u] \in CallbackLabels /\ hk'[u] = hk[u] /\ cap'[u] = cap[u]
          /\ pc'[u] \in Starting => pc[u] \in Starting
      <4>1. CASE u = t
        BY <1>2, <2>2, <4>1, HookHandles DEF Carries, CallbackLabels, HookLabels
      <4>2. CASE u # t
        BY <1>2, <2>2, <4>2 DEF Mine
      <4> QED BY <4>1, <4>2
    <3>2. lifecycle'[hk[u]] = lifecycle[hk[u]] /\ cap[u] \in Captures
      BY <1>2, <3>1, OwnHook DEF Carries
    <3>3. pc[u] \notin Starting /\ hk[u] \in attempts[cap[u]]
      BY <2>2, <3>1, <3>2 DEF HandleInv, HandleOK
    <3> QED BY <3>1, <3>2, <3>3 DEF CollectorGrows
  <2> QED BY <2>1, <2>2 DEF HandleInv, HandleOK
<1> QED BY <1>1, <1>2, AwayHandle, StepKinds

-----------------------------------------------------------------------------
(* The action of a capture has ended: no statement is submitted under it.  *)
Ended(c) ==
  owner[c] # NoThread /\ \A t \in Threads : scope[t] = c => pc[t] \in CloseLabels

(* A thread that closes a capture it has opened stays inside the close.    *)
LEMMA ScopeKept ==
  ASSUME CollectorAssumption, TypeInv, OwnerInv, [Next]_vars,
         NEW c \in Captures, owner[c] # NoThread,
         NEW t \in Threads, scope[t] = c => pc[t] \in CloseLabels, scope'[t] = c
  PROVE  pc'[t] \in CloseLabels
<1>0. DOMAIN scope = Threads /\ DOMAIN pc = Threads /\ c # NoCapture
  BY DEF TypeInv, SharedTypes, ThreadInv, ThreadTypes, CollectorAssumption
<1>1. ASSUME UNCHANGED <<scope, pc>>
      PROVE  pc'[t] \in CloseLabels
  BY <1>1
<1>2. ASSUME NEW u \in Threads, Outside(u)
      PROVE  pc'[t] \in CloseLabels
  BY <1>2 DEF Outside, Mine
<1>3. ASSUME NEW u \in Threads, CloseStep(u)
      PROVE  pc'[t] \in CloseLabels
  <2>1. Closes(u)
    BY <1>3, CloseCloses
  <2>2. CASE u = t
    BY <1>0, <2>1, <2>2 DEF Closes
  <2>3. CASE u # t
    BY <2>1, <2>3 DEF Closes, Mine
  <2> QED BY <2>2, <2>3
<1>4. ASSUME NEW u \in Threads, NEW d \in Captures, Open(u, d)
      PROVE  pc'[t] \in CloseLabels
  BY <1>0, <1>4 DEF Open, threadVars
<1>5. ASSUME NEW u \in Threads, NEW threw \in BOOLEAN, BeginClose(u, threw)
      PROVE  pc'[t] \in CloseLabels
  BY <1>0, <1>5 DEF BeginClose, Call, CloseLabels
<1>6. ASSUME NEW u \in Threads, NEW d \in Captures \cup {NoCapture}, Replay(u, d)
      PROVE  pc'[t] \in CloseLabels
  BY <1>1, <1>6 DEF Replay, threadVars
<1>7. UNCHANGED vars => UNCHANGED <<scope, pc>>
  BY DEF vars, registryVars, threadVars
<1> QED
  BY <1>1, <1>2, <1>3, <1>4, <1>5, <1>6, <1>7, OutsideSteps DEF Next, OwnerInv

(* Only a caller's statement gives executions an origin: its own token.    *)
LEMMA OriginStep ==
  ASSUME [SystemNext]_systemVars, NEW h \in Hooks
  PROVE  origin'[h] = origin[h] \/ \E t \in Callers : origin'[h] = ctx[t]
<1>1. ASSUME NEW t \in Callers, CallerStep(t)
      PROVE  origin'[h] = origin[h] \/ origin'[h] = ctx[t]
  <2>1. ASSUME NEW S \in SUBSET Hooks, NEW trunk \in Hooks, Submit(t, S, trunk)
        PROVE  origin'[h] = origin[h] \/ origin'[h] = ctx[t]
    BY <2>1 DEF Submit
  <2>2. ASSUME \/ \E c \in Captures : OpenCapture(t, c)
               \/ \E threw \in BOOLEAN : EndAction(t, threw)
               \/ Join(t) \/ LeaveEarly(t) \/ Interrupt(t)
        PROVE  UNCHANGED origin
    BY <2>2 DEF OpenCapture, EndAction, Join, LeaveEarly, Interrupt, executorVars
  <2> QED BY <1>1, <2>1, <2>2 DEF CallerStep
<1>2. ASSUME NEW w \in Workers, NEW k \in Hooks, Take(w, k)
      PROVE  UNCHANGED origin
  BY <1>2 DEF Take
<1>3. ASSUME NEW t \in Threads, ExecutionStep(t) \/ CollectorStep(t)
      PROVE  UNCHANGED origin
  BY <1>3 DEF ExecutionStep, CollectorStep, Start, Finish, Vanish, EndTask, executorVars
<1>4. UNCHANGED systemVars => UNCHANGED origin
  BY DEF systemVars, executorVars
<1> QED BY <1>1, <1>2, <1>3, <1>4 DEF SystemNext

(* An execution keeps its capture.                                         *)
LEMMA OfGrows ==
  ASSUME CollectorAssumption, SystemInv, ExecutorGrows, NEW c \in Captures
  PROVE  Of(c) \subseteq Of(c)'
<1> SUFFICES ASSUME NEW h \in Hooks, origin[h] = c
             PROVE  origin'[h] = c
  BY DEF Of
<1>1. stage[h] # "UNUSED"
  BY DEF SystemInv, ClientInv, PlaceInv, PlaceOK, CollectorAssumption
<1> QED BY <1>1 DEF ExecutorGrows

(* After the action has ended, nothing is added to its executions.         *)
LEMMA EndedKept ==
  ASSUME SystemAssumption, CollectorAssumption, SystemInv, CollectorGrows, ExecutorGrows,
         [SystemNext]_systemVars, NEW c \in Captures, Ended(c)
  PROVE  Ended(c)' /\ Of(c)' = Of(c)
<1>1. [Next]_vars /\ TypeInv /\ OwnerInv
  BY ClientStep DEF SystemInv, EvidenceInv
<1>2. Ended(c)'
  <2>1. owner[c] # NoThread /\ owner'[c] # NoThread
    BY DEF Ended, CollectorGrows
  <2>2. ASSUME NEW t \in Threads, scope'[t] = c
        PROVE  pc'[t] \in CloseLabels
    BY <1>1, <2>1, <2>2, ScopeKept DEF Ended
  <2> QED BY <2>1, <2>2 DEF Ended
<1>3. ASSUME NEW h \in Hooks, origin'[h] = c
      PROVE  origin[h] = c
  <2>1. SUFFICES ASSUME NEW t \in Callers, ctx[t] = c PROVE FALSE
    BY <1>3, OriginStep
  <2>2. scope[t] = c /\ pc[t] \notin CloseLabels /\ t \in Threads
    BY <2>1, CallerContext DEF SystemAssumption
  <2> QED BY <2>2 DEF Ended
<1> QED BY <1>2, <1>3, OfGrows DEF Of

-----------------------------------------------------------------------------
(* What was due when the action ended, and the capture's way to keep it.   *)
AllReturned(c) == \A h \in Of(c) : due[c][h] = "RETURNED"

DueOK(c) ==
  /\ ~Ended(c) => Started(c) = {}
  /\ \A h \in Started(c) :
       h \in Of(c) /\ Noticed(c, h) /\ (h \in attempts[c] \/ Told(h))
  /\ \A h \in Hooks : due[c][h] = "FAILED" => stage[h] \in {"FAILING", "FAILED"}
  /\ AllReturned(c) => diags[c] # {} \/ Of(c) \subseteq attempts[c]

DueInv == \A c \in Captures : DueOK(c)

(* A start that has returned stays so, until a terminal callback works on  *)
(* the attempt it retained.                                                *)
LEMMA ToldKept ==
  ASSUME SystemAssumption, CollectorAssumption, SystemInv, StageInv, HandleInv,
         CollectorGrows, [SystemNext]_systemVars,
         NEW h \in Hooks, Told(h)
  PROVE  Told(h)' \/ h \in attempts[origin[h]]
<1> SUFFICES ASSUME NEW u \in Threads, hk'[u] = h, pc'[u] \in Telling
             PROVE  h \in attempts[origin[h]]
  BY DEF Told, CollectorGrows
<1>0. lifecycle[h] # "NEW" /\ (hk[u] = h => pc[u] \notin Telling)
  BY DEF Told
<1>1. CASE UNCHANGED vars
  BY <1>0, <1>1 DEF vars, threadVars
<1>2. ASSUME NEW t \in Threads, Away(t)
      PROVE  FALSE
  <2>1. u = t
    BY <1>0, <1>2 DEF Away, Mine
  <2>2. pc'[t] \in CallbackLabels
    BY <2>1 DEF Telling, Starting, CallbackLabels, HookLabels
  <2>3. hk'[t] = task[t] /\ pc'[t] = "observe"
    BY <1>2, <2>1, <2>2 DEF Away, Telling, Starting
  <2> QED BY <1>0, <1>2, <2>1, <2>2, <2>3 DEF Away
<1>3. ASSUME NEW t \in Threads, HookStep(t), Carries(t), Mine(t)
      PROVE  h \in attempts[origin[h]]
  <2>1. u = t
    BY <1>0, <1>3 DEF Mine
  <2>2. pc[t] \in CallbackLabels /\ hk[t] = h
    BY <1>3, <2>1 DEF Carries, Telling, Starting
  <2>3. pc[t] \in {"recordCause", "complete"}
    BY <1>0, <2>1, <2>2 DEF Telling, Starting, CallbackLabels, HookLabels
  <2>4. lifecycle[hk[t]] = "FINISHED"
    BY <2>3 DEF StageInv, CallOK
  <2>5. hk[t] \in attempts[cap[t]] /\ cap[t] = origin[h]
    BY <2>2, <2>4, OwnHook DEF HandleInv, HandleOK
  <2> QED BY <2>2, <2>5
<1> QED BY <1>1, <1>2, <1>3, StepKinds

(* What is due of a capture holds on until its action ends.                *)
LEMMA DueKept ==
  ASSUME SystemAssumption, CollectorAssumption, SystemInv, StageInv, HandleInv,
         CollectorGrows, ExecutorGrows, [SystemNext]_systemVars,
         NEW c \in Captures, DueOK(c), due'[c] = due[c]
  PROVE  DueOK(c)'
<1>0. Started(c)' = Started(c)
  BY DEF Started
<1>1. Of(c) \subseteq Of(c)' /\ (Ended(c) => Ended(c)' /\ Of(c)' = Of(c))
  BY OfGrows, EndedKept
<1>2. ~Ended(c)' => Started(c)' = {}
  BY <1>0, <1>1 DEF DueOK
<1>3. ASSUME NEW h \in Started(c)'
      PROVE  h \in Of(c)' /\ Noticed(c, h)' /\ (h \in attempts'[c] \/ Told(h)')
  <2>1. h \in Of(c) /\ Noticed(c, h) /\ (h \in attempts[c] \/ Told(h))
    BY <1>0, <1>3 DEF DueOK
  <2>2. Noticed(c, h)'
    BY <2>1 DEF Noticed, CollectorGrows
  <2>3. CASE h \in attempts[c]
    BY <1>1, <2>1, <2>2, <2>3 DEF CollectorGrows
  <2>4. CASE Told(h)
    <3>1. h \in Hooks /\ origin[h] = c
      BY <2>1 DEF Of
    <3>2. Told(h)' \/ h \in attempts[origin[h]]
      BY <2>4, <3>1, ToldKept
    <3> QED BY <1>1, <2>1, <2>2, <3>1, <3>2 DEF CollectorGrows
  <2> QED BY <2>1, <2>3, <2>4
<1>4. \A h \in Hooks : due'[c][h] = "FAILED" => stage'[h] \in {"FAILING", "FAILED"}
  BY DEF DueOK, ExecutorGrows
<1>5. ASSUME AllReturned(c)'
      PROVE  diags'[c] # {} \/ Of(c)' \subseteq attempts'[c]
  <2>1. CASE Ended(c)
    <3>1. AllReturned(c)
      BY <1>1, <1>5, <2>1 DEF AllReturned
    <3>2. diags[c] # {} \/ Of(c) \subseteq attempts[c]
      BY <3>1 DEF DueOK
    <3> QED BY <1>1, <2>1, <3>2 DEF CollectorGrows
  <2>2. CASE ~Ended(c)
    <3>1. Started(c)' = {}
      BY <1>0, <2>2 DEF DueOK
    <3>2. Of(c)' = {}
      BY <1>5, <3>1 DEF AllReturned, Started, Of
    <3> QED BY <3>2
  <2> QED BY <2>1, <2>2
<1> QED BY <1>2, <1>3, <1>4, <1>5 DEF DueOK

(* Where the action ends, what had been reported left its trace.           *)
LEMMA ReportedNoticed ==
  ASSUME SystemAssumption, CollectorAssumption, SystemInv, StageInv, HandleInv, LossInv,
         NEW c \in registry, NEW h \in Of(c), Reported(h) # "NONE"
  PROVE  Noticed(c, h) /\ (h \in attempts[c] \/ Told(h))
<1>1. h \in Hooks /\ origin[h] = c /\ lifecycle[h] # "NEW"
  BY DEF Of, Reported
<1>2. CASE Free(h)
  <2>1. Told(h)
    BY <1>1, <1>2 DEF Free, Told
  <2>2. \A d \in registry : \A k \in Of(d) : Told(k) => Noticed(d, k)
    BY DEF LossInv
  <2> QED BY <2>1, <2>2
<1>3. CASE ~Free(h)
  <2>1. lifecycle[h] = "FINISHED"
    BY <1>1, <1>3 DEF Reported, SystemInv, EvidenceInv, TypeInv, SharedTypes
  <2>2. PICK u \in Threads : hk[u] = h
    BY <1>3 DEF Free
  <2>3. pc[u] \in CallbackLabels
    BY <1>1, <2>2 DEF SystemInv, ClientInv, TaskInv, TaskOK, CollectorAssumption
  <2>4. h \in attempts[cap[u]] /\ cap[u] = c
    BY <1>1, <2>1, <2>2, <2>3, OwnHook DEF HandleInv, HandleOK
  <2> QED BY <2>4 DEF Noticed
<1> QED BY <1>2, <1>3

(* If all had returned, all are retained or a diagnostic tells.            *)
LEMMA ReturnedRetained ==
  ASSUME SystemAssumption, CollectorAssumption, SystemInv, StageInv, HandleInv, LossInv,
         NEW c \in registry, \A h \in Of(c) : Reported(h) = "RETURNED", diags[c] = {}
  PROVE  Of(c) \subseteq attempts[c]
<1> SUFFICES ASSUME NEW h \in Of(c)
             PROVE  h \in attempts[c]
  OBVIOUS
<1>1. h \in attempts[c] \/ c \in limitFlag
  BY ReportedNoticed DEF Noticed
<1>2. ASSUME c \in limitFlag
      PROVE  FALSE
  <2>1. PICK u \in Threads : pc[u] = "record" /\ cap[u] = c
    <3>1. \A d \in limitFlag :
            diags[d] # {} \/ \E t \in Threads : pc[t] = "record" /\ cap[t] = d
      BY DEF LossInv
    <3> QED BY <1>2, <3>1
  <2>2. hk[u] \in Of(c)
    BY <2>1, OwnHook DEF CallbackLabels
  <2>3. PICK k \in Of(c) : hk[u] = k /\ Reported(k) = "RETURNED"
    BY <2>2
  <2>4. lifecycle[k] \in {"NEW", "STARTED", "FINISHED"}
    BY <2>3 DEF Of, SystemInv, EvidenceInv, TypeInv, SharedTypes
  <2>5. Free(k)
    BY <2>3, <2>4 DEF Reported
  <2> QED BY <2>3, <2>5 DEF Free
<1> QED BY <1>1, <1>2

(* Where the action ends, what is due of its capture is true of it.        *)
LEMMA EndActionDue ==
  ASSUME SystemAssumption, CollectorAssumption, SystemInv, StageInv, HandleInv, LossInv,
         CollectorGrows, NEW t \in Callers, NEW threw \in BOOLEAN, EndAction(t, threw)
  PROVE  /\ scope[t] \in Captures /\ DueOK(scope[t])'
         /\ \A d \in Captures \ {scope[t]} : due'[d] = due[d]
<1>0. /\ t \in Threads /\ NoHook \notin Hooks /\ NoCapture \notin Captures
      /\ NoThread \notin Threads
  BY DEF SystemAssumption, CollectorAssumption
<1>2. PICK c \in Captures : c = scope[t]
  BY DEF EndAction, BeginClose, SystemInv, EvidenceInv, TypeInv, SharedTypes
<1>1. /\ c \in registry /\ pc[t] = "idle" /\ hk'[t] = NoHook /\ pc'[t] = "closeFlag"
      /\ UNCHANGED <<owner, scope, stage, origin, lifecycle, attempts, limitFlag>>
      /\ Mine(t) /\ DOMAIN due = Captures
      /\ due' = [due EXCEPT ![c] =
                   [h \in Hooks |-> IF origin[h] = c THEN Reported(h) ELSE "NONE"]]
  BY <1>0, <1>2 DEF EndAction, BeginClose, Call, Idle, executorVars, hookVars, Mine,
     SystemInv, SystemTypeOK, EvidenceInv, TypeInv, ThreadInv, ThreadTypes
<1>3. /\ \A d \in Captures \ {c} : due'[d] = due[d]
      /\ \A h \in Hooks : due'[c][h] = IF h \in Of(c) THEN Reported(h) ELSE "NONE"
  BY <1>1, <1>2 DEF Of
<1>4. Ended(c)'
  <2>1. owner[c] = t /\ \A u \in Threads : scope[u] = c => u = t
    BY <1>0, <1>2, ScopesDiffer DEF SystemInv, EvidenceInv, OwnerInv, ScopeInv, Scoped, Running
  <2> QED BY <1>0, <1>1, <2>1 DEF Ended, CloseLabels
<1>5. Of(c)' = Of(c)
  BY <1>1 DEF Of
<1>6. ASSUME NEW h \in Started(c)'
      PROVE  h \in Of(c)' /\ Noticed(c, h)' /\ (h \in attempts'[c] \/ Told(h)')
  <2>1. h \in Hooks /\ h \in Of(c) /\ Reported(h) # "NONE"
    BY <1>3, <1>6 DEF Started
  <2>2. Noticed(c, h) /\ (h \in attempts[c] \/ Told(h))
    BY <1>1, <2>1, ReportedNoticed
  <2>3. Noticed(c, h)'
    BY <1>1, <1>2, <2>2 DEF Noticed, CollectorGrows
  <2>4. Told(h) => Told(h)'
    <3>1. h # NoHook
      BY <1>0, <2>1
    <3>2. \A u \in Threads : hk'[u] = h => hk[u] = h /\ pc'[u] = pc[u]
      BY <1>1, <3>1 DEF Mine
    <3>3. lifecycle'[h] = lifecycle[h]
      BY <1>1
    <3> QED BY <3>2, <3>3 DEF Told
  <2> QED BY <1>1, <1>5, <2>1, <2>2, <2>3, <2>4
<1>7. ASSUME NEW h \in Hooks, due'[c][h] = "FAILED"
      PROVE  stage'[h] \in {"FAILING", "FAILED"}
  <2>1. Reported(h) = "FAILED" /\ StageOK(h)
    BY <1>3, <1>7 DEF StageInv
  <2>2. lifecycle[h] = "FINISHED" /\ stage[h] \notin {"RETURNING", "RETURNED"}
    <3>1. lifecycle[h] \in {"NEW", "STARTED", "FINISHED"}
      BY DEF SystemInv, EvidenceInv, TypeInv, SharedTypes
    <3> QED BY <2>1, <3>1 DEF Reported
  <2> QED BY <1>1, <2>1, <2>2 DEF StageOK
<1>8. ASSUME AllReturned(c)'
      PROVE  diags'[c] # {} \/ Of(c)' \subseteq attempts'[c]
  <2>1. \A h \in Of(c) : Reported(h) = "RETURNED"
    BY <1>3, <1>5, <1>8 DEF AllReturned, Of
  <2>2. diags[c] # {} \/ Of(c) \subseteq attempts[c]
    BY <1>1, <2>1, ReturnedRetained
  <2> QED BY <1>1, <1>2, <1>5, <2>2 DEF CollectorGrows
<1>9. DueOK(c)'
  BY <1>4, <1>6, <1>7, <1>8 DEF DueOK
<1> QED BY <1>1, <1>2, <1>3, <1>9

(* What is due is set where the action of a capture ends, and holds on.    *)
LEMMA DueStep ==
  ASSUME SystemAssumption, CollectorAssumption, SystemInv, StageInv, HandleInv, LossInv,
         CollectorGrows, ExecutorGrows, DueInv, [SystemNext]_systemVars
  PROVE  /\ DueInv'
         /\ \A c \in Captures : Ended(c) => due'[c] = due[c]
<1>1. ASSUME UNCHANGED due
      PROVE  DueInv'
  BY <1>1, DueKept DEF DueInv
<1>2. ASSUME NEW t \in Callers, NEW threw \in BOOLEAN, EndAction(t, threw)
      PROVE  DueInv' /\ ~Ended(scope[t]) /\ \A d \in Captures \ {scope[t]} : due'[d] = due[d]
  <2>1. /\ scope[t] \in Captures /\ DueOK(scope[t])'
        /\ \A d \in Captures \ {scope[t]} : due'[d] = due[d]
    BY <1>2, EndActionDue
  <2>2. PICK c \in Captures : c = scope[t]
    BY <2>1
  <2>3. ~Ended(scope[t])
    BY <1>2 DEF EndAction, AtRest, Idle, Ended, CloseLabels, SystemAssumption
  <2>4. scope' = scope
    BY <1>2 DEF EndAction, BeginClose
  <2>5. ASSUME NEW d \in Captures
        PROVE  DueOK(d)'
    <3>1. CASE d = c
      BY <2>1, <2>2, <2>4, <3>1
    <3>2. CASE d # c
      BY <2>1, <2>2, <3>2, DueKept DEF DueInv
    <3> QED BY <3>1, <3>2
  <2> QED BY <2>1, <2>3, <2>5 DEF DueInv
<1>3. ASSUME NEW t \in Callers, CallerStep(t)
      PROVE  UNCHANGED due \/ \E threw \in BOOLEAN : EndAction(t, threw)
  BY <1>3 DEF CallerStep, OpenCapture, Submit, Join, LeaveEarly, Interrupt
<1>4. ASSUME NEW w \in Workers, NEW h \in Hooks, Take(w, h)
      PROVE  UNCHANGED due
  BY <1>4 DEF Take
<1>5. ASSUME NEW t \in Threads, ExecutionStep(t) \/ CollectorStep(t)
      PROVE  UNCHANGED due
  BY <1>5 DEF ExecutionStep, CollectorStep, Start, Finish, Vanish, EndTask
<1>6. UNCHANGED systemVars => UNCHANGED due
  BY DEF systemVars
<1>7. UNCHANGED due \/ \E t \in Callers, threw \in BOOLEAN : EndAction(t, threw)
  BY <1>3, <1>4, <1>5, <1>6 DEF SystemNext
<1> QED BY <1>1, <1>2, <1>7

-----------------------------------------------------------------------------
(* Closing.  An action that ends early has an execution that failed, or    *)
(* leaves a diagnostic.                                                    *)
Settled(c) ==
  AllReturned(c) \/ \E h \in Of(c) : stage[h] = "FAILED" /\ due[c][h] # "NONE"

CloseOK(t) ==
  /\ pc[t] \in {"closeFlag", "closeChecks"} => Settled(cap[t]) \/ t \in interrupted
  /\ pc[t] \in {"freeze", "assemble"} =>
       /\ Settled(cap[t]) \/ diags[cap[t]] # {}
       /\ cap[t] \in observed \/ diags[cap[t]] # {}
  /\ pc[t] = "assemble" =>
       \A h \in attempts[cap[t]] \cap Started(cap[t]) : frozen[h] # "NONE"

CloseInv == \A t \in Threads : CloseOK(t)

(* A thread inside the close has ended the action of its capture.          *)
LEMMA ClosingEnded ==
  ASSUME CollectorAssumption, SystemInv, NEW t \in Threads, pc[t] \in CloseLabels
  PROVE  cap[t] \in Captures /\ Ended(cap[t])
<1>1. cap[t] = scope[t] /\ scope[t] # NoCapture /\ OwnerInv /\ TypeInv
  BY ClosingScope DEF SystemInv, EvidenceInv
<1>2. owner[scope[t]] = t /\ t # NoThread
  BY <1>1 DEF OwnerInv, ScopeInv, Scoped, Running, CollectorAssumption
<1>3. \A u \in Threads : scope[u] = scope[t] => u = t
  BY <1>1, ScopesDiffer
<1>4. cap[t] \in Captures
  <2>1. scope[t] \in Captures \cup {NoCapture}
    BY <1>1 DEF TypeInv, SharedTypes
  <2> QED BY <1>1, <2>1
<1>5. Ended(cap[t])
  BY <1>1, <1>2, <1>3 DEF Ended
<1> QED BY <1>4, <1>5

(* An execution joins its capture's attempts where its start retains it.   *)
LEMMA RetainedByStart ==
  ASSUME SystemAssumption, CollectorAssumption, SystemInv, [SystemNext]_systemVars,
         NEW c \in Captures, NEW h \in attempts'[c], h \notin attempts[c]
  PROVE  ~Told(h)
<1>1. PICK t \in Threads : HookStep(t) /\ Carries(t)
  <2>1. ~UNCHANGED vars /\ \A t \in Threads : ~Away(t)
    BY DEF vars, captureVars, Away
  <2> QED BY <2>1, StepKinds
<1>2. Retain(t)
  BY <1>1 DEF HookStep, Observe, RecordArgument, CheckClosed, Count, Limit, Record,
     RecordCause, Complete, captureVars
<1>3. hk[t] = h /\ pc[t] = "retain"
  BY <1>2 DEF Retain, SystemInv, EvidenceInv, TypeInv, SharedTypes
<1> QED BY <1>3 DEF Told, Telling, Starting

(* A capture that is settled stays so.                                     *)
LEMMA SettledKept ==
  ASSUME ExecutorGrows, NEW c \in Captures, Of(c)' = Of(c), due'[c] = due[c], Settled(c)
  PROVE  Settled(c)'
<1>1. \A h \in Of(c) : stage[h] = "FAILED" => stage'[h] = "FAILED"
  BY DEF ExecutorGrows, Of
<1> QED BY <1>1 DEF Settled, AllReturned

(* What other threads do leaves a close where it is.                       *)
LEMMA CloseKept ==
  ASSUME SystemAssumption, CollectorAssumption, SystemInv, CollectorGrows, ExecutorGrows,
         DueInv, \A c \in Captures : Ended(c) => due'[c] = due[c],
         interrupted \subseteq interrupted',
         [SystemNext]_systemVars, NEW u \in Threads, CloseOK(u),
         pc'[u] = pc[u] /\ cap'[u] = cap[u]
  PROVE  CloseOK(u)'
<1>1. CASE pc[u] \notin CloseLabels
  BY <1>1 DEF CloseOK, CloseLabels
<1>2. CASE pc[u] \in CloseLabels
  <2>1. PICK c \in Captures : c = cap[u] /\ Ended(c)
    BY <1>2, ClosingEnded
  <2>2. due'[c] = due[c] /\ Of(c)' = Of(c) /\ Started(c)' = Started(c) /\ cap'[u] = c
    BY <2>1, EndedKept DEF Started
  <2>3. Settled(c) => Settled(c)'
    BY <2>2, SettledKept
  <2>4. diags[c] # {} => diags'[c] # {}
    BY DEF CollectorGrows
  <2>5. c \in observed => c \in observed'
    BY DEF CollectorGrows
  <2>6. ASSUME pc[u] = "assemble", NEW h \in attempts'[c], h \in Started(c)
        PROVE  frozen'[h] # "NONE"
    <3>1. h \in Hooks /\ (h \in attempts[c] \/ Told(h))
      BY <2>6 DEF DueInv, DueOK, Started
    <3>2. h \in attempts[c]
      BY <2>6, <3>1, RetainedByStart
    <3>3. frozen[h] # "NONE"
      BY <2>1, <2>6, <3>2 DEF CloseOK
    <3> QED BY <3>1, <3>3 DEF CollectorGrows
  <2>7. /\ pc'[u] \in {"closeFlag", "closeChecks"} => Settled(c)' \/ u \in interrupted'
        /\ pc'[u] \in {"freeze", "assemble"} =>
             /\ Settled(c)' \/ diags'[c] # {}
             /\ c \in observed' \/ diags'[c] # {}
    BY <2>1, <2>3, <2>4, <2>5 DEF CloseOK
  <2>8. pc'[u] = "assemble" =>
          \A h \in attempts'[c] \cap Started(c)' : frozen'[h] # "NONE"
    BY <2>2, <2>6
  <2> QED BY <2>1, <2>2, <2>7, <2>8 DEF CloseOK
<1> QED BY <1>1, <1>2

(* Who comes closer to the end of a close.                                 *)
LEMMA CloseMoves ==
  ASSUME SystemAssumption, CollectorAssumption, SystemInv, [SystemNext]_systemVars,
         NEW u \in Threads
  PROVE  \/ pc'[u] = pc[u] /\ cap'[u] = cap[u]
         \/ pc'[u] \notin CloseLabels
         \/ CollectorStep(u) /\ CloseStep(u)
         \/ u \in Callers /\ \E threw \in BOOLEAN : EndAction(u, threw)
<1>0. /\ TypeInv /\ DOMAIN pc = Threads /\ DOMAIN cap = Threads
      /\ Callers \subseteq Threads /\ Workers \subseteq Threads
  BY DEF SystemInv, EvidenceInv, TypeInv, ThreadInv, ThreadTypes, SystemAssumption
<1>1. ASSUME NEW t \in Callers, CallerStep(t), UNCHANGED <<pc, cap>> \/ t # u
      PROVE  pc'[u] = pc[u] /\ cap'[u] = cap[u]
  <2>1. Away(t) \/ UNCHANGED vars
    BY <1>0, <1>1, AwaySteps
  <2> QED BY <1>0, <1>1, <2>1 DEF Away, Mine, vars, threadVars
<1>2. ASSUME u \in Callers, CallerStep(u)
      PROVE  UNCHANGED <<pc, cap>> \/ \E threw \in BOOLEAN : EndAction(u, threw)
  BY <1>2 DEF CallerStep, OpenCapture, Open, Submit, Join, LeaveEarly, Interrupt, vars,
     threadVars
<1>3. ASSUME NEW w \in Workers, NEW h \in Hooks, Take(w, h)
      PROVE  UNCHANGED <<pc, cap>>
  BY <1>3 DEF Take, Replay, threadVars
<1>4. ASSUME NEW t \in Threads, ExecutionStep(t)
      PROVE  (pc'[u] = pc[u] /\ cap'[u] = cap[u]) \/ pc'[u] \notin CloseLabels
  <2>1. CASE u # t
    <3>1. Away(t)
      BY <1>4, AwaySteps
    <3> QED BY <2>1, <3>1 DEF Away, Mine
  <2>2. CASE u = t
    <3>1. UNCHANGED <<pc, cap>> \/ pc'[t] \in {"observe", "recordCause", "complete"}
      BY <1>0, <1>4 DEF ExecutionStep, Start, StartCall, Finish, FinishCall, Vanish,
         EndTask, Replay, Call, vars, threadVars
    <3> QED BY <2>2, <3>1 DEF CloseLabels
  <2> QED BY <2>1, <2>2
<1>5. ASSUME NEW t \in Threads, CollectorStep(t)
      PROVE  \/ pc'[u] = pc[u] /\ cap'[u] = cap[u]
             \/ pc'[u] \notin CloseLabels
             \/ t = u /\ CloseStep(u)
  <2>1. CASE HookStep(t)
    BY <1>0, <2>1, HookCarries DEF Carries, Mine, CallbackLabels, HookLabels, CloseLabels
  <2>2. CASE CloseStep(t)
    BY <1>0, <2>2, CloseCloses DEF Closes, Mine
  <2> QED BY <1>5, <2>1, <2>2, CollectorClient
<1>6. UNCHANGED systemVars => UNCHANGED <<pc, cap>>
  BY DEF systemVars, vars, threadVars
<1> QED BY <1>0, <1>1, <1>2, <1>3, <1>4, <1>5, <1>6 DEF SystemNext

(* The action of a capture ends settled, or the caller was interrupted.    *)
LEMMA EndSettled ==
  ASSUME SystemAssumption, CollectorAssumption, SystemInv, StageInv, WaitInv,
         NEW t \in Callers, NEW threw \in BOOLEAN, EndAction(t, threw)
  PROVE  CloseOK(t)'
<1>1. PICK c \in Captures : c = scope[t]
  BY DEF EndAction, BeginClose, SystemInv, EvidenceInv, TypeInv, SharedTypes
<1>2. /\ pc[t] = "idle" /\ waits[t] = {} /\ c # NoCapture /\ t \in Threads
      /\ pc'[t] = "closeFlag" /\ cap'[t] = c
      /\ UNCHANGED <<stage, origin, interrupted>>
      /\ \A h \in Hooks : due'[c][h] = IF h \in Of(c) THEN Reported(h) ELSE "NONE"
  BY <1>1 DEF EndAction, AtRest, BeginClose, Call, Idle, executorVars, SystemInv,
     SystemTypeOK, EvidenceInv, TypeInv, ThreadInv, ThreadTypes, CollectorAssumption,
     SystemAssumption, Of
<1>3. t \in interrupted \/ Broken(c) \/ \A h \in Of(c) : stage[h] = "RETURNED"
  BY <1>1, <1>2 DEF WaitInv, WaitOK, CloseLabels
<1>4. ASSUME NEW h \in Hooks, stage[h] \in {"RETURNED", "FAILED"}
      PROVE  /\ Free(h) /\ lifecycle[h] \in {"STARTED", "FINISHED"}
             /\ stage[h] = "RETURNED" => lifecycle[h] = "FINISHED"
  <2>1. StageOK(h) /\ lifecycle[h] \in {"NEW", "STARTED", "FINISHED"}
    BY DEF StageInv, SystemInv, EvidenceInv, TypeInv, SharedTypes
  <2>2. ASSUME NEW u \in Threads, hk[u] = h
        PROVE  FALSE
    <3>1. pc[u] \in CallbackLabels
      BY <2>2 DEF SystemInv, ClientInv, TaskInv, TaskOK, CollectorAssumption
    <3>2. task[u] = h /\ h # NoHook
      BY <2>2, <3>1, OwnHook DEF CollectorAssumption
    <3> QED BY <1>4, <3>2 DEF SystemInv, SystemTypeOK, OneRunner
  <2> QED BY <1>4, <2>1, <2>2 DEF StageOK, Free
<1>5. CASE Broken(c)
  <2>1. PICK h \in Of(c) : stage[h] = "FAILED"
    BY <1>5 DEF Broken
  <2>2. h \in Hooks /\ Free(h) /\ lifecycle[h] \in {"STARTED", "FINISHED"}
    BY <1>4, <2>1 DEF Of
  <2>3. Reported(h) # "NONE"
    BY <2>2 DEF Reported
  <2>4. h \in Of(c)' /\ stage'[h] = "FAILED" /\ due'[c][h] # "NONE"
    BY <1>2, <2>1, <2>2, <2>3 DEF Of
  <2> QED BY <1>2, <2>4 DEF CloseOK, Settled
<1>6. CASE \A h \in Of(c) : stage[h] = "RETURNED"
  <2>1. ASSUME NEW h \in Of(c)'
        PROVE  due'[c][h] = "RETURNED"
    <3>1. h \in Hooks /\ h \in Of(c) /\ stage[h] = "RETURNED"
      BY <1>2, <1>6 DEF Of
    <3>2. Reported(h) = "RETURNED"
      BY <1>4, <3>1 DEF Reported
    <3> QED BY <1>2, <3>1, <3>2
  <2> QED BY <1>2, <2>1 DEF CloseOK, Settled, AllReturned
<1>7. CASE t \in interrupted
  BY <1>2, <1>7 DEF CloseOK
<1> QED BY <1>3, <1>5, <1>6, <1>7

(* Each step of a close leaves what the next one relies on.                *)
LEMMA CloseAdvances ==
  ASSUME SystemAssumption, CollectorAssumption, SystemInv, CollectorGrows, ExecutorGrows,
         DueInv, CloseInv, \A c \in Captures : Ended(c) => due'[c] = due[c],
         [SystemNext]_systemVars, NEW t \in Threads, CollectorStep(t), CloseStep(t)
  PROVE  CloseOK(t)'
<1>0. /\ DOMAIN pc = Threads /\ DOMAIN cap = Threads /\ CloseOK(t)
      /\ UNCHANGED interrupted
  BY DEF SystemInv, EvidenceInv, TypeInv, ThreadInv, ThreadTypes, CloseInv,
     CollectorStep, executorVars
<1>1. pc[t] \in CloseLabels
  BY CloseCloses DEF Closes, SystemInv, EvidenceInv
<1>2. PICK c \in Captures : c = cap[t] /\ Ended(c)
  BY <1>1, ClosingEnded
<1>3. due'[c] = due[c] /\ Of(c)' = Of(c) /\ Started(c)' = Started(c)
  BY <1>2, EndedKept DEF Started
<1>4. /\ Settled(c) => Settled(c)'
      /\ diags[c] # {} => diags'[c] # {}
      /\ c \in observed => c \in observed'
  BY <1>3, SettledKept DEF CollectorGrows
<1>5. CASE CloseFlag(t)
  <2>1. pc[t] = "closeFlag" /\ pc'[t] = "closeChecks" /\ cap'[t] = c
    BY <1>0, <1>2, <1>5 DEF CloseFlag, Goto
  <2> QED BY <1>0, <1>2, <1>4, <2>1 DEF CloseOK
<1>6. CASE CloseChecks(t, t \in interrupted)
  <2>1. /\ pc[t] = "closeChecks" /\ pc'[t] = "freeze" /\ cap'[t] = c
        /\ diags' = [diags EXCEPT ![c] = @ \cup CloseCodes(c, t \in interrupted)]
        /\ DOMAIN diags = Captures
    BY <1>0, <1>2, <1>6 DEF CloseChecks, Goto, SystemInv, EvidenceInv, TypeInv, SharedTypes
  <2>2. (t \in interrupted \/ c \notin observed) => diags'[c] # {}
    BY <2>1 DEF CloseCodes
  <2> QED BY <1>0, <1>2, <1>4, <2>1, <2>2 DEF CloseOK
<1>7. CASE EndFreeze(t)
  <2>1. /\ pc[t] = "freeze" /\ pc'[t] = "assemble" /\ cap'[t] = c
        /\ \A h \in attempts[c] : frozen[h] # "NONE"
        /\ UNCHANGED <<attempts, frozen>>
    BY <1>0, <1>2, <1>7 DEF EndFreeze, Goto, Visited, captureVars, closeVars
  <2> QED BY <1>0, <1>2, <1>4, <2>1 DEF CloseOK
<1>8. CASE \E h \in Hooks : Freeze(t, h)
  <2>1. pc'[t] = pc[t] /\ cap'[t] = cap[t]
    BY <1>8 DEF Freeze, threadVars
  <2> QED BY <1>0, <2>1, CloseKept
<1>9. CASE Assemble(t) \/ Remove(t)
  <2>1. pc'[t] \in {"remove", "idle"}
    BY <1>0, <1>9 DEF Assemble, Remove, Goto, Return, Call
  <2> QED BY <2>1 DEF CloseOK
<1>10. ASSUME HookStep(t)
       PROVE  FALSE
  <2>1. pc[t] \in CallbackLabels
    BY <1>10, HookCarries DEF Carries, SystemInv, EvidenceInv
  <2> QED BY <1>1, <2>1 DEF CloseLabels, CallbackLabels, HookLabels
<1> QED BY <1>5, <1>6, <1>7, <1>8, <1>9, <1>10 DEF CollectorStep

(* A close keeps to an action that ended settled, or tells.                *)
LEMMA CloseInvStep ==
  ASSUME SystemAssumption, CollectorAssumption, SystemInv, StageInv, WaitInv,
         CollectorGrows, ExecutorGrows, DueInv, CloseInv,
         \A c \in Captures : Ended(c) => due'[c] = due[c], [SystemNext]_systemVars
  PROVE  CloseInv'
<1> SUFFICES ASSUME NEW u \in Threads
             PROVE  CloseOK(u)'
  BY DEF CloseInv
<1>1. interrupted \subseteq interrupted'
  <2>1. ASSUME NEW t \in Callers, CallerStep(t)
        PROVE  interrupted \subseteq interrupted'
    BY <2>1 DEF CallerStep, OpenCapture, EndAction, Submit, Join, LeaveEarly, Interrupt,
       executorVars
  <2>2. ASSUME NEW w \in Workers, NEW h \in Hooks, Take(w, h)
        PROVE  UNCHANGED interrupted
    BY <2>2 DEF Take
  <2>3. ASSUME NEW t \in Threads, ExecutionStep(t) \/ CollectorStep(t)
        PROVE  UNCHANGED interrupted
    BY <2>3 DEF ExecutionStep, CollectorStep, Start, Finish, Vanish, EndTask, executorVars
  <2>4. UNCHANGED systemVars => UNCHANGED interrupted
    BY DEF systemVars, executorVars
  <2> QED BY <2>1, <2>2, <2>3, <2>4 DEF SystemNext
<1>2. CASE pc'[u] = pc[u] /\ cap'[u] = cap[u]
  BY <1>1, <1>2, CloseKept DEF CloseInv
<1>3. CASE pc'[u] \notin CloseLabels
  BY <1>3 DEF CloseOK, CloseLabels
<1>4. CASE CollectorStep(u) /\ CloseStep(u)
  BY <1>4, CloseAdvances
<1>5. CASE u \in Callers /\ \E threw \in BOOLEAN : EndAction(u, threw)
  BY <1>5, EndSettled
<1> QED BY <1>2, <1>3, <1>4, <1>5, CloseMoves

-----------------------------------------------------------------------------
(* The executions of a capture fit the retention limit.                    *)
Within(c) == Cardinality(Of(c)) <= MaxRetained

(* What a snapshot tells of the executions of its capture.                 *)
TakenOK(c) ==
  /\ Ended(c)
  /\ snapshot[c].status # "INCOMPLETE" /\ AllReturned(c) => Of(c) \subseteq attempts[c]
  /\ Within(c) =>
       /\ snapshot[c].status = "COMPLETE" => snapshot[c].returned = Of(c)
       /\ snapshot[c].status # "INCOMPLETE" => Started(c) \subseteq AttemptsIn(snapshot[c])

SnapInv ==
  /\ \A c \in Captures : snapshot[c] # NoSnapshot => TakenOK(c)
  /\ \A c \in Captures : Within(c) => result[c] # "CLOSE_FAILURE"
  /\ \A t \in Threads :
       pc[t] = "remove" /\ Within(cap[t]) => snapshot[cap[t]] # NoSnapshot

(* The arithmetic of a count beyond the limit.                             *)
LEMMA Bounded ==
  \A n, k, o, m \in Nat : n > m /\ n <= k /\ k <= o => ~(o <= m)
OBVIOUS

(* A capture that fits the limit is never flagged.                         *)
LEMMA WithinLimitUnflagged ==
  ASSUME CollectorAssumption, SystemInv, CountInv, NEW c \in Captures, Within(c)
  PROVE  c \notin limitFlag
<1> SUFFICES ASSUME c \in limitFlag PROVE FALSE
  OBVIOUS
<1>1. retained[c] > MaxRetained /\ retained[c] <= Cardinality(Counted(c))
  BY DEF CountInv, CountOK
<1>2. Counted(c) \subseteq Of(c) /\ Of(c) \subseteq Hooks
  BY DEF Counted, Of
<1>3. /\ Cardinality(Counted(c)) <= Cardinality(Of(c))
      /\ Cardinality(Counted(c)) \in Nat /\ Cardinality(Of(c)) \in Nat
  BY <1>2, FS_Subset, FS_CardinalityType DEF CollectorAssumption
<1>4. retained[c] \in Nat /\ MaxRetained \in Nat
  BY DEF CollectorAssumption, SystemInv, EvidenceInv, TypeInv, SharedTypes
<1> QED BY <1>1, <1>3, <1>4, Bounded DEF Within

(* A capture that fits the limit has always fitted it.                     *)
LEMMA WithinBefore ==
  ASSUME CollectorAssumption, SystemInv, ExecutorGrows, NEW c \in Captures, Within(c)'
  PROVE  Within(c)
<1>1. Of(c) \subseteq Of(c)' /\ Of(c)' \subseteq Hooks /\ Of(c) \subseteq Hooks
  BY OfGrows DEF Of
<1>2. /\ Cardinality(Of(c)) <= Cardinality(Of(c)')
      /\ Cardinality(Of(c)) \in Nat /\ Cardinality(Of(c)') \in Nat
  BY <1>1, FS_Subset, FS_CardinalityType DEF CollectorAssumption
<1>3. Cardinality(Of(c)') <= MaxRetained /\ MaxRetained \in Nat
  BY DEF Within, CollectorAssumption
<1> QED BY <1>2, <1>3, AtLeast DEF Within

(* The attempts of a capture that were frozen with an outcome.             *)
With(c, o) == {h \in attempts[c] : frozen[h] = o}

(* What the close has gathered when it assembles a snapshot that is not    *)
(* INCOMPLETE.                                                             *)
LEMMA Gathered ==
  ASSUME SystemAssumption, CollectorAssumption, SystemInv, StageInv, CountInv, LossInv,
         DueInv, CloseInv, NEW t \in Threads, pc[t] = "assemble",
         NEW c \in Captures, c = cap[t],
         diags[c] = {}, With(c, "START_REPORTED") = {}
  PROVE  /\ AllReturned(c) => Of(c) \subseteq attempts[c]
         /\ Within(c) =>
              Started(c) \subseteq With(c, "CALLBACK_RETURNED") \cup With(c, "CALLBACK_FAILURE")
         /\ Within(c) /\ With(c, "CALLBACK_FAILURE") = {} =>
              With(c, "CALLBACK_RETURNED") = Of(c) /\ Of(c) # {}
<1>1. DueOK(c) /\ CloseOK(t)
  BY DEF DueInv, CloseInv
<1>2. ASSUME Within(c), NEW h \in Started(c)
      PROVE  h \in With(c, "CALLBACK_RETURNED") \cup With(c, "CALLBACK_FAILURE")
  <2>1. h \in attempts[c]
    BY <1>1, <1>2, WithinLimitUnflagged DEF DueOK, Noticed
  <2>2. frozen[h] # "NONE" /\ h \in Hooks
    BY <1>1, <1>2, <2>1 DEF CloseOK, Started
  <2>3. frozen[h] \in {"CALLBACK_RETURNED", "CALLBACK_FAILURE", "START_REPORTED"}
    BY <2>2 DEF SystemInv, EvidenceInv, TypeInv, SharedTypes, Outcomes, Terminal
  <2> QED BY <2>1, <2>3 DEF With
<1>3. ASSUME Within(c), With(c, "CALLBACK_FAILURE") = {}
      PROVE  With(c, "CALLBACK_RETURNED") = Of(c) /\ Of(c) # {}
  <2>1. ASSUME NEW h \in Of(c), stage[h] = "FAILED", due[c][h] # "NONE"
        PROVE  FALSE
    <3>1. h \in Hooks /\ h \in Started(c)
      BY <2>1 DEF Of, Started
    <3>2. frozen[h] = "CALLBACK_RETURNED"
      BY <1>2, <1>3, <3>1 DEF With
    <3>3. completion[h] = "CALLBACK_RETURNED" /\ StageOK(h)
      BY <3>1, <3>2 DEF SystemInv, EvidenceInv, HookInv, AttemptInv, Terminal, StageInv
    <3> QED BY <2>1, <3>3 DEF StageOK
  <2>2. AllReturned(c)
    BY <1>1, <2>1 DEF CloseOK, Settled
  <2>3. Of(c) \subseteq Started(c)
    BY <2>2 DEF AllReturned, Of, Started
  <2>4. attempts[c] \subseteq Of(c)
    <3>1. attempts[c] \subseteq Hooks
      BY DEF SystemInv, EvidenceInv, TypeInv, SharedTypes
    <3> QED BY <3>1 DEF SystemInv, ClientInv, PlaceInv, NoCrossCapture, Of
  <2>5. Of(c) # {}
    <3>1. c \in observed
      BY <1>1 DEF CloseOK
    <3> QED BY <3>1 DEF LossInv
  <2> QED BY <1>2, <1>3, <2>3, <2>4, <2>5 DEF With
<1>4. AllReturned(c) => Of(c) \subseteq attempts[c]
  BY <1>1 DEF DueOK
<1> QED BY <1>2, <1>3, <1>4

(* The snapshot that is assembled, if the constructor accepts it.          *)
LEMMA AssembleTakes ==
  ASSUME SystemAssumption, CollectorAssumption, SystemInv, StageInv, CountInv, LossInv,
         DueInv, CloseInv, NEW t \in Threads, Assemble(t),
         NEW c \in Captures, c = cap[t]
  PROVE  /\ snapshot'[c] # NoSnapshot =>
              /\ snapshot'[c].status # "INCOMPLETE" /\ AllReturned(c) =>
                   Of(c) \subseteq attempts[c]
              /\ Within(c) =>
                   /\ snapshot'[c].status = "COMPLETE" => snapshot'[c].returned = Of(c)
                   /\ snapshot'[c].status # "INCOMPLETE" =>
                        Started(c) \subseteq AttemptsIn(snapshot'[c])
         /\ Within(c) => snapshot'[c] # NoSnapshot
<1> DEFINE returned == With(c, "CALLBACK_RETURNED")
           failed == With(c, "CALLBACK_FAILURE")
           unknown == With(c, "START_REPORTED")
           new == [status   |-> CaptureStatus(failed, unknown, diags[c]),
                   returned |-> returned,
                   failed   |-> failed,
                   unknown  |-> unknown,
                   codes    |-> diags[c]]
<1>1. /\ pc[t] = "assemble"
      /\ snapshot'[c] = IF new.status = "COMPLETE" => AttemptsIn(new) # {}
                        THEN new ELSE snapshot[c]
  BY DEF Assemble, With, SystemInv, EvidenceInv, TypeInv, SharedTypes
<1>2. snapshot[c] = NoSnapshot
  <2>1. pc[t] = "assemble" /\ DeliveryInv
    BY DEF Assemble, SystemInv, EvidenceInv
  <2>2. c = scope[t] /\ scope[t] # NoCapture
    BY <2>1, ClosingScope DEF CloseLabels, SystemInv, EvidenceInv
  <2> QED BY <2>1, <2>2 DEF DeliveryInv, Undecided
<1>3. /\ new.status = CaptureStatus(failed, unknown, diags[c])
      /\ new.returned = returned /\ AttemptsIn(new) = returned \cup failed \cup unknown
  BY DEF AttemptsIn
<1>4. new.status \in {"COMPLETE", "REPORTED_EXECUTION_FAILURE", "INCOMPLETE"}
  BY <1>3 DEF CaptureStatus
<1>5. new # NoSnapshot
  BY <1>4 DEF NoSnapshot
<1>6. ASSUME new.status # "INCOMPLETE"
      PROVE  /\ diags[c] = {} /\ unknown = {}
             /\ new.status = "COMPLETE" => failed = {}
  BY <1>3, <1>6 DEF CaptureStatus
<1>7. ASSUME new.status # "INCOMPLETE"
      PROVE  /\ AllReturned(c) => Of(c) \subseteq attempts[c]
             /\ Within(c) => Started(c) \subseteq returned \cup failed
             /\ Within(c) /\ failed = {} => returned = Of(c) /\ Of(c) # {}
  BY <1>1, <1>6, <1>7, Gathered
<1> HIDE DEF new, returned, failed, unknown
<1>8. Within(c) => (new.status = "COMPLETE" => AttemptsIn(new) # {})
  BY <1>3, <1>6, <1>7
<1> QED BY <1>1, <1>2, <1>3, <1>5, <1>6, <1>7, <1>8

(* A capture call delivers the failure of its close only without a         *)
(* snapshot.                                                               *)
LEMMA CloseFails ==
  ASSUME CollectorAssumption, TypeInv, [Next]_vars, NEW c \in Captures,
         result'[c] = "CLOSE_FAILURE"
  PROVE  \/ result[c] = "CLOSE_FAILURE"
         \/ \E t \in Threads : pc[t] = "remove" /\ cap[t] = c /\ snapshot[c] = NoSnapshot
<1>0. DOMAIN result = Captures
  BY DEF TypeInv, SharedTypes
<1>1. ASSUME NEW t \in Threads, CloseStep(t), result' # result
      PROVE  Remove(t)
  BY <1>1 DEF CloseStep, CloseFlag, CloseChecks, Freeze, EndFreeze, Assemble, registryVars
<1>2. ASSUME NEW t \in Threads, Remove(t), result[c] # "CLOSE_FAILURE"
      PROVE  pc[t] = "remove" /\ cap[t] = c /\ snapshot[c] = NoSnapshot
  BY <1>0, <1>2 DEF Remove, Delivered
<1>3. ASSUME NEW t \in Threads, NEW threw \in BOOLEAN, BeginClose(t, threw)
      PROVE  result[c] = "CLOSE_FAILURE"
  <2>1. PICK d : result' = [result EXCEPT ![d] = IF threw THEN "ACTION_FAILURE" ELSE @]
    BY <1>3 DEF BeginClose
  <2> QED BY <1>0, <2>1
<1>4. ASSUME NEW t \in Threads,
             \/ \E d \in Captures : Open(t, d)
             \/ \E d \in Captures \cup {NoCapture} : Replay(t, d)
             \/ \E h \in Hooks :
                  \/ \E input \in StartInputs : StartCall(t, h, input)
                  \/ \E input \in FinishInputs : FinishCall(t, h, input)
                  \/ StartMisuse(t, h) \/ FinishMisuse(t, h)
             \/ HookStep(t)
      PROVE  UNCHANGED result
  BY <1>4 DEF Open, Replay, StartCall, FinishCall, StartMisuse, FinishMisuse, HookStep,
     Observe, RecordArgument, CheckClosed, Count, Limit, Retain, Record, RecordCause,
     Complete, registryVars
<1>5. UNCHANGED vars => UNCHANGED result
  BY DEF vars, registryVars
<1> QED BY <1>1, <1>2, <1>3, <1>4, <1>5 DEF Next

(* A snapshot that was taken keeps telling the truth of its capture.       *)
LEMMA TakenKept ==
  ASSUME SystemAssumption, CollectorAssumption, SystemInv, CollectorGrows, ExecutorGrows,
         [SystemNext]_systemVars, NEW c \in Captures, TakenOK(c),
         snapshot'[c] = snapshot[c], due'[c] = due[c]
  PROVE  TakenOK(c)'
<1>1. Ended(c)' /\ Of(c)' = Of(c)
  BY EndedKept DEF TakenOK
<1>2. Started(c)' = Started(c) /\ (AllReturned(c)' => AllReturned(c))
  BY <1>1 DEF Started, AllReturned
<1>3. Within(c)' => Within(c)
  BY WithinBefore
<1>4. attempts[c] \subseteq attempts'[c]
  BY DEF CollectorGrows
<1> QED BY <1>1, <1>2, <1>3, <1>4 DEF TakenOK

(* Every step keeps what the snapshots tell.                               *)
LEMMA SnapStep ==
  ASSUME SystemAssumption, CollectorAssumption, SystemInv, SystemInv', StageInv, CountInv,
         LossInv, DueInv, CloseInv, SnapInv, CollectorGrows, ExecutorGrows,
         \A c \in Captures : Ended(c) => due'[c] = due[c], [SystemNext]_systemVars
  PROVE  SnapInv'
<1>0. [Next]_vars /\ TypeInv /\ DeliveryFinal /\ DOMAIN pc = Threads
  BY ClientStep, EvidenceStep DEF SystemInv, EvidenceInv, TypeInv, ThreadInv, ThreadTypes
<1>1. ASSUME NEW t \in Threads, Assemble(t), NEW c \in Captures, c = cap[t]
      PROVE  /\ Ended(c)' /\ Of(c)' = Of(c) /\ due'[c] = due[c]
             /\ attempts' = attempts /\ cap' = cap
  <2>1. pc[t] \in CloseLabels
    BY <1>1 DEF Assemble, CloseLabels
  <2>2. Ended(c)
    BY <1>1, <2>1, ClosingEnded
  <2> QED BY <1>1, <2>2, EndedKept DEF Assemble, Goto, captureVars
<1>2. ASSUME NEW c \in Captures, snapshot'[c] # NoSnapshot
      PROVE  TakenOK(c)'
  <2>1. CASE snapshot[c] # NoSnapshot
    <3>1. TakenOK(c) /\ snapshot'[c] = snapshot[c]
      BY <1>0, <2>1 DEF SnapInv, DeliveryFinal
    <3>2. due'[c] = due[c]
      BY <3>1 DEF TakenOK
    <3> QED BY <3>1, <3>2, TakenKept
  <2>2. CASE snapshot[c] = NoSnapshot
    <3>1. PICK t \in Threads : Assemble(t) /\ snapshot'[c] # snapshot[c]
      BY <1>0, <1>2, <2>2, QuietSnapshots
    <3>2. c = cap[t]
      <4>1. PICK s : snapshot' = [snapshot EXCEPT ![cap[t]] = s]
        BY <3>1 DEF Assemble
      <4> QED BY <1>0, <3>1, <4>1 DEF TypeInv, SharedTypes
    <3>3. /\ snapshot'[c].status # "INCOMPLETE" /\ AllReturned(c) => Of(c) \subseteq attempts[c]
          /\ Within(c) =>
               /\ snapshot'[c].status = "COMPLETE" => snapshot'[c].returned = Of(c)
               /\ snapshot'[c].status # "INCOMPLETE" =>
                    Started(c) \subseteq AttemptsIn(snapshot'[c])
      BY <1>2, <3>1, <3>2, AssembleTakes
    <3>4. /\ Ended(c)' /\ Of(c)' = Of(c) /\ due'[c] = due[c] /\ attempts' = attempts
      BY <1>1, <3>1, <3>2
    <3>5. /\ Started(c)' = Started(c) /\ (AllReturned(c)' => AllReturned(c))
          /\ (Within(c)' => Within(c))
      BY <3>4 DEF Started, AllReturned, Within
    <3> QED BY <3>3, <3>4, <3>5 DEF TakenOK
  <2> QED BY <2>1, <2>2
<1>3. ASSUME NEW c \in Captures, Within(c)'
      PROVE  result'[c] # "CLOSE_FAILURE"
  <2>1. Within(c)
    BY <1>3, WithinBefore
  <2>2. result[c] # "CLOSE_FAILURE"
    BY <2>1 DEF SnapInv
  <2>3. ~\E t \in Threads : pc[t] = "remove" /\ cap[t] = c /\ snapshot[c] = NoSnapshot
    BY <2>1 DEF SnapInv
  <2> QED BY <1>0, <2>2, <2>3, CloseFails
<1>4. ASSUME NEW t \in Threads, pc'[t] = "remove", NEW c \in Captures, c = cap'[t],
             Within(c)'
      PROVE  snapshot'[c] # NoSnapshot
  <2>1. Within(c)
    BY <1>4, WithinBefore
  <2>2. CASE pc'[t] = pc[t] /\ cap'[t] = cap[t]
    BY <1>0, <1>4, <2>1, <2>2 DEF SnapInv, DeliveryFinal
  <2>3. CASE CloseStep(t)
    <3>1. CASE Assemble(t)
      <4>1. c = cap[t]
        BY <1>4, <3>1 DEF Assemble, Goto
      <4> QED BY <2>1, <3>1, <4>1, AssembleTakes
    <3>2. CASE ~Assemble(t)
      <4>1. (pc'[t] = pc[t] /\ cap'[t] = cap[t]) \/ pc'[t] # "remove"
        BY <1>0, <2>3, <3>2 DEF CloseStep, CloseFlag, CloseChecks, Freeze, EndFreeze,
           Remove, Goto, Return, Call, threadVars
      <4> QED BY <1>4, <2>2, <4>1
    <3> QED BY <3>1, <3>2
  <2>4. ASSUME NEW threw \in BOOLEAN, EndAction(t, threw)
        PROVE  FALSE
    BY <1>0, <1>4, <2>4 DEF EndAction, BeginClose, Call
  <2> QED BY <1>4, <2>2, <2>3, <2>4, CloseMoves DEF CloseLabels
<1>5. ASSUME NEW t \in Threads, pc'[t] = "remove"
      PROVE  cap'[t] \in Captures
  BY <1>5 DEF SystemInv, EvidenceInv, TypeInv, ThreadInv, LocalsOK, FrameOK
<1>6. \A c \in Captures : snapshot'[c] # NoSnapshot => TakenOK(c)'
  BY <1>2
<1>7. \A c \in Captures : Within(c)' => result'[c] # "CLOSE_FAILURE"
  BY <1>3
<1>8. ASSUME NEW t \in Threads, pc'[t] = "remove", Within(cap[t])'
      PROVE  snapshot'[cap'[t]] # NoSnapshot
  <2>1. PICK c \in Captures : c = cap'[t]
    BY <1>5, <1>8
  <2> QED BY <1>4, <1>8, <2>1 DEF Within, Of
<1> QED BY <1>6, <1>7, <1>8 DEF SnapInv

-----------------------------------------------------------------------------
(* The inductive invariant: the collector's and the client's own, and the  *)
(* chain from what an execution reports to what its snapshot tells.        *)
OutcomeInv ==
  /\ SystemInv
  /\ StageInv /\ CountInv /\ LossInv /\ WaitInv
  /\ HandleInv /\ DueInv /\ CloseInv /\ SnapInv

(* The arithmetic of a count that is zero.                                 *)
LEMMA NothingLess == \A n \in Nat : 0 <= n
OBVIOUS

(* It holds initially, where nothing is submitted ...                      *)
LEMMA OutcomeInit ==
  ASSUME SystemAssumption, CollectorAssumption, SystemInit
  PROVE  OutcomeInv
<1>0. SystemInv /\ NoCapture \notin Captures /\ MaxRetained \in Nat
  BY SystemInvInit DEF CollectorAssumption
<1>1. StageInv
  BY DEF SystemInit, Init, StageInv, StageOK, CallOK, CallbackLabels, HookLabels
<1>2. CountInv
  <2>1. ASSUME NEW c \in Captures
        PROVE  CountOK(c)
    <3>1. Cardinality(Counted(c)) \in Nat
      BY CountedFinite
    <3>2. 0 <= Cardinality(Counted(c))
      BY <3>1, NothingLess
    <3>3. retained[c] = 0 /\ limitFlag = {} /\ \A t \in Threads : pc[t] = "idle"
      BY DEF SystemInit, Init
    <3> QED BY <3>1, <3>2, <3>3 DEF CountOK
  <2> QED BY <2>1 DEF CountInv
<1>3. LossInv
  BY <1>0 DEF SystemInit, Init, LossInv
<1>4. WaitInv
  <2>1. ASSUME NEW t \in Callers
        PROVE  WaitOK(t)
    BY DEF SystemInit, Init, WaitOK, CloseLabels, SystemAssumption
  <2> QED BY <2>1 DEF WaitInv
<1>5. HandleInv
  BY DEF SystemInit, Init, HandleInv, HandleOK, CallbackLabels, HookLabels
<1>6. DueInv
  <2>1. ASSUME NEW c \in Captures
        PROVE  DueOK(c)
    <3>1. Of(c) = {} /\ Started(c) = {} /\ \A h \in Hooks : due[c][h] = "NONE"
      BY <1>0 DEF SystemInit, Of, Started
    <3> QED BY <3>1 DEF DueOK
  <2> QED BY <2>1 DEF DueInv
<1>7. CloseInv
  BY DEF SystemInit, Init, CloseInv, CloseOK
<1>8. SnapInv
  BY DEF SystemInit, Init, SnapInv
<1> QED
  BY <1>0, <1>1, <1>2, <1>3, <1>4, <1>5, <1>6, <1>7, <1>8 DEF OutcomeInv

(* ... and every step keeps it.                                            *)
LEMMA OutcomeStep ==
  ASSUME SystemAssumption, CollectorAssumption, OutcomeInv, [SystemNext]_systemVars
  PROVE  OutcomeInv'
<1> USE DEF OutcomeInv
<1>1. SystemInv'
  BY SystemInvStep
<1>2. CollectorGrows /\ ExecutorGrows
  BY ClientStep, CollectorGrowsStep, ExecutorGrowsStep DEF SystemInv, EvidenceInv
<1>3. StageInv' /\ CountInv' /\ LossInv' /\ WaitInv'
  BY <1>2, StageStep, CountStep, LossStep, WaitStep
<1>4. HandleInv'
  BY <1>1, <1>2, HandleStep
<1>5. DueInv' /\ \A c \in Captures : Ended(c) => due'[c] = due[c]
  BY <1>2, DueStep
<1>6. CloseInv'
  BY <1>2, <1>5, CloseInvStep
<1>7. SnapInv'
  BY <1>1, <1>2, <1>5, SnapStep
<1> QED BY <1>1, <1>3, <1>4, <1>5, <1>6, <1>7

-----------------------------------------------------------------------------
(* As long as the executions of each capture fit the retention limit, a    *)
(* COMPLETE snapshot holds exactly those of its capture, all returned: not *)
(* even an action that catches a failed statement's exception, or is       *)
(* interrupted, and leaves executions running gets another COMPLETE.       *)
THEOREM CompleteWithinLimit ==
  SystemSpec => []((\A c \in Captures : Within(c)) => CompleteIsWhole)
<1>1. SystemInit => OutcomeInv
  BY OutcomeInit, SystemAssumption, CollectorAssumption
<1>2. OutcomeInv /\ [SystemNext]_systemVars => OutcomeInv'
  BY OutcomeStep, SystemAssumption, CollectorAssumption
<1>3. OutcomeInv => ((\A c \in Captures : Within(c)) => CompleteIsWhole)
  <2> SUFFICES ASSUME OutcomeInv, \A c \in Captures : Within(c),
                      NEW c \in Captures, snapshot[c].status = "COMPLETE"
               PROVE  snapshot[c].returned = Of(c)
    BY DEF CompleteIsWhole, Of
  <2>1. snapshot[c] # NoSnapshot
    BY DEF NoSnapshot
  <2> QED BY <2>1 DEF OutcomeInv, SnapInv, TakenOK
<1> QED BY <1>1, <1>2, <1>3, PTL DEF SystemSpec

(* Under the same condition no start that was reported before the capture  *)
(* closed is missing from a snapshot that carries no diagnostic (RC-09).   *)
THEOREM NothingLostWithinLimit ==
  SystemSpec => []((\A c \in Captures : Within(c)) => NoSilentLoss)
<1>1. SystemInit => OutcomeInv
  BY OutcomeInit, SystemAssumption, CollectorAssumption
<1>2. OutcomeInv /\ [SystemNext]_systemVars => OutcomeInv'
  BY OutcomeStep, SystemAssumption, CollectorAssumption
<1>3. OutcomeInv => ((\A c \in Captures : Within(c)) => NoSilentLoss)
  BY DEF OutcomeInv, SnapInv, TakenOK, NoSilentLoss
<1> QED BY <1>1, <1>2, <1>3, PTL DEF SystemSpec

(* Under the same condition a failure that was reported before the capture *)
(* closed keeps the snapshot from being COMPLETE.                          *)
THEOREM FailureKeptWithinLimit ==
  SystemSpec => []((\A c \in Captures : Within(c)) => FailureNeverPasses)
<1>1. SystemInit => OutcomeInv
  BY OutcomeInit, SystemAssumption, CollectorAssumption
<1>2. OutcomeInv /\ [SystemNext]_systemVars => OutcomeInv'
  BY OutcomeStep, SystemAssumption, CollectorAssumption
<1>3. OutcomeInv => ((\A c \in Captures : Within(c)) => FailureNeverPasses)
  <2> SUFFICES ASSUME OutcomeInv, \A c \in Captures : Within(c), NEW c \in Captures,
                      NEW h \in Hooks, due[c][h] = "FAILED",
                      snapshot[c].status = "COMPLETE"
               PROVE  FALSE
    BY DEF FailureNeverPasses
  <2>1. snapshot[c] # NoSnapshot
    BY DEF NoSnapshot
  <2>2. h \in Of(c) /\ stage[h] \in {"FAILING", "FAILED"}
    BY DEF OutcomeInv, DueInv, DueOK, Started
  <2>3. snapshot[c].returned = Of(c)
    BY <2>1 DEF OutcomeInv, SnapInv, TakenOK
  <2>4. completion[h] = "CALLBACK_RETURNED"
    BY <2>2, <2>3 DEF OutcomeInv, SystemInv, EvidenceInv, SnapshotAgrees
  <2>5. StageOK(h)
    BY DEF OutcomeInv, StageInv
  <2> QED BY <2>2, <2>4, <2>5 DEF StageOK
<1> QED BY <1>1, <1>2, <1>3, PTL DEF SystemSpec

(* Under the same condition the snapshot's constructor is never asked for  *)
(* a COMPLETE snapshot without attempts, so no close fails.                *)
THEOREM CloseSucceedsWithinLimit ==
  SystemSpec => []((\A c \in Captures : Within(c)) => CloseNeverFails)
<1>1. SystemInit => OutcomeInv
  BY OutcomeInit, SystemAssumption, CollectorAssumption
<1>2. OutcomeInv /\ [SystemNext]_systemVars => OutcomeInv'
  BY OutcomeStep, SystemAssumption, CollectorAssumption
<1>3. OutcomeInv => ((\A c \in Captures : Within(c)) => CloseNeverFails)
  BY DEF OutcomeInv, SnapInv, CloseNeverFails
<1> QED BY <1>1, <1>2, <1>3, PTL DEF SystemSpec

(* The arithmetic of a count within the limit.                             *)
LEMMA NotMore ==
  \A n, k, m \in Nat : n <= k /\ k <= m => ~(n > m)
OBVIOUS

(* RC-10, whatever the number of executions: when every execution of a     *)
(* capture has returned and more than the limit were started, the capture  *)
(* is INCOMPLETE.                                                          *)
THEOREM LimitAlwaysTold == SystemSpec => []LimitFailsClosed
<1>1. SystemInit => OutcomeInv
  BY OutcomeInit, SystemAssumption, CollectorAssumption
<1>2. OutcomeInv /\ [SystemNext]_systemVars => OutcomeInv'
  BY OutcomeStep, SystemAssumption, CollectorAssumption
<1>3. OutcomeInv /\ RetainedBound => LimitFailsClosed
  <2> SUFFICES ASSUME OutcomeInv, RetainedBound, NEW c \in Captures,
                      snapshot[c] # NoSnapshot,
                      Cardinality(Started(c)) > MaxRetained,
                      \A h \in Hooks : origin[h] = c => due[c][h] = "RETURNED",
                      snapshot[c].status # "INCOMPLETE"
               PROVE  FALSE
    BY DEF LimitFailsClosed
  <2>1. AllReturned(c)
    BY DEF AllReturned, Of
  <2>2. Of(c) \subseteq attempts[c]
    BY <2>1 DEF OutcomeInv, SnapInv, TakenOK
  <2>3. Started(c) \subseteq attempts[c] /\ attempts[c] \subseteq Hooks
    BY <2>2 DEF OutcomeInv, DueInv, DueOK, SystemInv, EvidenceInv, TypeInv, SharedTypes
  <2>4. /\ Cardinality(Started(c)) <= Cardinality(attempts[c])
        /\ Cardinality(Started(c)) \in Nat /\ Cardinality(attempts[c]) \in Nat
        /\ MaxRetained \in Nat
    BY <2>3, FS_Subset, FS_CardinalityType, CollectorAssumption DEF CollectorAssumption
  <2>5. Cardinality(attempts[c]) <= MaxRetained
    BY DEF RetainedBound
  <2> QED BY <2>4, <2>5, NotMore
<1> QED
  BY <1>1, <1>2, <1>3, ClientImplementsCollector, RetentionBounded, PTL DEF SystemSpec
=============================================================================
