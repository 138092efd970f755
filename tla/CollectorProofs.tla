--------------------------- MODULE CollectorProofs ---------------------------
(* Proofs about Collector, for every number of threads, captures and hook  *)
(* instances, and every client: the types and the retention limit of       *)
(* RC-10; that a capture belongs to the call that opened it, from its      *)
(* registration to its removal; that what a snapshot says agrees with the  *)
(* attempts, and that evidence is final.                                   *)
EXTENDS Collector, FiniteSetTheorems, TLAPS

(* What a thread's locals hold depends on where the thread is: inside a    *)
(* call it works on a capture, inside a callback also on a hook instance,  *)
(* and what it is about to record is a diagnostic code.                    *)
HookLabels == {"observe", "recordArgument", "checkClosed", "count", "limit",
               "retain", "recordCause", "complete"}

FrameOK(label, c, h, d) ==
  /\ label # "idle" => c \in Captures
  /\ label \in HookLabels => h \in Hooks
  /\ label = "record" => d \in Codes

LocalsOK == \A t \in Threads : FrameOK(pc[t], cap[t], hk[t], detail[t])

ThreadInv == ThreadTypes /\ LocalsOK

(* Each of the thread-local moves keeps the thread invariant.              *)
LEMMA CallInv ==
  ASSUME ThreadInv, NEW t \in Threads, NEW label \in Labels,
         NEW c \in Captures \cup {NoCapture}, NEW h \in Hooks \cup {NoHook},
         NEW d \in Details, FrameOK(label, c, h, d), Call(t, label, c, h, d)
  PROVE  ThreadInv'
<1> USE DEF ThreadInv
<1>1. ThreadTypes'
  BY DEF ThreadTypes, Call
<1>2. LocalsOK'
  <2> SUFFICES ASSUME NEW u \in Threads
               PROVE FrameOK(pc'[u], cap'[u], hk'[u], detail'[u])
    BY DEF LocalsOK
  <2>1. CASE u = t
    BY <2>1 DEF Call, ThreadTypes
  <2>2. CASE u # t
    BY <2>2 DEF Call, ThreadTypes, LocalsOK
  <2> QED BY <2>1, <2>2
<1> QED BY <1>1, <1>2

LEMMA GotoInv ==
  ASSUME ThreadInv, NEW t \in Threads, NEW label \in Labels, NEW d \in Details,
         FrameOK(label, cap[t], hk[t], d), Goto(t, label, d)
  PROVE  ThreadInv'
<1>1. Call(t, label, cap[t], hk[t], d)
  BY DEF Goto, Call, ThreadInv, ThreadTypes
<1> QED BY <1>1, CallInv DEF ThreadInv, ThreadTypes

LEMMA ReturnInv ==
  ASSUME ThreadInv, NEW t \in Threads, Return(t)
  PROVE  ThreadInv'
BY CallInv DEF Return, FrameOK, Details, HookLabels, Labels

LEMMA UnchangedInv ==
  ASSUME ThreadInv, UNCHANGED threadVars
  PROVE  ThreadInv'
BY DEF ThreadInv, ThreadTypes, LocalsOK, FrameOK, threadVars

(* retainedAttemptCount stays a number, the diagnostics a set of codes.    *)
LEMMA IncrementType ==
  ASSUME NEW f \in [Captures -> Nat], NEW c \in Captures
  PROVE  [f EXCEPT ![c] = @ + 1] \in [Captures -> Nat]
OBVIOUS

LEMMA AddDiagType ==
  ASSUME SharedTypes, NEW c, NEW code \in Codes,
         AddDiag(c, code) \/ UNCHANGED diags
  PROVE  diags' \in [Captures -> SUBSET Codes]
BY DEF SharedTypes, AddDiag

(* TypeOK with the typing of the locals is inductive; TypeOK alone is not: *)
(* a thread that is about to record must hold a code.                      *)
TypeInv == SharedTypes /\ ThreadInv

(* Every step keeps the invariant: one case per action.                    *)
LEMMA TypeStep ==
  ASSUME CollectorAssumption, TypeInv, [Next]_vars
  PROVE  TypeInv'
<1> USE CollectorAssumption DEF TypeInv
<1>1. CASE UNCHANGED vars
  <2>1. ThreadInv'
    BY <1>1, UnchangedInv DEF vars
  <2>2. SharedTypes'
    BY <1>1 DEF vars, SharedTypes, registryVars, captureVars, hookVars, closeVars
  <2> QED BY <2>1, <2>2
<1>2. ASSUME NEW t \in Threads, NEW c \in Captures, Open(t, c)
      PROVE  TypeInv'
  <2>1. ThreadInv'
    BY <1>2, UnchangedInv DEF Open
  <2>2. SharedTypes'
    BY <1>2 DEF Open, SharedTypes, captureVars, hookVars, closeVars
  <2> QED BY <2>1, <2>2
<1>3. ASSUME NEW t \in Threads, NEW threw \in BOOLEAN, BeginClose(t, threw)
      PROVE  TypeInv'
  <2> DEFINE c == scope[t]
  <2>1. c \in Captures
    BY <1>3 DEF BeginClose, SharedTypes
  <2>2. ThreadInv'
    BY <1>3, <2>1, CallInv DEF BeginClose, FrameOK, HookLabels, Labels, Details
  <2>3. diags' \in [Captures -> SUBSET Codes]
    <3>1. "RC_WRONG_CLOSE_CONTEXT" \in Codes
      BY DEF Codes
    <3> QED BY <1>3, <3>1, AddDiagType DEF BeginClose
  <2>4. SharedTypes'
    BY <1>3, <2>1, <2>3 DEF BeginClose, RemoveContext, SharedTypes, hookVars,
       closeVars
  <2> QED BY <2>2, <2>4
<1>4. ASSUME NEW t \in Threads, NEW c \in Captures \cup {NoCapture}, Replay(t, c)
      PROVE  TypeInv'
  <2>1. ThreadInv'
    BY <1>4, UnchangedInv DEF Replay
  <2>2. SharedTypes'
    BY <1>4 DEF Replay, SharedTypes, captureVars, hookVars, closeVars
  <2> QED BY <2>1, <2>2
<1>5. ASSUME NEW t \in Threads, NEW h \in Hooks, NEW input \in StartInputs,
             StartCall(t, h, input)
      PROVE  TypeInv'
  <2>1. ThreadInv'
    <3>1. CASE HasCapture(t)
      BY <1>5, <3>1, CallInv DEF StartCall, HasCapture, FrameOK, HookLabels,
         Labels, Details, SharedTypes
    <3>2. CASE ~HasCapture(t)
      BY <1>5, <3>2, UnchangedInv DEF StartCall
    <3> QED BY <3>1, <3>2
  <2>2. SharedTypes'
    BY <1>5 DEF StartCall, SharedTypes, registryVars, captureVars, closeVars
  <2> QED BY <2>1, <2>2
<1>6. ASSUME NEW t \in Threads, NEW h \in Hooks, NEW input \in FinishInputs,
             FinishCall(t, h, input)
      PROVE  TypeInv'
  <2>1. ThreadInv'
    <3>1. CASE inFlight[h] = NoCapture
      BY <1>6, <3>1, UnchangedInv DEF FinishCall
    <3>2. CASE inFlight[h] # NoCapture
      BY <1>6, <3>2, CallInv DEF FinishCall, FrameOK, HookLabels, Labels, Details,
         SharedTypes
    <3> QED BY <3>1, <3>2
  <2>2. SharedTypes'
    BY <1>6 DEF FinishCall, SharedTypes, registryVars, captureVars, closeVars
  <2> QED BY <2>1, <2>2
<1>7. ASSUME NEW t \in Threads, NEW h \in Hooks, NEW code \in Codes,
             RecordCurrent(t, h, code)
      PROVE  SharedTypes => ThreadInv'
  <2>1. CASE HasCapture(t)
    BY <1>7, <2>1, CallInv DEF RecordCurrent, HasCapture, FrameOK, HookLabels,
       Labels, Details, SharedTypes
  <2>2. CASE ~HasCapture(t)
    BY <1>7, <2>2, UnchangedInv DEF RecordCurrent
  <2> QED BY <2>1, <2>2
<1>8. ASSUME NEW t \in Threads, NEW h \in Hooks, StartMisuse(t, h)
      PROVE  TypeInv'
  <2>1. ThreadInv'
    BY <1>8, <1>7 DEF StartMisuse, Codes
  <2>2. SharedTypes'
    BY <1>8 DEF StartMisuse, SharedTypes, registryVars, captureVars, hookVars,
       closeVars
  <2> QED BY <2>1, <2>2
<1>9. ASSUME NEW t \in Threads, NEW h \in Hooks, FinishMisuse(t, h)
      PROVE  TypeInv'
  <2>1. ThreadInv'
    BY <1>9, <1>7 DEF FinishMisuse, Codes
  <2>2. SharedTypes'
    BY <1>9 DEF FinishMisuse, SharedTypes, registryVars, captureVars, closeVars
  <2> QED BY <2>1, <2>2
<1>10. ASSUME NEW t \in Threads, Observe(t)
      PROVE  TypeInv'
  <2>1. cap[t] \in Captures /\ FrameOK(pc[t], cap[t], hk[t], detail[t])
    BY <1>10 DEF Observe, ThreadInv, LocalsOK, FrameOK
  <2>2. ThreadInv'
    BY <1>10, <2>1, GotoInv DEF Observe, StartFailure, FrameOK, HookLabels, Labels, Details, Codes
  <2>3. SharedTypes'
    BY <1>10, <2>1 DEF Observe, SharedTypes, registryVars, hookVars, closeVars
  <2> QED BY <2>2, <2>3
<1>11. ASSUME NEW t \in Threads, RecordArgument(t)
      PROVE  TypeInv'
  <2>1. cap[t] \in Captures /\ FrameOK(pc[t], cap[t], hk[t], detail[t])
    BY <1>11 DEF RecordArgument, ThreadInv, LocalsOK, FrameOK
  <2>2. ThreadInv'
    BY <1>11, <2>1, GotoInv DEF RecordArgument, FrameOK, HookLabels, Labels, Details, Codes
  <2>3. SharedTypes'
    BY <1>11, <2>1 DEF RecordArgument, AddDiag, Codes, SharedTypes, registryVars, hookVars, closeVars
  <2> QED BY <2>2, <2>3
<1>12. ASSUME NEW t \in Threads, CheckClosed(t)
      PROVE  TypeInv'
  <2>1. cap[t] \in Captures /\ FrameOK(pc[t], cap[t], hk[t], detail[t])
    BY <1>12 DEF CheckClosed, ThreadInv, LocalsOK, FrameOK
  <2>2. ThreadInv'
    BY <1>12, <2>1, GotoInv DEF CheckClosed, FrameOK, HookLabels, Labels, Details, Codes
  <2>3. SharedTypes'
    BY <1>12, <2>1 DEF CheckClosed, SharedTypes, registryVars, captureVars, hookVars, closeVars
  <2> QED BY <2>2, <2>3
<1>13. ASSUME NEW t \in Threads, Count(t)
      PROVE  TypeInv'
  <2>1. cap[t] \in Captures /\ FrameOK(pc[t], cap[t], hk[t], detail[t])
    BY <1>13 DEF Count, ThreadInv, LocalsOK, FrameOK
  <2>2. ThreadInv'
    BY <1>13, <2>1, GotoInv DEF Count, FrameOK, HookLabels, Labels, Details, Codes
  <2>3. retained' \in [Captures -> Nat]
    <3>1. retained' = [retained EXCEPT ![cap[t]] = @ + 1]
      BY <1>13 DEF Count
    <3>2. retained \in [Captures -> Nat]
      BY DEF SharedTypes
    <3> QED BY <2>1, <3>1, <3>2, IncrementType
  <2>4. SharedTypes'
    BY <1>13, <2>3 DEF Count, SharedTypes, registryVars, hookVars, closeVars
  <2> QED BY <2>2, <2>4
<1>14. ASSUME NEW t \in Threads, Limit(t)
      PROVE  TypeInv'
  <2>1. cap[t] \in Captures /\ FrameOK(pc[t], cap[t], hk[t], detail[t])
    BY <1>14 DEF Limit, ThreadInv, LocalsOK, FrameOK
  <2>2. ThreadInv'
    BY <1>14, <2>1, GotoInv, ReturnInv DEF Limit, FrameOK, HookLabels, Labels, Details, Codes
  <2>3. SharedTypes'
    BY <1>14, <2>1 DEF Limit, SharedTypes, registryVars, hookVars, closeVars
  <2> QED BY <2>2, <2>3
<1>15. ASSUME NEW t \in Threads, Retain(t)
      PROVE  TypeInv'
  <2>1. cap[t] \in Captures /\ FrameOK(pc[t], cap[t], hk[t], detail[t])
    BY <1>15 DEF Retain, ThreadInv, LocalsOK, FrameOK
  <2>2. ThreadInv'
    BY <1>15, <2>1, ReturnInv DEF Retain
  <2>3. SharedTypes'
    BY <1>15, <2>1 DEF Retain, FrameOK, HookLabels, Outcomes, Terminal, SharedTypes, registryVars, closeVars
  <2> QED BY <2>2, <2>3
<1>16. ASSUME NEW t \in Threads, Record(t)
      PROVE  TypeInv'
  <2>1. cap[t] \in Captures /\ FrameOK(pc[t], cap[t], hk[t], detail[t])
    BY <1>16 DEF Record, ThreadInv, LocalsOK, FrameOK
  <2>2. ThreadInv'
    BY <1>16, <2>1, ReturnInv DEF Record
  <2>3. SharedTypes'
    BY <1>16, <2>1 DEF Record, AddDiag, FrameOK, SharedTypes, registryVars, hookVars, closeVars
  <2> QED BY <2>2, <2>3
<1>17. ASSUME NEW t \in Threads, RecordCause(t)
      PROVE  TypeInv'
  <2>1. cap[t] \in Captures /\ FrameOK(pc[t], cap[t], hk[t], detail[t])
    BY <1>17 DEF RecordCause, ThreadInv, LocalsOK, FrameOK
  <2>2. ThreadInv'
    BY <1>17, <2>1, GotoInv DEF RecordCause, ThreadInv, ThreadTypes, FrameOK, HookLabels, Labels
  <2>3. SharedTypes'
    BY <1>17, <2>1 DEF RecordCause, AddDiag, Codes, SharedTypes, registryVars, hookVars, closeVars
  <2> QED BY <2>2, <2>3
<1>18. ASSUME NEW t \in Threads, Complete(t)
      PROVE  TypeInv'
  <2>1. cap[t] \in Captures /\ FrameOK(pc[t], cap[t], hk[t], detail[t])
    BY <1>18 DEF Complete, ThreadInv, LocalsOK, FrameOK
  <2>2. ThreadInv'
    BY <1>18, <2>1, GotoInv, ReturnInv DEF Complete, FrameOK, HookLabels, Labels, Details, Codes
  <2>3. SharedTypes'
    BY <1>18, <2>1 DEF Complete, OutcomeOf, Outcomes, Terminal, SharedTypes, registryVars, captureVars, closeVars
  <2> QED BY <2>2, <2>3
<1>19. ASSUME NEW t \in Threads, CloseFlag(t)
      PROVE  TypeInv'
  <2>1. cap[t] \in Captures /\ FrameOK(pc[t], cap[t], hk[t], detail[t])
    BY <1>19 DEF CloseFlag, ThreadInv, LocalsOK, FrameOK
  <2>2. ThreadInv'
    BY <1>19, <2>1, GotoInv DEF CloseFlag, FrameOK, HookLabels, Labels, Details, Codes
  <2>3. diags' \in [Captures -> SUBSET Codes]
    <3>1. "RC_DUPLICATE_CLOSE" \in Codes
      BY DEF Codes
    <3> QED BY <1>19, <3>1, AddDiagType DEF CloseFlag
  <2>4. SharedTypes'
    BY <1>19, <2>1, <2>3 DEF CloseFlag, SharedTypes, registryVars, hookVars,
       closeVars
  <2> QED BY <2>2, <2>4
<1>20. ASSUME NEW t \in Threads, NEW interrupted \in BOOLEAN, CloseChecks(t, interrupted)
      PROVE  TypeInv'
  <2>1. cap[t] \in Captures /\ FrameOK(pc[t], cap[t], hk[t], detail[t])
    BY <1>20 DEF CloseChecks, ThreadInv, LocalsOK, FrameOK
  <2>2. ThreadInv'
    BY <1>20, <2>1, GotoInv DEF CloseChecks, FrameOK, HookLabels, Labels, Details, Codes
  <2>3. SharedTypes'
    BY <1>20, <2>1 DEF CloseChecks, CloseCodes, Codes, SharedTypes, registryVars, hookVars, closeVars
  <2> QED BY <2>2, <2>3
<1>21. ASSUME NEW t \in Threads, NEW h \in Hooks, Freeze(t, h)
      PROVE  TypeInv'
  <2>1. cap[t] \in Captures /\ FrameOK(pc[t], cap[t], hk[t], detail[t])
    BY <1>21 DEF Freeze, ThreadInv, LocalsOK, FrameOK
  <2>2. ThreadInv'
    BY <1>21, <2>1, UnchangedInv DEF Freeze
  <2>3. SharedTypes'
    BY <1>21, <2>1 DEF Freeze, FrozenOutcome, SharedTypes, registryVars, captureVars, hookVars
  <2> QED BY <2>2, <2>3
<1>22. ASSUME NEW t \in Threads, EndFreeze(t)
      PROVE  TypeInv'
  <2>1. cap[t] \in Captures /\ FrameOK(pc[t], cap[t], hk[t], detail[t])
    BY <1>22 DEF EndFreeze, ThreadInv, LocalsOK, FrameOK
  <2>2. ThreadInv'
    BY <1>22, <2>1, GotoInv DEF EndFreeze, FrameOK, HookLabels, Labels, Details, Codes
  <2>3. SharedTypes'
    BY <1>22, <2>1 DEF EndFreeze, SharedTypes, registryVars, captureVars, hookVars, closeVars
  <2> QED BY <2>2, <2>3
<1>23. ASSUME NEW t \in Threads, Assemble(t)
      PROVE  TypeInv'
  <2>1. cap[t] \in Captures /\ FrameOK(pc[t], cap[t], hk[t], detail[t])
    BY <1>23 DEF Assemble, ThreadInv, LocalsOK, FrameOK
  <2>2. ThreadInv'
    BY <1>23, <2>1, GotoInv DEF Assemble, FrameOK, HookLabels, Labels, Details, Codes
  <2>3. snapshot' \in [Captures -> Snapshots]
    <3> DEFINE c == cap[t]
               With(o) == {h \in attempts[c] : frozen[h] = o}
               status == CaptureStatus(With("CALLBACK_FAILURE"),
                                       With("START_REPORTED"), diags[c])
    <3>1. /\ \A o : With(o) \in SUBSET Hooks
          /\ diags[c] \in SUBSET Codes
      BY <2>1, <1>23 DEF SharedTypes, Assemble
    <3>2. status \in {"COMPLETE", "REPORTED_EXECUTION_FAILURE", "INCOMPLETE"}
      BY DEF CaptureStatus
    <3> DEFINE new == [status   |-> status,
                       returned |-> With("CALLBACK_RETURNED"),
                       failed   |-> With("CALLBACK_FAILURE"),
                       unknown  |-> With("START_REPORTED"),
                       codes    |-> diags[c]]
    <3>3. new \in Snapshots
      BY <3>1, <3>2 DEF Snapshots
    <3>4. snapshot' = snapshot \/ snapshot' = [snapshot EXCEPT ![c] = new]
      BY <1>23 DEF Assemble, SharedTypes
    <3> HIDE DEF new
    <3> QED BY <3>3, <3>4 DEF SharedTypes
  <2>4. SharedTypes'
    BY <1>23, <2>3 DEF Assemble, SharedTypes, registryVars, captureVars, hookVars
  <2> QED BY <2>2, <2>4
<1>24. ASSUME NEW t \in Threads, Remove(t)
      PROVE  TypeInv'
  <2>1. cap[t] \in Captures /\ FrameOK(pc[t], cap[t], hk[t], detail[t])
    BY <1>24 DEF Remove, ThreadInv, LocalsOK, FrameOK
  <2>2. ThreadInv'
    BY <1>24, <2>1, ReturnInv DEF Remove
  <2>3. SharedTypes'
    BY <1>24, <2>1 DEF Remove, Delivered, SharedTypes, captureVars, hookVars, closeVars
  <2> QED BY <2>2, <2>3
<1> QED
  BY <1>1, <1>2, <1>3, <1>4, <1>5, <1>6, <1>8, <1>9, <1>10, <1>11, <1>12, <1>13, <1>14, <1>15, <1>16, <1>17, <1>18, <1>19, <1>20, <1>21, <1>22, <1>23, <1>24
     DEF Next, HookStep, CloseStep

LEMMA TypeInit == Init => TypeInv
BY DEF Init, TypeInv, SharedTypes, ThreadInv, ThreadTypes, LocalsOK, FrameOK,
   HookLabels, Labels, Details, Outcomes, Snapshots, NoSnapshot

(* Every variable keeps its type under any client of the collector.        *)
THEOREM TypeCorrect == Spec => []TypeOK
<1>1. Init => TypeInv
  BY TypeInit
<1>2. TypeInv /\ [Next]_vars => TypeInv'
  BY TypeStep, CollectorAssumption
<1>3. TypeInv => TypeOK
  BY DEF TypeInv, TypeOK, ThreadInv
<1> QED BY <1>1, <1>2, <1>3, PTL DEF Spec

-----------------------------------------------------------------------------
(* RC-10: the retention limit.  A start that has passed the counter holds  *)
(* a slot until it inserts its attempt; the counter bounds the slots.      *)

Slots(c) ==
  attempts[c] \cup
    {h \in Hooks : \E t \in Threads : pc[t] = "retain" /\ cap[t] = c /\ hk[t] = h}

BoundInv ==
  \A c \in Captures : /\ Cardinality(Slots(c)) <= retained[c]
                      /\ Cardinality(Slots(c)) <= MaxRetained

(* Arithmetic, kept apart from the set reasoning it is used in.            *)
LEMMA LeqTransitive ==
  \A i, j, k \in Nat : i <= j /\ j <= k => i <= k
OBVIOUS

(* A start that passes the limit check got a number within the limit.      *)
LEMMA WithinLimit ==
  ASSUME CollectorAssumption, NEW n \in Nat, ~OverLimit(n + 1)
  PROVE  n + 1 <= MaxRetained
<1>1. MaxRetained \in Nat
  BY DEF CollectorAssumption
<1>2. ~(n + 1 > MaxRetained)
  BY DEF OverLimit
<1> QED BY ONLY <1>1, <1>2, n \in Nat

(* One more element makes a finite set larger by at most one.              *)
LEMMA AddOne ==
  ASSUME NEW S, IsFiniteSet(S), NEW x
  PROVE  /\ IsFiniteSet(S \cup {x})
         /\ Cardinality(S \cup {x}) \in Nat
         /\ Cardinality(S \cup {x}) <= Cardinality(S) + 1
<1>1. /\ Cardinality(S) \in Nat
      /\ IsFiniteSet(S \cup {x})
      /\ \/ Cardinality(S \cup {x}) = Cardinality(S)
         \/ Cardinality(S \cup {x}) = Cardinality(S) + 1
  BY FS_AddElement, FS_CardinalityType
<1> QED BY <1>1

(* The counter grows and the slots do not; or both grow by one, within the *)
(* limit.                                                                  *)
LEMMA BoundKept ==
  \A s, n, r, m \in Nat :
    n <= s /\ s <= r /\ s <= m => n <= r + 1 /\ n <= m
OBVIOUS

LEMMA BoundReached ==
  \A s, u, n, r, m \in Nat :
    n <= u /\ u <= s + 1 /\ s <= r /\ r + 1 <= m => n <= r + 1 /\ n <= m
OBVIOUS

(* The slots of a capture are finitely many, as the hook instances are.    *)
LEMMA SlotsFinite ==
  ASSUME CollectorAssumption, TypeInv, NEW c \in Captures
  PROVE  IsFiniteSet(Slots(c)) /\ Cardinality(Slots(c)) \in Nat
<1>1. Slots(c) \subseteq Hooks
  BY DEF Slots, TypeInv, SharedTypes
<1> QED BY <1>1, FS_Subset, FS_CardinalityType DEF CollectorAssumption

(* A step that takes no slot and leaves the counter alone keeps the bound. *)
LEMMA SlotsShrink ==
  ASSUME CollectorAssumption, TypeInv, TypeInv', BoundInv, retained' = retained,
         \A c \in Captures : Slots(c)' \subseteq Slots(c)
  PROVE  BoundInv'
<1> SUFFICES ASSUME NEW c \in Captures
             PROVE  /\ Cardinality(Slots(c)') <= retained[c]
                    /\ Cardinality(Slots(c)') <= MaxRetained
  BY DEF BoundInv
<1>1. IsFiniteSet(Slots(c)) /\ Cardinality(Slots(c)) \in Nat
  BY SlotsFinite
<1>2. IsFiniteSet(Slots(c)') /\ Cardinality(Slots(c)') <= Cardinality(Slots(c))
  BY <1>1, FS_Subset
<1>3. Cardinality(Slots(c)') \in Nat
  BY <1>2, FS_CardinalityType
<1>4. retained[c] \in Nat /\ MaxRetained \in Nat
  BY DEF TypeInv, SharedTypes, CollectorAssumption
<1>5. Cardinality(Slots(c)) <= retained[c] /\ Cardinality(Slots(c)) <= MaxRetained
  BY DEF BoundInv
<1> QED BY <1>1, <1>2, <1>3, <1>4, <1>5, LeqTransitive

(* Only the thread's own locals change, and it does not come to "retain".  *)
Elsewhere(t) ==
  /\ pc'[t] # "retain"
  /\ \A u \in Threads \ {t} : pc'[u] = pc[u] /\ cap'[u] = cap[u] /\ hk'[u] = hk[u]

(* Every thread-local move except the one to "retain" is of that kind ...  *)
LEMMA CallElsewhere ==
  ASSUME ThreadInv, NEW t \in Threads, NEW label, NEW c, NEW h, NEW d,
         label # "retain",
         Call(t, label, c, h, d) \/ Goto(t, label, d) \/ Return(t)
         \/ (UNCHANGED threadVars /\ pc[t] # "retain")
  PROVE  Elsewhere(t)
BY DEF Elsewhere, Call, Goto, Return, ThreadInv, ThreadTypes, threadVars

(* ... and takes no slot.                                                  *)
LEMMA ElsewhereShrinks ==
  ASSUME TypeInv, NEW t \in Threads, Elsewhere(t), attempts' = attempts
  PROVE  \A c \in Captures : Slots(c)' \subseteq Slots(c)
BY DEF Elsewhere, Slots

(* Steps that take no slot and leave the queue and its counter alone.      *)
Quiet(t) == Elsewhere(t) /\ attempts' = attempts /\ retained' = retained

(* Only Count and Retain are not quiet; Freeze moves no thread at all.     *)
LEMMA QuietSteps ==
  ASSUME TypeInv, NEW t \in Threads
  PROVE  /\ \A threw \in BOOLEAN : BeginClose(t, threw) => Quiet(t)
         /\ \A h \in Hooks, input \in StartInputs : StartCall(t, h, input) => Quiet(t)
         /\ \A h \in Hooks, input \in FinishInputs : FinishCall(t, h, input) => Quiet(t)
         /\ \A h \in Hooks : StartMisuse(t, h) \/ FinishMisuse(t, h) => Quiet(t)
         /\ HookStep(t) => Count(t) \/ Retain(t) \/ Quiet(t)
         /\ CloseStep(t) => (\E h \in Hooks : Freeze(t, h)) \/ Quiet(t)
<1> USE CallElsewhere DEF TypeInv, Quiet
<1>1. ASSUME NEW threw \in BOOLEAN, BeginClose(t, threw) PROVE Quiet(t)
  BY <1>1 DEF BeginClose, Idle, hookVars
<1>2. ASSUME NEW h \in Hooks, NEW input \in StartInputs, StartCall(t, h, input) PROVE Quiet(t)
  BY <1>2 DEF StartCall, Idle, captureVars
<1>3. ASSUME NEW h \in Hooks, NEW input \in FinishInputs, FinishCall(t, h, input) PROVE Quiet(t)
  BY <1>3 DEF FinishCall, Idle, captureVars
<1>4. ASSUME NEW h \in Hooks, StartMisuse(t, h) PROVE Quiet(t)
  BY <1>4 DEF StartMisuse, RecordCurrent, Idle, captureVars
<1>5. ASSUME NEW h \in Hooks, FinishMisuse(t, h) PROVE Quiet(t)
  BY <1>5 DEF FinishMisuse, RecordCurrent, Idle, captureVars
<1>6. ASSUME Observe(t) PROVE Quiet(t)
  BY <1>6 DEF Observe, StartFailure
<1>7. ASSUME RecordArgument(t) PROVE Quiet(t)
  BY <1>7 DEF RecordArgument
<1>8. ASSUME CheckClosed(t) PROVE Quiet(t)
  BY <1>8 DEF CheckClosed, captureVars
<1>9. ASSUME Limit(t) PROVE Quiet(t)
  BY <1>9 DEF Limit
<1>10. ASSUME Record(t) PROVE Quiet(t)
  BY <1>10 DEF Record
<1>11. ASSUME RecordCause(t) PROVE Quiet(t)
  BY <1>11 DEF RecordCause
<1>12. ASSUME Complete(t) PROVE Quiet(t)
  BY <1>12 DEF Complete, captureVars
<1>13. ASSUME CloseFlag(t) PROVE Quiet(t)
  BY <1>13 DEF CloseFlag
<1>14. ASSUME NEW interrupted \in BOOLEAN, CloseChecks(t, interrupted) PROVE Quiet(t)
  BY <1>14 DEF CloseChecks
<1>15. ASSUME EndFreeze(t) PROVE Quiet(t)
  BY <1>15 DEF EndFreeze, captureVars
<1>16. ASSUME Assemble(t) PROVE Quiet(t)
  BY <1>16 DEF Assemble, captureVars
<1>17. ASSUME Remove(t) PROVE Quiet(t)
  BY <1>17 DEF Remove, captureVars
<1> QED
  BY <1>1, <1>2, <1>3, <1>4, <1>5, <1>6, <1>7, <1>8, <1>9, <1>10, <1>11, <1>12, <1>13, <1>14, <1>15, <1>16, <1>17 DEF HookStep, CloseStep

(* Every step keeps the bound: Count turns a number within the limit into  *)
(* a slot, Retain a slot into an attempt.                                  *)
LEMMA BoundStep ==
  ASSUME CollectorAssumption, TypeInv, TypeInv', BoundInv, [Next]_vars
  PROVE  BoundInv'
<1>1. ASSUME UNCHANGED <<threadVars, attempts, retained>>
      PROVE  BoundInv'
  <2>1. \A c \in Captures : Slots(c)' = Slots(c)
    BY <1>1 DEF Slots, threadVars
  <2> QED BY <1>1, <2>1 DEF BoundInv
<1>2. ASSUME NEW t \in Threads, Quiet(t)
      PROVE  BoundInv'
  BY <1>2, ElsewhereShrinks, SlotsShrink DEF Quiet
<1>3. ASSUME NEW t \in Threads, Retain(t)
      PROVE  BoundInv'
  <2>1. retained' = retained
    BY <1>3 DEF Retain
  <2>2. \A c \in Captures : Slots(c)' \subseteq Slots(c)
    <3>1. Elsewhere(t)
      BY <1>3 DEF Retain, Return, Call, Elsewhere, TypeInv, ThreadInv, ThreadTypes
    <3>2. hk[t] \in Hooks /\ pc[t] = "retain"
      BY <1>3 DEF Retain, TypeInv, ThreadInv, LocalsOK, FrameOK, HookLabels
    <3>3. attempts' = [attempts EXCEPT ![cap[t]] = @ \cup {hk[t]}]
      BY <1>3 DEF Retain
    <3>4. attempts \in [Captures -> SUBSET Hooks]
      BY DEF TypeInv, SharedTypes
    <3>5. \A c \in Captures :
            attempts'[c] = IF c = cap[t] THEN attempts[c] \cup {hk[t]}
                           ELSE attempts[c]
      BY <3>3, <3>4
    <3> SUFFICES ASSUME NEW c \in Captures, NEW h \in Slots(c)'
                 PROVE  h \in Slots(c)
      OBVIOUS
    <3>6. CASE h \in attempts'[c]
      <4>1. hk[t] \in Slots(cap[t]) /\ attempts[c] \subseteq Slots(c)
        BY <3>2 DEF Slots
      <4> QED BY <3>5, <3>6, <4>1
    <3>7. CASE h \notin attempts'[c]
      BY <3>1, <3>7 DEF Slots, Elsewhere
    <3> QED BY <3>6, <3>7
  <2> QED BY <2>1, <2>2, SlotsShrink
<1>4. ASSUME NEW t \in Threads, Count(t)
      PROVE  BoundInv'
  <2>0. /\ cap[t] \in Captures /\ hk[t] \in Hooks
    BY <1>4 DEF Count, ThreadInv, TypeInv, LocalsOK, FrameOK, HookLabels
  <2> PICK c \in Captures : c = cap[t]
    BY <2>0
  <2>1. /\ hk[t] \in Hooks /\ attempts' = attempts
        /\ retained' = [retained EXCEPT ![c] = @ + 1]
    BY <1>4, <2>0 DEF Count
  <2>2. /\ pc'[t] = IF OverLimit(retained[c] + 1) THEN "limit" ELSE "retain"
        /\ cap' = cap /\ hk' = hk
        /\ \A u \in Threads \ {t} : pc'[u] = pc[u]
    BY <1>4 DEF Count, Goto, TypeInv, ThreadInv, ThreadTypes
  <2>3. \A d \in Captures \ {c} : Slots(d)' \subseteq Slots(d)
    BY <2>1, <2>2 DEF Slots
  <2>4. ASSUME NEW d \in Captures \ {c}
        PROVE  /\ Cardinality(Slots(d)') <= retained'[d]
               /\ Cardinality(Slots(d)') <= MaxRetained
    <3>1. IsFiniteSet(Slots(d)) /\ Cardinality(Slots(d)) \in Nat
      BY SlotsFinite
    <3>2. IsFiniteSet(Slots(d)') /\ Cardinality(Slots(d)') <= Cardinality(Slots(d))
      BY <2>3, <3>1, FS_Subset
    <3>3. Cardinality(Slots(d)') \in Nat
      BY <3>2, FS_CardinalityType
    <3>0. retained \in [Captures -> Nat] /\ MaxRetained \in Nat
      BY DEF TypeInv, SharedTypes, CollectorAssumption
    <3>4. retained[d] \in Nat /\ MaxRetained \in Nat /\ retained'[d] = retained[d]
      BY ONLY <2>1, <3>0, c \in Captures, d \in Captures \ {c}
    <3>5. /\ Cardinality(Slots(d)) <= retained[d]
          /\ Cardinality(Slots(d)) <= MaxRetained
      BY DEF BoundInv
    <3> QED BY <3>1, <3>2, <3>3, <3>4, <3>5, LeqTransitive
  <2>5. /\ Cardinality(Slots(c)') <= retained'[c]
        /\ Cardinality(Slots(c)') <= MaxRetained
    <3>1. /\ IsFiniteSet(Slots(c)) /\ Cardinality(Slots(c)) \in Nat
          /\ retained[c] \in Nat /\ MaxRetained \in Nat
          /\ retained'[c] = retained[c] + 1
      BY <2>1, SlotsFinite DEF TypeInv, SharedTypes, CollectorAssumption
    <3>a. /\ Cardinality(Slots(c)) <= retained[c]
          /\ Cardinality(Slots(c)) <= MaxRetained
      BY <2>1 DEF BoundInv
    <3>2. CASE OverLimit(retained[c] + 1)
      <4>1. Slots(c)' \subseteq Slots(c)
        BY <2>1, <2>2, <3>2 DEF Slots
      <4>2. /\ Cardinality(Slots(c)') \in Nat
            /\ Cardinality(Slots(c)') <= Cardinality(Slots(c))
        BY <3>1, <4>1, FS_Subset, FS_CardinalityType
      <4> QED BY <3>1, <3>a, <4>2, BoundKept
    <3>3. CASE ~OverLimit(retained[c] + 1)
      <4>1. Slots(c)' \subseteq Slots(c) \cup {hk[t]}
        BY <2>1, <2>2 DEF Slots
      <4>2. /\ IsFiniteSet(Slots(c) \cup {hk[t]})
            /\ Cardinality(Slots(c) \cup {hk[t]}) \in Nat
            /\ Cardinality(Slots(c) \cup {hk[t]}) <= Cardinality(Slots(c)) + 1
        BY <3>1, AddOne
      <4>3. /\ Cardinality(Slots(c)') \in Nat
            /\ Cardinality(Slots(c)') <= Cardinality(Slots(c) \cup {hk[t]})
        BY <4>1, <4>2, FS_Subset, FS_CardinalityType
      <4>4. retained[c] + 1 <= MaxRetained
        BY <3>1, <3>3, WithinLimit
      <4>5. \A n, u \in Nat :
              n <= u /\ u <= Cardinality(Slots(c)) + 1
                => n <= retained[c] + 1 /\ n <= MaxRetained
        BY <3>1, <3>a, <4>4, BoundReached
      <4> QED BY <3>1, <4>2, <4>3, <4>5
    <3> QED BY <3>2, <3>3
  <2> QED BY <2>4, <2>5 DEF BoundInv
<1>5. ASSUME NEW t \in Threads,
             \/ \E c \in Captures : Open(t, c)
             \/ \E c \in Captures \cup {NoCapture} : Replay(t, c)
             \/ \E h \in Hooks : Freeze(t, h)
      PROVE  UNCHANGED <<threadVars, attempts, retained>>
  BY <1>5 DEF Open, Replay, Freeze, captureVars
<1>6. UNCHANGED vars => UNCHANGED <<threadVars, attempts, retained>>
  BY DEF vars, captureVars
<1> QED
  BY <1>1, <1>2, <1>3, <1>4, <1>5, <1>6, QuietSteps DEF Next

(* RC-10 for every number of threads, captures and starts and every limit: *)
(* no interleaving of the lock-free starts retains more than MaxRetained.  *)
THEOREM RetentionBounded == Spec => []RetainedBound
<1>1. Init => TypeInv /\ BoundInv
  <2>1. ASSUME Init PROVE \A c \in Captures : Slots(c) = {} /\ retained[c] = 0
    BY <2>1 DEF Init, Slots
  <2>2. Cardinality({}) = 0 /\ MaxRetained \in Nat
    BY FS_EmptySet, CollectorAssumption DEF CollectorAssumption
  <2>3. Init => BoundInv
    BY <2>1, <2>2 DEF BoundInv
  <2> QED BY <2>3, TypeInit
<1>2. (TypeInv /\ BoundInv) /\ [Next]_vars => (TypeInv /\ BoundInv)'
  BY TypeStep, BoundStep, CollectorAssumption
<1>3. TypeInv /\ BoundInv => RetainedBound
  <2> SUFFICES ASSUME TypeInv, BoundInv, NEW c \in Captures
               PROVE  Cardinality(attempts[c]) <= MaxRetained
    BY DEF RetainedBound
  <2>1. /\ IsFiniteSet(Slots(c)) /\ Cardinality(Slots(c)) \in Nat
        /\ MaxRetained \in Nat /\ Cardinality(Slots(c)) <= MaxRetained
    BY SlotsFinite, CollectorAssumption DEF BoundInv, CollectorAssumption
  <2>2. attempts[c] \subseteq Slots(c)
    BY DEF Slots
  <2>3. /\ Cardinality(attempts[c]) \in Nat
        /\ Cardinality(attempts[c]) <= Cardinality(Slots(c))
    BY <2>1, <2>2, FS_Subset, FS_CardinalityType
  <2> QED BY <2>1, <2>3, LeqTransitive
<1> QED BY <1>1, <1>2, <1>3, PTL DEF Spec

-----------------------------------------------------------------------------
(* A capture belongs to the call that opened it.                           *)

CloseLabels == {"closeFlag", "closeChecks", "freeze", "assemble", "remove"}

Misclosed == {"RC_WRONG_CLOSE_CONTEXT", "RC_DUPLICATE_CLOSE"}

(* A step of thread t leaves the locals of the others alone.               *)
Mine(t) ==
  \A u \in Threads \ {t} :
    pc'[u] = pc[u] /\ cap'[u] = cap[u] /\ hk'[u] = hk[u] /\ detail'[u] = detail[u]

-----------------------------------------------------------------------------
(* Ownership.  While a call of RouteContract.capture runs, its thread is   *)
(* the capture's owner and sees its token up to the close, and the capture *)
(* is registered; only that thread is inside the capture's close.          *)
Running(t) ==
  /\ owner[scope[t]] = t
  /\ scope[t] \in registry
  /\ pc[t] \notin CloseLabels => ctx[t] = scope[t]
  /\ pc[t] \notin CloseLabels \ {"closeFlag"} => scope[t] \notin closed

Scoped(t) ==
  /\ scope[t] # NoCapture => Running(t)
  /\ pc[t] \in CloseLabels => scope[t] # NoCapture /\ cap[t] = scope[t]

ScopeInv == \A t \in Threads : Scoped(t)

RegistryInv ==
  /\ \A c \in registry : \E t \in Threads : scope[t] = c /\ owner[c] = t
  /\ \A c \in closed : owner[c] # NoThread

NeverMisclosed ==
  /\ \A c \in Captures : diags[c] \cap Misclosed = {}
  /\ \A t \in Threads : pc[t] = "record" => detail[t] \notin Misclosed

OwnerInv == ScopeInv /\ RegistryInv /\ NeverMisclosed

(* What the steps of the hook's callbacks leave alone.                     *)
Outside(t) ==
  /\ Mine(t)
  /\ pc[t] \notin CloseLabels /\ pc'[t] \notin CloseLabels
  /\ UNCHANGED <<scope, owner, registry, ctx, closed, result, snapshot, frozen>>
  /\ pc'[t] = "record" => detail'[t] \notin Misclosed
  /\ \A c \in Captures : diags'[c] \cap Misclosed \subseteq diags[c] \cap Misclosed

(* No callback of a hook instance, in whatever order, touches ownership.    *)
LEMMA OutsideSteps ==
  ASSUME CollectorAssumption, TypeInv, NeverMisclosed, NEW t \in Threads
  PROVE  /\ \A h \in Hooks, input \in StartInputs : StartCall(t, h, input) => Outside(t)
         /\ \A h \in Hooks, input \in FinishInputs : FinishCall(t, h, input) => Outside(t)
         /\ \A h \in Hooks : StartMisuse(t, h) \/ FinishMisuse(t, h) => Outside(t)
         /\ HookStep(t) => Outside(t)
<1> USE DEF TypeInv, CloseLabels, Misclosed, Outside, Mine, Call, Goto, Return,
        ThreadInv, ThreadTypes, threadVars, registryVars, closeVars
<1>1. ASSUME NEW h \in Hooks, NEW input \in StartInputs, StartCall(t, h, input)
      PROVE  Outside(t)
  BY <1>1 DEF StartCall, Idle, captureVars
<1>2. ASSUME NEW h \in Hooks, NEW input \in FinishInputs, FinishCall(t, h, input)
      PROVE  Outside(t)
  BY <1>2 DEF FinishCall, Idle, captureVars
<1>3. ASSUME NEW h \in Hooks, StartMisuse(t, h)
      PROVE  Outside(t)
  BY <1>3 DEF StartMisuse, RecordCurrent, Idle, captureVars
<1>4. ASSUME NEW h \in Hooks, FinishMisuse(t, h)
      PROVE  Outside(t)
  BY <1>4 DEF FinishMisuse, RecordCurrent, Idle, captureVars
<1>5. ASSUME Observe(t)
      PROVE  Outside(t)
  BY <1>5 DEF Observe, StartFailure
<1>6. ASSUME RecordArgument(t)
      PROVE  Outside(t)
  BY <1>6 DEF RecordArgument, AddDiag, SharedTypes
<1>7. ASSUME CheckClosed(t)
      PROVE  Outside(t)
  BY <1>7 DEF CheckClosed, captureVars
<1>8. ASSUME Count(t)
      PROVE  Outside(t)
  BY <1>8 DEF Count
<1>9. ASSUME Limit(t)
      PROVE  Outside(t)
  BY <1>9 DEF Limit
<1>10. ASSUME Retain(t)
      PROVE  Outside(t)
  BY <1>10 DEF Retain
<1>11. ASSUME Record(t)
      PROVE  Outside(t)
  BY <1>11 DEF Record, AddDiag, SharedTypes, NeverMisclosed
<1>12. ASSUME RecordCause(t)
      PROVE  Outside(t)
  BY <1>12 DEF RecordCause, AddDiag, SharedTypes
<1>13. ASSUME Complete(t)
      PROVE  Outside(t)
  BY <1>13 DEF Complete, captureVars
<1>14. HookStep(t) => Outside(t)
  BY <1>5, <1>6, <1>7, <1>8, <1>9, <1>10, <1>11, <1>12, <1>13 DEF HookStep
<1> QED BY <1>1, <1>2, <1>3, <1>4, <1>14

(* So the callbacks keep the invariant.                                    *)
LEMMA OutsideOwner ==
  ASSUME TypeInv, OwnerInv, NEW t \in Threads, Outside(t)
  PROVE  OwnerInv'
<1>1. ScopeInv'
  <2> SUFFICES ASSUME NEW u \in Threads PROVE Scoped(u)'
    BY DEF ScopeInv
  <2>1. Scoped(u)
    BY DEF OwnerInv, ScopeInv
  <2> QED BY <2>1 DEF Outside, Mine, Scoped, Running
<1>2. RegistryInv'
  BY DEF Outside, OwnerInv, RegistryInv
<1>3. NeverMisclosed'
  BY DEF Outside, Mine, OwnerInv, NeverMisclosed
<1> QED BY <1>1, <1>2, <1>3 DEF OwnerInv

(* A step of t inside the close, after the capture is closed and before it *)
(* is removed from the registry.                                           *)
LEMMA ClosingOwner ==
  ASSUME TypeInv, OwnerInv, NEW t \in Threads, Mine(t),
         pc[t] \in CloseLabels \ {"closeFlag"},
         pc'[t] \in CloseLabels \ {"closeFlag"}, cap'[t] = cap[t],
         UNCHANGED <<scope, owner, registry, ctx, closed>>,
         \A c \in Captures : diags'[c] \cap Misclosed = diags[c] \cap Misclosed
  PROVE  OwnerInv'
<1>1. ScopeInv'
  <2> SUFFICES ASSUME NEW u \in Threads PROVE Scoped(u)'
    BY DEF ScopeInv
  <2>1. Scoped(u)
    BY DEF OwnerInv, ScopeInv
  <2>2. CASE u = t
    BY <2>1, <2>2 DEF Scoped, Running, CloseLabels
  <2>3. CASE u # t
    BY <2>1, <2>3 DEF Mine, Scoped, Running
  <2> QED BY <2>2, <2>3
<1>2. RegistryInv'
  BY DEF OwnerInv, RegistryInv
<1>3. NeverMisclosed'
  BY DEF OwnerInv, NeverMisclosed, Mine, CloseLabels
<1> QED BY <1>1, <1>2, <1>3 DEF OwnerInv

(* Opening registers a capture that no thread runs and that is not closed. *)
LEMMA OpenOwner ==
  ASSUME CollectorAssumption, TypeInv, OwnerInv,
         NEW t \in Threads, NEW c \in Captures, Open(t, c)
  PROVE  OwnerInv'
<1> USE CollectorAssumption
<1>1. /\ pc[t] = "idle" /\ ctx[t] = NoCapture /\ owner[c] = NoThread
      /\ owner' = [owner EXCEPT ![c] = t]
      /\ registry' = registry \cup {c}
      /\ ctx' = [ctx EXCEPT ![t] = c]
      /\ scope' = [scope EXCEPT ![t] = c]
      /\ UNCHANGED <<pc, cap, detail, diags, closed>>
  BY DEF Open, Idle, captureVars, threadVars
<1>2. /\ ctx \in [Threads -> Captures \cup {NoCapture}]
      /\ scope \in [Threads -> Captures \cup {NoCapture}]
      /\ owner \in [Captures -> Threads \cup {NoThread}]
      /\ registry \subseteq Captures /\ closed \subseteq Captures
  BY DEF TypeInv, SharedTypes
<1>3. /\ \A u \in Threads : Scoped(u)
      /\ RegistryInv /\ NeverMisclosed
  BY DEF OwnerInv, ScopeInv
<1>4. NoThread \notin Threads /\ NoCapture \notin Captures
  BY DEF CollectorAssumption
<1>5. scope[t] = NoCapture /\ c \notin closed /\ "idle" \notin CloseLabels
  BY <1>1, <1>2, <1>3 DEF Scoped, Running, RegistryInv, CloseLabels
<1>6. \A u \in Threads : scope[u] # c
  <2> SUFFICES ASSUME NEW u \in Threads, scope[u] = c PROVE FALSE
    OBVIOUS
  <2>1. Scoped(u) /\ c # NoCapture
    BY <1>3, <1>4
  <2>2. owner[c] = u
    BY <2>1 DEF Scoped, Running
  <2> QED BY <1>1, <1>4, <2>2
<1>7. ScopeInv'
  <2> SUFFICES ASSUME NEW u \in Threads PROVE Scoped(u)'
    BY DEF ScopeInv
  <2>1. CASE u = t
    BY <1>1, <1>2, <1>4, <1>5, <2>1 DEF Scoped, Running
  <2>2. CASE u # t
    <3>1. scope'[u] = scope[u] /\ ctx'[u] = ctx[u]
      BY <1>1, <1>2, <2>2
    <3>2. scope[u] # NoCapture => owner'[scope[u]] = owner[scope[u]]
      BY <1>1, <1>2, <1>6
    <3>3. Scoped(u) /\ pc'[u] = pc[u] /\ cap'[u] = cap[u] /\ closed' = closed
      BY <1>1, <1>3
    <3>4. scope[u] \in registry => scope[u] \in registry'
      BY <1>1
    <3> QED BY <3>1, <3>2, <3>3, <3>4 DEF Scoped, Running
  <2> QED BY <2>1, <2>2
<1>8. RegistryInv'
  <2>1. ASSUME NEW d \in registry' PROVE \E u \in Threads : scope'[u] = d /\ owner'[d] = u
    <3>1. CASE d = c
      BY <1>1, <1>2, <3>1
    <3>2. CASE d # c
      <4>1. PICK u \in Threads : scope[u] = d /\ owner[d] = u
        BY <1>1, <1>3, <2>1, <3>2 DEF RegistryInv
      <4>2. u # t /\ d \in Captures
        BY <1>1, <1>2, <1>4, <1>5, <2>1, <3>2, <4>1
      <4>3. scope'[u] = d /\ owner'[d] = u
        BY <1>1, <1>2, <3>2, <4>1, <4>2
      <4> QED BY <4>3
    <3> QED BY <3>1, <3>2
  <2>2. \A d \in closed' : owner'[d] # NoThread
    BY <1>1, <1>2, <1>3, <1>4, <1>5 DEF RegistryInv
  <2>3. \A d \in registry' : \E u \in Threads : scope'[u] = d /\ owner'[d] = u
    BY <2>1
  <2> QED BY <2>2, <2>3 DEF RegistryInv
<1>9. NeverMisclosed'
  BY <1>1, <1>3 DEF NeverMisclosed
<1> QED BY <1>7, <1>8, <1>9 DEF OwnerInv

(* The thread that begins to close a capture sees its token, so the wrong  *)
(* context is not diagnosed.                                               *)
LEMMA BeginCloseOwner ==
  ASSUME CollectorAssumption, TypeInv, OwnerInv,
         NEW t \in Threads, NEW threw \in BOOLEAN, BeginClose(t, threw)
  PROVE  OwnerInv'
<1>1. /\ pc[t] = "idle" /\ scope[t] \in registry
      /\ ctx' = [ctx EXCEPT ![t] = NoCapture]
      /\ ctx[t] = scope[t] => UNCHANGED diags
      /\ UNCHANGED <<scope, owner, registry, closed>>
      /\ Call(t, "closeFlag", scope[t], NoHook, "none")
  BY DEF BeginClose, RemoveContext, Idle
<1>2. Mine(t) /\ pc'[t] = "closeFlag" /\ cap'[t] = scope[t]
  BY <1>1 DEF Mine, Call, TypeInv, ThreadInv, ThreadTypes
<1>3. /\ ctx \in [Threads -> Captures \cup {NoCapture}]
      /\ registry \subseteq Captures
      /\ NoCapture \notin Captures
  BY CollectorAssumption DEF TypeInv, SharedTypes, CollectorAssumption
<1>4. /\ \A u \in Threads : Scoped(u)
      /\ RegistryInv /\ NeverMisclosed
  BY DEF OwnerInv, ScopeInv
<1>5. scope[t] # NoCapture /\ Running(t) /\ ctx[t] = scope[t] /\ scope[t] \notin closed
  BY <1>1, <1>3, <1>4 DEF Scoped, Running, CloseLabels
<1>6. ScopeInv'
  <2> SUFFICES ASSUME NEW u \in Threads PROVE Scoped(u)'
    BY DEF ScopeInv
  <2>1. CASE u = t
    BY <1>1, <1>2, <1>5, <2>1 DEF Scoped, Running, CloseLabels
  <2>2. CASE u # t
    <3>1. ctx'[u] = ctx[u]
      BY <1>1, <1>3, <2>2
    <3> QED BY <1>1, <1>2, <1>4, <2>2, <3>1 DEF Mine, Scoped, Running
  <2> QED BY <2>1, <2>2
<1>7. RegistryInv'
  BY <1>1, <1>4 DEF RegistryInv
<1>8. NeverMisclosed'
  BY <1>1, <1>2, <1>4, <1>5 DEF NeverMisclosed, Mine
<1> QED BY <1>6, <1>7, <1>8 DEF OwnerInv

(* A replay changes the token of a thread that runs no capture.            *)
LEMMA ReplayOwner ==
  ASSUME CollectorAssumption, TypeInv, OwnerInv,
         NEW t \in Threads, NEW c \in Captures \cup {NoCapture}, Replay(t, c)
  PROVE  OwnerInv'
<1>1. /\ scope[t] = NoCapture
      /\ ctx' = [ctx EXCEPT ![t] = c]
      /\ UNCHANGED <<scope, owner, registry, closed, diags, pc, cap, detail>>
  BY DEF Replay, captureVars, threadVars
<1>2. ctx \in [Threads -> Captures \cup {NoCapture}]
  BY DEF TypeInv, SharedTypes
<1>3. ScopeInv'
  <2> SUFFICES ASSUME NEW u \in Threads PROVE Scoped(u)'
    BY DEF ScopeInv
  <2>1. Scoped(u)
    BY DEF OwnerInv, ScopeInv
  <2>2. CASE u = t
    BY <1>1, <2>1, <2>2 DEF Scoped
  <2>3. CASE u # t
    <3>1. ctx'[u] = ctx[u]
      BY <1>1, <1>2, <2>3
    <3> QED BY <1>1, <2>1, <3>1 DEF Scoped, Running
  <2> QED BY <2>2, <2>3
<1>4. RegistryInv' /\ NeverMisclosed'
  BY <1>1 DEF OwnerInv, RegistryInv, NeverMisclosed
<1> QED BY <1>3, <1>4 DEF OwnerInv

(* The capture is closed once, so the duplicate is not diagnosed.          *)
LEMMA CloseFlagOwner ==
  ASSUME CollectorAssumption, TypeInv, OwnerInv, NEW t \in Threads, CloseFlag(t)
  PROVE  OwnerInv'
<1>1. /\ pc[t] = "closeFlag"
      /\ closed' = closed \cup {cap[t]}
      /\ cap[t] \notin closed => UNCHANGED diags
      /\ UNCHANGED <<scope, owner, registry, ctx>>
      /\ Goto(t, "closeChecks", "none")
  BY DEF CloseFlag, registryVars
<1>2. Mine(t) /\ pc'[t] = "closeChecks" /\ cap'[t] = cap[t]
  BY <1>1 DEF Mine, Goto, TypeInv, ThreadInv, ThreadTypes
<1>3. /\ \A u \in Threads : Scoped(u)
      /\ RegistryInv /\ NeverMisclosed /\ NoThread \notin Threads
  BY CollectorAssumption DEF OwnerInv, ScopeInv, CollectorAssumption
<1>4. cap[t] = scope[t] /\ scope[t] # NoCapture /\ Running(t) /\ scope[t] \notin closed
  BY <1>1, <1>3 DEF Scoped, Running, CloseLabels
<1>5. ScopeInv'
  <2> SUFFICES ASSUME NEW u \in Threads PROVE Scoped(u)'
    BY DEF ScopeInv
  <2>1. CASE u = t
    BY <1>1, <1>2, <1>4, <2>1 DEF Scoped, Running, CloseLabels
  <2>2. CASE u # t
    <3>1. scope[u] # NoCapture => scope[u] # scope[t]
      BY <1>3, <1>4, <2>2 DEF Scoped, Running
    <3> QED BY <1>1, <1>2, <1>3, <1>4, <2>2, <3>1 DEF Mine, Scoped, Running
  <2> QED BY <2>1, <2>2
<1>6. RegistryInv'
  <2>1. owner[cap[t]] # NoThread
    BY <1>3, <1>4 DEF Running
  <2>2. \A d \in closed' : owner[d] # NoThread
    BY <1>1, <1>3, <2>1 DEF RegistryInv
  <2> QED BY <1>1, <1>3, <2>2 DEF RegistryInv
<1>7. NeverMisclosed'
  BY <1>1, <1>2, <1>3, <1>4 DEF NeverMisclosed, Mine
<1> QED BY <1>5, <1>6, <1>7 DEF OwnerInv

(* The call that ends takes its own capture out of the registry.           *)
LEMMA RemoveOwner ==
  ASSUME CollectorAssumption, TypeInv, OwnerInv, NEW t \in Threads, Remove(t)
  PROVE  OwnerInv'
<1>1. /\ pc[t] = "remove"
      /\ registry' = registry \ {cap[t]}
      /\ scope' = [scope EXCEPT ![t] = NoCapture]
      /\ UNCHANGED <<owner, ctx, closed, diags>>
      /\ Return(t)
  BY DEF Remove, captureVars
<1>2. Mine(t) /\ pc'[t] = "idle"
  BY <1>1 DEF Mine, Return, Call, TypeInv, ThreadInv, ThreadTypes
<1>3. scope \in [Threads -> Captures \cup {NoCapture}] /\ NoCapture \notin Captures
      /\ registry \subseteq Captures
  BY CollectorAssumption DEF TypeInv, SharedTypes, CollectorAssumption
<1>4. /\ \A u \in Threads : Scoped(u)
      /\ RegistryInv /\ NeverMisclosed
  BY DEF OwnerInv, ScopeInv
<1>5. cap[t] = scope[t] /\ scope[t] # NoCapture /\ Running(t)
  BY <1>1, <1>4 DEF Scoped, CloseLabels
<1>6. \A u \in Threads \ {t} : scope[u] # NoCapture => scope[u] # scope[t]
  BY <1>4, <1>5 DEF Scoped, Running
<1>7. ScopeInv'
  <2> SUFFICES ASSUME NEW u \in Threads PROVE Scoped(u)'
    BY DEF ScopeInv
  <2>1. CASE u = t
    BY <1>1, <1>2, <1>3, <2>1 DEF Scoped, CloseLabels
  <2>2. CASE u # t
    <3>1. scope'[u] = scope[u]
      BY <1>1, <1>3, <2>2
    <3>2. /\ Scoped(u) /\ pc'[u] = pc[u] /\ cap'[u] = cap[u]
          /\ owner' = owner /\ ctx' = ctx /\ closed' = closed
      BY <1>1, <1>2, <1>4, <2>2 DEF Mine
    <3>3. scope[u] # NoCapture /\ scope[u] \in registry => scope[u] \in registry'
      BY <1>1, <1>5, <1>6, <2>2
    <3> QED BY <3>1, <3>2, <3>3 DEF Scoped, Running
  <2> QED BY <2>1, <2>2
<1>8. RegistryInv'
  <2>1. ASSUME NEW d \in registry' PROVE \E u \in Threads : scope'[u] = d /\ owner'[d] = u
    <3>1. PICK u \in Threads : scope[u] = d /\ owner[d] = u
      BY <1>1, <1>4, <2>1 DEF RegistryInv
    <3>2. u # t /\ scope'[u] = d
      BY <1>1, <1>3, <1>5, <2>1, <3>1
    <3> QED BY <1>1, <3>1, <3>2
  <2> QED BY <1>1, <1>4, <2>1 DEF RegistryInv
<1>9. NeverMisclosed'
  BY <1>1, <1>2, <1>4 DEF NeverMisclosed, Mine
<1> QED BY <1>7, <1>8, <1>9 DEF OwnerInv

(* Every step keeps the invariant.                                         *)
LEMMA OwnerStep ==
  ASSUME CollectorAssumption, TypeInv, OwnerInv, [Next]_vars
  PROVE  OwnerInv'
<1> USE CollectorAssumption
<1>1. CASE UNCHANGED vars
  BY <1>1 DEF vars, registryVars, captureVars, threadVars, OwnerInv, ScopeInv, Scoped,
     Running, RegistryInv, NeverMisclosed
<1>2. ASSUME NEW t \in Threads, Outside(t)
      PROVE  OwnerInv'
  BY <1>2, OutsideOwner
<1>3. ASSUME NEW t \in Threads, NEW c \in Captures, Open(t, c)
      PROVE  OwnerInv'
  BY <1>3, OpenOwner
<1>4. ASSUME NEW t \in Threads, NEW threw \in BOOLEAN, BeginClose(t, threw)
      PROVE  OwnerInv'
  BY <1>4, BeginCloseOwner
<1>5. ASSUME NEW t \in Threads, NEW c \in Captures \cup {NoCapture}, Replay(t, c)
      PROVE  OwnerInv'
  BY <1>5, ReplayOwner
<1>6. ASSUME NEW t \in Threads, CloseFlag(t)
      PROVE  OwnerInv'
  BY <1>6, CloseFlagOwner
<1>7. ASSUME NEW t \in Threads, NEW interrupted \in BOOLEAN,
             CloseChecks(t, interrupted)
      PROVE  OwnerInv'
  <2>1. /\ Mine(t) /\ pc'[t] = "freeze" /\ cap'[t] = cap[t]
        /\ pc[t] = "closeChecks"
    BY <1>7 DEF CloseChecks, Mine, Goto, TypeInv, ThreadInv, ThreadTypes
  <2>2. \A c \in Captures : diags'[c] \cap Misclosed = diags[c] \cap Misclosed
    BY <1>7 DEF CloseChecks, CloseCodes, Misclosed, TypeInv, SharedTypes
  <2>3. UNCHANGED <<scope, owner, registry, ctx, closed>>
    BY <1>7 DEF CloseChecks, registryVars
  <2> QED BY <2>1, <2>2, <2>3, ClosingOwner DEF CloseLabels
<1>8. ASSUME NEW t \in Threads,
             EndFreeze(t) \/ Assemble(t) \/ (\E h \in Hooks : Freeze(t, h))
      PROVE  OwnerInv'
  <2>1. /\ Mine(t) /\ pc[t] \in {"freeze", "assemble"}
        /\ pc'[t] \in {"freeze", "assemble", "remove"} /\ cap'[t] = cap[t]
    BY <1>8 DEF EndFreeze, Assemble, Freeze, Mine, Goto, threadVars, TypeInv,
       ThreadInv, ThreadTypes
  <2>2. UNCHANGED <<scope, owner, registry, ctx, closed, diags>>
    BY <1>8 DEF EndFreeze, Assemble, Freeze, registryVars, captureVars
  <2> QED BY <2>1, <2>2, ClosingOwner DEF CloseLabels
<1>9. ASSUME NEW t \in Threads, Remove(t)
      PROVE  OwnerInv'
  BY <1>9, RemoveOwner
<1>10. ASSUME NEW t \in Threads, HookStep(t) PROVE OwnerInv'
  BY <1>2, <1>10, OutsideSteps DEF OwnerInv
<1>11. ASSUME NEW t \in Threads, CloseStep(t) PROVE OwnerInv'
  BY <1>6, <1>7, <1>8, <1>9, <1>11 DEF CloseStep
<1>12. ASSUME NEW t \in Threads, NEW h \in Hooks,
              \/ \E input \in StartInputs : StartCall(t, h, input)
              \/ \E input \in FinishInputs : FinishCall(t, h, input)
              \/ StartMisuse(t, h) \/ FinishMisuse(t, h)
       PROVE  OwnerInv'
  BY <1>2, <1>12, OutsideSteps DEF OwnerInv
<1> QED
  BY <1>1, <1>3, <1>4, <1>5, <1>10, <1>11, <1>12 DEF Next

(* Every capture that is registered is the one its owner is running, and   *)
(* neither a wrong nor a second close is ever diagnosed, whatever tokens   *)
(* are replayed onto whatever threads.                                     *)
THEOREM OwnedByOne == Spec => []OneOwner
<1>1. Init => TypeInv /\ OwnerInv
  BY TypeInit DEF Init, OwnerInv, ScopeInv, Scoped, RegistryInv, NeverMisclosed,
     CloseLabels
<1>2. (TypeInv /\ OwnerInv) /\ [Next]_vars => (TypeInv /\ OwnerInv)'
  BY TypeStep, OwnerStep, CollectorAssumption
<1>3. OwnerInv => OneOwner
  BY DEF OwnerInv, RegistryInv, NeverMisclosed, Misclosed, OneOwner
<1> QED BY <1>1, <1>2, <1>3, PTL DEF Spec

-----------------------------------------------------------------------------
(* Evidence: snapshots agree with the attempts, and are final.             *)

(* Evidence.  What a capture delivers is undecided until its call closes   *)
(* it, its snapshot empty until Assemble, the last step but one.           *)
Undecided(t) ==
  /\ result[scope[t]] \in {"PENDING", "ACTION_FAILURE"}
  /\ pc[t] \notin CloseLabels => result[scope[t]] = "PENDING"
  /\ pc[t] # "remove" => snapshot[scope[t]] = NoSnapshot

DeliveryInv ==
  /\ \A t \in Threads : scope[t] # NoCapture => Undecided(t)
  /\ \A c \in Captures :
       owner[c] = NoThread => result[c] = "PENDING" /\ snapshot[c] = NoSnapshot

(* No callback of a hook instance, and no replay, touches a delivery.      *)
LEMMA QuietDelivery ==
  ASSUME DeliveryInv, NEW t \in Threads, Mine(t),
         UNCHANGED <<scope, owner, result, snapshot>>,
         pc[t] \in CloseLabels <=> pc'[t] \in CloseLabels,
         pc'[t] # "remove" => pc[t] # "remove"
  PROVE  DeliveryInv'
<1>1. ASSUME NEW u \in Threads, scope[u] # NoCapture
      PROVE  Undecided(u)'
  <2>1. Undecided(u)
    BY <1>1 DEF DeliveryInv
  <2>2. CASE u = t
    BY <2>1, <2>2 DEF Undecided
  <2>3. CASE u # t
    <3>1. pc'[u] = pc[u]
      BY <2>3 DEF Mine
    <3> QED BY <2>1, <3>1 DEF Undecided
  <2> QED BY <2>2, <2>3
<1> QED BY <1>1 DEF DeliveryInv

(* Two threads run different captures.                                     *)
LEMMA ScopesDiffer ==
  ASSUME OwnerInv, NEW t \in Threads, NEW u \in Threads, u # t,
         scope[u] # NoCapture, scope[t] # NoCapture
  PROVE  scope[u] # scope[t]
<1>1. Scoped(u) /\ Scoped(t)
  BY DEF OwnerInv, ScopeInv
<1> QED BY <1>1 DEF Scoped, Running

(* A step of thread t that decides nothing about the captures of others.   *)
LEMMA OthersDelivery ==
  ASSUME TypeInv, OwnerInv, DeliveryInv, NEW t \in Threads, Mine(t),
         scope[t] # NoCapture, scope'[t] \in {scope[t], NoCapture},
         \A u \in Threads \ {t} : scope'[u] = scope[u],
         owner' = owner,
         \A c \in Captures \ {scope[t]} :
            result'[c] = result[c] /\ snapshot'[c] = snapshot[c],
         scope'[t] # NoCapture => Undecided(t)',
         CollectorAssumption
  PROVE  DeliveryInv'
<1>1. ASSUME NEW u \in Threads, scope'[u] # NoCapture
      PROVE  Undecided(u)'
  <2>1. CASE u = t
    BY <1>1, <2>1
  <2>2. CASE u # t
    <3>1. scope'[u] = scope[u] /\ pc'[u] = pc[u]
      BY <2>2 DEF Mine
    <3>2. scope[u] # scope[t]
      BY <1>1, <2>2, <3>1, ScopesDiffer
    <3>a. scope[u] \in Captures
      <4>1. scope[u] \in Captures \cup {NoCapture}
        BY DEF TypeInv, SharedTypes
      <4> QED BY <1>1, <3>1, <4>1
    <3>3. Undecided(u)
      BY <1>1, <3>1 DEF DeliveryInv
    <3> QED BY <3>1, <3>2, <3>a, <3>3 DEF Undecided
  <2> QED BY <2>1, <2>2
<1>2. owner[scope[t]] # NoThread
  <2>1. Scoped(t)
    BY DEF OwnerInv, ScopeInv
  <2> QED BY <2>1, CollectorAssumption DEF Scoped, Running, CollectorAssumption
<1>3. ASSUME NEW c \in Captures, owner'[c] = NoThread
      PROVE  result'[c] = "PENDING" /\ snapshot'[c] = NoSnapshot
  <2>1. c # scope[t] /\ owner[c] = NoThread
    BY <1>2, <1>3
  <2> QED BY <2>1 DEF DeliveryInv
<1> QED BY <1>1, <1>3 DEF DeliveryInv

(* A delivery that is decided is not decided again, and a snapshot that is *)
(* taken is not taken again.                                               *)
DeliveryFinal ==
  /\ \A c \in Captures : snapshot[c] # NoSnapshot => snapshot'[c] = snapshot[c]
  /\ \A c \in Captures : result[c] # "PENDING" => result'[c] = result[c]

(* A thread inside the close works on the capture whose call it is.        *)
LEMMA ClosingScope ==
  ASSUME OwnerInv, NEW t \in Threads, pc[t] \in CloseLabels
  PROVE  cap[t] = scope[t] /\ scope[t] # NoCapture
<1>1. Scoped(t)
  BY DEF OwnerInv, ScopeInv
<1> QED BY <1>1 DEF Scoped

(* A capture that opens starts undecided.                                  *)
LEMMA OpenDelivery ==
  ASSUME CollectorAssumption, TypeInv, OwnerInv, DeliveryInv,
         NEW t \in Threads, NEW c \in Captures, Open(t, c)
  PROVE  DeliveryInv' /\ DeliveryFinal
<1>1. /\ pc[t] = "idle" /\ owner[c] = NoThread /\ ctx[t] = NoCapture
      /\ owner' = [owner EXCEPT ![c] = t]
      /\ scope' = [scope EXCEPT ![t] = c]
      /\ UNCHANGED <<result, snapshot, pc>>
  BY DEF Open, Idle, closeVars, threadVars
<1>2. /\ scope \in [Threads -> Captures \cup {NoCapture}]
      /\ owner \in [Captures -> Threads \cup {NoThread}]
      /\ NoThread \notin Threads
  BY CollectorAssumption DEF TypeInv, SharedTypes, CollectorAssumption
<1>3. ASSUME NEW u \in Threads, scope'[u] # NoCapture
      PROVE  Undecided(u)'
  <2>1. CASE u = t
    BY <1>1, <1>2, <2>1 DEF DeliveryInv, Undecided
  <2>2. CASE u # t
    <3>1. scope'[u] = scope[u]
      BY <1>1, <1>2, <2>2
    <3>2. Undecided(u)
      BY <1>3, <3>1 DEF DeliveryInv
    <3> QED BY <1>1, <3>1, <3>2 DEF Undecided
  <2> QED BY <2>1, <2>2
<1>4. ASSUME NEW d \in Captures, owner'[d] = NoThread
      PROVE  result'[d] = "PENDING" /\ snapshot'[d] = NoSnapshot
  <2>1. owner[d] = NoThread
    BY <1>1, <1>2, <1>4
  <2> QED BY <1>1, <2>1 DEF DeliveryInv
<1>5. DeliveryInv'
  BY <1>3, <1>4 DEF DeliveryInv
<1>6. DeliveryFinal
  BY <1>1 DEF DeliveryFinal
<1> QED BY <1>5, <1>6

(* The failure of the action is the first decision about a delivery ...    *)
LEMMA BeginCloseDelivery ==
  ASSUME CollectorAssumption, TypeInv, OwnerInv, DeliveryInv,
         NEW t \in Threads, NEW threw \in BOOLEAN, BeginClose(t, threw)
  PROVE  DeliveryInv' /\ DeliveryFinal
<1>1. /\ pc[t] = "idle" /\ scope[t] \in registry
      /\ result' = [result EXCEPT ![scope[t]] = IF threw THEN "ACTION_FAILURE" ELSE @]
      /\ UNCHANGED <<scope, owner, snapshot>>
      /\ Call(t, "closeFlag", scope[t], NoHook, "none")
  BY DEF BeginClose, Idle, closeVars
<1>2. Mine(t) /\ pc'[t] = "closeFlag"
  BY <1>1 DEF Mine, Call, TypeInv, ThreadInv, ThreadTypes
<1>3. /\ scope[t] \in Captures /\ scope[t] # NoCapture
      /\ DOMAIN result = Captures
  BY <1>1, CollectorAssumption DEF TypeInv, SharedTypes, CollectorAssumption
<1>4. result[scope[t]] = "PENDING" /\ snapshot[scope[t]] = NoSnapshot
  BY <1>1, <1>3 DEF DeliveryInv, Undecided, CloseLabels
<1>5. result'[scope[t]] \in {"PENDING", "ACTION_FAILURE"}
  BY <1>1, <1>3, <1>4
<1>6. \A c \in Captures \ {scope[t]} : result'[c] = result[c] /\ snapshot'[c] = snapshot[c]
  BY <1>1, <1>3
<1>7. Undecided(t)'
  BY <1>1, <1>2, <1>4, <1>5 DEF Undecided, CloseLabels
<1>8. DeliveryInv'
  BY <1>1, <1>2, <1>3, <1>6, <1>7, OthersDelivery, CollectorAssumption
<1>9. DeliveryFinal
  BY <1>1, <1>4, <1>6 DEF DeliveryFinal
<1> QED BY <1>8, <1>9

(* ... the snapshot is assembled once ...                                  *)
LEMMA AssembleDelivery ==
  ASSUME CollectorAssumption, TypeInv, OwnerInv, DeliveryInv,
         NEW t \in Threads, Assemble(t)
  PROVE  DeliveryInv' /\ DeliveryFinal
<1>1. /\ pc[t] = "assemble"
      /\ UNCHANGED <<scope, owner, result>>
      /\ Goto(t, "remove", "none")
  BY DEF Assemble, registryVars
<1>2. PICK s : snapshot' = [snapshot EXCEPT ![cap[t]] = s]
  BY DEF Assemble
<1>3. Mine(t) /\ pc'[t] = "remove"
  BY <1>1 DEF Mine, Goto, TypeInv, ThreadInv, ThreadTypes
<1>4. cap[t] = scope[t] /\ scope[t] # NoCapture
  BY <1>1, ClosingScope DEF CloseLabels
<1>5. DOMAIN snapshot = Captures
  BY DEF TypeInv, SharedTypes
<1>6. Undecided(t)
  BY <1>4 DEF DeliveryInv
<1>7. \A c \in Captures \ {scope[t]} : result'[c] = result[c] /\ snapshot'[c] = snapshot[c]
  BY <1>1, <1>2, <1>4, <1>5
<1>8. Undecided(t)'
  BY <1>1, <1>3, <1>6 DEF Undecided, CloseLabels
<1>9. DeliveryInv'
  BY <1>1, <1>3, <1>4, <1>7, <1>8, OthersDelivery, CollectorAssumption
<1>10. DeliveryFinal
  BY <1>1, <1>6, <1>7 DEF DeliveryFinal, Undecided
<1> QED BY <1>9, <1>10

(* ... and the return keeps a failure of the action.                       *)
LEMMA RemoveDelivery ==
  ASSUME CollectorAssumption, TypeInv, OwnerInv, DeliveryInv,
         NEW t \in Threads, Remove(t)
  PROVE  DeliveryInv' /\ DeliveryFinal
<1>1. /\ pc[t] = "remove"
      /\ scope' = [scope EXCEPT ![t] = NoCapture]
      /\ result' = [result EXCEPT ![cap[t]] = Delivered(cap[t])]
      /\ UNCHANGED <<owner, snapshot>>
      /\ Return(t)
  BY DEF Remove, closeVars
<1>2. Mine(t)
  BY <1>1 DEF Mine, Return, Call, TypeInv, ThreadInv, ThreadTypes
<1>3. cap[t] = scope[t] /\ scope[t] # NoCapture
  BY <1>1, ClosingScope DEF CloseLabels
<1>4. /\ DOMAIN result = Captures /\ DOMAIN scope = Threads
      /\ scope[t] \in Captures \cup {NoCapture}
  BY DEF TypeInv, SharedTypes
<1>5. Undecided(t)
  BY <1>3 DEF DeliveryInv
<1>6. scope'[t] = NoCapture /\ (\A u \in Threads \ {t} : scope'[u] = scope[u])
  BY <1>1, <1>4
<1>7. \A c \in Captures \ {scope[t]} : result'[c] = result[c] /\ snapshot'[c] = snapshot[c]
  BY <1>1, <1>3, <1>4
<1>8. DeliveryInv'
  BY <1>1, <1>2, <1>3, <1>6, <1>7, OthersDelivery, CollectorAssumption
<1>9. result[scope[t]] # "PENDING" => result'[scope[t]] = result[scope[t]]
  BY <1>1, <1>3, <1>4, <1>5 DEF Undecided, Delivered
<1>10. DeliveryFinal
  BY <1>1, <1>7, <1>9 DEF DeliveryFinal
<1> QED BY <1>8, <1>10

(* Every step keeps the delivery invariant and decides nothing twice.      *)
LEMMA DeliveryStep ==
  ASSUME CollectorAssumption, TypeInv, OwnerInv, DeliveryInv, [Next]_vars
  PROVE  DeliveryInv' /\ DeliveryFinal
<1> USE CollectorAssumption
<1>1. CASE UNCHANGED vars
  BY <1>1 DEF vars, registryVars, closeVars, threadVars, DeliveryInv, Undecided,
     DeliveryFinal
<1>2. ASSUME NEW t \in Threads, Mine(t), UNCHANGED <<scope, owner, result, snapshot>>,
             pc[t] \in CloseLabels <=> pc'[t] \in CloseLabels,
             pc'[t] # "remove" => pc[t] # "remove"
      PROVE  DeliveryInv' /\ DeliveryFinal
  BY <1>2, QuietDelivery DEF DeliveryFinal
<1>3. ASSUME NEW t \in Threads, Outside(t)
      PROVE  DeliveryInv' /\ DeliveryFinal
  <2>1. pc[t] # "remove" /\ pc'[t] # "remove"
    BY <1>3 DEF Outside, CloseLabels
  <2> QED BY <1>2, <1>3, <2>1 DEF Outside
<1>4. ASSUME NEW t \in Threads, NEW c \in Captures \cup {NoCapture}, Replay(t, c)
      PROVE  DeliveryInv' /\ DeliveryFinal
  <2>1. Mine(t) /\ pc' = pc /\ UNCHANGED <<scope, owner, result, snapshot>>
    BY <1>4 DEF Replay, Mine, threadVars, closeVars
  <2> QED BY <1>2, <2>1
<1>5. ASSUME NEW t \in Threads,
             \/ CloseFlag(t)
             \/ \E interrupted \in BOOLEAN : CloseChecks(t, interrupted)
             \/ \E h \in Hooks : Freeze(t, h)
             \/ EndFreeze(t)
      PROVE  DeliveryInv' /\ DeliveryFinal
  <2>1. /\ Mine(t) /\ pc[t] \in {"closeFlag", "closeChecks", "freeze"}
        /\ pc'[t] \in {"closeChecks", "freeze", "assemble"}
    BY <1>5 DEF CloseFlag, CloseChecks, Freeze, EndFreeze, Mine, Goto, threadVars,
       TypeInv, ThreadInv, ThreadTypes
  <2>2. UNCHANGED <<scope, owner, result, snapshot>>
    BY <1>5 DEF CloseFlag, CloseChecks, Freeze, EndFreeze, registryVars, closeVars
  <2> QED BY <1>2, <2>1, <2>2 DEF CloseLabels
<1>6. ASSUME NEW t \in Threads, NEW c \in Captures, Open(t, c)
      PROVE  DeliveryInv' /\ DeliveryFinal
  BY <1>6, OpenDelivery
<1>7. ASSUME NEW t \in Threads, NEW threw \in BOOLEAN, BeginClose(t, threw)
      PROVE  DeliveryInv' /\ DeliveryFinal
  BY <1>7, BeginCloseDelivery
<1>8. ASSUME NEW t \in Threads, Assemble(t)
      PROVE  DeliveryInv' /\ DeliveryFinal
  BY <1>8, AssembleDelivery
<1>9. ASSUME NEW t \in Threads, Remove(t)
      PROVE  DeliveryInv' /\ DeliveryFinal
  BY <1>9, RemoveDelivery
<1>10. ASSUME NEW t \in Threads, HookStep(t)
       PROVE  DeliveryInv' /\ DeliveryFinal
  BY <1>3, <1>10, OutsideSteps DEF OwnerInv
<1>11. ASSUME NEW t \in Threads, NEW h \in Hooks,
              \/ \E input \in StartInputs : StartCall(t, h, input)
              \/ \E input \in FinishInputs : FinishCall(t, h, input)
              \/ StartMisuse(t, h) \/ FinishMisuse(t, h)
       PROVE  DeliveryInv' /\ DeliveryFinal
  BY <1>3, <1>11, OutsideSteps DEF OwnerInv
<1>12. ASSUME NEW t \in Threads, CloseStep(t)
       PROVE  DeliveryInv' /\ DeliveryFinal
  BY <1>5, <1>8, <1>9, <1>12 DEF CloseStep
<1> QED
  BY <1>1, <1>4, <1>6, <1>7, <1>10, <1>11, <1>12 DEF Next
-----------------------------------------------------------------------------
(* Outcomes.  One thread at a time is inside a hook instance; until its    *)
(* start retains the attempt there is none, and a frozen terminal outcome  *)
(* is the outcome the attempt keeps.                                       *)
Starting == {"observe", "recordArgument", "checkClosed", "count", "limit", "retain"}

Unshared == \A t, u \in Threads : hk[t] = hk[u] /\ hk[t] \in Hooks => t = u

StartInv ==
  /\ \A t \in Threads :
       pc[t] \in Starting => completion[hk[t]] = "NONE" /\ lifecycle[hk[t]] # "NEW"
  /\ \A h \in Hooks : lifecycle[h] = "NEW" => completion[h] = "NONE"

AttemptInv ==
  /\ \A c \in Captures : \A h \in attempts[c] : completion[h] # "NONE"
  /\ \A c, d \in Captures : c # d => attempts[c] \cap attempts[d] = {}
  /\ \A h \in Hooks : frozen[h] \in Terminal => completion[h] = frozen[h]

HookInv == Unshared /\ StartInv /\ AttemptInv

OutcomesFinal ==
  \A h \in Hooks : completion[h] \in Terminal => completion'[h] = completion[h]

(* A step that enters or leaves a callback, or goes on inside it, and      *)
(* touches no attempt.                                                     *)
Moves(t) ==
  /\ Mine(t)
  /\ hk'[t] \in {hk[t], NoHook} \/ Free(hk'[t])
  /\ pc'[t] \in Starting => completion[hk'[t]] = "NONE" /\ lifecycle'[hk'[t]] # "NEW"
  /\ \A h \in Hooks : lifecycle'[h] = "NEW" => lifecycle[h] = "NEW"
  /\ UNCHANGED <<completion, attempts, frozen>>

(* While hook instances are used by one thread each, a move of t's own     *)
(* hook keeps them so.                                                     *)
LEMMA UnsharedStep ==
  ASSUME CollectorAssumption, Unshared, NEW t \in Threads, Mine(t),
         hk'[t] \in {hk[t], NoHook} \/ Free(hk'[t])
  PROVE  Unshared'
<1> SUFFICES ASSUME NEW u \in Threads, NEW v \in Threads,
                    hk'[u] = hk'[v], hk'[u] \in Hooks, u # v
             PROVE  FALSE
  BY DEF Unshared
<1>1. NoHook \notin Hooks
  BY CollectorAssumption DEF CollectorAssumption
<1>2. \A x \in Threads \ {t} : hk'[x] = hk[x] /\ (Free(hk'[t]) => hk[x] # hk'[t])
  BY DEF Mine, Free
<1>3. CASE u = t
  BY <1>1, <1>2, <1>3 DEF Unshared
<1>4. CASE v = t
  BY <1>1, <1>2, <1>4 DEF Unshared
<1>5. CASE u # t /\ v # t
  BY <1>2, <1>5 DEF Unshared
<1> QED BY <1>3, <1>4, <1>5

(* A thread inside a callback has a hook instance.                         *)
LEMMA StartingHook ==
  ASSUME TypeInv, NEW t \in Threads, pc[t] \in Starting \cup {"complete"}
  PROVE  hk[t] \in Hooks /\ cap[t] \in Captures
<1>1. FrameOK(pc[t], cap[t], hk[t], detail[t])
  BY DEF TypeInv, ThreadInv, LocalsOK
<1> QED BY <1>1 DEF FrameOK, HookLabels, Starting

(* A step that only moves keeps the invariant and every outcome.           *)
LEMMA MovesHook ==
  ASSUME CollectorAssumption, TypeInv, HookInv, NEW t \in Threads, Moves(t)
  PROVE  HookInv' /\ OutcomesFinal
<1>1. Unshared'
  BY CollectorAssumption, UnsharedStep DEF Moves, HookInv
<1>2. StartInv'
  <2>1. ASSUME NEW u \in Threads, pc'[u] \in Starting
        PROVE  completion'[hk'[u]] = "NONE" /\ lifecycle'[hk'[u]] # "NEW"
    <3>1. CASE u = t
      BY <2>1, <3>1 DEF Moves
    <3>2. CASE u # t
      <4>1. pc'[u] = pc[u] /\ hk'[u] = hk[u]
        BY <3>2 DEF Moves, Mine
      <4>2. hk[u] \in Hooks
        BY <2>1, <4>1, StartingHook
      <4> QED BY <2>1, <4>1, <4>2 DEF Moves, HookInv, StartInv
    <3> QED BY <3>1, <3>2
  <2>2. \A h \in Hooks : lifecycle'[h] = "NEW" => completion'[h] = "NONE"
    BY DEF Moves, HookInv, StartInv
  <2> QED BY <2>1, <2>2 DEF StartInv
<1>3. AttemptInv'
  BY DEF Moves, HookInv, AttemptInv
<1>4. OutcomesFinal
  BY DEF Moves, OutcomesFinal
<1> QED BY <1>1, <1>2, <1>3, <1>4 DEF HookInv

(* Retain turns the hook's start, which had no attempt, into an attempt.   *)
LEMMA RetainHook ==
  ASSUME CollectorAssumption, TypeInv, HookInv, NEW t \in Threads, Retain(t)
  PROVE  HookInv' /\ OutcomesFinal
<1>1. /\ pc[t] = "retain"
      /\ attempts' = [attempts EXCEPT ![cap[t]] = @ \cup {hk[t]}]
      /\ completion' = [completion EXCEPT ![hk[t]] = "START_REPORTED"]
      /\ UNCHANGED <<lifecycle, frozen>>
      /\ Return(t)
  BY DEF Retain, closeVars
<1>2. Mine(t) /\ pc'[t] = "idle" /\ hk'[t] = NoHook
  BY <1>1 DEF Mine, Return, Call, TypeInv, ThreadInv, ThreadTypes
<1>3. hk[t] \in Hooks /\ cap[t] \in Captures
  BY <1>1, StartingHook DEF Starting
<1>4. /\ DOMAIN attempts = Captures /\ DOMAIN completion = Hooks
      /\ \A c \in Captures : attempts[c] \subseteq Hooks
  BY DEF TypeInv, SharedTypes
<1>5. completion[hk[t]] = "NONE" /\ lifecycle[hk[t]] # "NEW"
  BY <1>1 DEF HookInv, StartInv, Starting
<1>6. completion'[hk[t]] = "START_REPORTED"
      /\ (\A h \in Hooks \ {hk[t]} : completion'[h] = completion[h])
  BY <1>1, <1>3, <1>4
<1>7. Unshared'
  BY <1>2, CollectorAssumption, UnsharedStep DEF HookInv
<1>8. StartInv'
  <2>1. ASSUME NEW u \in Threads, pc'[u] \in Starting
        PROVE  completion'[hk'[u]] = "NONE" /\ lifecycle'[hk'[u]] # "NEW"
    <3>1. u # t
      BY <1>2, <2>1 DEF Starting
    <3>2. pc'[u] = pc[u] /\ hk'[u] = hk[u]
      BY <1>2, <3>1 DEF Mine
    <3>3. hk[u] \in Hooks /\ hk[u] # hk[t]
      BY <1>3, <2>1, <3>1, <3>2, StartingHook DEF HookInv, Unshared
    <3>4. completion[hk[u]] = "NONE" /\ lifecycle[hk[u]] # "NEW"
      BY <2>1, <3>2 DEF HookInv, StartInv
    <3> QED BY <1>1, <1>6, <3>2, <3>3, <3>4
  <2>2. \A h \in Hooks : lifecycle'[h] = "NEW" => completion'[h] = "NONE"
    BY <1>1, <1>5, <1>6 DEF HookInv, StartInv
  <2> QED BY <2>1, <2>2 DEF StartInv
<1>9. AttemptInv'
  <2>1. \A c \in Captures : hk[t] \notin attempts[c]
    BY <1>5 DEF HookInv, AttemptInv
  <2>2. /\ attempts'[cap[t]] = attempts[cap[t]] \cup {hk[t]}
        /\ \A c \in Captures \ {cap[t]} : attempts'[c] = attempts[c]
    BY <1>1, <1>3, <1>4
  <2>3. ASSUME NEW c \in Captures, NEW h \in attempts'[c]
        PROVE  completion'[h] # "NONE"
    <3>1. h \in attempts[c] \/ h = hk[t]
      BY <2>2, <2>3
    <3>2. CASE h = hk[t]
      BY <1>6, <3>2
    <3>3. CASE h # hk[t]
      <4>1. h \in attempts[c] /\ h \in Hooks /\ completion[h] # "NONE"
        BY <1>4, <3>1, <3>3 DEF HookInv, AttemptInv
      <4> QED BY <1>6, <3>3, <4>1
    <3> QED BY <3>2, <3>3
  <2>4. ASSUME NEW c \in Captures, NEW d \in Captures, c # d
        PROVE  attempts'[c] \cap attempts'[d] = {}
    <3>1. attempts[c] \cap attempts[d] = {}
      BY <2>4 DEF HookInv, AttemptInv
    <3>2. CASE c = cap[t]
      BY <2>1, <2>2, <2>4, <3>1, <3>2
    <3>3. CASE d = cap[t]
      BY <2>1, <2>2, <2>4, <3>1, <3>3
    <3>4. CASE c # cap[t] /\ d # cap[t]
      BY <2>2, <3>1, <3>4
    <3> QED BY <3>2, <3>3, <3>4
  <2>5. \A h \in Hooks : frozen'[h] \in Terminal => completion'[h] = frozen'[h]
    BY <1>1, <1>5, <1>6 DEF HookInv, AttemptInv, Terminal
  <2> QED BY <2>3, <2>4, <2>5 DEF AttemptInv
<1>10. OutcomesFinal
  BY <1>5, <1>6 DEF OutcomesFinal, Terminal
<1> QED BY <1>7, <1>8, <1>9, <1>10 DEF HookInv

(* The compare-and-set lets only the first terminal callback decide.       *)
LEMMA CompleteHook ==
  ASSUME CollectorAssumption, TypeInv, HookInv, NEW t \in Threads, Complete(t)
  PROVE  HookInv' /\ OutcomesFinal
<1>1. /\ pc[t] = "complete"
      /\ UNCHANGED <<lifecycle, frozen, attempts>>
      /\ \/ /\ completion[hk[t]] = "START_REPORTED"
            /\ completion' = [completion EXCEPT ![hk[t]] = OutcomeOf(detail[t])]
            /\ Return(t)
         \/ Goto(t, "record", "RC_DUPLICATE_FINISH") /\ UNCHANGED completion
  BY DEF Complete, closeVars, captureVars
<1>2. /\ Mine(t) /\ pc'[t] \in {"idle", "record"} /\ hk'[t] \in {hk[t], NoHook}
  BY <1>1 DEF Mine, Goto, Return, Call, TypeInv, ThreadInv, ThreadTypes
<1>3. CASE UNCHANGED completion
  <2>1. Moves(t)
    BY <1>1, <1>2, <1>3 DEF Moves, Starting
  <2> QED BY <2>1, MovesHook, CollectorAssumption
<1>4. CASE /\ completion[hk[t]] = "START_REPORTED"
           /\ completion' = [completion EXCEPT ![hk[t]] = OutcomeOf(detail[t])]
  <2>1. hk[t] \in Hooks /\ DOMAIN completion = Hooks
        /\ \A c \in Captures : attempts[c] \subseteq Hooks
    BY <1>1, StartingHook DEF TypeInv, SharedTypes
  <2>2. /\ completion'[hk[t]] \in Terminal
        /\ \A h \in Hooks \ {hk[t]} : completion'[h] = completion[h]
    BY <1>4, <2>1 DEF OutcomeOf, Terminal
  <2>3. Unshared'
    BY <1>2, CollectorAssumption, UnsharedStep DEF HookInv
  <2>4. StartInv'
    <3>1. ASSUME NEW u \in Threads, pc'[u] \in Starting
          PROVE  completion'[hk'[u]] = "NONE" /\ lifecycle'[hk'[u]] # "NEW"
      <4>1. u # t
        BY <1>2, <3>1 DEF Starting
      <4>2. pc'[u] = pc[u] /\ hk'[u] = hk[u]
        BY <1>2, <4>1 DEF Mine
      <4>3. hk[u] \in Hooks /\ hk[u] # hk[t]
        BY <2>1, <3>1, <4>1, <4>2, StartingHook DEF HookInv, Unshared
      <4>4. completion[hk[u]] = "NONE" /\ lifecycle[hk[u]] # "NEW"
        BY <3>1, <4>2 DEF HookInv, StartInv
      <4> QED BY <1>1, <2>2, <4>2, <4>3, <4>4
    <3>2. lifecycle[hk[t]] # "NEW"
      BY <1>4, <2>1 DEF HookInv, StartInv
    <3>3. \A h \in Hooks : lifecycle'[h] = "NEW" => completion'[h] = "NONE"
      BY <1>1, <2>2, <3>2 DEF HookInv, StartInv
    <3> QED BY <3>1, <3>3 DEF StartInv
  <2>5. AttemptInv'
    <3>1. \A c \in Captures : \A h \in attempts'[c] : completion'[h] # "NONE"
      BY <1>1, <2>1, <2>2 DEF HookInv, AttemptInv, Terminal
    <3>2. \A c, d \in Captures : c # d => attempts'[c] \cap attempts'[d] = {}
      BY <1>1 DEF HookInv, AttemptInv
    <3>3. \A h \in Hooks : frozen'[h] \in Terminal => completion'[h] = frozen'[h]
      BY <1>1, <1>4, <2>1, <2>2 DEF HookInv, AttemptInv, Terminal
    <3> QED BY <3>1, <3>2, <3>3 DEF AttemptInv
  <2>6. OutcomesFinal
    BY <1>4, <2>2 DEF OutcomesFinal, Terminal
  <2> QED BY <2>3, <2>4, <2>5, <2>6 DEF HookInv
<1> QED BY <1>1, <1>3, <1>4

(* Freezing reads the outcome of an attempt at that moment.                *)
LEMMA FreezeHook ==
  ASSUME TypeInv, HookInv, NEW t \in Threads, NEW h \in Hooks, Freeze(t, h)
  PROVE  HookInv' /\ OutcomesFinal
<1>1. /\ frozen' = [frozen EXCEPT ![h] = completion[h]]
      /\ UNCHANGED <<pc, hk, completion, lifecycle, attempts>>
  BY DEF Freeze, FrozenOutcome, threadVars, hookVars, captureVars
<1>2. Unshared' /\ StartInv' /\ OutcomesFinal
  BY <1>1 DEF HookInv, Unshared, StartInv, OutcomesFinal
<1>3. DOMAIN frozen = Hooks
  BY DEF TypeInv, SharedTypes
<1>4. AttemptInv'
  <2>1. \A g \in Hooks : frozen'[g] \in Terminal => completion'[g] = frozen'[g]
    BY <1>1, <1>3 DEF HookInv, AttemptInv
  <2>2. /\ \A c \in Captures : \A g \in attempts'[c] : completion'[g] # "NONE"
        /\ \A c, d \in Captures : c # d => attempts'[c] \cap attempts'[d] = {}
    BY <1>1 DEF HookInv, AttemptInv
  <2> QED BY <2>1, <2>2 DEF AttemptInv
<1> QED BY <1>2, <1>4 DEF HookInv

(* The steps that only move: those that enter a callback ...               *)
LEMMA CallbackMoves ==
  ASSUME CollectorAssumption, TypeInv, HookInv, NEW t \in Threads
  PROVE  /\ \A h \in Hooks, input \in StartInputs : StartCall(t, h, input) => Moves(t)
         /\ \A h \in Hooks, input \in FinishInputs : FinishCall(t, h, input) => Moves(t)
         /\ \A h \in Hooks : StartMisuse(t, h) \/ FinishMisuse(t, h) => Moves(t)
<1>1. /\ lifecycle \in [Hooks -> {"NEW", "STARTED", "FINISHED"}]
      /\ pc \in [Threads -> Labels] /\ hk \in [Threads -> Hooks \cup {NoHook}]
      /\ cap \in [Threads -> Captures \cup {NoCapture}]
      /\ detail \in [Threads -> Details]
  BY DEF TypeInv, SharedTypes, ThreadInv, ThreadTypes
<1>2. ASSUME NEW h \in Hooks, NEW input \in StartInputs, StartCall(t, h, input)
      PROVE  Moves(t)
  <2>1. /\ pc[t] = "idle" /\ Free(h) /\ lifecycle[h] = "NEW"
        /\ lifecycle' = [lifecycle EXCEPT ![h] = "STARTED"]
        /\ Call(t, "observe", ctx[t], h, input) \/ UNCHANGED threadVars
        /\ UNCHANGED <<completion, attempts, frozen>>
    BY <1>2 DEF StartCall, Idle, MayStart, captureVars, closeVars
  <2>2. completion[h] = "NONE"
    BY <2>1 DEF HookInv, StartInv
  <2>3. Mine(t) /\ (\/ pc'[t] = "observe" /\ hk'[t] = h
                    \/ pc'[t] = "idle" /\ hk'[t] = hk[t])
    BY <1>1, <2>1 DEF Call, Mine, threadVars
  <2>4. lifecycle'[h] = "STARTED" /\ \A g \in Hooks \ {h} : lifecycle'[g] = lifecycle[g]
    BY <1>1, <2>1
  <2> QED BY <2>1, <2>2, <2>3, <2>4 DEF Moves, Starting
<1>3. ASSUME NEW h \in Hooks, NEW input \in FinishInputs, FinishCall(t, h, input)
      PROVE  Moves(t)
  <2>1. /\ pc[t] = "idle" /\ Free(h)
        /\ lifecycle' = [lifecycle EXCEPT ![h] = "FINISHED"]
        /\ \/ Call(t, "recordCause", inFlight[h], h, input)
           \/ Call(t, "complete", inFlight[h], h, input)
           \/ UNCHANGED threadVars
        /\ UNCHANGED <<completion, attempts, frozen>>
    BY <1>3 DEF FinishCall, Idle, captureVars, closeVars
  <2>2. Mine(t) /\ (\/ pc'[t] \in {"recordCause", "complete"} /\ hk'[t] = h
                    \/ pc'[t] = "idle" /\ hk'[t] = hk[t])
    BY <1>1, <2>1 DEF Call, Mine, threadVars
  <2>3. \A g \in Hooks : lifecycle'[g] = "NEW" => lifecycle[g] = "NEW"
    BY <1>1, <2>1
  <2> QED BY <2>1, <2>2, <2>3 DEF Moves, Starting
<1>4. ASSUME NEW h \in Hooks, StartMisuse(t, h) \/ FinishMisuse(t, h)
      PROVE  Moves(t)
  <2>1. /\ pc[t] = "idle" /\ Free(h)
        /\ lifecycle' = lifecycle \/ lifecycle' = [lifecycle EXCEPT ![h] = "FINISHED"]
        /\ \/ \E code \in Codes : Call(t, "record", ctx[t], h, code)
           \/ UNCHANGED threadVars
        /\ UNCHANGED <<completion, attempts, frozen>>
    BY <1>4 DEF StartMisuse, FinishMisuse, RecordCurrent, Codes, Idle, captureVars,
       hookVars, closeVars
  <2>2. Mine(t) /\ (\/ pc'[t] = "record" /\ hk'[t] = h
                    \/ pc'[t] = "idle" /\ hk'[t] = hk[t])
    BY <1>1, <2>1 DEF Call, Mine, threadVars
  <2>3. \A g \in Hooks : lifecycle'[g] = "NEW" => lifecycle[g] = "NEW"
    BY <1>1, <2>1
  <2> QED BY <2>1, <2>2, <2>3 DEF Moves, Starting
<1> QED BY <1>2, <1>3, <1>4

(* ... and the steps inside callbacks and calls.                           *)
LEMMA InsideMoves ==
  ASSUME CollectorAssumption, TypeInv, HookInv, NEW t \in Threads
  PROVE  /\ Observe(t) \/ RecordArgument(t) \/ CheckClosed(t) \/ Count(t) => Moves(t)
         /\ Limit(t) \/ Record(t) \/ RecordCause(t) => Moves(t)
         /\ CloseFlag(t) \/ EndFreeze(t) \/ Assemble(t) \/ Remove(t) => Moves(t)
         /\ \A interrupted \in BOOLEAN : CloseChecks(t, interrupted) => Moves(t)
         /\ \A threw \in BOOLEAN : BeginClose(t, threw) => Moves(t)
         /\ \A c \in Captures : Open(t, c) => Moves(t)
         /\ \A c \in Captures \cup {NoCapture} : Replay(t, c) => Moves(t)
<1>1. /\ pc \in [Threads -> Labels] /\ hk \in [Threads -> Hooks \cup {NoHook}]
      /\ cap \in [Threads -> Captures \cup {NoCapture}]
      /\ detail \in [Threads -> Details]
  BY DEF TypeInv, ThreadInv, ThreadTypes
<1>2. pc[t] \in Starting => completion[hk[t]] = "NONE" /\ lifecycle[hk[t]] # "NEW"
  BY DEF HookInv, StartInv
<1>3. ASSUME Mine(t), UNCHANGED <<completion, lifecycle, attempts, frozen>>,
             \/ hk'[t] \in {hk[t], NoHook} /\ pc'[t] \notin Starting
             \/ hk'[t] = hk[t] /\ pc[t] \in Starting
      PROVE  Moves(t)
  BY <1>2, <1>3 DEF Moves
<1>4. ASSUME Observe(t) \/ RecordArgument(t) \/ CheckClosed(t) \/ Count(t)
      PROVE  Moves(t)
  <2>1. /\ pc[t] \in Starting /\ UNCHANGED <<completion, lifecycle, attempts, frozen>>
        /\ \E label \in Labels, d \in Details : Goto(t, label, d)
    BY <1>4 DEF Observe, RecordArgument, CheckClosed, Count, StartFailure, hookVars,
       closeVars, captureVars, Starting, Labels, Details, Codes
  <2>2. Mine(t) /\ hk'[t] = hk[t]
    BY <1>1, <2>1 DEF Goto, Mine
  <2> QED BY <1>3, <2>1, <2>2
<1>5. ASSUME Limit(t) \/ Record(t) \/ RecordCause(t)
      PROVE  Moves(t)
  <2>1. /\ UNCHANGED <<completion, lifecycle, attempts, frozen>>
        /\ \/ \E label \in {"record", "complete"} : \E d : Goto(t, label, d)
           \/ Return(t)
    BY <1>5 DEF Limit, Record, RecordCause, hookVars, closeVars
  <2>2. Mine(t) /\ hk'[t] \in {hk[t], NoHook} /\ pc'[t] \in {"idle", "record", "complete"}
    BY <1>1, <2>1 DEF Goto, Return, Call, Mine
  <2> QED BY <1>3, <2>1, <2>2 DEF Starting
<1>6. ASSUME \/ CloseFlag(t) \/ EndFreeze(t) \/ Assemble(t) \/ Remove(t)
             \/ \E interrupted \in BOOLEAN : CloseChecks(t, interrupted)
      PROVE  Moves(t)
  <2>1. /\ UNCHANGED <<completion, lifecycle, attempts, frozen>>
        /\ \/ \E label \in CloseLabels : \E d : Goto(t, label, d)
           \/ Return(t)
    BY <1>6 DEF CloseFlag, EndFreeze, Assemble, Remove, CloseChecks, CloseLabels,
       hookVars, closeVars, captureVars
  <2>2. Mine(t) /\ hk'[t] \in {hk[t], NoHook} /\ pc'[t] \in CloseLabels \cup {"idle"}
    BY <1>1, <2>1 DEF Goto, Return, Call, Mine, CloseLabels
  <2> QED BY <1>3, <2>1, <2>2 DEF Starting, CloseLabels
<1>7. ASSUME NEW threw \in BOOLEAN, BeginClose(t, threw)
      PROVE  Moves(t)
  <2>1. /\ UNCHANGED <<completion, lifecycle, attempts, frozen>>
        /\ Call(t, "closeFlag", scope[t], NoHook, "none")
    BY <1>7 DEF BeginClose, hookVars, closeVars
  <2>2. Mine(t) /\ hk'[t] = NoHook /\ pc'[t] = "closeFlag"
    BY <1>1, <2>1 DEF Call, Mine
  <2> QED BY <1>3, <2>1, <2>2 DEF Starting
<1>8. ASSUME \/ \E c \in Captures : Open(t, c)
             \/ \E c \in Captures \cup {NoCapture} : Replay(t, c)
      PROVE  Moves(t)
  <2>1. /\ UNCHANGED <<completion, lifecycle, attempts, frozen, pc, hk, cap, detail>>
        /\ pc[t] = "idle"
    BY <1>8 DEF Open, Replay, Idle, hookVars, closeVars, captureVars, threadVars
  <2> QED BY <1>3, <2>1 DEF Mine, Starting
<1> QED BY <1>4, <1>5, <1>6, <1>7, <1>8

(* Every step keeps the invariant, and terminal outcomes.                  *)
LEMMA HookInvStep ==
  ASSUME CollectorAssumption, TypeInv, HookInv, [Next]_vars
  PROVE  HookInv' /\ OutcomesFinal
<1>1. CASE UNCHANGED vars
  BY <1>1 DEF vars, captureVars, hookVars, closeVars, threadVars, HookInv, Unshared,
     StartInv, AttemptInv, OutcomesFinal
<1>2. ASSUME NEW t \in Threads, Moves(t)
      PROVE  HookInv' /\ OutcomesFinal
  BY <1>2, MovesHook, CollectorAssumption
<1>3. ASSUME NEW t \in Threads, NEW h \in Hooks,
             \/ \E input \in StartInputs : StartCall(t, h, input)
             \/ \E input \in FinishInputs : FinishCall(t, h, input)
             \/ StartMisuse(t, h) \/ FinishMisuse(t, h)
      PROVE  HookInv' /\ OutcomesFinal
  BY <1>2, <1>3, CallbackMoves, CollectorAssumption
<1>4. ASSUME NEW t \in Threads, HookStep(t)
      PROVE  HookInv' /\ OutcomesFinal
  <2>1. CASE Retain(t)
    BY <2>1, RetainHook, CollectorAssumption
  <2>2. CASE Complete(t)
    BY <2>2, CompleteHook, CollectorAssumption
  <2>3. CASE ~Retain(t) /\ ~Complete(t)
    BY <1>2, <1>4, <2>3, InsideMoves, CollectorAssumption DEF HookStep
  <2> QED BY <2>1, <2>2, <2>3
<1>5. ASSUME NEW t \in Threads, CloseStep(t)
      PROVE  HookInv' /\ OutcomesFinal
  <2>1. CASE \E h \in Hooks : Freeze(t, h)
    BY <2>1, FreezeHook
  <2>2. CASE ~(\E h \in Hooks : Freeze(t, h))
    BY <1>2, <1>5, <2>2, InsideMoves, CollectorAssumption DEF CloseStep
  <2> QED BY <2>1, <2>2
<1>6. ASSUME NEW t \in Threads,
             \/ \E c \in Captures : Open(t, c)
             \/ \E threw \in BOOLEAN : BeginClose(t, threw)
             \/ \E c \in Captures \cup {NoCapture} : Replay(t, c)
      PROVE  HookInv' /\ OutcomesFinal
  BY <1>2, <1>6, InsideMoves, CollectorAssumption
<1> QED BY <1>1, <1>3, <1>4, <1>5, <1>6 DEF Next

-----------------------------------------------------------------------------
(* A snapshot stays in agreement while attempts only come and terminal     *)
(* outcomes stay.                                                          *)
LEMMA SnapshotKept ==
  ASSUME TypeInv, SnapshotAgrees, OutcomesFinal, AttemptInv', UNCHANGED snapshot,
         \A c \in Captures : attempts[c] \subseteq attempts'[c]
  PROVE  SnapshotAgrees'
<1>1. ASSUME NEW c \in Captures
      PROVE  /\ AttemptsIn(snapshot'[c]) \subseteq attempts'[c]
             /\ \A h \in snapshot'[c].returned : completion'[h] = "CALLBACK_RETURNED"
             /\ \A h \in snapshot'[c].failed : completion'[h] = "CALLBACK_FAILURE"
             /\ \A d \in Captures \ {c} : attempts'[c] \cap attempts'[d] = {}
  <2>1. AttemptsIn(snapshot'[c]) \subseteq attempts'[c]
    BY DEF SnapshotAgrees
  <2>2. /\ snapshot[c].returned \subseteq Hooks /\ snapshot[c].failed \subseteq Hooks
    BY DEF TypeInv, SharedTypes, Snapshots
  <2>3. /\ \A h \in snapshot'[c].returned : completion'[h] = "CALLBACK_RETURNED"
        /\ \A h \in snapshot'[c].failed : completion'[h] = "CALLBACK_FAILURE"
    BY <2>2 DEF SnapshotAgrees, OutcomesFinal, Terminal
  <2> QED BY <2>1, <2>3 DEF AttemptInv
<1> QED BY <1>1 DEF SnapshotAgrees

(* The attempts only come, and only Assemble writes a snapshot.            *)
LEMMA QuietSnapshots ==
  ASSUME TypeInv, [Next]_vars, \A t \in Threads : ~Assemble(t)
  PROVE  UNCHANGED snapshot /\ \A c \in Captures : attempts[c] \subseteq attempts'[c]
<1>1. CASE UNCHANGED vars
  BY <1>1 DEF vars, captureVars, closeVars
<1>2. ASSUME NEW t \in Threads, HookStep(t)
      PROVE  UNCHANGED snapshot /\ \A c \in Captures : attempts[c] \subseteq attempts'[c]
  BY <1>2 DEF HookStep, Observe, RecordArgument, CheckClosed, Count, Limit, Retain,
     Record, RecordCause, Complete, captureVars, closeVars, TypeInv, SharedTypes
<1>3. ASSUME NEW t \in Threads, CloseStep(t)
      PROVE  UNCHANGED snapshot /\ \A c \in Captures : attempts[c] \subseteq attempts'[c]
  BY <1>3 DEF CloseStep, CloseFlag, CloseChecks, Freeze, EndFreeze, Remove,
     captureVars, closeVars
<1>4. ASSUME NEW t \in Threads, NEW h \in Hooks,
             \/ \E input \in StartInputs : StartCall(t, h, input)
             \/ \E input \in FinishInputs : FinishCall(t, h, input)
             \/ StartMisuse(t, h) \/ FinishMisuse(t, h)
      PROVE  UNCHANGED <<snapshot, attempts>>
  BY <1>4 DEF StartCall, FinishCall, StartMisuse, FinishMisuse, captureVars, closeVars
<1>5. ASSUME NEW t \in Threads,
             \/ \E c \in Captures : Open(t, c)
             \/ \E threw \in BOOLEAN : BeginClose(t, threw)
             \/ \E c \in Captures \cup {NoCapture} : Replay(t, c)
      PROVE  UNCHANGED <<snapshot, attempts>>
  BY <1>5 DEF Open, BeginClose, Replay, captureVars, closeVars
<1> QED BY <1>1, <1>2, <1>3, <1>4, <1>5 DEF Next

(* Assemble sorts attempts of its capture by their frozen outcomes.        *)
LEMMA AssembleAgrees ==
  ASSUME TypeInv, HookInv, SnapshotAgrees, NEW t \in Threads, Assemble(t)
  PROVE  SnapshotAgrees'
<1> DEFINE With(o) == {h \in attempts[cap[t]] : frozen[h] = o}
           failed == With("CALLBACK_FAILURE")
           unknown == With("START_REPORTED")
           new == [status   |-> CaptureStatus(failed, unknown, diags[cap[t]]),
                   returned |-> With("CALLBACK_RETURNED"),
                   failed   |-> failed,
                   unknown  |-> unknown,
                   codes    |-> diags[cap[t]]]
<1>1. /\ \/ snapshot' = [snapshot EXCEPT ![cap[t]] = new]
         \/ snapshot' = [snapshot EXCEPT ![cap[t]] = snapshot[cap[t]]]
      /\ AttemptsIn(new) \subseteq attempts[cap[t]]
      /\ \A h \in new.returned : h \in attempts[cap[t]] /\ frozen[h] = "CALLBACK_RETURNED"
      /\ \A h \in new.failed : h \in attempts[cap[t]] /\ frozen[h] = "CALLBACK_FAILURE"
  <2>1. \/ snapshot' = [snapshot EXCEPT ![cap[t]] = new]
        \/ snapshot' = [snapshot EXCEPT ![cap[t]] = snapshot[cap[t]]]
    BY DEF Assemble
  <2>2. /\ new.returned = With("CALLBACK_RETURNED") /\ new.failed = failed
        /\ new.unknown = unknown
    OBVIOUS
  <2> HIDE DEF new
  <2> QED BY <2>1, <2>2 DEF AttemptsIn
<1> HIDE DEF new
<1>2. UNCHANGED <<attempts, completion>>
  BY DEF Assemble, captureVars, hookVars
<1>3. /\ \A h \in new.returned : completion[h] = "CALLBACK_RETURNED"
      /\ \A h \in new.failed : completion[h] = "CALLBACK_FAILURE"
  <2>1. attempts[cap[t]] \subseteq Hooks
    <3>1. cap[t] \in Captures
      BY DEF Assemble, TypeInv, ThreadInv, LocalsOK, FrameOK
    <3> QED BY <3>1 DEF TypeInv, SharedTypes
  <2> QED BY <1>1, <2>1 DEF HookInv, AttemptInv, Terminal
<1>4. ASSUME NEW c \in Captures
      PROVE  /\ AttemptsIn(snapshot'[c]) \subseteq attempts'[c]
             /\ \A h \in snapshot'[c].returned : completion'[h] = "CALLBACK_RETURNED"
             /\ \A h \in snapshot'[c].failed : completion'[h] = "CALLBACK_FAILURE"
             /\ \A d \in Captures \ {c} : attempts'[c] \cap attempts'[d] = {}
  <2>1. DOMAIN snapshot = Captures
    BY DEF TypeInv, SharedTypes
  <2>2. CASE snapshot'[c] = snapshot[c]
    BY <1>2, <2>2 DEF SnapshotAgrees
  <2>3. CASE c = cap[t] /\ snapshot'[c] = new
    BY <1>1, <1>2, <1>3, <2>3 DEF HookInv, AttemptInv
  <2> QED BY <1>1, <2>1, <2>2, <2>3
<1> QED BY <1>4 DEF SnapshotAgrees

(* What holds in every state, for the two theorems below.                  *)
EvidenceInv == TypeInv /\ OwnerInv /\ DeliveryInv /\ HookInv /\ SnapshotAgrees

(* It holds initially ...                                                  *)
LEMMA EvidenceInit == Init => EvidenceInv
<1> SUFFICES ASSUME Init PROVE EvidenceInv
  OBVIOUS
<1>1. TypeInv /\ OwnerInv
  BY TypeInit DEF Init, OwnerInv, ScopeInv, Scoped, RegistryInv, NeverMisclosed,
     CloseLabels
<1>2. DeliveryInv
  BY DEF Init, DeliveryInv
<1>3. HookInv
  BY CollectorAssumption DEF Init, HookInv, Unshared, StartInv, AttemptInv, Starting,
     Terminal, CollectorAssumption
<1>4. SnapshotAgrees
  BY DEF Init, SnapshotAgrees, NoSnapshot, AttemptsIn
<1> QED BY <1>1, <1>2, <1>3, <1>4 DEF EvidenceInv

(* ... and every step keeps it and whatever is final.                      *)
LEMMA EvidenceStep ==
  ASSUME CollectorAssumption, EvidenceInv, [Next]_vars
  PROVE  EvidenceInv' /\ DeliveryFinal /\ OutcomesFinal
<1> USE CollectorAssumption DEF EvidenceInv
<1>1. TypeInv' /\ OwnerInv'
  BY TypeStep, OwnerStep
<1>2. DeliveryInv' /\ DeliveryFinal
  BY DeliveryStep
<1>3. HookInv' /\ OutcomesFinal
  BY HookInvStep
<1>4. SnapshotAgrees'
  <2>1. CASE \E t \in Threads : Assemble(t)
    BY <2>1, AssembleAgrees
  <2>2. CASE \A t \in Threads : ~Assemble(t)
    BY <1>3, <2>2, QuietSnapshots, SnapshotKept DEF HookInv
  <2> QED BY <2>1, <2>2
<1> QED BY <1>1, <1>2, <1>3, <1>4

(* No snapshot ever contradicts an outcome, and no attempt is in two       *)
(* captures, however many callbacks are late, repeated or out of order.    *)
THEOREM SnapshotsConsistent == Spec => []SnapshotAgrees
<1>1. EvidenceInv /\ [Next]_vars => EvidenceInv'
  BY EvidenceStep, CollectorAssumption
<1>2. EvidenceInv => SnapshotAgrees
  BY DEF EvidenceInv
<1> QED BY EvidenceInit, <1>1, <1>2, PTL DEF Spec

(* No step of any client rewrites a snapshot that was taken, an outcome    *)
(* that is terminal, or what a call of RouteContract.capture delivers.     *)
THEOREM EvidenceKept == Spec => EvidenceIsFinal
<1>1. EvidenceInv /\ [Next]_vars => EvidenceInv'
  BY EvidenceStep, CollectorAssumption
<1>2. EvidenceInv /\ [Next]_vars =>
        [/\ \A c \in Captures : snapshot[c] # NoSnapshot => snapshot'[c] = snapshot[c]
         /\ \A h \in Hooks : completion[h] \in Terminal => completion'[h] = completion[h]
         /\ \A c \in Captures : result[c] # "PENDING" => result'[c] = result[c]]_vars
  BY EvidenceStep, CollectorAssumption DEF DeliveryFinal, OutcomesFinal
<1> QED BY EvidenceInit, <1>1, <1>2, PTL DEF Spec, EvidenceIsFinal
=============================================================================
