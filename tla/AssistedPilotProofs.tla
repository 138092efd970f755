------------------------ MODULE AssistedPilotProofs ------------------------
(* Proofs about AssistedPilot, for any project, any archive, any faults    *)
(* and any number of signals: no signal is lost, none stops short of the   *)
(* verifier's process group, and nothing is left behind.                   *)
EXTENDS AssistedPilot, SequenceTheorems, TLAPS

(* Where the wrapper is: before the verifier is started, while it has to   *)
(* be stopped, and from where its end is known.                            *)
Preparing == {"isolate", "download", "extract", "recheck", "latch"}
Unwinding == {"outerClose", "removing", "outerBaseline"}
Starting == {"stage", "pending", "popen"}
Watching == {"attach", "forward", "poll", "grace", "kill", "killWait", "termWait",
             "termKillWait", "quiesce", "quiesceWait", "quiesceKillWait"}
Leaving == {"outerEnd", "signalled", "marker", "write", "print"}
Removed == {"baseline", "restore", "report", "return", "done"} \cup Leaving
Over == {"detach", "after", "close"} \cup Removed

Unstarted == {"prepare", "handle"} \cup Preparing \cup Unwinding \cup Starting
Places == Unstarted \cup Watching \cup {"cleanup"} \cup Over

(* The handlers that are installed follow from the place.                  *)
HandlerInv ==
  /\ pc \in {"prepare", "handle", "return", "done"} => handlers = "default"
  /\ pc \in Preparing \cup Unwinding \cup Leaving => handlers = "interrupt"
  /\ pc \in Starting \cup Watching \cup
            {"cleanup", "detach", "after", "close", "baseline", "restore"} => handlers = "latch"
  /\ pc = "report" => handlers \in {"default", "interrupt"}

PilotTypes ==
  /\ pc \in Places /\ raised \in {None, "error", "interrupt"}
  /\ leader \in {None, "running", "exited", "reaped"}
  /\ DOMAIN sig = {"first", "escalated", "group", "error"}
  /\ DOMAIN run = {"primary", "cleanup", "lingering", "exceeded"}
  /\ DOMAIN result = {"code", "markers", "large"}
  /\ frames \in Seq({"test", "latch", "escalate"}) /\ received \in Nat

(* The verifier runs from the fork on, the reviewed copy only, and until   *)
(* the wrapper has seen its end or has recorded that it could not.         *)
ProcessInv ==
  /\ leader = None => group = {}
  /\ pc \in Unstarted => leader = None
  /\ pc \in Watching \cup {"detach"} => leader # None
  /\ pc \in {"quiesce", "quiesceWait", "quiesceKillWait"} => leader = "reaped"
  /\ pc \in Over /\ leader # None /\ ~run.cleanup => leader = "reaped" /\ group = {}
  /\ leader # None \/ pc \in {"pending", "popen"} => staged = "reviewed"
  /\ leader # None /\ pc \in Removed => ~temp

(* A result is on its way out, and nothing can spoil it any more.          *)
Told == raised = None /\ exit # "killed"
Gone == leader = "reaped" /\ group = {} /\ ~result.large

ResultInv ==
  /\ pc \in Unwinding => raised # None
  /\ Told /\ pc \in {"close"} \cup Removed => Gone
  /\ Told /\ pc \in Removed \ {"baseline"} => BaselineKept
  /\ pc \in Leaving \ {"outerEnd"} => Told
  /\ pc = "write" /\ result.code = 0 => result.markers = 1
  /\ pc = "print" => result.code = 0 /\ result.markers = 1
  /\ printed => Gone /\ BaselineKept /\ ~temp /\ result.code = 0 /\ result.markers = 1
  /\ exit \in {"ok", "verifier"} => raised = None
  /\ exit # None => pc = "done"

(* Each signal is latched, being handled, raised, or has killed the        *)
(* wrapper; what is latched turns a result into an interrupt.              *)
SignalInv ==
  /\ frames # <<>> => handlers = "latch"
  /\ \A i \in 1 .. Len(frames) : frames[i] = "escalate" => sig.first
  /\ received > 0 => sig.first \/ frames # <<>> \/ raised # None \/ exit = "killed"
  /\ Told /\ pc \in {"marker", "write", "print", "report", "return", "done"} => ~sig.first

(* What is latched has reached the group.                                  *)
ForwardInv ==
  /\ sig.group => leader # None
  /\ pc = "forward" => sig.group
  /\ sig.group /\ pc # "forward" /\ Running /\ ~sig.error =>
       (sig.first => sent # {}) /\ (sig.escalated => "KILL" \in sent)

PilotInv ==
  PilotTypes /\ HandlerInv /\ ProcessInv /\ ResultInv /\ SignalInv /\ ForwardInv

(* The baseline is judged by what it is and was, and by the project.       *)
LEMMA BaselineSame ==
  ASSUME UNCHANGED <<project, baseline, identity>>
  PROVE  BaselineKept' <=> BaselineKept
BY DEF BaselineKept, BaselineAccepted

-----------------------------------------------------------------------------
(* Until the verifier is started: whatever fails leaves by an exception. *)
LEMMA PreparationSteps ==
  ASSUME PilotInv, Prepare \/ HandleSignals \/ Isolate \/ Download \/ Extract \/ Recheck \/ LatchSignals
  PROVE  PilotInv'
<1> USE BaselineSame DEF PilotInv, PilotTypes, HandlerInv, ProcessInv, ResultInv, SignalInv,
          ForwardInv, Places, Unstarted, Preparing, Unwinding, Starting, Watching,
          Leaving, Removed, Over, Told, Gone, None, Here, Goto, Raise, Running, still,
          kept, world, child
<1>1. CASE Prepare
  BY <1>1 DEF Prepare
<1>2. CASE HandleSignals
  BY <1>2 DEF HandleSignals
<1>3. CASE Isolate
  BY <1>3 DEF Isolate
<1>4. CASE Download
  BY <1>4 DEF Download
<1>5. CASE Extract
  BY <1>5 DEF Extract
<1>6. CASE Recheck
  BY <1>6 DEF Recheck
<1>7. CASE LatchSignals
  BY <1>7 DEF LatchSignals
<1> QED  BY <1>1, <1>2, <1>3, <1>4, <1>5, <1>6, <1>7

(* From staging to attaching: the fork runs the reviewed copy, and what was
   latched before it is sent to the group as soon as there is one. *)
LEMMA StartSteps ==
  ASSUME PilotInv, Stage \/ CheckPending \/ Popen \/ Attach \/ ForwardPending
  PROVE  PilotInv'
<1> USE BaselineSame DEF PilotInv, PilotTypes, HandlerInv, ProcessInv, ResultInv, SignalInv,
          ForwardInv, Places, Unstarted, Preparing, Unwinding, Starting, Watching,
          Leaving, Removed, Over, Told, Gone, None, Here, Goto, Raise, Running, still,
          kept, world, child,
          Denied, Alive, KillGroup, Forward
<1>1. CASE Stage
  BY <1>1 DEF Stage
<1>2. CASE CheckPending
  BY <1>2 DEF CheckPending
<1>3. CASE Popen
  BY <1>3 DEF Popen
<1>4. CASE Attach
  BY <1>4 DEF Attach
<1>5. CASE ForwardPending
  BY <1>5 DEF ForwardPending
<1> QED  BY <1>1, <1>2, <1>3, <1>4, <1>5

(* While the verifier runs: its end is seen, or the wrapper goes on to cleanup. *)
LEMMA WatchSteps ==
  ASSUME PilotInv, Poll \/ Grace \/ KillNow
  PROVE  PilotInv'
<1> USE BaselineSame DEF PilotInv, PilotTypes, HandlerInv, ProcessInv, ResultInv, SignalInv,
          ForwardInv, Places, Unstarted, Preparing, Unwinding, Starting, Watching,
          Leaving, Removed, Over, Told, Gone, None, Here, Goto, Raise, Running, still,
          kept, world, child,
          Denied, Alive, KillGroup, Reap, TimeOver, Kill
<1>1. CASE Poll
  BY <1>1 DEF Poll
<1>2. CASE Grace
  BY <1>2 DEF Grace
<1>3. CASE KillNow
  BY <1>3 DEF KillNow
<1> QED  BY <1>1, <1>2, <1>3

(* The finally block of _run_verifier: the group is gone, or run.cleanup says that
   it is not, and only a clean run keeps its result. *)
LEMMA CleanupSteps ==
  ASSUME PilotInv, Cleanup \/ Terminate \/ Quiesce \/ Detach \/ After
  PROVE  PilotInv'
<1> USE BaselineSame DEF PilotInv, PilotTypes, HandlerInv, ProcessInv, ResultInv, SignalInv,
          ForwardInv, Places, Unstarted, Preparing, Unwinding, Starting, Watching,
          Leaving, Removed, Over, Told, Gone, None, Here, Goto, Raise, Running, still,
          kept, world, child,
          Denied, Alive, KillGroup, Reap, TimeOver, Kill, Term, RunFailed
<1>1. CASE Cleanup
  BY <1>1 DEF Cleanup
<1>2. CASE Terminate
  BY <1>2 DEF Terminate
<1>3. CASE Quiesce
  BY <1>3 DEF Quiesce
<1>4. CASE Detach
  BY <1>4 DEF Detach
<1>5. CASE After
  BY <1>5 DEF After
<1> QED  BY <1>1, <1>2, <1>3, <1>4, <1>5

(* The finally blocks of execute: the files are removed, then the baseline compared. *)
LEMMA CloseSteps ==
  ASSUME PilotInv, Close \/ CheckBaseline \/ RestoreInterrupt \/ OuterClose \/ OuterRemove \/ OuterBaseline \/ OuterEnd
  PROVE  PilotInv'
<1> USE BaselineSame DEF PilotInv, PilotTypes, HandlerInv, ProcessInv, ResultInv, SignalInv,
          ForwardInv, Places, Unstarted, Preparing, Unwinding, Starting, Watching,
          Leaving, Removed, Over, Told, Gone, None, Here, Goto, Raise, Running, still,
          kept, world, child
<1>1. CASE Close
  BY <1>1 DEF Close
<1>2. CASE CheckBaseline
  BY <1>2 DEF CheckBaseline
<1>3. CASE RestoreInterrupt
  BY <1>3 DEF RestoreInterrupt
<1>4. CASE OuterClose
  BY <1>4 DEF OuterClose
<1>5. CASE OuterRemove
  BY <1>5 DEF OuterRemove
<1>6. CASE OuterBaseline
  BY <1>6 DEF OuterBaseline
<1>7. CASE OuterEnd
  BY <1>7 DEF OuterEnd
<1> QED  BY <1>1, <1>2, <1>3, <1>4, <1>5, <1>6, <1>7

(* A result is told only when no signal was latched and the marker is there. *)
LEMMA TellSteps ==
  ASSUME PilotInv, CheckSignalled \/ RequireMarker \/ WriteOutput \/ PrintVerified \/ Report \/ Return
  PROVE  PilotInv'
<1> USE BaselineSame DEF PilotInv, PilotTypes, HandlerInv, ProcessInv, ResultInv, SignalInv,
          ForwardInv, Places, Unstarted, Preparing, Unwinding, Starting, Watching,
          Leaving, Removed, Over, Told, Gone, None, Here, Goto, Raise, Running, still,
          kept, world, child
<1>1. CASE CheckSignalled
  BY <1>1 DEF CheckSignalled
<1>2. CASE RequireMarker
  BY <1>2 DEF RequireMarker
<1>3. CASE WriteOutput
  BY <1>3 DEF WriteOutput
<1>4. CASE PrintVerified
  BY <1>4 DEF PrintVerified
<1>5. CASE Report
  BY <1>5 DEF Report
<1>6. CASE Return
  BY <1>6 DEF Return
<1> QED  BY <1>1, <1>2, <1>3, <1>4, <1>5, <1>6

(* The verifier's processes and the edits of the user: they end before the result
   is told, and the reviewed files were copied before the fork. *)
LEMMA OutsideSteps ==
  ASSUME PilotInv, LeaderExits \/ Killed \/ ChildActs \/ Edit
  PROVE  PilotInv'
<1> USE BaselineSame DEF PilotInv, PilotTypes, HandlerInv, ProcessInv, ResultInv, SignalInv,
          ForwardInv, Places, Unstarted, Preparing, Unwinding, Starting, Watching,
          Leaving, Removed, Over, Told, Gone, None, Here, Goto, Raise, Running, still,
          kept, world, child,
          Doomed
<1>1. CASE LeaderExits
  <2>1. DOMAIN result' = DOMAIN result
    BY ONLY <1>1 DEF LeaderExits
  <2>2. /\ leader = "running" /\ leader' = "exited"
        /\ UNCHANGED <<pc, raised, handlers, frames, received, world, sig, group, nature,
                       sent, baseline, run, printed, exit>>
    BY ONLY <1>1 DEF LeaderExits
  <2>3. ~Gone /\ ~Gone'
    BY ONLY <2>2 DEF Gone
  <2> QED  BY <2>1, <2>2, <2>3
<1>2. CASE Killed
  BY <1>2 DEF Killed
<1>3. CASE ChildActs
  BY <1>3 DEF ChildActs
<1>4. CASE Edit
  BY <1>4 DEF Edit
<1> QED  BY <1>1, <1>2, <1>3, <1>4

-----------------------------------------------------------------------------
(* A signal: its handler is put on the stack, it is raised at once, or the
   default action kills the wrapper, whichever the place has installed. *)
LEMMA SignalStep ==
  ASSUME PilotInv, Signal
  PROVE  PilotInv'
<1> DEFINE pushed == Append(frames, "test")
<1>1. pushed \in Seq({"test", "latch", "escalate"}) /\ pushed # <<>>
  <2>1. frames \in Seq({"test", "latch", "escalate"})
    BY DEF PilotInv, PilotTypes
  <2>2. /\ pushed \in Seq({"test", "latch", "escalate"})
        /\ Len(pushed) = Len(frames) + 1
    BY <2>1, AppendProperties
  <2> QED  BY <2>1, <2>2, LenProperties, EmptySeq
<1> HIDE DEF pushed
<1>2. CASE handlers = "default"
  BY <1>2, BaselineSame
  DEF Signal, PilotInv, PilotTypes, HandlerInv, ProcessInv, ResultInv, SignalInv, ForwardInv,
      Places, Unstarted, Preparing, Unwinding, Starting, Watching, Leaving, Removed, Over,
      Told, Gone, None, Running, world, child
<1>3. CASE handlers = "interrupt"
  BY <1>3, BaselineSame
  DEF Signal, PilotInv, PilotTypes, HandlerInv, ProcessInv, ResultInv, SignalInv, ForwardInv,
      Places, Unstarted, Preparing, Unwinding, Starting, Watching, Leaving, Removed, Over,
      Told, Gone, None, Running, world, child, Raise, Unwound
<1>4. CASE handlers = "latch"
  <2>1. frames' = pushed /\ UNCHANGED <<pc, raised, exit>>
    BY <1>4 DEF Signal, pushed
  <2> QED
    BY <1>1, <1>4, <2>1, BaselineSame
    DEF Signal, PilotInv, PilotTypes, HandlerInv, ProcessInv, ResultInv, SignalInv, ForwardInv,
        Places, Unstarted, Preparing, Unwinding, Starting, Watching, Leaving, Removed, Over,
        Told, Gone, None, Running, world, child
<1>5. handlers \in {"default", "interrupt", "latch"}
  BY DEF PilotInv, PilotTypes, HandlerInv, Places, Unstarted, Preparing, Unwinding,
         Starting, Watching, Leaving, Removed, Over
<1> QED  BY <1>2, <1>3, <1>4, <1>5

(* The first half of a handler: the flag is looked at, nothing is lost yet. *)
LEMMA TestStep ==
  ASSUME PilotInv, ReceiveTest
  PROVE  PilotInv'
<1> DEFINE next == IF sig.first THEN "escalate" ELSE "latch"
<1>1. frames \in Seq({"test", "latch", "escalate"}) /\ frames # <<>>
  BY DEF PilotInv, PilotTypes, ReceiveTest
<1>2. Len(frames) \in 1 .. Len(frames)
  BY <1>1, EmptySeq, LenProperties
<1>3. /\ [frames EXCEPT ![Len(frames)] = next] \in Seq({"test", "latch", "escalate"})
      /\ Len([frames EXCEPT ![Len(frames)] = next]) = Len(frames)
  BY <1>1, <1>2, ExceptSeq
<1>4. frames' \in Seq({"test", "latch", "escalate"}) /\ frames' # <<>>
  BY <1>1, <1>2, <1>3, EmptySeq DEF ReceiveTest
<1> QED
  BY <1>1, <1>4, BaselineSame
  DEF ReceiveTest, PilotInv, PilotTypes, HandlerInv, ProcessInv, ResultInv, SignalInv,
      ForwardInv, Told, Gone, None, Running, world, child

(* The second half: the signal is latched, and what is latched is sent to the
   group, is refused, which is recorded, or finds no group. *)
LEMMA ForwardStep ==
  ASSUME PilotInv, ReceiveForward
  PROVE  PilotInv'
<1>1. frames \in Seq({"test", "latch", "escalate"}) /\ frames # <<>>
  BY DEF PilotInv, PilotTypes, ReceiveForward
<1>2. Len(frames) \in Nat /\ \A i \in 1 .. Len(frames) - 1 : frames[i] \in {"test", "latch", "escalate"}
  BY <1>1, LenProperties, ElementOfSeq
<1>3. frames' \in Seq({"test", "latch", "escalate"})
  BY <1>2, SubSeqProperties DEF ReceiveForward
<1>4. \A i \in 1 .. Len(frames') : i \in 1 .. Len(frames) /\ frames'[i] = frames[i]
  BY <1>1, <1>2, SubSeqProperties DEF ReceiveForward
<1>5. handlers = "latch" /\ UNCHANGED handlers
  BY <1>1 DEF PilotInv, SignalInv, ReceiveForward
<1>6. Len(frames) \in 1 .. Len(frames) /\ Top \in {"latch", "escalate"}
  BY <1>1, <1>2, EmptySeq, ElementOfSeq DEF ReceiveForward, Top
<1>7. sig'.first
  BY <1>6 DEF PilotInv, PilotTypes, SignalInv, ReceiveForward, Forward, Top
<1>8. PilotTypes' /\ HandlerInv' /\ ProcessInv'
  BY <1>3 DEF PilotInv, PilotTypes, HandlerInv, ProcessInv, ReceiveForward, Forward, world
<1>9. ResultInv'
  BY BaselineSame DEF PilotInv, ResultInv, Told, Gone, ReceiveForward, world
<1>10. SignalInv'
  BY <1>4, <1>5, <1>7
  DEF PilotInv, HandlerInv, Preparing, Unwinding, Leaving, SignalInv, Told, ReceiveForward
<1>11. ForwardInv'
  <2>1. CASE ~sig.group \/ leader = None
    BY <2>1 DEF PilotInv, PilotTypes, ForwardInv, ReceiveForward, Forward
  <2>2. CASE ~(~sig.group \/ leader = None) /\ Denied
    BY <2>2 DEF PilotInv, PilotTypes, ForwardInv, ReceiveForward, Forward
  <2>3. CASE ~(~sig.group \/ leader = None) /\ ~Denied
    BY <1>6, <2>3 DEF PilotInv, PilotTypes, ForwardInv, ReceiveForward, Forward, KillGroup, Alive,
       Running
  <2> QED  BY <2>1, <2>2, <2>3
<1> QED  BY <1>8, <1>9, <1>10, <1>11 DEF PilotInv

-----------------------------------------------------------------------------
(* The wrapper starts with default handlers, without a child, told nothing. *)
LEMMA PilotStarts ==
  ASSUME Init
  PROVE  PilotInv
<1>1. frames \in Seq({"test", "latch", "escalate"}) /\ Len(frames) = 0
  BY EmptySeq DEF Init
<1>2. PilotTypes /\ HandlerInv /\ ProcessInv
  BY <1>1 DEF Init, PilotTypes, HandlerInv, ProcessInv, Places, Unstarted, Preparing, Unwinding,
     Starting, Watching, Leaving, Removed, Over, None, NoResult
<1>3. ResultInv /\ SignalInv /\ ForwardInv
  BY <1>1 DEF Init, ResultInv, SignalInv, ForwardInv, Told, Unwinding, Leaving, Removed, None
<1> QED  BY <1>2, <1>3 DEF PilotInv

LEMMA PilotStutters ==
  ASSUME PilotInv, UNCHANGED vars
  PROVE  PilotInv'
BY BaselineSame DEF vars, world, child, PilotInv, PilotTypes, HandlerInv, ProcessInv, ResultInv,
   SignalInv, ForwardInv, Told, Gone, Running

LEMMA PilotInvariant == Spec => []PilotInv
<1>1. Init => PilotInv
  BY PilotStarts
<1>2. PilotInv /\ [Next]_vars => PilotInv'
  <2> SUFFICES ASSUME PilotInv, [Next]_vars  PROVE PilotInv'
    OBVIOUS
  <2>1. CASE Wrapper
    BY <2>1, PreparationSteps, StartSteps, WatchSteps, CleanupSteps, CloseSteps, TellSteps
    DEF Wrapper
  <2>2. CASE Receive
    BY <2>2, TestStep, ForwardStep DEF Receive
  <2>3. CASE Signal
    BY <2>3, SignalStep
  <2>4. CASE LeaderExits \/ Killed \/ ChildActs \/ Edit
    BY <2>4, OutsideSteps
  <2>5. CASE UNCHANGED vars
    BY <2>5, PilotStutters
  <2> QED  BY <2>1, <2>2, <2>3, <2>4, <2>5 DEF Next
<1> QED  BY <1>1, <1>2, PTL DEF Spec

-----------------------------------------------------------------------------
(* A result is reported only of the reviewed copy, when its group is gone, its
   files are removed and the approved baseline is what it was, and VERIFIED only
   with one marker: execute, _run_verifier, _assert_baseline_postcondition. *)
THEOREM CleanResult == Spec => []ResultIsClean
<1>1. PilotInv => ResultIsClean
  <2> SUFFICES ASSUME PilotInv  PROVE ResultIsClean
    OBVIOUS
  <2>1. printed \/ exit \in {"ok", "verifier"} =>
          leader = "reaped" /\ group = {} /\ ~result.large /\ BaselineKept /\ ~temp
    BY DEF PilotInv, ProcessInv, ResultInv, Told, Gone, Removed, None
  <2>2. leader = "reaped" => staged = "reviewed"
    BY DEF PilotInv, ProcessInv, None
  <2>3. printed => result.code = 0 /\ result.markers = 1
    BY DEF PilotInv, ResultInv
  <2> QED  BY <2>1, <2>2, <2>3 DEF ResultIsClean, Running
<1> QED  BY <1>1, PilotInvariant, PTL

(* A signal that comes at any step, between the fork and attach, in a handler or
   in a finally block, is never followed by the report of a result: _latch,
   _interrupt and the check of first_signal at the end of execute. *)
THEOREM SignalsKept == Spec => []NoSignalLost
<1>1. PilotInv => NoSignalLost
  <2> SUFFICES ASSUME PilotInv, exit \in {"ok", "verifier"}  PROVE received = 0
    BY DEF NoSignalLost
  <2>1. pc = "done" /\ raised = None /\ Told
    BY DEF PilotInv, ResultInv, Told, None
  <2>2. ~sig.first
    BY <2>1 DEF PilotInv, SignalInv
  <2>3. frames = <<>>
    BY <2>1 DEF PilotInv, HandlerInv, SignalInv
  <2> QED  BY <2>1, <2>2, <2>3 DEF PilotInv, PilotTypes, SignalInv
<1> QED  BY <1>1, PilotInvariant, PTL

(* Between attach and detach every latched signal has been sent to the group, and
   an escalated one as SIGKILL, unless the refusal is recorded:
   ProcessSignalState.attach, forward_pending, receive and _forward. *)
THEOREM SignalsForwarded == Spec => []SignalReachesGroup
<1>1. PilotInv => SignalReachesGroup
  BY DEF PilotInv, ForwardInv, SignalReachesGroup
<1> QED  BY <1>1, PilotInvariant, PTL

(* Once the verifier was started the wrapper ends only with its directory removed
   and its group gone, or in failure: the finally blocks of _run_verifier and
   execute. *)
THEOREM NothingLeft == Spec => []NothingLeftBehind
<1>1. PilotInv => NothingLeftBehind
  <2> SUFFICES ASSUME PilotInv, pc = "done", leader # None
               PROVE  ~temp /\ (Running => run.cleanup /\ exit \notin {"ok", "verifier"})
    BY DEF NothingLeftBehind
  <2>1. ~temp
    BY DEF PilotInv, ProcessInv, Removed
  <2>2. ~run.cleanup => ~Running
    BY DEF PilotInv, PilotTypes, ProcessInv, Over, Removed, Running
  <2>3. exit \in {"ok", "verifier"} => ~Running
    BY DEF PilotInv, ResultInv, Told, Gone, Removed, Running
  <2> QED  BY <2>1, <2>2, <2>3
<1> QED  BY <1>1, PilotInvariant, PTL
=============================================================================
