--------------------------- MODULE AssistedPilot ---------------------------
(***************************************************************************)
(* src/scripts/run-assisted-maven-pilot.py: a wrapper that checks a        *)
(* project, builds a private Maven in a temporary directory, starts the    *)
(* reviewed verifier in a process group of its own and supervises it.      *)
(*                                                                         *)
(* Signals arrive at any step.  Python runs a handler between two          *)
(* bytecodes of the main thread, and a second signal can interrupt the     *)
(* handler of the first, so the handlers form a stack, frames, and the     *)
(* wrapper itself moves only when it is empty.                             *)
(*                                                                         *)
(* An exception in flight is the variable raised; pc then walks through    *)
(* the finally blocks of _run_verifier and execute.                        *)
(***************************************************************************)
EXTENDS Naturals, Sequences, FiniteSets, FiniteSetsExt

CONSTANTS
  Projects,      \* the projects and configurations the wrapper is started on
  Archives,      \* member lists of the Maven archive that a download yields
  Natures,       \* "normal", "stubborn", "unkillable", "foreign"
  Faults,        \* what else may go wrong: see Edit, Download, Popen, ChildEdit
  MaxSignals,    \* bound on the signals one behaviour sees
  MaxMembers,    \* MAVEN member limit (512)
  MaxExpanded    \* MAVEN_EXPANDED_MAX_BYTES

ASSUME PilotAssumption ==
  /\ MaxSignals \in Nat /\ MaxMembers \in Nat /\ MaxExpanded \in Nat
  /\ Natures # {} /\ Natures \subseteq {"normal", "stubborn", "unkillable", "foreign"}

VARIABLES
  pc, raised, handlers, frames, received,
  project, identity, bundle, staged, temp,
  sig,           \* ProcessSignalState
  leader, group, nature, sent, baseline,
  run,           \* locals of _run_verifier: primary, cleanup, lingering, exceeded
  result,        \* VerifierResult: code, marker, large
  printed, exit

world == <<project, identity, bundle, staged, temp>>
child == <<leader, group, nature, sent, baseline>>
vars == <<pc, raised, handlers, frames, received, world, sig, child, run, result,
          printed, exit>>

\* what a step that only moves on leaves alone, and one that ends or signals the child
still == <<handlers, frames, received, world, sig, child, run, result, printed, exit>>
kept == <<handlers, frames, received, world, sig, group, nature, baseline, result, printed,
          exit>>

None == "none"
NoResult == [code |-> 0, markers |-> 0, large |-> FALSE]

Init ==
  /\ pc = "prepare" /\ raised = None /\ handlers = "default"
  /\ frames = <<>> /\ received = 0
  /\ project \in Projects /\ identity = None
  /\ bundle = "reviewed" /\ staged = None /\ temp = FALSE
  /\ sig = [first |-> FALSE, escalated |-> FALSE, group |-> FALSE, error |-> FALSE]
  /\ leader = None /\ group = {} /\ nature = "normal" /\ sent = {}
  /\ baseline = project.approved
  /\ run = [primary |-> None, cleanup |-> FALSE, lingering |-> FALSE, exceeded |-> FALSE]
  /\ result = NoResult /\ printed = FALSE /\ exit = None

-----------------------------------------------------------------------------
(* The checks before anything is started.                                  *)

\* one JSON object with exactly the six keys, each once, each a safe NFC string
LoadConfig(p) == p.config = "exact"

\* .mvn is absent, or a directory without configuration the pilot would pick up
MavenConfigurationAccepted(p) == p.mvn \in {"none", "empty"}

\* "." or a path of safe segments whose every prefix is a real directory
RequireModule(p) == p.module \in {"root", "nested"}

\* both POMs are regular canonical files and the selector is the owning one
SelectorAccepted(p) == p.poms = "regular" /\ p.selector = "owning"

\* two exact Class#method selectors of two classes, and a safe file name stem
TestsAccepted(p) == p.tests = "distinct" /\ p.operation = "safe"

\* no output exists, and no ancestor of one is anything but a directory
OutputsMissing(p) == p.outputs = {} /\ p.ancestors = "directories"

\* review starts without a baseline, matched with one regular single-link file
BaselineAccepted(p, b) ==
  CASE p.outcome = "review"  -> b = "absent" /\ p.ancestors = "directories"
    [] p.outcome = "matched" -> b \in {"original", "modified"}

Acceptable(p) ==
  /\ p.outcome \in {"review", "matched"} /\ ~p.ambient /\ bundle = "reviewed"
  /\ LoadConfig(p) /\ p.root = "canonical" /\ MavenConfigurationAccepted(p)
  /\ RequireModule(p) /\ SelectorAccepted(p) /\ TestsAccepted(p)
  /\ OutputsMissing(p) /\ BaselineAccepted(p, baseline)

\* _assert_baseline_postcondition: still absent, or the same identity (device,
\* inode, links, times and digest), which no output shares
BaselineKept ==
  /\ BaselineAccepted(project, baseline)
  /\ project.outcome = "matched" => baseline = identity

\* _extract_maven_archive: the loop's checks, then the launcher and the boot JAR
FilesOf(ms) == SelectSeq(ms, LAMBDA m : m.kind = "file")

Extractable(ms) ==
  LET files == FilesOf(ms) IN
  /\ Len(ms) \in 1 .. MaxMembers
  /\ \A i \in DOMAIN ms : ms[i].inside /\ ms[i].kind \in {"directory", "file"}
  /\ \A i, j \in DOMAIN ms :
       i < j /\ ms[i].path = ms[j].path => {ms[i].kind, ms[j].kind} = {"directory"}
  /\ MapThenSumSet(LAMBDA i : files[i].size, DOMAIN files) <= MaxExpanded
  /\ \A i \in DOMAIN files : files[i].actual = files[i].size
  /\ \E i \in DOMAIN files : files[i].path = "bin/mvn" /\ files[i].executable
  /\ Cardinality({i \in DOMAIN files : files[i].path \in {"boot/a.jar", "boot/b.jar"}}) = 1

-----------------------------------------------------------------------------
(* Exceptions and sending signals.                                         *)

Goto(next) == pc' = next /\ UNCHANGED raised
Raise(what, next) == raised' = what /\ pc' = next

Alive == leader = "running" \/ group # {}

\* killpg: nothing when the group is gone, EPERM when it is not ours
Denied == Alive /\ nature = "foreign"
KillGroup(s) == sent' = IF Alive THEN sent \cup {s} ELSE sent

\* ProcessSignalState._forward
Forward(state, s) ==
  IF ~state.group \/ leader = None
    THEN sig' = state /\ UNCHANGED sent
    ELSE IF Denied THEN sig' = [state EXCEPT !.error = TRUE] /\ UNCHANGED sent
                   ELSE sig' = state /\ KillGroup(s)

Here(place) == pc = place /\ frames = <<>>

-----------------------------------------------------------------------------
(* main and the preparation of the environment, under interrupt handlers.  *)

\* prepare_invocation; the identity of an approved baseline is taken here
Prepare ==
  /\ Here("prepare")
  /\ IF Acceptable(project)
       THEN Goto("handle") /\ identity' = baseline
       ELSE Raise("error", "report") /\ UNCHANGED identity
  /\ UNCHANGED <<handlers, frames, received, project, bundle, staged, temp, sig, child,
                 run, result, printed, exit>>

HandleSignals ==
  /\ Here("handle") /\ handlers' = "interrupt" /\ Goto("isolate")
  /\ UNCHANGED <<frames, received, world, sig, child, run, result, printed, exit>>

\* _isolated_maven_environment up to its directories; a tool may be missing
Isolate ==
  /\ Here("isolate")
  /\ \/ Goto("download") /\ temp' = TRUE
     \/ "tools" \in Faults /\ Raise("error", "outerClose") /\ UNCHANGED temp
  /\ UNCHANGED <<handlers, frames, received, project, identity, bundle, staged, sig,
                 child, run, result, printed, exit>>

\* curl fails, or what it wrote is not the pinned archive, or it is
Download ==
  /\ Here("download")
  /\ \/ Goto("extract")
     \/ "download" \in Faults /\ Raise("error", "outerClose")
  /\ UNCHANGED still

Extract ==
  /\ Here("extract")
  /\ \E ms \in Archives :
       IF Extractable(ms) THEN Goto("recheck") ELSE Raise("error", "outerClose")
  /\ UNCHANGED still

\* .mvn is looked at again once the private Maven is there
Recheck ==
  /\ Here("recheck")
  /\ IF MavenConfigurationAccepted(project) THEN Goto("latch")
                                           ELSE Raise("error", "outerClose")
  /\ UNCHANGED still

LatchSignals ==
  /\ Here("latch") /\ handlers' = "latch" /\ Goto("stage")
  /\ UNCHANGED <<frames, received, world, sig, child, run, result, printed, exit>>

-----------------------------------------------------------------------------
(* _run_verifier, under latching handlers.                                 *)

\* the reviewed files are read and digested once more; what was read is copied
Stage ==
  /\ Here("stage")
  /\ IF bundle = "reviewed"
       THEN Goto("pending") /\ staged' = bundle
       ELSE Raise("error", "close") /\ UNCHANGED staged
  /\ UNCHANGED <<handlers, frames, received, project, identity, bundle, temp, sig, child,
                 run, result, printed, exit>>

CheckPending ==
  /\ Here("pending")
  /\ IF sig.first THEN Raise("interrupt", "close") ELSE Goto("popen")
  /\ UNCHANGED still

Popen ==
  /\ Here("popen")
  /\ \/ /\ Goto("attach") /\ leader' = "running"
        /\ \E n \in Natures : nature' = n
        /\ UNCHANGED run
     \/ /\ "popen" \in Faults /\ Goto("cleanup")
        /\ run' = [run EXCEPT !.primary = "error"]
        /\ UNCHANGED <<leader, nature>>
  /\ UNCHANGED <<handlers, frames, received, world, sig, group, sent, baseline, result,
                 printed, exit>>

Attach ==
  /\ Here("attach") /\ Goto("forward") /\ sig' = [sig EXCEPT !.group = TRUE]
  /\ UNCHANGED <<handlers, frames, received, world, child, run, result, printed, exit>>

\* a signal that came before the fork is left to the poll loop
ForwardPendingBug ==
  /\ Here("forward") /\ Goto("poll")
  /\ UNCHANGED still

ForwardPending ==
  /\ Here("forward") /\ Goto("poll")
  /\ IF sig.escalated THEN Forward(sig, "KILL")
     ELSE IF sig.first THEN Forward(sig, "TERM") ELSE UNCHANGED <<sig, sent>>
  /\ UNCHANGED <<handlers, frames, received, world, leader, group, nature, baseline, run,
                 result, printed, exit>>

\* one turn of the poll loop; a turn that finds nothing changes nothing
Poll ==
  /\ Here("poll")
  /\ \/ leader = "exited" /\ Goto("cleanup") /\ leader' = "reaped" /\ UNCHANGED run
     \/ /\ leader = "running" /\ result.large /\ Goto("kill")
        /\ run' = [run EXCEPT !.exceeded = TRUE] /\ UNCHANGED leader
     \/ /\ leader = "running" /\ ~result.large /\ sig.first
        /\ Goto(IF sig.escalated THEN "kill" ELSE "grace")
        /\ UNCHANGED <<leader, run>>
  /\ UNCHANGED <<handlers, frames, received, world, sig, group, nature, sent, baseline,
                 result, printed, exit>>

\* process.wait: the leader is reaped, or the time is over while it still runs;
\* SIGKILL ends a process in time unless it cannot be killed
Reap(next) ==
  /\ leader = "exited" /\ Goto(next) /\ leader' = "reaped"
  /\ UNCHANGED <<run, sent>>
TimeOver == leader = "running" /\ ("KILL" \in sent => nature = "unkillable")

\* SIGKILL to the group, or the error when it may not be signalled
Kill(next, failed) ==
  IF Denied THEN /\ pc' = failed /\ UNCHANGED sent
                 /\ run' = IF failed = "detach" THEN [run EXCEPT !.cleanup = TRUE]
                                                ELSE [run EXCEPT !.primary = "error"]
            ELSE pc' = next /\ KillGroup("KILL") /\ UNCHANGED run

\* waits for the forwarded signal without a time limit
GraceBug ==
  /\ Here("grace") /\ UNCHANGED raised /\ Reap("cleanup")
  /\ UNCHANGED kept

\* _wait_after_forwarded_signal
Grace ==
  /\ Here("grace") /\ UNCHANGED raised
  /\ Reap("cleanup") \/ (TimeOver /\ pc' = "kill" /\ UNCHANGED <<leader, run, sent>>)
  /\ UNCHANGED kept

\* _kill_process_group_now
KillNow ==
  /\ UNCHANGED raised
  /\ \/ Here("kill") /\ Kill("killWait", "cleanup") /\ UNCHANGED leader
     \/ Here("killWait") /\ Reap("cleanup")
     \/ /\ Here("killWait") /\ TimeOver /\ pc' = "cleanup"
        /\ run' = [run EXCEPT !.primary = "error"] /\ UNCHANGED <<leader, sent>>
  /\ UNCHANGED kept

-----------------------------------------------------------------------------
(* The finally block of _run_verifier: no member of the group is left.     *)

\* SIGTERM to the group; "detach" with a cleanup error when it is refused
Term(next) ==
  IF Denied THEN pc' = "detach" /\ run' = [run EXCEPT !.cleanup = TRUE] /\ UNCHANGED sent
            ELSE pc' = next /\ KillGroup("TERM") /\ UNCHANGED run

Cleanup ==
  /\ Here("cleanup") /\ UNCHANGED raised
  /\ CASE leader = None -> pc' = "after" /\ UNCHANGED <<leader, sent, run>>
       [] leader = "running" -> Term("termWait") /\ UNCHANGED leader
       [] OTHER -> pc' = "quiesce" /\ leader' = "reaped" /\ UNCHANGED <<sent, run>>
  /\ UNCHANGED kept

\* _terminate_process_group
Terminate ==
  /\ UNCHANGED raised
  /\ \/ (Here("termWait") \/ Here("termKillWait")) /\ Reap("quiesce")
     \/ Here("termWait") /\ TimeOver /\ Kill("termKillWait", "detach") /\ UNCHANGED leader
     \/ /\ Here("termKillWait") /\ TimeOver /\ pc' = "detach"
        /\ run' = [run EXCEPT !.cleanup = TRUE] /\ UNCHANGED <<leader, sent>>
  /\ UNCHANGED kept

\* _quiesce_process_group: descendants of the reaped leader
Quiesce ==
  /\ UNCHANGED raised
  /\ \/ /\ Here("quiesce")
        /\ IF group = {} THEN pc' = "detach" /\ UNCHANGED <<sent, run>>
           ELSE IF Denied THEN Term("quiesceWait")
           ELSE /\ pc' = "quiesceWait" /\ KillGroup("TERM")
                /\ run' = [run EXCEPT !.lingering = TRUE]
     \/ /\ pc \in {"quiesceWait", "quiesceKillWait"} /\ frames = <<>> /\ group = {}
        /\ pc' = "detach" /\ UNCHANGED <<sent, run>>
     \/ /\ Here("quiesceWait") /\ group # {} /\ Kill("quiesceKillWait", "detach")
     \/ /\ Here("quiesceKillWait") /\ group # {} /\ nature = "unkillable"
        /\ pc' = "detach" /\ run' = [run EXCEPT !.cleanup = TRUE] /\ UNCHANGED sent
  /\ UNCHANGED <<handlers, frames, received, world, sig, leader, group, nature, baseline,
                 result, printed, exit>>

Detach ==
  /\ Here("detach") /\ Goto("after") /\ sig' = [sig EXCEPT !.group = FALSE]
  /\ UNCHANGED <<handlers, frames, received, world, child, run, result, printed, exit>>

\* which of the errors is raised, and the two outputs within their limit
RunFailed ==
  \/ run.cleanup \/ run.primary # None \/ sig.error \/ run.lingering
  \/ run.exceeded \/ leader # "reaped" \/ result.large

After ==
  /\ Here("after")
  /\ IF RunFailed THEN Raise("error", "close") ELSE Goto("close")
  /\ UNCHANGED still

-----------------------------------------------------------------------------
(* The finally blocks of execute.                                          *)

\* the directory is left to the outer block, whose close comes too late to be reached
CloseBug ==
  /\ Here("close") /\ Goto("baseline")
  /\ UNCHANGED still

\* isolation.close() before the handlers are put back
Close ==
  /\ Here("close") /\ temp' = FALSE /\ Goto("baseline")
  /\ UNCHANGED <<handlers, frames, received, project, identity, bundle, staged, sig,
                 child, run, result, printed, exit>>

\* what the approved baseline was at the start is not compared
CheckBaselineBug ==
  /\ Here("baseline")
  /\ IF BaselineAccepted(project, baseline) THEN Goto("restore") ELSE Raise("error", "restore")
  /\ UNCHANGED still

CheckBaseline ==
  /\ Here("baseline")
  /\ IF BaselineKept THEN Goto("restore") ELSE Raise("error", "restore")
  /\ UNCHANGED still

RestoreInterrupt ==
  /\ Here("restore") /\ handlers' = "interrupt" /\ Goto("outerEnd")
  /\ UNCHANGED <<frames, received, world, sig, child, run, result, printed, exit>>

\* the outer block when the latching one was never entered: the environment is
\* taken off the stack, then its directory is removed, then the baseline checked
OuterClose ==
  /\ Here("outerClose") /\ Goto("removing")
  /\ UNCHANGED still

OuterRemove ==
  /\ Here("removing") /\ temp' = FALSE /\ Goto("outerBaseline")
  /\ UNCHANGED <<handlers, frames, received, project, identity, bundle, staged, sig,
                 child, run, result, printed, exit>>

OuterBaseline ==
  /\ Here("outerBaseline")
  /\ IF BaselineKept THEN Goto("report") ELSE Raise("error", "report")
  /\ UNCHANGED still

OuterEnd ==
  /\ Here("outerEnd") /\ Goto(IF raised # None THEN "report" ELSE "signalled")
  /\ UNCHANGED still

\* only the result counts
CheckSignalledBug ==
  /\ Here("signalled") /\ Goto("marker")
  /\ UNCHANGED still

\* a latched signal wins over a result
CheckSignalled ==
  /\ Here("signalled")
  /\ IF sig.first THEN Raise("interrupt", "report") ELSE Goto("marker")
  /\ UNCHANGED still

\* _require_external_success_marker: exactly one marker line with exit status 0
RequireMarker ==
  /\ Here("marker")
  /\ IF result.code = 0 /\ result.markers # 1 THEN Raise("error", "report")
                                             ELSE Goto("write")
  /\ UNCHANGED still

\* the captured output, then the wrapper's own line
WriteOutput ==
  /\ Here("write") /\ Goto(IF result.code = 0 THEN "print" ELSE "report")
  /\ UNCHANGED still

PrintVerified ==
  /\ Here("print") /\ printed' = TRUE /\ Goto("report")
  /\ UNCHANGED <<handlers, frames, received, world, sig, child, run, result, exit>>

\* main leaves _handled_signals, then turns the outcome into an exit status
Report ==
  /\ Here("report") /\ Goto("return") /\ handlers' = "default"
  /\ UNCHANGED <<frames, received, world, sig, child, run, result, printed, exit>>

Return ==
  /\ Here("return") /\ Goto("done")
  /\ exit' = CASE raised = "error" -> "error"
               [] raised = "interrupt" -> "interrupted"
               [] raised = None /\ result.code = 0 -> "ok"
               [] OTHER -> "verifier"
  /\ UNCHANGED <<handlers, frames, received, world, sig, child, run, result, printed>>

-----------------------------------------------------------------------------
(* Signals and their handlers.                                             *)

\* where an interrupt leaves execute: its outer finally block runs first, unless
\* that block is the one it interrupts
Unwound ==
  CASE pc \in {"isolate", "download", "extract", "recheck", "latch"} -> "outerClose"
    [] pc \in {"outerClose", "removing"} -> "outerBaseline"
    [] OTHER -> "report"

Signal ==
  /\ pc # "done" /\ received < MaxSignals /\ received' = received + 1
  /\ CASE handlers = "default" ->
            /\ pc' = "done" /\ exit' = "killed" /\ UNCHANGED <<raised, frames>>
       [] handlers = "interrupt" ->
            Raise("interrupt", Unwound) /\ UNCHANGED <<frames, exit>>
       [] handlers = "latch" ->
            /\ frames' = Append(frames, "test") /\ UNCHANGED <<pc, raised, exit>>
  /\ UNCHANGED <<handlers, world, sig, child, run, result, printed>>

\* ProcessSignalState.receive, in two steps: a later signal can come between
Top == frames[Len(frames)]

ReceiveTest ==
  /\ frames # <<>> /\ Top = "test"
  /\ frames' = [frames EXCEPT ![Len(frames)] = IF sig.first THEN "escalate" ELSE "latch"]
  /\ UNCHANGED <<pc, raised, handlers, received, world, sig, child, run, result, printed,
                 exit>>

ReceiveForward ==
  /\ frames # <<>> /\ Top # "test"
  /\ frames' = SubSeq(frames, 1, Len(frames) - 1)
  /\ IF Top = "latch" THEN Forward([sig EXCEPT !.first = TRUE], "TERM")
                      ELSE Forward([sig EXCEPT !.escalated = TRUE], "KILL")
  /\ UNCHANGED <<pc, raised, handlers, received, world, leader, group, nature, baseline,
                 run, result, printed, exit>>

-----------------------------------------------------------------------------
(* The verifier and its descendants, external, and the user's other edits. *)

Running == leader = "running" \/ group # {}

\* it ends by itself with any status and output, or because of a signal
LeaderExits ==
  /\ leader = "running" /\ leader' = "exited"
  /\ \E c \in {0, 1}, k \in IF "marker" \in Faults THEN 0 .. 2 ELSE {1} :
       result' = [result EXCEPT !.code = c, !.markers = k]
  /\ UNCHANGED <<pc, raised, handlers, frames, received, world, sig, group, nature, sent,
                 baseline, run, printed, exit>>

Doomed == "KILL" \in sent \/ ("TERM" \in sent /\ nature # "stubborn")
Killed ==
  /\ Doomed /\ nature # "unkillable"
  /\ \/ /\ leader = "running" /\ leader' = "exited" /\ UNCHANGED group
        /\ result' = [result EXCEPT !.code = 1]
     \/ group # {} /\ group' = {} /\ UNCHANGED <<leader, result>>
  /\ UNCHANGED <<pc, raised, handlers, frames, received, world, sig, nature, sent,
                 baseline, run, printed, exit>>

\* what the verifier's processes may do besides: leave a descendant, which ends
\* when it likes; write too much; touch the approved baseline
ChildActs ==
  /\ \/ /\ "linger" \in Faults /\ leader = "running" /\ "KILL" \notin sent /\ group = {}
        /\ group' = {"descendant"} /\ UNCHANGED <<result, baseline>>
     \/ group # {} /\ group' = {} /\ UNCHANGED <<result, baseline>>
     \/ /\ "output" \in Faults /\ Running /\ ~result.large
        /\ result' = [result EXCEPT !.large = TRUE] /\ UNCHANGED <<group, baseline>>
     \/ /\ "baseline" \in Faults /\ Running /\ baseline \in {"absent", "original"}
        /\ \E b \in {"modified", "linked"} : baseline' = b
        /\ UNCHANGED <<group, result>>
  /\ UNCHANGED <<pc, raised, handlers, frames, received, world, sig, leader, nature, sent,
                 run, printed, exit>>

\* the reviewed files or the project's .mvn change while the wrapper prepares
Edit ==
  /\ "edit" \in Faults /\ staged = None /\ handlers # "default"
  /\ \/ bundle = "reviewed" /\ bundle' = "altered" /\ UNCHANGED project
     \/ /\ MavenConfigurationAccepted(project) /\ project' = [project EXCEPT !.mvn = "config"]
        /\ UNCHANGED bundle
  /\ UNCHANGED <<pc, raised, handlers, frames, received, identity, staged, temp, sig,
                 child, run, result, printed, exit>>

-----------------------------------------------------------------------------
Wrapper ==
  \/ Prepare \/ HandleSignals \/ Isolate \/ Download \/ Extract \/ Recheck
  \/ LatchSignals \/ Stage \/ CheckPending \/ Popen \/ Attach \/ ForwardPending
  \/ Poll \/ Grace \/ KillNow \/ Cleanup \/ Terminate \/ Quiesce \/ Detach \/ After
  \/ Close \/ CheckBaseline \/ RestoreInterrupt \/ OuterClose \/ OuterRemove
  \/ OuterBaseline \/ OuterEnd \/ CheckSignalled \/ RequireMarker \/ WriteOutput
  \/ PrintVerified \/ Report \/ Return
Receive == ReceiveTest \/ ReceiveForward

Next == Wrapper \/ Receive \/ Signal \/ LeaderExits \/ Killed \/ ChildActs \/ Edit

\* Python runs pending handlers and the kernel delivers fatal signals; nothing is
\* assumed of the verifier itself
Fairness == WF_vars(Wrapper) /\ WF_vars(Receive) /\ WF_vars(Killed)
Spec == Init /\ [][Next]_vars /\ Fairness

-----------------------------------------------------------------------------
(* Properties.                                                             *)

\* A result is reported only of the reviewed verifier, after every process of its
\* group is gone and its private files are removed, with the approved baseline what
\* it was when the wrapper started (execute, _run_verifier,
\* _assert_baseline_postcondition); VERIFIED only with exactly one marker besides.
ResultIsClean ==
  /\ printed \/ exit \in {"ok", "verifier"} =>
       staged = "reviewed" /\ ~Running /\ ~temp /\ BaselineKept /\ ~result.large
  /\ printed => result.code = 0 /\ result.markers = 1

\* Whenever a signal comes, before the fork, between fork and attach, in a handler or
\* in a finally block, the wrapper does not end with a status that reports a result.
NoSignalLost == exit \in {"ok", "verifier"} => received = 0

\* From attach to detach, a latched signal has been sent to the group and an escalated
\* one as SIGKILL, unless the group is gone or the failure to do so is recorded
\* (ProcessSignalState.attach, receive, _forward).
SignalReachesGroup ==
  sig.group /\ pc # "forward" /\ frames = <<>> /\ Running /\ ~sig.error =>
    /\ sig.first => sent # {}
    /\ sig.escalated => "KILL" \in sent

\* Once the verifier was started, the wrapper does not end before its directory is
\* removed and its group is gone; when it cannot stop the group it ends in failure.
NothingLeftBehind ==
  pc = "done" /\ leader # None =>
    /\ ~temp
    /\ Running => run.cleanup /\ exit \notin {"ok", "verifier"}

\* A signal ends the wrapper, whatever the verifier does: a grace period, then SIGKILL.
SignalEndsPilot == received > 0 ~> pc = "done"
=============================================================================
