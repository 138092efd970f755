---------------------------- MODULE OneShotCapture ----------------------------
(***************************************************************************)
(* What a call of RouteContract.capture promises, without threads, hooks   *)
(* or queues: the executions submitted by the action are told to it as     *)
(* started, then returned or failed; when the action ends, one report is   *)
(* made of them and then the call delivers it, or the action's failure.    *)
(*                                                                         *)
(* The report may be made while executions that the statement did not wait *)
(* for still go on.  It may be INCOMPLETE for any reason, but says nothing *)
(* that is not so and passes only when nothing is left open.               *)
(***************************************************************************)
EXTENDS FiniteSets

CONSTANTS Executions, Captures, NoCapture

VARIABLES
  of,        \* the capture each execution was submitted under
  progress,  \* what has been told of each execution
  phase,     \* of each capture: see Phases
  owed,      \* progress of the executions of a capture when its action ended
  report,    \* the report of each capture
  delivered  \* what the call returned to its caller

Phases == {"unused", "running", "closing", "failing", "delivered"}
NoReport == [status |-> "OPEN", returned |-> {}, failed |-> {}, unknown |-> {}]
promise == <<of, progress, phase, owed, report, delivered>>

Of(c) == {h \in Executions : of[h] = c}
Told(c, what) == {h \in Of(c) : progress[h] \in what}

Init ==
  /\ of = [h \in Executions |-> NoCapture] /\ progress = [h \in Executions |-> "NONE"]
  /\ phase = [c \in Captures |-> "unused"]
  /\ owed = [c \in Captures |-> [h \in Executions |-> "NONE"]]
  /\ report = [c \in Captures |-> NoReport]
  /\ delivered = [c \in Captures |-> "PENDING"]

Begin(c) ==
  /\ phase[c] = "unused" /\ phase' = [phase EXCEPT ![c] = "running"]
  /\ UNCHANGED <<of, progress, owed, report, delivered>>

\* only a running action submits, and an execution stays with its capture
Submit(c) ==
  /\ phase[c] = "running"
  /\ UNCHANGED <<progress, phase, owed, report, delivered>>
  /\ \E some \in SUBSET {h \in Executions : of[h] = NoCapture /\ progress[h] = "NONE"} :
       of' = [h \in Executions |-> IF h \in some THEN c ELSE of[h]]

\* an execution is told to have started, and then once how it ended
Tell(h) ==
  /\ \/ progress[h] = "NONE" /\ progress' = [progress EXCEPT ![h] = "STARTED"]
     \/ /\ progress[h] \in {"NONE", "STARTED"}
        /\ \E ended \in {"RETURNED", "FAILED"} : progress' = [progress EXCEPT ![h] = ended]
  /\ UNCHANGED <<of, phase, owed, report, delivered>>

EndAction(c) ==
  /\ phase[c] = "running"
  /\ \E after \in {"closing", "failing"} : phase' = [phase EXCEPT ![c] = after]
  /\ owed' = [owed EXCEPT ![c] = [h \in Executions |-> IF h \in Of(c) THEN progress[h] ELSE "NONE"]]
  /\ UNCHANGED <<of, progress, report, delivered>>

\* the statuses a report of these executions may have
Justified(c, status, returned, failed, unknown) ==
  LET due == {h \in Executions : owed[c][h] # "NONE"} IN
  CASE status = "COMPLETE" ->
         /\ returned = Of(c) /\ returned # {} /\ failed = {} /\ unknown = {}
         /\ \A h \in due : owed[c][h] # "FAILED"
    [] status = "REPORTED_EXECUTION_FAILURE" ->
         failed # {} /\ unknown = {} /\ due \subseteq returned \cup failed
    [] status = "INCOMPLETE" -> TRUE

\* the call's one report: of its own executions, and of each no more than was told
Report(c) ==
  /\ phase[c] \in {"closing", "failing"} /\ report[c] = NoReport
  /\ UNCHANGED <<of, progress, phase, owed, delivered>>
  /\ \E status \in {"COMPLETE", "REPORTED_EXECUTION_FAILURE", "INCOMPLETE"},
        returned \in SUBSET Told(c, {"RETURNED"}), failed \in SUBSET Told(c, {"FAILED"}),
        unknown \in SUBSET Told(c, {"STARTED", "RETURNED", "FAILED"}) :
       /\ unknown \cap (returned \cup failed) = {}
       /\ Justified(c, status, returned, failed, unknown)
       /\ report' = [report EXCEPT ![c] =
            [status |-> status, returned |-> returned, failed |-> failed, unknown |-> unknown]]

\* the call returns after its report, and a failure of the action is what it delivers
Deliver(c) ==
  /\ phase[c] \in {"closing", "failing"} /\ report[c] # NoReport
  /\ delivered' = [delivered EXCEPT
       ![c] = IF phase[c] = "failing" THEN "ACTION_FAILURE" ELSE "SNAPSHOT"]
  /\ phase' = [phase EXCEPT ![c] = "delivered"]
  /\ UNCHANGED <<of, progress, owed, report>>

Next ==
  \/ \E c \in Captures : Begin(c) \/ Submit(c) \/ EndAction(c) \/ Report(c) \/ Deliver(c)
  \/ \E h \in Executions : Tell(h)

Spec == Init /\ [][Next]_promise
=============================================================================
