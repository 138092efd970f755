--------------------------- MODULE CaptureRefinement ---------------------------
(***************************************************************************)
(* The collector under its supported client implements OneShotCapture, as  *)
(* long as the executions of a capture stay within the retention limit: an *)
(* execution that is not retained is told to nobody.                       *)
(***************************************************************************)
EXTENDS CaptureSystem

\* a close is under way: some thread is past the action of c
Closing(c) == \E t \in Threads : cap[t] = c /\
  pc[t] \in {"closeFlag", "closeChecks", "freeze", "assemble", "remove"}

PhaseOf(c) ==
  CASE owner[c] = NoThread -> "unused"
    [] Closing(c)          -> IF result[c] = "ACTION_FAILURE" THEN "failing" ELSE "closing"
    [] c \in registry /\ ~Closing(c) -> "running"
    [] OTHER               -> "delivered"

ReportOf(c) == [status |-> snapshot[c].status, returned |-> snapshot[c].returned,
                failed |-> snapshot[c].failed, unknown |-> snapshot[c].unknown]

Promise == INSTANCE OneShotCapture WITH
  Executions <- Hooks, of <- origin,
  progress   <- [h \in Hooks |-> Reported(h)],
  phase      <- [c \in Captures |-> PhaseOf(c)],
  owed       <- due,
  report     <- [c \in Captures |-> ReportOf(c)],
  delivered  <- [c \in Captures |-> IF PhaseOf(c) = "delivered" THEN result[c] ELSE "PENDING"]

\* Every step of the threads, hooks and queues is one step of the promise or none: the
\* report is made once, of nothing but what was told, and passes only if nothing is open,
\* although callbacks run on while it is assembled (RouteContract.capture, closeAndFreeze).
ImplementsOneShot == Promise!Spec
=============================================================================
