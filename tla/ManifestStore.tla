---------------------------- MODULE ManifestStore ----------------------------
(***************************************************************************)
(* ManifestStore.writeCandidate: the calls that write a candidate manifest *)
(* next to the approved one, over a file system whose steps interleave.    *)
(*                                                                         *)
(* The directory maps the two file names to files, so that a rename        *)
(* changes the directory and never a file, and a reader that has opened a  *)
(* file keeps what it opened.  A temporary file has a fresh name: only its *)
(* writer and its file matter.  rejectApprovedAlias is one step: what its  *)
(* file-system calls can see when the directory changes between them is    *)
(* what it sees when they do not, or an I/O error.                         *)
(***************************************************************************)
EXTENDS Naturals, FiniteSets

CONSTANTS Writers,    \* calls that may run at the same time
          Files,      \* inodes
          Manifests,  \* encoded manifests
          Layouts,    \* how the two paths may be related; see Leaf
          Faults,     \* subset of {"io", "crash"}: see Fail, Crash
          Absent, Link, NoFile

ASSUME StoreAssumption ==
  /\ IsFiniteSet(Files)
  /\ Layouts \subseteq {"separate", "folded", "same"}
  /\ Faults \subseteq {"io", "crash"}
  /\ {Absent, Link, NoFile} \cap Files = {} /\ Absent # Link
  /\ Manifests # {}
  /\ {"empty", "partial"} \cap Manifests = {}

VARIABLES
  layout,    \* the relation between the two paths
  dir,       \* what each leaf of the directories holds
  data,      \* what each file holds
  reviewed,  \* manifests a reviewer made the approved baseline
  pc,        \* where each call is
  temp,      \* the temporary file of each call
  manifest,  \* the bytes each call writes
  crashed    \* a process died inside a call

fileVars == <<dir, data>>
callVars == <<pc, temp, manifest>>
vars == <<layout, fileVars, reviewed, callVars, crashed>>

Names == {"approved", "candidate"}

(* Two different names are one leaf when the file system folds their case  *)
(* or normalises them ("folded"), or when the paths only differ in their   *)
(* parents' symbolic links ("same").                                       *)
Leaf(n) == IF layout = "separate" THEN n ELSE "candidate"

Entry(n) == dir[Leaf(n)]

Exists(n) == Entry(n) # Absent

(* A link leads to the other leaf, which may be absent. *)
Shown(n) ==
  IF Entry(n) # Link THEN Entry(n)
  ELSE dir[CHOOSE m \in Names : m # n]

Whole(f) == f \in Files /\ data[f] \in Manifests

Unused == {f \in Files : /\ \A n \in Names : dir[n] # f
                         /\ \A w \in Writers : temp[w] # f}

Init ==
  /\ layout \in Layouts
  /\ dir \in [Names -> Files \cup {Absent, Link}]
  /\ data \in [Files -> Manifests]
  /\ IF layout = "separate"
     THEN \E n \in Names : dir[n] # Link
     ELSE dir["approved"] = Absent /\ dir["candidate"] # Link
  /\ reviewed = IF Shown("approved") \in Files THEN {data[Shown("approved")]} ELSE {}
  /\ pc = [w \in Writers |-> "idle"]
  /\ temp = [w \in Writers |-> NoFile]
  /\ manifest = [w \in Writers |-> CHOOSE m \in Manifests : TRUE]
  /\ crashed = FALSE

-----------------------------------------------------------------------------
Goto(w, label) ==
  /\ pc' = [pc EXCEPT ![w] = label]
  /\ UNCHANGED <<layout, reviewed, manifest, crashed>>

Place(f, bytes) == data' = [data EXCEPT ![f] = bytes]

SetCandidate(entry) == dir' = [dir EXCEPT ![Leaf("candidate")] = entry]

SameFile ==
  /\ Exists("approved")
  /\ Exists("candidate")
  /\ Entry("approved") = Entry("candidate")

RefusedBug == layout = "same" \/ SameFile

(* rejectApprovedAlias *)
Refused ==
  \/ \E n \in Names : Entry(n) = Link
  \/ layout = "same"
  \/ SameFile

(* A step that looks at the directory and decides where the call goes on.  *)
Inspect(w, from, to) ==
  /\ pc[w] = from
  /\ Goto(w, to)
  /\ UNCHANGED <<fileVars, temp>>

-----------------------------------------------------------------------------
(* writeCandidate, in the order of its file-system calls.                  *)

Begin(w, m) ==
  /\ pc[w] = "idle"
  /\ pc' = [pc EXCEPT ![w] = "check"]
  /\ manifest' = [manifest EXCEPT ![w] = m]
  /\ UNCHANGED <<layout, fileVars, reviewed, temp, crashed>>

Check(w) == Inspect(w, "check", IF Refused THEN "idle" ELSE "look")

(* rejectAbsentApprovedAlias: only an absent candidate is probed ...       *)
Look(w) == Inspect(w, "look", IF Exists("candidate") THEN "stage" ELSE "probe")

(* ... by creating it, unless another process has done so by now ...       *)
Probe(w) ==
  /\ pc[w] = "probe"
  /\ \/ /\ Exists("candidate")
        /\ Goto(w, "recheck")
        /\ UNCHANGED fileVars
     \/ /\ ~Exists("candidate")
        /\ \E f \in Unused : SetCandidate(f) /\ Place(f, "empty")
        /\ Goto(w, "compare")
  /\ UNCHANGED temp

Recheck(w) == Inspect(w, "recheck", IF Refused THEN "idle" ELSE "stage")

(* ... looking whether the approved path shows the probe ...               *)
Compare(w) == Inspect(w, "compare", IF SameFile THEN "refuse" ELSE "unprobe")

(* ... and deleting whatever the candidate leaf holds by then.             *)
Unprobe(w) ==
  /\ pc[w] \in {"unprobe", "refuse"}
  /\ SetCandidate(Absent)
  /\ Goto(w, IF pc[w] = "unprobe" THEN "stage" ELSE "idle")
  /\ UNCHANGED <<data, temp>>

Stage(w) ==
  /\ pc[w] = "stage"
  /\ \E f \in Unused :
       /\ temp' = [temp EXCEPT ![w] = f]
       /\ Place(f, "partial")
  /\ Goto(w, "flush")
  /\ UNCHANGED dir

(* The bytes are written and forced to the device.                         *)
Flush(w) ==
  /\ pc[w] = "flush"
  /\ Place(temp[w], manifest[w])
  /\ Goto(w, "confirm")
  /\ UNCHANGED <<dir, temp>>

Confirm(w) == Inspect(w, "confirm", IF Refused THEN "cleanup" ELSE "move")

MoveBug(w) ==
  /\ pc[w] = "move"
  /\ \/ Exists("candidate") /\ SetCandidate(Absent) /\ Goto(w, "move")
        /\ UNCHANGED temp
     \/ ~Exists("candidate") /\ SetCandidate(temp[w]) /\ Goto(w, "idle")
        /\ temp' = [temp EXCEPT ![w] = NoFile]
  /\ UNCHANGED data

MovedFlagBug(w) ==
  /\ pc[w] = "move"
  /\ SetCandidate(temp[w])
  /\ Goto(w, "cleanup")
  /\ UNCHANGED <<data, temp>>

(* The atomic rename: the call returns.                                    *)
Move(w) ==
  /\ pc[w] = "move"
  /\ SetCandidate(temp[w])
  /\ temp' = [temp EXCEPT ![w] = NoFile]
  /\ Goto(w, "idle")
  /\ UNCHANGED data

(* The finally of a call that fails after it created its temporary file.   *)
Cleanup(w) ==
  /\ pc[w] = "cleanup"
  /\ temp' = [temp EXCEPT ![w] = NoFile]
  /\ Goto(w, "idle")
  /\ UNCHANGED fileVars

FinallyBug(label) ==
  IF label \in {"flush", "confirm", "move"} THEN "cleanup" ELSE "idle"

(* Where an IOException leads from each place: through the finally block   *)
(* that is in force there.                                                 *)
Finally(label) ==
  CASE label = "compare" -> "refuse"
    [] label \in {"flush", "confirm", "move"} -> "cleanup"
    [] label \in {"check", "look", "probe", "recheck", "stage"} -> "idle"

Fail(w) ==
  /\ "io" \in Faults
  /\ pc[w] \notin {"idle", "unprobe", "refuse", "cleanup"}
  /\ Inspect(w, pc[w], Finally(pc[w]))

(* The process dies.  Its temporary file stays under a name that no call   *)
(* looks at again.                                                         *)
Crash(w) ==
  /\ "crash" \in Faults
  /\ pc[w] # "idle"
  /\ pc' = [pc EXCEPT ![w] = "idle"]
  /\ temp' = [temp EXCEPT ![w] = NoFile]
  /\ crashed' = TRUE
  /\ UNCHANGED <<layout, fileVars, reviewed, manifest>>

(* A reviewer moves the candidate to the approved path.                    *)
Approve ==
  /\ layout = "separate"
  /\ Whole(dir["candidate"])
  /\ dir' = [dir EXCEPT !["approved"] = dir["candidate"], !["candidate"] = Absent]
  /\ reviewed' = reviewed \cup {data[dir["candidate"]]}
  /\ UNCHANGED <<layout, data, callVars, crashed>>

Next ==
  \/ \E w \in Writers :
       \/ \E m \in Manifests : Begin(w, m)
       \/ Check(w) \/ Look(w) \/ Probe(w) \/ Recheck(w) \/ Compare(w) \/ Unprobe(w)
       \/ Stage(w) \/ Flush(w) \/ Confirm(w) \/ Move(w) \/ Cleanup(w)
       \/ Fail(w) \/ Crash(w)
  \/ Approve

Spec == Init /\ [][Next]_vars
-----------------------------------------------------------------------------
Labels == {"idle", "check", "look", "probe", "recheck", "compare", "unprobe",
           "refuse", "stage", "flush", "confirm", "move", "cleanup"}

(* The types, and that a temporary file is in no directory entry and       *)
(* belongs to one call.                                                    *)
TypeOK ==
  /\ layout \in Layouts
  /\ dir \in [Names -> Files \cup {Absent, Link}]
  /\ data \in [Files -> Manifests \cup {"empty", "partial"}]
  /\ reviewed \subseteq Manifests
  /\ pc \in [Writers -> Labels]
  /\ temp \in [Writers -> Files \cup {NoFile}]
  /\ manifest \in [Writers -> Manifests]
  /\ crashed \in BOOLEAN
  /\ \A w \in Writers : temp[w] # NoFile =>
       /\ \A n \in Names : dir[n] # temp[w]
       /\ \A v \in Writers \ {w} : temp[v] # temp[w]

(* Whatever the relation of the paths, the failures, and the reviewer's    *)
(* moves between its steps, writeCandidate never makes a manifest visible  *)
(* at the approved path: what is read there was there before or was put    *)
(* there by a reviewer.                                                    *)
ApprovedIsReviewed ==
  Whole(Shown("approved")) => data[Shown("approved")] \in reviewed

(* A complete candidate is replaced by a complete one or moved by the      *)
(* reviewer: no step of writeCandidate loses it.                           *)
CandidateNeverLost ==
  [][Whole(Entry("candidate")) =>
       \/ Whole(Entry("candidate"))'
       \/ dir'["approved"] = dir["candidate"]]_vars

(* A call that ends, in whatever way, leaves no probe behind: between      *)
(* calls the candidate leaf is absent or complete, unless a process died.  *)
NoProbeRemains ==
  (\A w \in Writers : pc[w] = "idle") /\ ~crashed =>
    Entry("candidate") \in {Absent, Link} \/ Whole(Entry("candidate"))
=============================================================================
