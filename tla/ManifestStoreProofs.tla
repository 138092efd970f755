------------------------- MODULE ManifestStoreProofs -------------------------
(* Proofs about ManifestStore, for every number of concurrent calls.       *)
EXTENDS ManifestStore, TLAPS

(* A call that has created its temporary file still has it.                *)
HasTemp ==
  \A w \in Writers : pc[w] \in {"flush", "confirm", "move", "cleanup"} =>
    temp[w] \in Files

TypeInv == TypeOK /\ HasTemp

(* The steps that only read the file system keep the invariant.            *)
LEMMA ReadSteps ==
  ASSUME TypeInv, NEW w \in Writers, UNCHANGED <<fileVars, temp>>,
         NEW label \in Labels, Goto(w, label),
         label \in {"flush", "confirm", "move", "cleanup"} => temp[w] \in Files
  PROVE  TypeInv'
BY DEF TypeInv, TypeOK, HasTemp, Goto, fileVars

(* Every step keeps the types and keeps temporary files apart: a new one   *)
(* is taken from the unused files, a moved one is given up.                *)
LEMMA TypeStep ==
  ASSUME StoreAssumption, TypeInv, [Next]_vars
  PROVE  TypeInv'
<1>1. CASE UNCHANGED vars
  BY <1>1 DEF TypeInv, TypeOK, HasTemp, vars, fileVars, callVars
<1>2. ASSUME NEW w \in Writers, NEW m \in Manifests, Begin(w, m)
      PROVE  TypeInv'
  BY <1>2 DEF Begin, TypeInv, TypeOK, HasTemp, Labels, fileVars
<1>3. ASSUME NEW w \in Writers,
             Check(w) \/ Look(w) \/ Recheck(w) \/ Compare(w) \/ Confirm(w) \/ Fail(w)
      PROVE  TypeInv'
  <2>1. CASE Check(w) \/ Look(w) \/ Recheck(w) \/ Compare(w)
    <3>1. UNCHANGED <<fileVars, temp>>
      BY <2>1 DEF Inspect, Check, Look, Recheck, Compare
    <3>2. \E label \in Labels \ {"flush", "confirm", "move", "cleanup"} :
             Goto(w, label)
      BY <2>1 DEF Inspect, Check, Look, Recheck, Compare, Labels
    <3> QED BY <3>1, <3>2, ReadSteps
  <2>2. CASE Confirm(w)
    <3>1. UNCHANGED <<fileVars, temp>> /\ temp[w] \in Files
      BY <2>2 DEF Inspect, Confirm, TypeInv, HasTemp
    <3>2. \E label \in Labels : Goto(w, label)
      BY <2>2 DEF Inspect, Confirm, Labels
    <3> QED BY <3>1, <3>2, ReadSteps
  <2>3. CASE Fail(w)
    <3>1. UNCHANGED <<fileVars, temp>> /\ Goto(w, Finally(pc[w]))
      BY <2>3 DEF Inspect, Fail
    <3>2. /\ Finally(pc[w]) \in Labels
          /\ Finally(pc[w]) \in {"flush", "confirm", "move", "cleanup"} =>
               temp[w] \in Files
      BY <2>3 DEF Inspect, Fail, Finally, Labels, TypeInv, TypeOK, HasTemp
    <3> QED BY <3>1, <3>2, ReadSteps
  <2> QED BY <1>3, <2>1, <2>2, <2>3
<1>4. ASSUME NEW w \in Writers, Probe(w)
      PROVE  TypeInv'
  <2>1. CASE Exists("candidate")
    BY <1>4, <2>1, ReadSteps DEF Probe, Labels
  <2>2. CASE ~Exists("candidate")
    BY <1>4, <2>2 DEF Probe, Unused, SetCandidate, Place, Leaf, Names, Goto,
       TypeInv, TypeOK, HasTemp, Labels
  <2> QED BY <2>1, <2>2
<1>5. ASSUME NEW w \in Writers, Unprobe(w)
      PROVE  TypeInv'
  BY <1>5 DEF Unprobe, SetCandidate, Leaf, Names, Goto, TypeInv, TypeOK, HasTemp,
     Labels, StoreAssumption
<1>6. ASSUME NEW w \in Writers, Stage(w)
      PROVE  TypeInv'
  BY <1>6 DEF Stage, Unused, Place, Goto, TypeInv, TypeOK, HasTemp, Labels
<1>7. ASSUME NEW w \in Writers, Flush(w)
      PROVE  TypeInv'
  BY <1>7 DEF Flush, Place, Goto, TypeInv, TypeOK, HasTemp, Labels
<1>8. ASSUME NEW w \in Writers, Move(w)
      PROVE  TypeInv'
  BY <1>8 DEF Move, SetCandidate, Leaf, Names, Goto, TypeInv, TypeOK, HasTemp,
     Labels, StoreAssumption
<1>9. ASSUME NEW w \in Writers, Cleanup(w)
      PROVE  TypeInv'
  BY <1>9 DEF Cleanup, Goto, fileVars, TypeInv, TypeOK, HasTemp, Labels
<1>10. ASSUME NEW w \in Writers, Crash(w)
       PROVE  TypeInv'
  BY <1>10 DEF Crash, fileVars, TypeInv, TypeOK, HasTemp, Labels
<1>11. ASSUME Approve
       PROVE  TypeInv'
  BY <1>11 DEF Approve, Whole, Names, callVars, TypeInv, TypeOK, HasTemp
<1> QED
  BY <1>1, <1>2, <1>3, <1>4, <1>5, <1>6, <1>7, <1>8, <1>9, <1>10, <1>11 DEF Next

(* The invariant holds before the first call.                              *)
LEMMA TypeInit ==
  ASSUME StoreAssumption, Init
  PROVE  TypeInv
<1>1. (CHOOSE m \in Manifests : TRUE) \in Manifests
  BY DEF StoreAssumption
<1>2. reviewed \subseteq Manifests
  BY DEF Init
<1>3. TypeOK
  BY <1>1, <1>2 DEF Init, TypeOK, Labels
<1> QED BY <1>3 DEF Init, TypeInv, HasTemp

(* Every value has its type, and no two calls and no directory entry share *)
(* a temporary file, however many calls run, fail and crash at a time.     *)
THEOREM StoreTypeCorrect == Spec => []TypeOK
<1>1. Init => TypeInv
  BY TypeInit, StoreAssumption
<1>2. TypeInv /\ [Next]_vars => TypeInv'
  BY TypeStep, StoreAssumption
<1>3. TypeInv => TypeOK
  BY DEF TypeInv
<1> QED BY <1>1, <1>2, <1>3, PTL DEF Spec

-----------------------------------------------------------------------------
(* With two paths that never name one leaf, the approved leaf changes only *)
(* in the reviewer's hands; and while it is a link to the candidate, no    *)
(* call gets past its first check.                                         *)
LinkStopsCalls ==
  dir["approved"] = Link => \A w \in Writers : pc[w] \in {"idle", "check"}

(* ApprovedIsReviewed alone is not inductive: a link at the approved path  *)
(* would show whatever a call puts at the candidate path.                  *)
ApprovedInv ==
  /\ layout = "separate"
  /\ LinkStopsCalls
  /\ ApprovedIsReviewed

(* A step that leaves the directory, the manifests the files in it hold    *)
(* and the reviewed manifests alone shows nothing new.                     *)
LEMMA ShownKept ==
  ASSUME TypeInv, ApprovedInv, layout' = layout, dir' = dir, reviewed' = reviewed,
         \A n \in Names : data'[dir[n]] = data[dir[n]]
  PROVE  ApprovedIsReviewed'
<1>1. Shown("approved")' = Shown("approved")
  BY DEF Shown, Entry, Leaf, ApprovedInv
<1>2. Shown("approved") \in Files => \E n \in Names : Shown("approved") = dir[n]
  BY DEF Shown, Entry, Leaf, Names, ApprovedInv
<1>3. Shown("approved") \in Files =>
        data'[Shown("approved")] = data[Shown("approved")]
  BY <1>2
<1> QED BY <1>1, <1>3 DEF ApprovedIsReviewed, ApprovedInv, Whole

(* A step on the candidate leaf is not seen through the approved path.     *)
LEMMA CandidateHidden ==
  ASSUME StoreAssumption, TypeInv, ApprovedInv, dir["approved"] # Link,
         layout' = layout, reviewed' = reviewed,
         NEW entry, SetCandidate(entry),
         dir["approved"] \in Files => data'[dir["approved"]] = data[dir["approved"]]
  PROVE  ApprovedIsReviewed' /\ LinkStopsCalls'
<1>1. dir'["approved"] = dir["approved"]
  BY DEF SetCandidate, Leaf, ApprovedInv, TypeInv, TypeOK, Names
<1>2. Shown("approved") = dir["approved"] /\ Shown("approved")' = dir["approved"]
  BY <1>1 DEF Shown, Entry, Leaf, ApprovedInv
<1>3. ApprovedIsReviewed'
  BY <1>2 DEF ApprovedIsReviewed, ApprovedInv, Whole
<1> QED BY <1>1, <1>3 DEF LinkStopsCalls

(* Every step of a call writes to the candidate leaf or to a file that no  *)
(* leaf holds; the reviewer's move makes what it moves reviewed.           *)
LEMMA ApprovedStep ==
  ASSUME StoreAssumption, TypeInv, ApprovedInv, [Next]_vars
  PROVE  ApprovedInv'
<1>1. CASE UNCHANGED vars
  <2>1. UNCHANGED <<layout, dir, data, reviewed, pc>>
    BY <1>1 DEF vars, fileVars, callVars
  <2> QED BY <2>1, ShownKept DEF ApprovedInv, LinkStopsCalls
<1>2. ASSUME NEW w \in Writers, UNCHANGED <<layout, fileVars, reviewed>>,
             \/ \E m \in Manifests : Begin(w, m)
             \/ Check(w) \/ Look(w) \/ Recheck(w) \/ Compare(w) \/ Confirm(w)
             \/ Fail(w) \/ Cleanup(w) \/ Crash(w) \/ Probe(w)
      PROVE  ApprovedInv'
  <2>1. ApprovedIsReviewed'
    BY <1>2, ShownKept DEF fileVars
  <2>2. CASE dir["approved"] # Link
    BY <1>2, <2>1, <2>2 DEF ApprovedInv, LinkStopsCalls, fileVars
  <2>3. CASE dir["approved"] = Link
    <3>1. Refused
      BY <2>3 DEF Refused, Entry, Leaf, Names, ApprovedInv
    <3>2. pc'[w] \in {"idle", "check"}
      BY <1>2, <2>3, <3>1 DEF Inspect, ApprovedInv, LinkStopsCalls, Begin, Check, Look,
         Recheck, Compare, Confirm, Fail, Finally, Cleanup, Crash, Probe, Goto,
         TypeInv, TypeOK
    <3>3. \A v \in Writers : v # w => pc'[v] = pc[v]
      BY <1>2 DEF Inspect, Begin, Check, Look, Recheck, Compare, Confirm, Fail, Cleanup,
         Crash, Probe, Goto, TypeInv, TypeOK
    <3> QED BY <1>2, <2>1, <2>3, <3>2, <3>3 DEF ApprovedInv, LinkStopsCalls
  <2> QED BY <2>2, <2>3
<1>3. ASSUME NEW w \in Writers, Probe(w), ~Exists("candidate")
      PROVE  ApprovedInv'
  <2>1. PICK f \in Unused : SetCandidate(f) /\ Place(f, "empty")
    BY <1>3 DEF Probe
  <2>2. dir["approved"] # Link
    BY <1>3 DEF Probe, ApprovedInv, LinkStopsCalls
  <2>3. data'[dir["approved"]] = data[dir["approved"]] \/ dir["approved"] \notin Files
    BY <2>1 DEF Place, Unused, Names, TypeInv, TypeOK
  <2> QED BY <1>3, <2>1, <2>2, <2>3, CandidateHidden DEF Probe, Goto, ApprovedInv
<1>4. ASSUME NEW w \in Writers, Unprobe(w) \/ Move(w)
      PROVE  ApprovedInv'
  <2>1. dir["approved"] # Link
    BY <1>4 DEF Unprobe, Move, ApprovedInv, LinkStopsCalls
  <2>2. \E entry : SetCandidate(entry)
    BY <1>4 DEF Unprobe, Move
  <2> QED BY <1>4, <2>1, <2>2, CandidateHidden DEF Unprobe, Move, Goto, ApprovedInv
<1>5. ASSUME NEW w \in Writers, Stage(w) \/ Flush(w)
      PROVE  ApprovedInv'
  <2>1. \A n \in Names : data'[dir[n]] = data[dir[n]]
    <3>1. PICK f \in Files :
            (\E bytes : Place(f, bytes)) /\ \A n \in Names : dir[n] # f
      <4>1. CASE Stage(w)
        BY <4>1 DEF Stage, Unused
      <4>2. CASE Flush(w)
        BY <4>2 DEF Flush, TypeInv, TypeOK, HasTemp, StoreAssumption
      <4> QED BY <1>5, <4>1, <4>2
    <3> QED BY <3>1 DEF Place, TypeInv, TypeOK
  <2>2. ApprovedIsReviewed'
    BY <1>5, <2>1, ShownKept DEF Stage, Flush, Goto
  <2>3. dir["approved"] # Link
    BY <1>5 DEF Stage, Flush, ApprovedInv, LinkStopsCalls
  <2> QED BY <1>5, <2>2, <2>3 DEF Stage, Flush, Goto, ApprovedInv, LinkStopsCalls
<1>6. ASSUME Approve
      PROVE  ApprovedInv'
  <2>1. dir'["approved"] = dir["candidate"] /\ dir["candidate"] \in Files
    BY <1>6 DEF Approve, Whole, TypeInv, TypeOK, Names
  <2>2. dir'["approved"] # Link
    BY <2>1 DEF StoreAssumption
  <2>3. Shown("approved")' = dir["candidate"]
    BY <1>6, <2>1, <2>2 DEF Shown, Entry, Leaf, Approve
  <2>4. ApprovedIsReviewed'
    BY <1>6, <2>3 DEF ApprovedIsReviewed, Approve
  <2> QED BY <1>6, <2>2, <2>4 DEF ApprovedInv, LinkStopsCalls, Approve
<1>7. \A w \in Writers : Probe(w) =>
        \/ ~Exists("candidate")
        \/ UNCHANGED <<layout, fileVars, reviewed>>
  BY DEF Probe, Goto
<1>8. \A w \in Writers :
        \/ \E m \in Manifests : Begin(w, m)
        \/ Check(w) \/ Look(w) \/ Recheck(w) \/ Compare(w) \/ Confirm(w)
        \/ Fail(w) \/ Cleanup(w) \/ Crash(w)
        => UNCHANGED <<layout, fileVars, reviewed>>
  BY DEF Inspect, Begin, Check, Look, Recheck, Compare, Confirm, Fail, Cleanup, Crash, Goto
<1> QED BY <1>1, <1>2, <1>3, <1>4, <1>5, <1>6, <1>7, <1>8 DEF Next

(* When both paths name one leaf, a lone call that finds it absent makes   *)
(* its probe, sees it through the approved path, deletes it and refuses;   *)
(* it never stages anything.                                               *)
OneLeafInv ==
  /\ layout # "separate" /\ dir["approved"] = Absent /\ dir["candidate"] # Link
  /\ ApprovedIsReviewed
  /\ \A w \in Writers :
       /\ pc[w] \in {"idle", "check", "look", "probe", "compare", "refuse"}
       /\ pc[w] \in {"look", "probe"} => dir["candidate"] = Absent
       /\ pc[w] = "compare" => dir["candidate"] # Absent

(* With one leaf, the approved path shows what the candidate path shows.   *)
LEMMA OneLeafShows ==
  ASSUME OneLeafInv
  PROVE  /\ Shown("approved") = dir["candidate"] /\ Entry("approved") = dir["candidate"]
         /\ Entry("candidate") = dir["candidate"]
         /\ Refused <=> layout = "same" \/ dir["candidate"] # Absent
         /\ SameFile <=> dir["candidate"] # Absent
         /\ Exists("candidate") <=> dir["candidate"] # Absent
BY DEF OneLeafInv, Shown, Entry, Leaf, Refused, SameFile, Exists, Names

LEMMA OneLeafStep ==
  ASSUME StoreAssumption, \A u, v \in Writers : u = v, TypeInv, OneLeafInv, [Next]_vars
  PROVE  OneLeafInv'
<1>a. /\ pc \in [Writers -> Labels] /\ dir \in [Names -> Files \cup {Absent, Link}]
      /\ data \in [Files -> Manifests \cup {"empty", "partial"}]
  BY DEF TypeInv, TypeOK
<1>b. Leaf("candidate") = "candidate" /\ "candidate" \in Names /\ "approved" \in Names
  BY DEF Leaf, Names
<1>1. ASSUME UNCHANGED <<layout, fileVars, reviewed>>
      PROVE  ApprovedIsReviewed' /\ UNCHANGED <<layout, dir, data, reviewed>>
  BY <1>1 DEF OneLeafInv, ApprovedIsReviewed, Whole, Shown, Entry, Leaf, fileVars
<1>2. CASE UNCHANGED vars
  <2>1. UNCHANGED <<layout, fileVars, reviewed>> /\ pc' = pc
    BY <1>2 DEF vars, callVars
  <2> QED  BY <1>1, <2>1 DEF OneLeafInv
<1>3. ASSUME NEW w \in Writers, UNCHANGED <<layout, fileVars, reviewed>>,
             pc'[w] \in {"idle", "check", "look", "probe", "compare", "refuse"},
             pc'[w] \in {"look", "probe"} => dir["candidate"] = Absent,
             pc'[w] = "compare" => dir["candidate"] # Absent
      PROVE  OneLeafInv'
  BY <1>1, <1>3 DEF OneLeafInv
<1>4. ASSUME NEW w \in Writers,
             \/ \E m \in Manifests : Begin(w, m)
             \/ Check(w) \/ Look(w) \/ Compare(w) \/ Fail(w) \/ Crash(w)
      PROVE  OneLeafInv'
  <2>1. UNCHANGED <<layout, fileVars, reviewed>>
    BY <1>4 DEF Inspect, Begin, Check, Look, Compare, Fail, Crash, Goto
  <2>2. CASE \/ \E m \in Manifests : Begin(w, m)
             \/ Crash(w)
    BY <1>3, <1>a, <2>1, <2>2 DEF Begin, Crash
  <2>3. CASE Check(w) \/ Look(w) \/ Compare(w)
    BY <1>3, <1>a, <2>1, <2>3, OneLeafShows
       DEF Check, Look, Compare, Inspect, Goto, OneLeafInv
  <2>4. CASE Fail(w)
    <3>1. pc'[w] = Finally(pc[w]) /\ pc[w] \notin {"idle", "refuse"}
      BY <1>a, <2>4 DEF Fail, Inspect, Goto
    <3>2. pc[w] \in {"check", "look", "probe", "compare"}
      BY <3>1 DEF OneLeafInv
    <3>3. pc'[w] \in {"idle", "refuse"}
      BY <3>1, <3>2 DEF Finally
    <3> QED  BY <1>3, <2>1, <3>3
  <2> QED  BY <1>4, <2>2, <2>3, <2>4
<1>5. ASSUME NEW w \in Writers, Probe(w)
      PROVE  OneLeafInv'
  <2>1. pc[w] = "probe" /\ dir["candidate"] = Absent /\ ~Exists("candidate")
    BY <1>5, OneLeafShows DEF Probe, OneLeafInv
  <2>2. PICK f \in Unused : SetCandidate(f) /\ Place(f, "empty")
    BY <1>5, <2>1 DEF Probe
  <2>3. /\ layout' = layout /\ pc' = [pc EXCEPT ![w] = "compare"]
        /\ dir' = [dir EXCEPT !["candidate"] = f] /\ data' = [data EXCEPT ![f] = "empty"]
    BY <1>5, <1>b, <2>1, <2>2 DEF Probe, Goto, SetCandidate, Place
  <2>4. f \in Files /\ f # Absent /\ f # Link
    BY <2>2 DEF Unused, StoreAssumption
  <2>5. dir'["candidate"] = f /\ dir'["approved"] = Absent /\ data'[f] = "empty"
    BY <1>a, <1>b, <2>3, <2>4 DEF OneLeafInv
  <2>6. Shown("approved")' = f
    BY <2>3, <2>4, <2>5 DEF Shown, Entry, Leaf, OneLeafInv
  <2>7. ApprovedIsReviewed'
    BY <2>5, <2>6 DEF ApprovedIsReviewed, Whole, StoreAssumption
  <2> QED  BY <1>a, <2>3, <2>4, <2>5, <2>7 DEF OneLeafInv
<1>6. ASSUME NEW w \in Writers, Unprobe(w)
      PROVE  OneLeafInv'
  <2>1. pc[w] = "refuse"
    BY <1>6 DEF Unprobe, OneLeafInv
  <2>2. /\ layout' = layout /\ pc' = [pc EXCEPT ![w] = "idle"]
        /\ dir' = [dir EXCEPT !["candidate"] = Absent]
    BY <1>6, <1>b, <2>1 DEF Unprobe, Goto, SetCandidate
  <2>3. dir'["candidate"] = Absent /\ dir'["approved"] = Absent
    BY <1>a, <1>b, <2>2 DEF OneLeafInv
  <2>4. Absent # Link
    BY DEF StoreAssumption
  <2>5. Shown("approved")' = Absent
    BY <2>2, <2>3, <2>4 DEF Shown, Entry, Leaf, OneLeafInv
  <2>6. ApprovedIsReviewed'
    BY <2>5 DEF ApprovedIsReviewed, Whole, StoreAssumption
  <2> QED  BY <1>a, <2>2, <2>3, <2>4, <2>6 DEF OneLeafInv
<1>7. ASSUME NEW w \in Writers,
             Recheck(w) \/ Stage(w) \/ Flush(w) \/ Confirm(w) \/ Move(w) \/ Cleanup(w)
      PROVE  FALSE
  BY <1>7 DEF Recheck, Confirm, Inspect, Stage, Flush, Move, Cleanup, OneLeafInv
<1>8. ~Approve
  BY DEF Approve, OneLeafInv
<1> QED  BY <1>2, <1>4, <1>5, <1>6, <1>7, <1>8 DEF Next

(* Where the approved manifest is safe: behind a leaf of its own, or with  *)
(* one call at a time.                                                     *)
Guarded == Layouts = {"separate"} \/ \A u, v \in Writers : u = v
ProtectedInv == ApprovedInv \/ (OneLeafInv /\ \A u, v \in Writers : u = v)

LEMMA ProtectedInit ==
  ASSUME Guarded, Init
  PROVE  TypeInv /\ ProtectedInv
<1>1. LinkStopsCalls
  BY DEF Init, LinkStopsCalls
<1>2. ApprovedIsReviewed
  <2>1. reviewed = IF Shown("approved") \in Files THEN {data[Shown("approved")]} ELSE {}
    BY DEF Init
  <2> QED  BY <2>1 DEF ApprovedIsReviewed, Whole
<1>3. CASE layout = "separate"
  BY <1>1, <1>2, <1>3, TypeInit, StoreAssumption DEF ProtectedInv, ApprovedInv
<1>4. CASE layout # "separate"
  <2>1. \A u, v \in Writers : u = v
    BY <1>4 DEF Init, Guarded
  <2>2. OneLeafInv
    BY <1>2, <1>4 DEF Init, OneLeafInv
  <2> QED  BY <2>1, <2>2, TypeInit, StoreAssumption DEF ProtectedInv
<1> QED  BY <1>3, <1>4

(* However many calls run at the same time, fail and crash, and whenever   *)
(* the reviewer moves a candidate between their steps: writeCandidate      *)
(* never makes a manifest visible at an approved path that is a leaf of    *)
(* its own; and a call that runs alone never does, whatever the paths.     *)
(* (With folded names the run store_folded_names shows that two calls do.) *)
THEOREM ApprovedProtected ==
  ASSUME Guarded
  PROVE  Spec => []ApprovedIsReviewed
<1>1. Init => TypeInv /\ ProtectedInv
  BY ProtectedInit
<1>2. (TypeInv /\ ProtectedInv) /\ [Next]_vars => (TypeInv /\ ProtectedInv)'
  BY TypeStep, ApprovedStep, OneLeafStep, StoreAssumption DEF ProtectedInv
<1>3. ProtectedInv => ApprovedIsReviewed
  BY DEF ProtectedInv, ApprovedInv, OneLeafInv
<1> QED BY <1>1, <1>2, <1>3, PTL DEF Spec

-----------------------------------------------------------------------------
(* While a lone call holds its probe, the candidate leaf has no complete   *)
(* manifest; a temporary file that is about to be moved is complete.       *)
ProbeOverNothing ==
  \A w \in Writers : pc[w] \in {"compare", "unprobe", "refuse"} =>
    ~Whole(Entry("candidate"))

StagedIsWhole ==
  \A w \in Writers : pc[w] \in {"confirm", "move"} => Whole(temp[w])

(* With one call at a time, what a probe stands for and what is staged.    *)
LoneInv == ProbeOverNothing /\ StagedIsWhole

(* Every step of a lone call keeps it: nobody replaces the probe, nobody   *)
(* moves the candidate while the probe stands in for it.                   *)
LEMMA LoneStep ==
  ASSUME StoreAssumption, \A u, v \in Writers : u = v, TypeInv, LoneInv, [Next]_vars
  PROVE  LoneInv'
<1>1. CASE UNCHANGED vars
  BY <1>1 DEF vars, fileVars, callVars, LoneInv, ProbeOverNothing, StagedIsWhole,
     Whole, Entry, Leaf
<1>2. CASE Approve
  <2>1. \A w \in Writers : pc[w] \notin {"compare", "unprobe", "refuse"}
    BY <1>2 DEF Approve, LoneInv, ProbeOverNothing, Entry, Leaf
  <2> QED BY <1>2, <2>1 DEF Approve, callVars, LoneInv, ProbeOverNothing,
          StagedIsWhole, Whole
<1>3. ASSUME NEW w \in Writers, NEW m \in Manifests, Begin(w, m)
      PROVE  LoneInv'
  BY <1>3 DEF Begin, TypeInv, TypeOK, LoneInv, ProbeOverNothing, StagedIsWhole,
     Whole, Entry, Leaf, fileVars
<1>4. ASSUME NEW w \in Writers,
             \/ Check(w) \/ Look(w) \/ Probe(w) \/ Recheck(w) \/ Compare(w)
             \/ Unprobe(w) \/ Stage(w) \/ Flush(w) \/ Confirm(w) \/ Move(w)
             \/ Cleanup(w) \/ Fail(w) \/ Crash(w)
      PROVE  LoneInv'
  <2>0. LoneInv' <=> /\ pc'[w] \in {"compare", "unprobe", "refuse"} =>
                          ~Whole(Entry("candidate"))'
                     /\ pc'[w] \in {"confirm", "move"} => Whole(temp[w])'
    BY DEF LoneInv, ProbeOverNothing, StagedIsWhole
  <2>a. /\ pc \in [Writers -> Labels]
        /\ temp \in [Writers -> Files \cup {NoFile}]
        /\ dir \in [Names -> Files \cup {Absent, Link}]
        /\ data \in [Files -> Manifests \cup {"empty", "partial"}]
        /\ manifest \in [Writers -> Manifests]
    BY DEF TypeInv, TypeOK
  <2>1. ASSUME UNCHANGED <<layout, fileVars, temp>>,
               \/ pc'[w] \notin {"compare", "unprobe", "refuse", "confirm", "move"}
               \/ /\ pc[w] \in {"compare", "unprobe", "refuse"}
                  /\ pc'[w] \notin {"confirm", "move"}
               \/ /\ pc[w] \in {"confirm", "move"}
                  /\ pc'[w] \notin {"compare", "unprobe", "refuse"}
        PROVE  LoneInv'
    BY <2>0, <2>a, <2>1 DEF LoneInv, ProbeOverNothing, StagedIsWhole, Whole, Entry,
       Leaf, fileVars
  <2>2. CASE \/ Check(w) \/ Look(w) \/ Recheck(w)
             \/ /\ Probe(w)
                /\ Exists("candidate")
    <3>1. pc'[w] \in {"idle", "look", "stage", "probe", "recheck"}
      BY <2>a, <2>2 DEF Inspect, Check, Look, Recheck, Probe, Goto
    <3> QED BY <2>0, <3>1
  <2>3. CASE Compare(w) \/ Confirm(w)
    BY <2>a, <2>1, <2>3 DEF Inspect, Compare, Confirm, Goto
  <2>4. CASE Fail(w)
    <3>1. pc'[w] = Finally(pc[w]) /\ pc[w] \in Labels /\ UNCHANGED <<layout, fileVars, temp>>
      BY <2>a, <2>4 DEF Inspect, Fail, Goto
    <3>2. pc[w] \notin {"idle", "unprobe", "refuse", "cleanup"}
      BY <2>4 DEF Inspect, Fail
    <3>3. CASE pc[w] = "compare"
      <4>1. Finally("compare") = "refuse"
        BY DEF Finally
      <4> QED BY <2>1, <3>1, <3>3, <4>1
    <3>4. CASE pc[w] # "compare"
      <4>1. Finally(pc[w]) \in {"cleanup", "idle"}
        BY <3>1, <3>2, <3>4 DEF Finally, Labels
      <4> QED BY <2>0, <3>1, <4>1
    <3> QED BY <3>3, <3>4
  <2>5. CASE Probe(w) /\ ~Exists("candidate")
    <3>1. PICK f \in Unused : SetCandidate(f) /\ Place(f, "empty")
      BY <2>5 DEF Probe
    <3>2. Entry("candidate")' = f /\ data'[f] = "empty"
      BY <2>5, <2>a, <3>1 DEF SetCandidate, Place, Probe, Goto, Entry, Leaf, Names,
         Unused
    <3>3. ~Whole(Entry("candidate"))'
      BY <3>2 DEF Whole, StoreAssumption
    <3> QED BY <2>0, <2>5, <2>a, <3>3 DEF Probe, Goto
  <2>6. CASE \/ Unprobe(w) \/ Stage(w) \/ Move(w) \/ Cleanup(w) \/ Crash(w)
    <3>1. pc'[w] \in {"idle", "stage", "flush"}
      BY <2>6, <2>a DEF Unprobe, Stage, Move, Cleanup, Crash, Goto
    <3> QED BY <2>0, <3>1
  <2>7. CASE Flush(w)
    <3>1. temp[w] \in Files /\ temp' = temp /\ data'[temp[w]] \in Manifests
      BY <2>7, <2>a DEF Flush, Place, TypeInv, HasTemp
    <3>2. pc'[w] = "confirm"
      BY <2>7, <2>a DEF Flush, Goto
    <3> QED BY <2>0, <3>1, <3>2 DEF Whole
  <2>8. CASE Probe(w)
    BY <2>2, <2>5, <2>8
  <2> QED BY <1>4, <2>2, <2>3, <2>4, <2>6, <2>7, <2>8
<1> QED BY <1>1, <1>2, <1>3, <1>4 DEF Next

(* A step of a lone call leaves a complete candidate complete, or has been *)
(* the reviewer's move.                                                    *)
LEMMA LoneKeeps ==
  ASSUME TypeInv, LoneInv, [Next]_vars
  PROVE  [Whole(Entry("candidate")) =>
            \/ Whole(Entry("candidate"))'
            \/ dir'["approved"] = dir["candidate"]]_vars
<1> SUFFICES ASSUME TypeInv, LoneInv, Next, Whole(Entry("candidate")),
                    ~(dir'["approved"] = dir["candidate"])
             PROVE  Whole(Entry("candidate"))'
  OBVIOUS
<1>a. /\ pc \in [Writers -> Labels]
      /\ temp \in [Writers -> Files \cup {NoFile}]
      /\ dir \in [Names -> Files \cup {Absent, Link}]
      /\ data \in [Files -> Manifests \cup {"empty", "partial"}]
  BY DEF TypeInv, TypeOK
<1>1. ASSUME UNCHANGED <<layout, fileVars>>
      PROVE  Whole(Entry("candidate"))'
  BY <1>1 DEF Whole, Entry, Leaf, fileVars
<1>2. ASSUME NEW f \in Files, NEW bytes, Place(f, bytes), dir[Leaf("candidate")] # f,
             dir' = dir, layout' = layout
      PROVE  Whole(Entry("candidate"))'
  BY <1>2, <1>a DEF Whole, Entry, Leaf, Place
<1>3. Exists("candidate")
  BY StoreAssumption DEF Whole, Exists, StoreAssumption
<1>4. ~Approve
  BY <1>a DEF Approve, Names
<1>5. ASSUME NEW w \in Writers,
             \/ \E m \in Manifests : Begin(w, m)
             \/ Check(w) \/ Look(w) \/ Recheck(w) \/ Compare(w) \/ Confirm(w)
             \/ Fail(w) \/ Cleanup(w) \/ Crash(w) \/ Probe(w)
      PROVE  Whole(Entry("candidate"))'
  <2>1. UNCHANGED <<layout, fileVars>>
    BY <1>3, <1>5 DEF Inspect, Begin, Check, Look, Recheck, Compare, Confirm, Fail,
       Cleanup, Crash, Probe, Goto
  <2> QED BY <1>1, <2>1
<1>6. ASSUME NEW w \in Writers, Unprobe(w)
      PROVE  FALSE
  BY <1>6 DEF Unprobe, LoneInv, ProbeOverNothing
<1>7. ASSUME NEW w \in Writers, Stage(w)
      PROVE  Whole(Entry("candidate"))'
  BY <1>2, <1>7 DEF Stage, Unused, Leaf, Names, Goto
<1>8. ASSUME NEW w \in Writers, Flush(w)
      PROVE  Whole(Entry("candidate"))'
  <2>1. temp[w] \in Files /\ dir[Leaf("candidate")] # temp[w]
    BY <1>8, <1>a, StoreAssumption DEF Flush, TypeInv, TypeOK, HasTemp, Leaf,
       Names, StoreAssumption
  <2> QED BY <1>2, <1>8, <2>1 DEF Flush, Goto
<1>9. ASSUME NEW w \in Writers, Move(w)
      PROVE  Whole(Entry("candidate"))'
  <2>1. Entry("candidate")' = temp[w] /\ data' = data /\ Whole(temp[w])
    BY <1>9, <1>a DEF Move, SetCandidate, Entry, Leaf, Names, Goto, LoneInv,
       StagedIsWhole
  <2> QED BY <2>1 DEF Whole
<1> QED BY <1>4, <1>5, <1>6, <1>7, <1>8, <1>9 DEF Next

(* As long as one call runs at a time no complete candidate is lost,       *)
(* whatever the layout and wherever a call fails or dies: the probe is     *)
(* only made and only deleted where no complete candidate is.              *)
THEOREM LoneWriterKeepsCandidate ==
  ASSUME \A u, v \in Writers : u = v
  PROVE  Spec => CandidateNeverLost
<1>1. Init => TypeInv /\ LoneInv
  BY TypeInit, StoreAssumption DEF Init, LoneInv, ProbeOverNothing, StagedIsWhole
<1>2. (TypeInv /\ LoneInv) /\ [Next]_vars => (TypeInv /\ LoneInv)'
  BY TypeStep, LoneStep, StoreAssumption
<1>3. (TypeInv /\ LoneInv) /\ [Next]_vars =>
        [Whole(Entry("candidate")) =>
           \/ Whole(Entry("candidate"))'
           \/ dir'["approved"] = dir["candidate"]]_vars
  BY LoneKeeps
<1> QED BY <1>1, <1>2, <1>3, PTL DEF Spec, CandidateNeverLost

-----------------------------------------------------------------------------
(* An incomplete file at the candidate leaf is the probe of a call that is *)
(* about to delete it, unless a process has died.                          *)
ProbeHasOwner ==
  ~crashed => \/ Entry("candidate") \in {Absent, Link}
              \/ Whole(Entry("candidate"))
              \/ \E w \in Writers : pc[w] \in {"compare", "unprobe", "refuse"}

ProbeInv == StagedIsWhole /\ ProbeHasOwner

(* A step of w that leaves the entry of the candidate as complete as it    *)
(* was, and does not end w's probe.                                        *)
LEMMA ProbeKept ==
  ASSUME TypeInv, ProbeHasOwner, NEW w \in Writers,
         \A v \in Writers \ {w} : pc'[v] = pc[v],
         \/ pc[w] \notin {"compare", "unprobe", "refuse"}
         \/ pc'[w] \in {"compare", "unprobe", "refuse"},
         crashed' = crashed, layout' = layout, dir' = dir,
         \A n \in Names : data'[dir[n]] = data[dir[n]]
  PROVE  ProbeHasOwner'
<1>1. Entry("candidate")' = Entry("candidate")
  BY DEF Entry, Leaf
<1>2. data'[Entry("candidate")] = data[Entry("candidate")]
  BY DEF Entry, Leaf, Names
<1> QED BY <1>1, <1>2 DEF ProbeHasOwner, Whole

(* Every step keeps it, however many calls and probes there are: a call    *)
(* makes its probe where it goes on to delete it, and moves only what is   *)
(* complete.                                                               *)
LEMMA ProbeStep ==
  ASSUME StoreAssumption, TypeInv, ProbeInv, [Next]_vars
  PROVE  ProbeInv'
<1>a. /\ pc \in [Writers -> Labels]
      /\ temp \in [Writers -> Files \cup {NoFile}]
      /\ dir \in [Names -> Files \cup {Absent, Link}]
      /\ data \in [Files -> Manifests \cup {"empty", "partial"}]
      /\ manifest \in [Writers -> Manifests]
      /\ \A w \in Writers : temp[w] # NoFile =>
           /\ \A n \in Names : dir[n] # temp[w]
           /\ \A v \in Writers \ {w} : temp[v] # temp[w]
      /\ \A w \in Writers : pc[w] \in {"confirm", "move"} => Whole(temp[w])
  BY DEF TypeInv, TypeOK, ProbeInv, StagedIsWhole
<1>b. Leaf("candidate") \in Names /\ NoFile \notin Files
  BY DEF Leaf, Names, StoreAssumption
<1>1. CASE UNCHANGED vars
  BY <1>1 DEF vars, fileVars, callVars, ProbeInv, StagedIsWhole, ProbeHasOwner,
     Whole, Entry, Leaf
<1>2. CASE Approve
  <2>1. StagedIsWhole'
    BY <1>a, <1>2 DEF Approve, callVars, StagedIsWhole, Whole
  <2>2. Entry("candidate")' = Absent
    BY <1>a, <1>2 DEF Approve, Entry, Leaf, Names
  <2> QED BY <2>1, <2>2 DEF ProbeInv, ProbeHasOwner
<1>3. ASSUME NEW w \in Writers, NEW m \in Manifests, Begin(w, m)
      PROVE  ProbeInv'
  <2>1. StagedIsWhole'
    BY <1>a, <1>3 DEF Begin, fileVars, StagedIsWhole, Whole
  <2>2. ProbeHasOwner'
    BY <1>a, <1>3, ProbeKept DEF Begin, fileVars, ProbeInv
  <2> QED BY <2>1, <2>2 DEF ProbeInv
<1>4. ASSUME NEW w \in Writers,
             UNCHANGED <<fileVars, temp>>, NEW label, Goto(w, label),
             label \notin {"confirm", "move"} \/ pc[w] \in {"confirm", "move"},
             \/ pc[w] \notin {"compare", "unprobe", "refuse"}
             \/ label \in {"compare", "unprobe", "refuse"}
      PROVE  ProbeInv'
  <2>1. pc'[w] = label /\ \A v \in Writers \ {w} : pc'[v] = pc[v]
    BY <1>a, <1>4 DEF Goto
  <2>2. StagedIsWhole'
    BY <1>a, <1>4, <2>1 DEF fileVars, StagedIsWhole, Whole
  <2>3. ProbeHasOwner'
    BY <1>4, <2>1, ProbeKept DEF Goto, fileVars, ProbeInv
  <2> QED BY <2>2, <2>3 DEF ProbeInv
<1>5. ASSUME NEW w \in Writers,
             Check(w) \/ Look(w) \/ Recheck(w) \/ Compare(w) \/ Confirm(w)
      PROVE  ProbeInv'
  <2>1. UNCHANGED <<fileVars, temp>>
    BY <1>5 DEF Inspect, Check, Look, Recheck, Compare, Confirm
  <2>2. CASE Check(w) \/ Look(w) \/ Recheck(w)
    <3>1. /\ \E label \in {"idle", "look", "stage", "probe"} : Goto(w, label)
          /\ pc[w] \notin {"compare", "unprobe", "refuse"}
      BY <2>2 DEF Inspect, Check, Look, Recheck
    <3> QED BY <1>4, <2>1, <3>1
  <2>3. CASE Compare(w)
    <3>1. \E label \in {"refuse", "unprobe"} : Goto(w, label)
      BY <2>3 DEF Inspect, Compare
    <3> QED BY <1>4, <2>1, <3>1
  <2>4. CASE Confirm(w)
    <3>1. pc[w] = "confirm" /\ \E label \in {"cleanup", "move"} : Goto(w, label)
      BY <2>4 DEF Inspect, Confirm
    <3> QED BY <1>4, <2>1, <3>1
  <2> QED BY <1>5, <2>2, <2>3, <2>4
<1>6. ASSUME NEW w \in Writers, Fail(w)
      PROVE  ProbeInv'
  <2>1. UNCHANGED <<fileVars, temp>> /\ Goto(w, Finally(pc[w]))
    BY <1>6 DEF Inspect, Fail
  <2>2. pc[w] \in Labels \ {"idle", "unprobe", "refuse", "cleanup"}
    BY <1>a, <1>6 DEF Fail
  <2>3. /\ Finally(pc[w]) \notin {"confirm", "move"}
        /\ pc[w] = "compare" => Finally(pc[w]) = "refuse"
    BY <2>2 DEF Finally, Labels
  <2> QED BY <1>4, <2>1, <2>2, <2>3
<1>7. ASSUME NEW w \in Writers, Probe(w)
      PROVE  ProbeInv'
  <2>1. CASE Exists("candidate")
    BY <1>4, <1>7, <2>1 DEF Probe
  <2>2. CASE ~Exists("candidate")
    <3>1. PICK f \in Unused : SetCandidate(f) /\ Place(f, "empty")
      BY <1>7, <2>2 DEF Probe
    <3>2. temp' = temp /\ pc' = [pc EXCEPT ![w] = "compare"]
      BY <1>7, <2>2 DEF Probe, Goto
    <3>3. \A v \in Writers : temp[v] # f
      BY <3>1 DEF Unused
    <3>4. StagedIsWhole'
      BY <1>a, <3>1, <3>2, <3>3 DEF Place, StagedIsWhole, Whole
    <3> QED BY <1>a, <3>2, <3>4 DEF ProbeInv, ProbeHasOwner
  <2> QED BY <2>1, <2>2
<1>8. ASSUME NEW w \in Writers, Unprobe(w)
      PROVE  ProbeInv'
  <2>1. /\ data' = data /\ temp' = temp
        /\ \E label \in {"stage", "idle"} : pc' = [pc EXCEPT ![w] = label]
    BY <1>8 DEF Unprobe, Goto
  <2>2. StagedIsWhole'
    BY <1>a, <2>1 DEF StagedIsWhole, Whole
  <2>3. Entry("candidate")' = Absent
    BY <1>a, <1>b, <1>8 DEF Unprobe, Goto, SetCandidate, Entry, Leaf
  <2> QED BY <2>2, <2>3 DEF ProbeInv, ProbeHasOwner
<1>9. ASSUME NEW w \in Writers, Stage(w)
      PROVE  ProbeInv'
  <2>1. PICK f \in Unused : temp' = [temp EXCEPT ![w] = f] /\ Place(f, "partial")
    BY <1>9 DEF Stage
  <2>2. /\ dir' = dir /\ crashed' = crashed /\ layout' = layout
        /\ pc[w] = "stage" /\ pc' = [pc EXCEPT ![w] = "flush"]
    BY <1>9 DEF Stage, Goto
  <2>3. /\ \A n \in Names : data'[dir[n]] = data[dir[n]]
        /\ \A v \in Writers : temp[v] # f
    BY <1>a, <2>1 DEF Place, Unused
  <2>4. StagedIsWhole'
    BY <1>a, <2>1, <2>2, <2>3 DEF Place, StagedIsWhole, Whole
  <2>5. ProbeHasOwner'
    BY <1>a, <2>2, <2>3, ProbeKept DEF ProbeInv
  <2> QED BY <2>4, <2>5 DEF ProbeInv
<1>10. ASSUME NEW w \in Writers, Flush(w)
       PROVE  ProbeInv'
  <2>1. temp[w] \in Files /\ temp[w] # NoFile
    BY <1>b, <1>10 DEF Flush, TypeInv, HasTemp
  <2>2. /\ dir' = dir /\ temp' = temp /\ crashed' = crashed /\ layout' = layout
        /\ pc[w] = "flush" /\ pc' = [pc EXCEPT ![w] = "confirm"]
        /\ data' = [data EXCEPT ![temp[w]] = manifest[w]]
    BY <1>10 DEF Flush, Goto, Place
  <2>3. \A n \in Names : data'[dir[n]] = data[dir[n]]
    BY <1>a, <2>1, <2>2
  <2>4. StagedIsWhole'
    BY <1>a, <2>1, <2>2 DEF StagedIsWhole, Whole
  <2>5. ProbeHasOwner'
    BY <1>a, <2>2, <2>3, ProbeKept DEF ProbeInv
  <2> QED BY <2>4, <2>5 DEF ProbeInv
<1>11. ASSUME NEW w \in Writers, Move(w)
       PROVE  ProbeInv'
  <2>1. /\ data' = data /\ layout' = layout
        /\ pc[w] = "move" /\ pc' = [pc EXCEPT ![w] = "idle"]
        /\ temp' = [temp EXCEPT ![w] = NoFile]
    BY <1>11 DEF Move, Goto
  <2>2. StagedIsWhole'
    BY <1>a, <2>1 DEF StagedIsWhole, Whole
  <2>3. Entry("candidate")' = temp[w]
    BY <1>a, <1>b, <1>11, <2>1 DEF Move, SetCandidate, Entry, Leaf
  <2>4. Whole(Entry("candidate"))'
    BY <1>a, <2>1, <2>3 DEF Whole
  <2> QED BY <2>2, <2>4 DEF ProbeInv, ProbeHasOwner
<1>12. ASSUME NEW w \in Writers, Cleanup(w) \/ Crash(w)
       PROVE  ProbeInv'
  <2>1. /\ data' = data /\ dir' = dir /\ layout' = layout
        /\ pc' = [pc EXCEPT ![w] = "idle"]
        /\ temp' = [temp EXCEPT ![w] = NoFile]
        /\ crashed' \/ (crashed' = crashed /\ pc[w] = "cleanup")
    BY <1>12 DEF Cleanup, Crash, Goto, fileVars
  <2>2. StagedIsWhole'
    BY <1>a, <2>1 DEF StagedIsWhole, Whole
  <2>3. CASE crashed'
    BY <2>2, <2>3 DEF ProbeInv, ProbeHasOwner
  <2>4. CASE crashed' = crashed /\ pc[w] = "cleanup"
    BY <1>a, <2>1, <2>2, <2>4, ProbeKept DEF ProbeInv
  <2> QED BY <2>1, <2>3, <2>4
<1> QED
  BY <1>1, <1>2, <1>3, <1>5, <1>6, <1>7, <1>8, <1>9, <1>10, <1>11, <1>12 DEF Next

(* However many calls overlap, fail and refuse, a directory in which no    *)
(* call runs holds no probe: only a process that died leaves one behind.   *)
THEOREM NoProbeLeft == Spec => []NoProbeRemains
<1>1. Init => TypeInv /\ ProbeInv
  <2> SUFFICES ASSUME Init PROVE TypeInv /\ ProbeInv
    OBVIOUS
  <2>1. Entry("candidate") \in Files \cup {Absent, Link}
    BY DEF Init, Entry, Leaf, Names
  <2>2. Entry("candidate") \in Files => Whole(Entry("candidate"))
    BY DEF Init, Whole
  <2>3. StagedIsWhole
    BY DEF Init, StagedIsWhole
  <2> QED BY <2>1, <2>2, <2>3, TypeInit, StoreAssumption DEF ProbeInv, ProbeHasOwner
<1>2. (TypeInv /\ ProbeInv) /\ [Next]_vars => (TypeInv /\ ProbeInv)'
  BY TypeStep, ProbeStep, StoreAssumption
<1>3. ProbeInv => NoProbeRemains
  BY DEF ProbeInv, ProbeHasOwner, NoProbeRemains
<1> QED BY <1>1, <1>2, <1>3, PTL DEF Spec
=============================================================================
