-------------------------- MODULE InstallationProofs --------------------------
(* Proofs about PublicInstall, for any release, any asset directories, any *)
(* archive and any number of installers and preparers on one coordinate.   *)
EXTENDS PublicInstall, SequenceTheorems, TLAPS

InstallerPlaces == {"idle", "validate", "inspect", "copy", "claim", "move"} \cup Ended

(* Contents are arbitrary: only what is a function or a record, and where  *)
(* it is defined, has to be known.                                         *)
InstallTypes ==
  /\ ipc \in [Installers -> InstallerPlaces]
  /\ DOMAIN index = Installers /\ DOMAIN staging = Installers
  /\ DOMAIN coordinate = {"made", "by", "files"}

(* What a call has staged is what its index declares, and together with    *)
(* what it has moved it is the release.                                    *)
StagingOK(i) ==
  /\ DOMAIN staging[i] = {} => staging[i] = NoFiles
  /\ ipc[i] \in {"idle", "validate", "inspect", "failed"} => staging[i] = NoFiles
  /\ ipc[i] \in {"copy", "claim", "move"} =>
       \A n \in DOMAIN staging[i] : n \in Published /\ staging[i][n] = index[i][n]
  /\ ipc[i] = "claim" => DOMAIN staging[i] = Published
  /\ ipc[i] = "move" =>
       /\ coordinate.by = i
       /\ DOMAIN coordinate.files \cup DOMAIN staging[i] = Published
       /\ DOMAIN coordinate.files \cap DOMAIN staging[i] = {}
  /\ ipc[i] = "installed" => coordinate.by = i /\ DOMAIN coordinate.files = Published

(* The coordinate belongs to the call that made it, which is past mkdir.   *)
CoordinateOK ==
  /\ coordinate.made <=> coordinate.by # Nobody
  /\ coordinate.by = Nobody => coordinate.files = NoFiles
  /\ coordinate.by # Nobody =>
       coordinate.by \in Installers /\ ipc[coordinate.by] \in {"move", "installed", "dead"}
  /\ \A n \in DOMAIN coordinate.files :
       n \in Published /\ coordinate.files[n] = index[coordinate.by][n]

InstallInv == InstallTypes /\ CoordinateOK /\ \A i \in Installers : StagingOK(i)

-----------------------------------------------------------------------------
PreparerPlaces == {"idle", "stage", "link", "unlink", "abandon"} \cup PrepareEnded

(* A call has written its first sidecar: no other call can write it too.   *)
WroteFirst(k) == written[k] > 0 \/ kpc[k] = "unlink"

PreparerOK(k) ==
  /\ written[k] <= Len(Order)
  /\ kpc[k] \in {"link", "unlink", "abandon"} => written[k] < Len(Order)
  /\ WroteFirst(k) => Order[1] \in DOMAIN sidecars
  /\ kpc[k] = "prepared" =>
       /\ written[k] = Len(Order)
       /\ DOMAIN sidecars = Sidecars
       /\ DOMAIN Present = DOMAIN Artifacts /\ HashesHold(Present)

PrepareInv ==
  /\ kpc \in [Preparers -> PreparerPlaces]
  /\ written \in [Preparers -> Nat]
  /\ DOMAIN sidecars \subseteq Sidecars
  /\ SidecarsExact
  /\ \A k \in Preparers : PreparerOK(k)
  /\ \A k, l \in Preparers : WroteFirst(k) /\ WroteFirst(l) => k = l

-----------------------------------------------------------------------------
(* All the files of an installed and prepared coordinate.                  *)
Expected == {<<n>> : n \in DOMAIN Artifacts} \cup Sidecars

OutcomeInv ==
  /\ DOMAIN target = {"by", "files", "bound"}
  /\ DOMAIN target.files \subseteq Expected
  /\ outcome # "none" => ppc = "end"
  /\ mode = "public" /\ ppc \in {"bind", "publish"} => kpc[Helper] = "prepared"
  /\ OutcomeTellsTarget

-----------------------------------------------------------------------------
(* The trie holds every prefix of a registered path, spelled as there.     *)
TrieInv ==
  /\ DOMAIN entries \subseteq Paths
  /\ \A r \in Created : Folded(r) \in DOMAIN trie /\ trie[Folded(r)] = r[Len(r)]
  /\ NoFileAboveEntry

InstallationInv == InstallInv /\ PrepareInv /\ OutcomeInv /\ TrieInv

-----------------------------------------------------------------------------
(* The installer.                                                          *)

(* A call that is not inside its installation can go anywhere outside it,  *)
(* and die anywhere: the coordinate and the others do not notice.          *)
LEMMA CallMoves ==
  ASSUME InstallInv, NEW i \in Installers, NEW place \in InstallerPlaces,
         Step(i, place), UNCHANGED <<coordinate, index, staging>>,
         \/ place = ipc[i]
         \/ place = "dead" /\ ipc[i] \notin Ended
         \/ /\ ipc[i] \in {"idle", "validate", "inspect"}
            /\ place \in {"validate", "inspect", "copy", "failed"}
  PROVE  InstallInv'
<1>1. ipc'[i] = place /\ \A j \in Installers \ {i} : ipc'[j] = ipc[j]
  BY DEF InstallInv, InstallTypes, Step
<1>2. InstallTypes'
  BY DEF InstallInv, InstallTypes, Step
<1>3. CoordinateOK'
  BY <1>1 DEF InstallInv, CoordinateOK, Ended
<1>4. ASSUME NEW j \in Installers
      PROVE  StagingOK(j)'
  <2>1. CASE j # i
    BY <1>1, <2>1 DEF InstallInv, StagingOK
  <2>2. CASE j = i
    <3>1. StagingOK(i)
      BY DEF InstallInv
    <3>2. CASE place \in {"dead", ipc[i], "validate", "inspect", "failed"}
      BY <1>1, <2>2, <3>1, <3>2 DEF StagingOK
    <3>3. CASE place = "copy" /\ staging[i] = NoFiles
      BY <1>1, <2>2, <3>1, <3>3 DEF StagingOK, NoFiles
    <3> QED BY <3>1, <3>2, <3>3 DEF StagingOK
  <2> QED BY <2>1, <2>2
<1> QED BY <1>2, <1>3, <1>4 DEF InstallInv

(* Only its own call moves files into the coordinate.                      *)
LEMMA OneOwner ==
  ASSUME InstallInv, NEW i \in Installers, ipc[i] = "move"
  PROVE  /\ coordinate.by = i /\ i # Nobody
         /\ \A j \in Installers \ {i} : ipc[j] \notin {"move", "installed"}
<1>1. coordinate.by = i /\ \A j \in Installers : StagingOK(j)
  BY DEF InstallInv, StagingOK
<1> QED BY <1>1, InstallerAssumption DEF StagingOK, InstallerAssumption

(* The verification reads the checksums that everything is compared with.  *)
LEMMA VerifyKeeps ==
  ASSUME InstallInv, NEW i \in Installers, Verify(i)
  PROVE  InstallInv'
<1>1. CASE ChecksumsHold(assets)
  <2>1. /\ ipc[i] = "idle" /\ ipc' = [ipc EXCEPT ![i] = "validate"]
        /\ index' = [index EXCEPT ![i] = IndexOf(assets)]
        /\ UNCHANGED <<coordinate, staging>>
    BY <1>1 DEF Verify, At, Step
  <2>2. InstallTypes'
    BY <2>1 DEF InstallInv, InstallTypes, InstallerPlaces
  <2>3. /\ ipc'[i] = "validate"
        /\ \A j \in Installers \ {i} : ipc'[j] = ipc[j] /\ index'[j] = index[j]
    BY <2>1 DEF InstallInv, InstallTypes
  <2>4. coordinate.by # i
    BY <2>1, InstallerAssumption DEF InstallInv, CoordinateOK, InstallerAssumption
  <2>5. CoordinateOK'
    <3>1. CASE coordinate.by = Nobody
      BY <2>1, <3>1 DEF InstallInv, CoordinateOK, NoFiles
    <3>2. CASE coordinate.by # Nobody
      BY <2>1, <2>3, <2>4, <3>2 DEF InstallInv, CoordinateOK
    <3> QED BY <3>1, <3>2
  <2>6. \A j \in Installers : StagingOK(j)'
    BY <2>1, <2>3 DEF InstallInv, StagingOK
  <2> QED BY <2>2, <2>5, <2>6 DEF InstallInv
<1>2. CASE ~ChecksumsHold(assets)
  <2>1. ipc[i] = "idle" /\ Step(i, "failed") /\ UNCHANGED <<coordinate, index, staging>>
    BY <1>2 DEF Verify, At
  <2> QED BY <2>1, CallMoves DEF InstallerPlaces, Ended
<1> QED BY <1>1, <1>2

(* A call that gives up before it has claimed the coordinate.              *)
LEMMA FailKeeps ==
  ASSUME InstallInv, NEW i \in Installers, ipc[i] \in {"copy", "claim"}, Fail(i),
         UNCHANGED <<coordinate, index>>
  PROVE  InstallInv'
<1>1. /\ ipc' = [ipc EXCEPT ![i] = "failed"]
      /\ staging' = [staging EXCEPT ![i] = NoFiles]
  BY DEF Fail, Step
<1>2. InstallTypes'
  BY <1>1 DEF InstallInv, InstallTypes, InstallerPlaces, Ended
<1>3. /\ ipc'[i] = "failed" /\ staging'[i] = NoFiles
      /\ \A j \in Installers \ {i} : ipc'[j] = ipc[j] /\ staging'[j] = staging[j]
  BY <1>1 DEF InstallInv, InstallTypes
<1>4. CoordinateOK'
  BY <1>3 DEF InstallInv, CoordinateOK
<1>5. \A j \in Installers : StagingOK(j)'
  BY <1>3 DEF InstallInv, StagingOK
<1> QED BY <1>2, <1>4, <1>5 DEF InstallInv

(* A copy joins the staged files only with the checksum its index gives.   *)
LEMMA CopyKeeps ==
  ASSUME InstallInv, NEW i \in Installers, Copy(i)
  PROVE  InstallInv'
<1>1. CASE DOMAIN staging[i] = Published
  <2>1. /\ ipc[i] = "copy" /\ ipc' = [ipc EXCEPT ![i] = "claim"]
        /\ UNCHANGED <<coordinate, index, staging>>
    BY <1>1 DEF Copy, At, Step
  <2>2. ipc'[i] = "claim" /\ \A j \in Installers \ {i} : ipc'[j] = ipc[j]
    BY <2>1 DEF InstallInv, InstallTypes
  <2>3. InstallTypes'
    BY <2>1 DEF InstallInv, InstallTypes, InstallerPlaces
  <2>4. CoordinateOK'
    BY <2>1, <2>2 DEF InstallInv, CoordinateOK
  <2>5. \A j \in Installers : StagingOK(j)'
    BY <1>1, <2>1, <2>2 DEF InstallInv, StagingOK
  <2> QED BY <2>3, <2>4, <2>5 DEF InstallInv
<1>2. ASSUME NEW n \in Published, assets.files[n] = index[i][n],
             staging' = [staging EXCEPT ![i] = With(staging[i], n, assets.files[n])],
             ipc' = ipc, UNCHANGED <<coordinate, index>>, ipc[i] = "copy"
      PROVE  InstallInv'
  <2>1. /\ DOMAIN staging' = Installers
        /\ staging'[i] = With(staging[i], n, assets.files[n])
        /\ \A j \in Installers \ {i} : staging'[j] = staging[j]
    BY <1>2 DEF InstallInv, InstallTypes
  <2>2. /\ DOMAIN staging'[i] = DOMAIN staging[i] \cup {n}
        /\ \A m \in DOMAIN staging'[i] :
             staging'[i][m] = IF m = n THEN assets.files[n] ELSE staging[i][m]
    BY <2>1 DEF With
  <2>3. StagingOK(i)'
    BY <1>2, <2>2 DEF InstallInv, StagingOK
  <2>4. \A j \in Installers : StagingOK(j)'
    BY <1>2, <2>1, <2>3 DEF InstallInv, StagingOK
  <2> QED BY <1>2, <2>1, <2>4 DEF InstallInv, InstallTypes, CoordinateOK
<1>3. CASE DOMAIN staging[i] # Published
  <2>1. ipc[i] = "copy" /\ UNCHANGED <<coordinate, index>>
    BY DEF Copy, At
  <2>2. \/ Fail(i)
        \/ \E n \in Published :
             /\ assets.files[n] = index[i][n] /\ ipc' = ipc
             /\ staging' = [staging EXCEPT ![i] = With(staging[i], n, assets.files[n])]
    BY <1>3 DEF Copy
  <2> QED BY <1>2, <2>1, <2>2, FailKeeps
<1> QED BY <1>1, <1>3

(* Of all calls the one that makes the directory owns it.                  *)
LEMMA ClaimKeeps ==
  ASSUME InstallInv, NEW i \in Installers, Claim(i)
  PROVE  InstallInv'
<1>1. CASE coordinate.made
  BY <1>1, FailKeeps DEF Claim, At
<1>2. CASE ~coordinate.made
  <2>1. /\ ipc[i] = "claim" /\ ipc' = [ipc EXCEPT ![i] = "move"]
        /\ coordinate' = [Absent EXCEPT !.made = TRUE, !.by = i]
        /\ UNCHANGED <<index, staging>>
    BY <1>2 DEF Claim, At, Step
  <2>2. /\ DOMAIN coordinate' = {"made", "by", "files"}
        /\ coordinate'.made /\ coordinate'.by = i /\ coordinate'.files = NoFiles
    BY <2>1 DEF Absent
  <2>3. ipc'[i] = "move" /\ \A j \in Installers \ {i} : ipc'[j] = ipc[j]
    BY <2>1 DEF InstallInv, InstallTypes
  <2>4. InstallTypes'
    BY <2>1, <2>2 DEF InstallInv, InstallTypes, InstallerPlaces
  <2>5. CoordinateOK'
    BY <2>2, <2>3, InstallerAssumption DEF CoordinateOK, NoFiles, InstallerAssumption
  <2>6. DOMAIN staging[i] = Published
    BY <2>1 DEF InstallInv, StagingOK
  <2>7. \A j \in Installers : ipc[j] \notin {"move", "installed"}
    BY <1>2, InstallerAssumption DEF InstallInv, StagingOK, CoordinateOK, InstallerAssumption
  <2>8. StagingOK(i)'
    BY <2>1, <2>2, <2>3, <2>6 DEF InstallInv, StagingOK, NoFiles
  <2>9. \A j \in Installers \ {i} : StagingOK(j)'
    BY <2>1, <2>3, <2>7 DEF InstallInv, StagingOK
  <2> QED BY <2>4, <2>5, <2>8, <2>9 DEF InstallInv
<1> QED BY <1>1, <1>2

(* A file moves from the staging directory into the coordinate.            *)
LEMMA MoveKeeps ==
  ASSUME InstallInv, NEW i \in Installers, Move(i)
  PROVE  InstallInv'
<1>0. ipc[i] = "move" /\ index' = index
  BY DEF Move, At
<1>1. /\ coordinate.by = i /\ i # Nobody
      /\ \A j \in Installers \ {i} : ipc[j] \notin {"move", "installed"}
  BY <1>0, OneOwner
<1>2. StagingOK(i)
  BY DEF InstallInv
<1>3. CASE staging[i] = NoFiles
  <2>1. /\ ipc' = [ipc EXCEPT ![i] = "installed"]
        /\ UNCHANGED <<coordinate, index, staging>>
    BY <1>0, <1>3 DEF Move, Step
  <2>2. ipc'[i] = "installed" /\ \A j \in Installers \ {i} : ipc'[j] = ipc[j]
    BY <2>1 DEF InstallInv, InstallTypes
  <2>3. InstallTypes'
    BY <2>1 DEF InstallInv, InstallTypes, InstallerPlaces, Ended
  <2>4. CoordinateOK'
    BY <1>1, <2>1, <2>2 DEF InstallInv, CoordinateOK
  <2>5. StagingOK(i)'
    BY <1>0, <1>2, <1>3, <2>1, <2>2 DEF StagingOK, NoFiles
  <2>6. \A j \in Installers \ {i} : StagingOK(j)'
    BY <2>1, <2>2 DEF InstallInv, StagingOK
  <2> QED BY <2>3, <2>4, <2>5, <2>6 DEF InstallInv
<1>4. CASE staging[i] # NoFiles
  <2>1. PICK n \in DOMAIN staging[i] :
          /\ coordinate' = [coordinate EXCEPT !.files = With(@, n, staging[i][n])]
          /\ staging' = [staging EXCEPT ![i] = Without(staging[i], n)]
          /\ ipc' = ipc
    BY <1>4 DEF Move
  <2>2. /\ DOMAIN coordinate' = {"made", "by", "files"}
        /\ coordinate'.made = coordinate.made /\ coordinate'.by = coordinate.by
        /\ coordinate'.files = With(coordinate.files, n, staging[i][n])
    BY <2>1 DEF InstallInv, InstallTypes
  <2>3. /\ DOMAIN coordinate'.files = DOMAIN coordinate.files \cup {n}
        /\ \A m \in DOMAIN coordinate'.files : coordinate'.files[m] =
             IF m = n THEN staging[i][n] ELSE coordinate.files[m]
    BY <2>2 DEF With
  <2>4. /\ DOMAIN staging' = Installers
        /\ staging'[i] = Without(staging[i], n)
        /\ \A j \in Installers \ {i} : staging'[j] = staging[j]
    BY <2>1 DEF InstallInv, InstallTypes
  <2>5. /\ DOMAIN staging'[i] = DOMAIN staging[i] \ {n}
        /\ \A m \in DOMAIN staging'[i] : staging'[i][m] = staging[i][m]
        /\ DOMAIN staging'[i] = {} => staging'[i] = NoFiles
    BY <2>4 DEF Without, NoFiles
  <2>6. n \in Published /\ staging[i][n] = index[i][n]
    BY <1>0, <1>2 DEF StagingOK
  <2>7. InstallTypes'
    BY <1>0, <2>1, <2>2, <2>4 DEF InstallInv, InstallTypes
  <2>8. CoordinateOK'
    BY <1>0, <1>1, <2>1, <2>2, <2>3, <2>6 DEF InstallInv, CoordinateOK
  <2>9. StagingOK(i)'
    BY <1>0, <1>1, <1>2, <2>1, <2>2, <2>3, <2>5, <2>6 DEF StagingOK
  <2>10. \A j \in Installers \ {i} : StagingOK(j)'
    BY <1>0, <1>1, <2>1, <2>4 DEF InstallInv, StagingOK
  <2> QED BY <2>7, <2>8, <2>9, <2>10 DEF InstallInv
<1> QED BY <1>3, <1>4

(* A roll-back takes away what the call itself had put there, nothing else.*)
LEMMA MoveFailsKeeps ==
  ASSUME InstallInv, NEW i \in Installers, MoveFails(i)
  PROVE  InstallInv'
<1>1. CASE ipc[i] # "move"
  BY <1>1, FailKeeps DEF MoveFails, At
<1>2. CASE ipc[i] = "move"
  <2>1. /\ ipc' = [ipc EXCEPT ![i] = "failed"]
        /\ staging' = [staging EXCEPT ![i] = NoFiles]
        /\ coordinate' = Absent /\ index' = index
    BY <1>2 DEF MoveFails, Fail, Step, At
  <2>2. \A j \in Installers \ {i} : ipc[j] \notin {"move", "installed"}
    BY <1>2, OneOwner
  <2>3. InstallTypes'
    BY <2>1 DEF InstallInv, InstallTypes, InstallerPlaces, Ended, Absent
  <2>4. CoordinateOK'
    BY <2>1 DEF CoordinateOK, Absent, NoFiles
  <2>5. /\ ipc'[i] = "failed" /\ staging'[i] = NoFiles
        /\ \A j \in Installers \ {i} : ipc'[j] = ipc[j] /\ staging'[j] = staging[j]
    BY <2>1 DEF InstallInv, InstallTypes
  <2>6. \A j \in Installers : StagingOK(j)'
    BY <2>1, <2>2, <2>5 DEF InstallInv, StagingOK
  <2> QED BY <2>3, <2>4, <2>6 DEF InstallInv
<1> QED BY <1>1, <1>2

(* Every step of a call keeps the invariant, whatever the others are at.   *)
LEMMA InstallerKeeps ==
  ASSUME InstallInv, NEW i \in Installers, NEW accepted \in BOOLEAN,
         InstallerStep(i, accepted)
  PROVE  InstallInv'
<1>1. CASE Validate(i, accepted) \/ Inspect(i)
  <2>1. /\ ipc[i] \in {"validate", "inspect"} /\ UNCHANGED <<coordinate, index, staging>>
        /\ \E place \in {"inspect", "copy", "failed"} : Step(i, place)
    BY <1>1 DEF Validate, Inspect, At
  <2> QED BY <2>1, CallMoves DEF InstallerPlaces, Ended
<1>2. CASE Interrupted(i)
  <2>1. /\ ipc' = [ipc EXCEPT ![i] = "dead"] /\ ipc[i] \notin Ended
        /\ staging' = [staging EXCEPT ![i] = NoFiles]
        /\ UNCHANGED <<coordinate, index>>
    BY <1>2 DEF Interrupted, Step
  <2>2. InstallTypes'
    BY <2>1 DEF InstallInv, InstallTypes, InstallerPlaces, Ended
  <2>3. /\ ipc'[i] = "dead" /\ staging'[i] = NoFiles
        /\ \A j \in Installers \ {i} : ipc'[j] = ipc[j] /\ staging'[j] = staging[j]
    BY <2>1 DEF InstallInv, InstallTypes
  <2>4. CoordinateOK'
    BY <2>1, <2>3 DEF InstallInv, CoordinateOK
  <2>5. \A j \in Installers : StagingOK(j)'
    BY <2>1, <2>3 DEF InstallInv, StagingOK
  <2> QED BY <2>2, <2>4, <2>5 DEF InstallInv
<1>3. CASE Crashed(i)
  BY <1>3, CallMoves DEF Crashed, InstallerPlaces, Ended
<1> QED
  BY <1>1, <1>2, <1>3, VerifyKeeps, CopyKeeps, ClaimKeeps, MoveKeeps, MoveFailsKeeps
  DEF InstallerStep

(* Once the release is complete no call touches the coordinate again.      *)
LEMMA CompleteStays ==
  ASSUME PublishedAssumption, InstallInv, NEW i \in Installers,
         NEW accepted \in BOOLEAN, InstallerStep(i, accepted),
         DOMAIN coordinate.files = Published
  PROVE  coordinate' = coordinate
<1>1. coordinate.made
  <2>1. coordinate.files # NoFiles
    BY DEF PublishedAssumption, NoFiles
  <2> QED BY <2>1 DEF InstallInv, CoordinateOK
<1>2. ipc[i] = "move" => staging[i] = NoFiles
  BY DEF InstallInv, StagingOK
<1> QED
  BY <1>1, <1>2 DEF InstallerStep, Verify, Validate, Inspect, Copy, Claim, Move, MoveFails,
     Interrupted, Crashed, At

-----------------------------------------------------------------------------
(* The preparer.                                                           *)

(* The sidecars that are written in order are those of the coordinate.     *)
LEMMA OrderFacts ==
  ASSUME PreparerAssumption
  PROVE  /\ Len(Order) \in Nat /\ Len(Order) > 0
         /\ \A i \in 1 .. Len(Order) : Order[i] \in Sidecars
<1>1. Order \in Seq(Sidecars) /\ Order # <<>>
  BY DEF PreparerAssumption
<1> QED BY <1>1, EmptySeq, LenProperties, ElementOfSeq

(* A step of k that links nothing and does not end in success: the place   *)
(* and the count move together.                                            *)
LEMMA PreparerMoves ==
  ASSUME PreparerAssumption, PrepareInv, NEW k \in Preparers,
         NEW place \in PreparerPlaces, NEW count \in Nat,
         kpc' = [kpc EXCEPT ![k] = place], written' = [written EXCEPT ![k] = count],
         UNCHANGED <<sidecars, coordinate>>,
         kpc[k] # "prepared", place # "prepared", count <= Len(Order),
         place \in {"link", "unlink", "abandon"} => count < Len(Order),
         count > 0 \/ place = "unlink" => WroteFirst(k)
  PROVE  PrepareInv'
<1>1. /\ kpc'[k] = place /\ written'[k] = count
      /\ \A l \in Preparers \ {k} : kpc'[l] = kpc[l] /\ written'[l] = written[l]
  BY DEF PrepareInv
<1>2. /\ kpc' \in [Preparers -> PreparerPlaces] /\ written' \in [Preparers -> Nat]
  BY DEF PrepareInv
<1>3. Present' = Present
  BY DEF Present
<1>4. \A l \in Preparers : WroteFirst(l)' => WroteFirst(l)
  BY <1>1 DEF WroteFirst
<1>5. ASSUME NEW l \in Preparers
      PROVE  PreparerOK(l)'
  <2>1. CASE l = k
    BY <1>1, <1>4, <2>1 DEF PrepareInv, PreparerOK
  <2>2. CASE l # k
    BY <1>1, <1>3, <1>4, <2>2 DEF PrepareInv, PreparerOK, HashesHold
  <2> QED BY <2>1, <2>2
<1> QED BY <1>2, <1>4, <1>5 DEF PrepareInv, SidecarsExact

(* A sidecar is linked where no call has linked it.                        *)
LEMMA LinkKeeps ==
  ASSUME PreparerAssumption, PrepareInv, NEW k \in Preparers, LinkSidecar(k),
         coordinate' = coordinate
  PROVE  PrepareInv'
<1> DEFINE s == Order[written[k] + 1]
<1>1. kpc[k] = "link" /\ written[k] \in Nat /\ written[k] < Len(Order) /\ written' = written
  BY DEF LinkSidecar, PrepareInv, PreparerOK
<1>2. s \in Sidecars
  BY <1>1, OrderFacts
<1>3. CASE s \in DOMAIN sidecars
  <2>1. kpc' = [kpc EXCEPT ![k] = "abandon"] /\ sidecars' = sidecars
    BY <1>3 DEF LinkSidecar, PStep
  <2>2. written' = [written EXCEPT ![k] = written[k]]
    BY <1>1 DEF PrepareInv
  <2>3. written[k] <= Len(Order)
    BY <1>1, OrderFacts
  <2> QED BY <1>1, <2>1, <2>2, <2>3, PreparerMoves DEF PreparerPlaces, WroteFirst
<1>4. CASE s \notin DOMAIN sidecars
  <2>1. /\ kpc' = [kpc EXCEPT ![k] = "unlink"]
        /\ sidecars' = [t \in DOMAIN sidecars \cup {s} |->
                          IF t = s THEN "exact" ELSE sidecars[t]]
    BY <1>4 DEF LinkSidecar, PStep
  <2>2. /\ kpc'[k] = "unlink"
        /\ \A l \in Preparers \ {k} : kpc'[l] = kpc[l]
        /\ kpc' \in [Preparers -> PreparerPlaces]
    BY <2>1 DEF PrepareInv, PreparerPlaces
  <2>3. DOMAIN sidecars' = DOMAIN sidecars \cup {s} /\ SidecarsExact'
    BY <2>1 DEF PrepareInv, SidecarsExact
  <2>4. \A l \in Preparers : kpc[l] # "prepared"
    BY <1>2, <1>4 DEF PrepareInv, PreparerOK
  <2>5. Order[1] \in DOMAIN sidecars'
    <3>1. CASE written[k] = 0
      BY <2>3, <3>1
    <3>2. CASE written[k] > 0
      BY <2>3, <3>2 DEF PrepareInv, PreparerOK, WroteFirst
    <3> QED BY <1>1, <3>1, <3>2
  <2>6. \A l \in Preparers : PreparerOK(l)'
    BY <1>1, <2>2, <2>3, <2>4, <2>5 DEF PrepareInv, PreparerOK
  <2>7. ASSUME NEW l \in Preparers \ {k}, WroteFirst(l)'
        PROVE  FALSE
    <3>1. WroteFirst(l)
      BY <1>1, <2>2, <2>7 DEF WroteFirst
    <3>2. Order[1] \in DOMAIN sidecars
      BY <3>1 DEF PrepareInv, PreparerOK
    <3>3. written[k] > 0
      BY <1>1, <1>4, <3>2
    <3>4. WroteFirst(k)
      BY <3>3 DEF WroteFirst
    <3> QED BY <3>1, <3>4 DEF PrepareInv
  <2> QED BY <1>1, <1>2, <2>2, <2>3, <2>6, <2>7 DEF PrepareInv
<1> QED BY <1>3, <1>4

(* The last check is what success means, and nobody else has succeeded.    *)
LEMMA SuccessKeeps ==
  ASSUME PreparerAssumption, PrepareInv, NEW k \in Preparers, CheckPrepared(k, Present),
         coordinate' = coordinate
  PROVE  PrepareInv'
<1>1. /\ kpc[k] = "stage" /\ written[k] = Len(Order) /\ UNCHANGED <<sidecars, written>>
  BY DEF CheckPrepared
<1>2. /\ written' = [written EXCEPT ![k] = written[k]]
      /\ written[k] \in Nat /\ written[k] <= Len(Order)
  BY <1>1, OrderFacts DEF PrepareInv
<1>3. CASE kpc' = [kpc EXCEPT ![k] = "refused"]
  BY <1>1, <1>2, <1>3, PreparerMoves
  DEF PreparerPlaces, PrepareEnded, WroteFirst
<1>4. CASE kpc' # [kpc EXCEPT ![k] = "refused"]
  <2>1. /\ kpc' = [kpc EXCEPT ![k] = "prepared"]
        /\ DOMAIN Present = DOMAIN Artifacts /\ HashesHold(Present)
        /\ DOMAIN sidecars = Sidecars
    BY <1>4 DEF CheckPrepared, PStep, Inventory
  <2>2. /\ kpc'[k] = "prepared"
        /\ \A l \in Preparers \ {k} : kpc'[l] = kpc[l]
        /\ kpc' \in [Preparers -> PreparerPlaces]
    BY <2>1 DEF PrepareInv, PreparerPlaces, PrepareEnded
  <2>3. /\ DOMAIN Present' = DOMAIN Artifacts /\ HashesHold(Present)'
    BY <2>1 DEF Present, HashesHold
  <2>4. \A l \in Preparers : WroteFirst(l)' => WroteFirst(l)
    BY <1>1, <2>2 DEF WroteFirst
  <2>5. PreparerOK(k)'
    BY <1>1, <2>1, <2>2, <2>3, <2>4, OrderFacts DEF PrepareInv, PreparerOK
  <2>6. \A l \in Preparers \ {k} : PreparerOK(l)'
    BY <1>1, <2>2, <2>3, <2>4 DEF PrepareInv, PreparerOK
  <2> QED BY <1>1, <2>2, <2>4, <2>5, <2>6 DEF PrepareInv, SidecarsExact
<1> QED BY <1>3, <1>4

(* Every step of a call keeps the invariant.                               *)
LEMMA PreparerKeeps ==
  ASSUME PreparerAssumption, PrepareInv, NEW k \in Preparers, PreparerStep(k, Present),
         coordinate' = coordinate
  PROVE  PrepareInv'
<1>1. /\ written[k] \in Nat /\ written[k] <= Len(Order) /\ PreparerOK(k)
      /\ written = [written EXCEPT ![k] = written[k]]
  BY DEF PrepareInv, PreparerOK
<1>2. CASE CheckInstalled(k, Present) \/ StageSidecar(k) \/ PrepareFails(k) \/ PrepareCrashes(k)
  <2>1. /\ \E place \in {"stage", "link", "abandon", "refused", "crashed"} :
             /\ kpc' = [kpc EXCEPT ![k] = place]
             /\ place \in {"link", "abandon"} => written[k] < Len(Order)
        /\ kpc[k] # "prepared"
        /\ UNCHANGED <<sidecars, written>>
    BY <1>1, <1>2 DEF CheckInstalled, StageSidecar, PrepareFails, PrepareCrashes, PStep,
       PrepareEnded, PreparerOK
  <2> QED BY <1>1, <2>1, PreparerMoves DEF PreparerPlaces, PrepareEnded, WroteFirst
<1>3. CASE UnlinkTemporary(k)
  <2>1. /\ kpc[k] \in {"unlink", "abandon"} /\ written[k] < Len(Order) /\ sidecars' = sidecars
    BY <1>1, <1>3 DEF UnlinkTemporary, PreparerOK
  <2>2. CASE kpc[k] = "unlink"
    <3>1. /\ kpc' = [kpc EXCEPT ![k] = "stage"]
          /\ written' = [written EXCEPT ![k] = written[k] + 1]
      BY <1>3, <2>2 DEF UnlinkTemporary, PStep
    <3>2. written[k] + 1 \in Nat /\ written[k] + 1 <= Len(Order)
      BY <1>1, <2>1, OrderFacts
    <3>3. WroteFirst(k)
      BY <2>2 DEF WroteFirst
    <3> QED
      BY <2>1, <2>2, <3>1, <3>2, <3>3, PreparerMoves DEF PreparerPlaces
  <2>3. CASE kpc[k] = "abandon"
    <3>1. kpc' = [kpc EXCEPT ![k] = "refused"] /\ written' = written
      BY <1>3, <2>3 DEF UnlinkTemporary, PStep
    <3> QED
      BY <1>1, <2>1, <2>3, <3>1, PreparerMoves DEF PreparerPlaces, PrepareEnded, WroteFirst
  <2> QED BY <2>1, <2>2, <2>3
<1> QED
  BY <1>2, <1>3, LinkKeeps, SuccessKeeps DEF PreparerStep

-----------------------------------------------------------------------------
(* The archive.                                                            *)

(* A registered path is a sequence of components.                          *)
LEMMA PathFacts ==
  ASSUME ArchiveAssumption, NEW p \in Paths
  PROVE  p \in Seq(Components) /\ Len(p) \in Nat
<1>1. PICK n \in 1 .. LongestPath : p \in [1 .. n -> Components]
  BY DEF Paths
<1>2. n \in Nat
  BY <1>1 DEF ArchiveAssumption
<1>3. p \in Seq(Components)
  BY <1>1, <1>2, SeqDef
<1> QED BY <1>3, LenProperties

(* A prefix of a path, and the prefix of its folded form.                  *)
LEMMA PrefixFacts ==
  ASSUME ArchiveAssumption, NEW p \in Paths, NEW n \in 1 .. Len(p)
  PROVE  LET r == SubSeq(p, 1, n)
         IN  /\ r \in Prefixes(p) /\ r \in Seq(Components) /\ Len(r) = n
             /\ \A i \in 1 .. n : r[i] = p[i]
             /\ Folded(r) = [i \in 1 .. n |-> Fold[p[i]]]
             /\ Len(Folded(r)) = n
             /\ Folded(r) \in Prefixes(Folded(p))
<1> DEFINE r == SubSeq(p, 1, n)
           Folds == {Fold[c] : c \in Components}
<1>1. /\ p \in Seq(Components) /\ Len(p) \in Nat /\ n \in Nat /\ 1 <= n /\ n <= Len(p)
      /\ \A i \in 1 .. n : p[i] \in Components
  BY PathFacts, ElementOfSeq
<1>2. r \in Seq(Components) /\ Len(r) = n /\ \A i \in 1 .. n : r[i] = p[i]
  <2>1. /\ SubSeq(p, 1, n) \in Seq(Components)
        /\ Len(SubSeq(p, 1, n)) = IF 1 <= n THEN n - 1 + 1 ELSE 0
        /\ \A i \in 1 .. n - 1 + 1 : SubSeq(p, 1, n)[i] = p[1 + i - 1]
    BY <1>1, SubSeqProperties
  <2>2. n - 1 + 1 = n /\ \A i \in 1 .. n : 1 + i - 1 = i
    BY <1>1
  <2> QED BY <1>1, <2>1, <2>2
<1>3. Folded(r) = [i \in 1 .. n |-> Fold[p[i]]]
  BY <1>2 DEF Folded
<1>4. Folded(p) = [i \in 1 .. Len(p) |-> Fold[p[i]]]
  BY DEF Folded
<1>5. Folded(p) \in Seq(Folds) /\ Len(Folded(p)) = Len(p)
  <2>1. \A i \in 1 .. Len(p) : p[i] \in Components
    BY <1>1, ElementOfSeq
  <2>2. Folded(p) \in [1 .. Len(p) -> Folds]
    BY <1>4, <2>1
  <2>3. Folded(p) \in Seq(Folds)
    BY <1>1, <2>2, SeqDef
  <2> QED BY <1>1, <1>4, <2>3, LenProperties
<1>6. Len(Folded(r)) = n /\ Folded(r) \in Seq(Folds)
  <2>1. Folded(r) \in [1 .. n -> Folds]
    BY <1>1, <1>3
  <2>2. Folded(r) \in Seq(Folds)
    BY <1>1, <2>1, SeqDef
  <2> QED BY <1>1, <1>3, <2>2, LenProperties
<1>7. SubSeq(Folded(p), 1, n) = Folded(r)
  <2>1. \A i \in 1 .. n : Folded(p)[i] \in Folds
    BY <1>1, <1>4
  <2>2. /\ SubSeq(Folded(p), 1, n) \in Seq(Folds)
        /\ Len(SubSeq(Folded(p), 1, n)) = IF 1 <= n THEN n - 1 + 1 ELSE 0
        /\ \A i \in 1 .. n - 1 + 1 : SubSeq(Folded(p), 1, n)[i] = Folded(p)[1 + i - 1]
    BY <1>1, <2>1, SubSeqProperties
  <2>3. n - 1 + 1 = n /\ \A i \in 1 .. n : 1 + i - 1 = i
    BY <1>1
  <2>4. \A i \in 1 .. n : SubSeq(Folded(p), 1, n)[i] = Folded(r)[i]
    BY <1>1, <1>3, <1>4, <2>2, <2>3
  <2> QED BY <1>1, <1>6, <2>2, <2>3, <2>4, SeqEqual
<1>8. r \in Prefixes(p) /\ Folded(r) \in Prefixes(Folded(p))
  BY <1>1, <1>5, <1>7 DEF Prefixes
<1> QED BY <1>2, <1>3, <1>6, <1>8

(* Registering a path spells in the trie what the path spells.             *)
LEMMA RegisterKeeps ==
  ASSUME ArchiveAssumption, TrieInv, NEW p \in Paths, verdict = "open", verdict' = verdict,
         ~Collides(p),
         DOMAIN entries' = DOMAIN entries \cup {p},
         trie' = [q \in DOMAIN trie \cup Prefixes(Folded(p)) |->
                    IF q \in DOMAIN trie THEN trie[q] ELSE Spelling(p)[q]]
  PROVE  TrieInv'
<1>1. Created' = Created \cup Prefixes(p)
  BY DEF Created
<1>2. ASSUME NEW r \in Created
      PROVE  Folded(r) \in DOMAIN trie' /\ trie'[Folded(r)] = r[Len(r)]
  BY DEF TrieInv
<1>3. ASSUME NEW r \in Prefixes(p)
      PROVE  Folded(r) \in DOMAIN trie' /\ trie'[Folded(r)] = r[Len(r)]
  <2>1. PICK n \in 1 .. Len(p) : r = SubSeq(p, 1, n)
    BY DEF Prefixes
  <2>2. /\ Len(r) = n /\ r[n] = p[n] /\ Len(Folded(r)) = n
        /\ Folded(r) \in Prefixes(Folded(p))
    <3>1. n \in 1 .. n
      BY PathFacts
    <3> QED BY <2>1, <3>1, PrefixFacts
  <2>3. Spelling(p)[Folded(r)] = r[Len(r)]
    BY <2>2 DEF Spelling
  <2>4. trie'[Folded(r)] = Spelling(p)[Folded(r)]
    BY <2>2 DEF Collides
  <2> QED BY <2>2, <2>3, <2>4
<1> QED BY <1>1, <1>2, <1>3 DEF TrieInv, NoFileAboveEntry

(* Every step of the inventory keeps the invariant.                        *)
LEMMA ArchiveKeeps ==
  ASSUME ArchiveAssumption, TrieInv, ArchiveNext
  PROVE  TrieInv'
<1>1. CASE Reject
  BY <1>1 DEF Reject, TrieInv, Created, NoFileAboveEntry
<1>2. ASSUME NEW p \in Paths, NEW directory \in BOOLEAN, NEW plain \in BOOLEAN,
             Register(p, directory, plain)
      PROVE  TrieInv'
  <2>1. CASE ~plain \/ Refused(p)
    BY <1>1, <1>2, <2>1 DEF Register
  <2>2. CASE ~(~plain \/ Refused(p))
    <3>1. /\ verdict = "open" /\ verdict' = verdict /\ ~Collides(p)
          /\ entries' = [q \in DOMAIN entries \cup {p} |->
                           IF q = p THEN directory ELSE entries[q]]
          /\ trie' = [q \in DOMAIN trie \cup Prefixes(Folded(p)) |->
                        IF q \in DOMAIN trie THEN trie[q] ELSE Spelling(p)[q]]
      BY <1>2, <2>2 DEF Register, Refused
    <3> QED BY <3>1, RegisterKeeps
  <2> QED BY <2>1, <2>2
<1>3. CASE ValidateGraph
  <2>1. CASE \E p \in DOMAIN entries : FileAncestor(p)
    BY <1>1, <1>3, <2>1 DEF ValidateGraph
  <2>2. CASE ~\E p \in DOMAIN entries : FileAncestor(p)
    <3>1. UNCHANGED <<entries, trie>>
      BY <1>3, <2>2 DEF ValidateGraph
    <3>2. \A p, q \in DOMAIN entries : ~entries[q] => Folded(q) \notin ProperPrefixes(Folded(p))
      BY <2>2 DEF FileAncestor
    <3> QED BY <3>1, <3>2 DEF TrieInv, Created, NoFileAboveEntry
  <2> QED BY <2>1, <2>2
<1>4. CASE Leave
  <2>1. DOMAIN entries' = {}
    BY <1>4 DEF Leave, Empty
  <2> QED BY <2>1 DEF TrieInv, Created, NoFileAboveEntry
<1> QED BY <1>2, <1>3, <1>4 DEF ArchiveNext

(* The trie tells two spellings of one folded path apart.                  *)
LEMMA SpelledOnce ==
  ASSUME ArchiveAssumption, TrieInv
  PROVE  ArchiveUnpacks
<1>1. SUFFICES ASSUME NEW p \in Created, NEW q \in Created, Folded(p) = Folded(q)
               PROVE  p = q
  BY DEF ArchiveUnpacks, NoPortableCollision, TrieInv
<1>2. PICK a \in DOMAIN entries : p \in Prefixes(a)
  BY DEF Created
<1>3. PICK b \in DOMAIN entries : q \in Prefixes(b)
  BY DEF Created
<1>4. a \in Paths /\ b \in Paths
  BY DEF TrieInv
<1>5. PICK m \in 1 .. Len(a) : p = SubSeq(a, 1, m)
  BY <1>2 DEF Prefixes
<1>6. PICK n \in 1 .. Len(b) : q = SubSeq(b, 1, n)
  BY <1>3 DEF Prefixes
<1>7. /\ p \in Seq(Components) /\ Len(p) = m /\ \A i \in 1 .. m : p[i] = a[i]
      /\ Folded(p) = [i \in 1 .. m |-> Fold[a[i]]] /\ Len(Folded(p)) = m
  BY <1>4, <1>5, PrefixFacts
<1>8. /\ q \in Seq(Components) /\ Len(q) = n /\ \A i \in 1 .. n : q[i] = b[i]
      /\ Folded(q) = [i \in 1 .. n |-> Fold[b[i]]] /\ Len(Folded(q)) = n
  BY <1>4, <1>6, PrefixFacts
<1>9. m = n /\ m \in Nat /\ m <= Len(a) /\ n <= Len(b) /\ Len(a) \in Nat /\ Len(b) \in Nat
  BY <1>1, <1>4, <1>7, <1>8, PathFacts
<1>10. ASSUME NEW i \in 1 .. m
       PROVE  p[i] = q[i]
  <2>1. i \in 1 .. Len(a) /\ i \in 1 .. Len(b) /\ i \in 1 .. i
    BY <1>9
  <2>2. /\ SubSeq(a, 1, i) \in Prefixes(a) /\ Len(SubSeq(a, 1, i)) = i
        /\ SubSeq(a, 1, i)[i] = a[i]
        /\ Folded(SubSeq(a, 1, i)) = [j \in 1 .. i |-> Fold[a[j]]]
    BY <1>4, <2>1, PrefixFacts
  <2>3. /\ SubSeq(b, 1, i) \in Prefixes(b) /\ Len(SubSeq(b, 1, i)) = i
        /\ SubSeq(b, 1, i)[i] = b[i]
        /\ Folded(SubSeq(b, 1, i)) = [j \in 1 .. i |-> Fold[b[j]]]
    BY <1>4, <2>1, PrefixFacts
  <2>4. \A j \in 1 .. i : Fold[a[j]] = Fold[b[j]]
    <3>1. \A j \in 1 .. m : Folded(p)[j] = Fold[a[j]] /\ Folded(q)[j] = Fold[b[j]]
      BY <1>7, <1>8, <1>9
    <3>2. \A j \in 1 .. i : j \in 1 .. m
      BY <1>9
    <3> QED BY <1>1, <3>1, <3>2
  <2>5. Folded(SubSeq(a, 1, i)) = Folded(SubSeq(b, 1, i))
    BY <2>2, <2>3, <2>4
  <2>6. SubSeq(a, 1, i) \in Created /\ SubSeq(b, 1, i) \in Created
    BY <2>2, <2>3 DEF Created
  <2>7. a[i] = b[i]
    BY <2>2, <2>3, <2>5, <2>6 DEF TrieInv
  <2> QED BY <1>7, <1>8, <1>9, <2>7
<1> QED BY <1>7, <1>8, <1>9, <1>10, SeqEqual

-----------------------------------------------------------------------------
(* The public installer, and the composition.                              *)

PublicFacts == PublicAssumption /\ PreparerAssumption /\ PublishedAssumption

(* What a step does not touch keeps its part of the invariant.             *)
LEMMA InstallSame ==
  ASSUME InstallInv, UNCHANGED <<coordinate, installer>>
  PROVE  InstallInv'
BY DEF InstallInv, InstallTypes, CoordinateOK, StagingOK, installer

(* So do the preparers, who read the coordinate only.                      *)
LEMMA PrepareSame ==
  ASSUME PrepareInv, UNCHANGED <<coordinate, preparer>>
  PROVE  PrepareInv'
BY DEF PrepareInv, PreparerOK, WroteFirst, SidecarsExact, HashesHold, Present, preparer

(* And the archive's inventory.                                            *)
LEMMA TrieSame ==
  ASSUME TrieInv, UNCHANGED archive
  PROVE  TrieInv'
BY DEF TrieInv, Created, NoFileAboveEntry, archive

(* The public installer moves on without a word about its outcome.         *)
LEMMA OutcomeSame ==
  ASSUME OutcomeInv, UNCHANGED <<mode, target, residue, outcome>>,
         ppc' = ppc \/ ppc # "end",
         mode = "public" /\ ppc' \in {"bind", "publish"} => kpc'[Helper] = "prepared"
  PROVE  OutcomeInv'
<1>1. outcome # "none" => ppc' = "end"
  BY DEF OutcomeInv
<1> QED BY <1>1 DEF OutcomeInv, OutcomeTellsTarget

(* It gives up: what it has reserved, it tells.                            *)
LEMMA FailTells ==
  ASSUME OutcomeInv, FailPublic, UNCHANGED <<mode, target>>
  PROVE  OutcomeInv'
<1>1. ppc' = "end" /\ outcome' = "error" /\ residue' = (target.by = "us")
  BY DEF FailPublic, PGoto
<1> QED BY <1>1 DEF OutcomeInv, OutcomeTellsTarget

(* Its files are in the form that tells artifacts from sidecars.           *)
LEMMA ContentFacts ==
  ASSUME PrepareInv, NEW k \in Preparers, kpc[k] = "prepared"
  PROVE  /\ Staged = Expected
         /\ \A f \in Staged :
              StagedContent(f) = IF Len(f) = 1 THEN Artifacts[f[1]] ELSE "exact"
<1>1. /\ DOMAIN sidecars = Sidecars /\ SidecarsExact
      /\ DOMAIN Present = DOMAIN Artifacts /\ HashesHold(Present)
  BY DEF PrepareInv, PreparerOK
<1>2. Staged = Expected
  BY <1>1 DEF Staged, Expected
<1>3. ASSUME NEW n \in DOMAIN Artifacts
      PROVE  StagedContent(<<n>>) = IF Len(<<n>>) = 1 THEN Artifacts[<<n>>[1]] ELSE "exact"
  BY <1>1 DEF StagedContent, HashesHold
<1>4. ASSUME NEW s \in Sidecars
      PROVE  StagedContent(s) = IF Len(s) = 1 THEN Artifacts[s[1]] ELSE "exact"
  <2>1. Len(s) = 2
    BY DEF Sidecars
  <2>2. sidecars[s] = "exact"
    BY <1>1 DEF SidecarsExact
  <2> QED BY <2>1, <2>2 DEF StagedContent
<1> QED BY <1>2, <1>3, <1>4 DEF Expected

(* A step of an installer leaves what a preparer has answered for.         *)
LEMMA InstallStepKeeps ==
  ASSUME PublicFacts, InstallationInv, NEW i \in Installers, InstallStep(i)
  PROVE  InstallationInv'
<1>1. /\ InstallerStep(i, verdict = "left") /\ (verdict = "left") \in BOOLEAN
      /\ UNCHANGED <<archive, preparer, public>>
  BY DEF InstallStep
<1>2. InstallInv'
  BY <1>1, InstallerKeeps DEF InstallationInv
<1>3. PrepareInv'
  <2>1. CASE \A k \in Preparers : kpc[k] # "prepared"
    BY <1>1, <2>1 DEF InstallationInv, PrepareInv, PreparerOK, WroteFirst, SidecarsExact,
       preparer
  <2>2. CASE \E k \in Preparers : kpc[k] = "prepared"
    <3>1. DOMAIN coordinate.files = Published
      BY <2>2 DEF PublicFacts, PublicAssumption, InstallationInv, PrepareInv, PreparerOK, Present
    <3>2. coordinate' = coordinate
      BY <1>1, <3>1, CompleteStays DEF InstallationInv, PublicFacts
    <3> QED BY <1>1, <3>2, PrepareSame DEF InstallationInv
  <2> QED BY <2>1, <2>2
<1>4. OutcomeInv'
  BY <1>1, OutcomeSame DEF InstallationInv, OutcomeInv, public, preparer
<1>5. TrieInv'
  BY <1>1, TrieSame DEF InstallationInv
<1> QED BY <1>2, <1>3, <1>4, <1>5 DEF InstallationInv

(* A step of a preparer: the public installer awaits its own meanwhile.    *)
LEMMA PrepareStepKeeps ==
  ASSUME PublicFacts, InstallationInv, NEW k \in Preparers, PrepareStep(k)
  PROVE  InstallationInv'
<1>1. /\ PreparerStep(k, Present) /\ UNCHANGED <<archive, installing, public>>
      /\ mode = "direct" \/ ppc = "prepare"
  BY DEF PrepareStep, Runs
<1>2. InstallInv' /\ TrieInv'
  BY <1>1, InstallSame, TrieSame DEF InstallationInv, installing
<1>3. PrepareInv'
  BY <1>1, PreparerKeeps DEF InstallationInv, PublicFacts, installing
<1>4. OutcomeInv'
  BY <1>1, OutcomeSame DEF InstallationInv, public
<1> QED BY <1>2, <1>3, <1>4 DEF InstallationInv

(* Where the helpers rest, only the outcome has to be looked at.           *)
LEMMA HelpersRest ==
  ASSUME InstallationInv, UNCHANGED Others, OutcomeInv'
  PROVE  InstallationInv'
<1>1. UNCHANGED <<archive, installing, preparer>>
  BY DEF Others
<1> QED
  BY <1>1, InstallSame, PrepareSame, TrieSame DEF InstallationInv, installing

(* The reservation, and others who take the path or move it.               *)
LEMMA ReserveTells ==
  ASSUME OutcomeInv, Reserve \/ Occupy
  PROVE  OutcomeInv'
<1>1. DOMAIN target = {"by", "files", "bound"} /\ mode' = mode
  BY DEF OutcomeInv, Reserve, Occupy, Others
<1>2. CASE Reserve /\ FailPublic /\ target' = target
  BY <1>1, <1>2, FailTells
<1>3. CASE Reserve /\ ~(FailPublic /\ target' = target)
  <2>1. /\ target' = [target EXCEPT !.by = "us", !.bound = TRUE] /\ ppc = "reserve"
        /\ \/ ppc' = "fetch" /\ UNCHANGED <<residue, outcome>>
           \/ ppc' = "end" /\ outcome' = "error" /\ residue' = TRUE
    BY <1>3 DEF Reserve, PublicAt, PGoto, fetching
  <2>2. target'.files = target.files /\ DOMAIN target' = {"by", "files", "bound"}
    BY <1>1, <2>1
  <2>3. outcome = "none"
    BY <2>1 DEF OutcomeInv
  <2> QED BY <1>1, <2>1, <2>2, <2>3 DEF OutcomeInv, OutcomeTellsTarget
<1>4. CASE Occupy
  <2>1. /\ UNCHANGED <<ppc, residue, outcome, kpc>>
        /\ \/ target' = [target EXCEPT !.by = "other"]
           \/ target' = [target EXCEPT !.bound = FALSE]
    BY <1>4 DEF Occupy, Others, preparer
  <2>2. /\ target'.files = target.files /\ DOMAIN target' = {"by", "files", "bound"}
        /\ target'.by = "us" => target.by = "us"
    BY <1>1, <2>1
  <2> QED BY <1>1, <2>1, <2>2 DEF OutcomeInv, OutcomeTellsTarget
<1> QED BY <1>2, <1>3, <1>4

(* Downloads lead on to the installation, or to an error that is told.     *)
LEMMA FetchTells ==
  ASSUME OutcomeInv,
         \/ ValidateTarget \/ StartFetch \/ CurlRuns \/ CurlExits \/ ReadChunk
         \/ CheckFetch \/ CheckDigest
  PROVE  OutcomeInv'
<1>1. UNCHANGED <<mode, target, preparer>>
  BY DEF ValidateTarget, StartFetch, CurlRuns, CurlExits, ReadChunk, CheckFetch,
     CheckDigest, Others
<1>2. CASE FailPublic
  BY <1>1, <1>2, FailTells
<1>3. CASE CurlRuns \/ CurlExits
  <2>1. UNCHANGED <<ppc, residue, outcome, kpc>>
    BY <1>1, <1>3 DEF CurlRuns, CurlExits, preparer
  <2> QED BY <1>1, <2>1, OutcomeSame DEF OutcomeInv
<1>4. CASE ~FailPublic /\ ~(CurlRuns \/ CurlExits)
  <2>1. /\ ppc \in {"validate", "fetch", "read", "check", "digest"}
        /\ ppc' \in {"reserve", "read", "check", "digest", "install", "fetch"}
        /\ UNCHANGED <<residue, outcome>>
    BY <1>4 DEF ValidateTarget, StartFetch, ReadChunk, CheckFetch, CheckDigest, PublicAt,
       PGoto, fetching
  <2> QED BY <1>1, <2>1, OutcomeSame
<1> QED BY <1>2, <1>3, <1>4

(* The publication copies what the preparer has answered for.              *)
LEMMA PublishTells ==
  ASSUME PublicFacts, PrepareInv, OutcomeInv, CheckBinding \/ PublishFile \/ FinishPublish
  PROVE  OutcomeInv'
<1>1. /\ UNCHANGED <<mode, kpc>> /\ kpc[Helper] = "prepared" /\ Helper \in Preparers
      /\ ppc \in {"bind", "publish"} /\ outcome = "none"
  BY DEF CheckBinding, PublishFile, FinishPublish, PublicAt, OutcomeInv, Others, preparer,
     PublicFacts, PublicAssumption
<1>2. CASE FailPublic /\ target' = target
  BY <1>1, <1>2, FailTells
<1>3. CASE CheckBinding /\ ~FailPublic
  <2>1. ppc' = "publish" /\ UNCHANGED <<target, residue, outcome>>
    BY <1>3 DEF CheckBinding, PGoto
  <2> QED BY <1>1, <2>1, OutcomeSame
<1>4. /\ Staged = Expected
      /\ \A f \in Staged :
           StagedContent(f) = IF Len(f) = 1 THEN Artifacts[f[1]] ELSE "exact"
  BY <1>1, ContentFacts
<1>5. CASE PublishFile /\ ~(FailPublic /\ target' = target)
  <2>1. PICK n \in Staged \ DOMAIN target.files :
          target' = [target EXCEPT !.files = With(@, n, StagedContent(n))]
    BY <1>5 DEF PublishFile
  <2>2. UNCHANGED <<ppc, residue, outcome>>
    BY <1>5 DEF PublishFile
  <2>3. /\ DOMAIN target' = {"by", "files", "bound"} /\ target'.by = target.by
        /\ target'.files = With(target.files, n, StagedContent(n))
    BY <2>1 DEF OutcomeInv
  <2>4. /\ DOMAIN target'.files = DOMAIN target.files \cup {n}
        /\ \A f \in DOMAIN target'.files : target'.files[f] =
             IF f = n THEN StagedContent(n) ELSE target.files[f]
    BY <2>3 DEF With
  <2>5. \A f \in DOMAIN target'.files :
          target'.files[f] = IF Len(f) = 1 THEN Artifacts[f[1]] ELSE "exact"
    BY <1>4, <2>4 DEF OutcomeInv, OutcomeTellsTarget
  <2>6. DOMAIN target'.files \subseteq Expected
    BY <1>4, <2>4 DEF OutcomeInv
  <2> QED BY <1>1, <2>2, <2>3, <2>5, <2>6 DEF OutcomeInv, OutcomeTellsTarget
<1>6. CASE FinishPublish /\ ~FailPublic
  <2>1. /\ ppc' = "end" /\ outcome' = "ok" /\ UNCHANGED <<target, residue>>
        /\ DOMAIN target.files = Staged
    BY <1>6 DEF FinishPublish, PGoto
  <2> QED BY <1>1, <1>4, <2>1 DEF OutcomeInv, OutcomeTellsTarget, Expected
<1> QED
  BY <1>2, <1>3, <1>5, <1>6 DEF CheckBinding, FinishPublish

(* A helper that is killed leaves no more than one that crashes.           *)
LEMMA KillKeeps ==
  ASSUME PublicFacts, InstallationInv, UNCHANGED <<archive, assets, coordinate, index, staging,
           sidecars, temps, written>>,
         \/ ipc' = ipc \/ (ipc[Delegate] \notin Ended /\ Step(Delegate, "dead")),
         \/ kpc' = kpc \/ (kpc[Helper] \notin PrepareEnded /\ PStep(Helper, "crashed")),
         OutcomeInv'
  PROVE  InstallationInv'
<1>1. InstallInv'
  <2>1. CASE ipc' = ipc
    BY <2>1, InstallSame DEF InstallationInv, installer
  <2>2. CASE ipc[Delegate] \notin Ended /\ Step(Delegate, "dead")
    BY <2>2, CallMoves
    DEF InstallationInv, PublicFacts, PublicAssumption, InstallerPlaces, Ended
  <2> QED BY <2>1, <2>2
<1>2. PrepareInv'
  <2>1. CASE kpc' = kpc
    BY <2>1, PrepareSame DEF InstallationInv, preparer
  <2>2. CASE kpc[Helper] \notin PrepareEnded /\ PStep(Helper, "crashed")
    <3>1. /\ Helper \in Preparers /\ written[Helper] \in Nat
          /\ written' = [written EXCEPT ![Helper] = written[Helper]]
          /\ written[Helper] <= Len(Order) /\ kpc[Helper] # "prepared"
      BY <2>2 DEF InstallationInv, PrepareInv, PreparerOK, PublicFacts, PublicAssumption,
         PrepareEnded
    <3> QED
      BY <2>2, <3>1, PreparerMoves DEF InstallationInv, PublicFacts, PStep, PreparerPlaces,
         PrepareEnded, WroteFirst
  <2> QED BY <2>1, <2>2
<1> QED BY <1>1, <1>2, TrieSame DEF InstallationInv

(* Waiting for the helpers, with a timeout, and the interrupt.             *)
LEMMA AwaitKeeps ==
  ASSUME PublicFacts, InstallationInv, AwaitInstaller \/ AwaitPreparer \/ PublicInterrupted
  PROVE  InstallationInv'
<1>1. /\ UNCHANGED <<archive, assets, coordinate, index, staging, sidecars, temps, written,
                     mode, target>>
  BY DEF AwaitInstaller, AwaitPreparer, PublicInterrupted, preparer, installing, installer
<1>2. \/ ipc' = ipc \/ (ipc[Delegate] \notin Ended /\ Step(Delegate, "dead"))
  <2>1. ipc = [ipc EXCEPT ![Delegate] = ipc[Delegate]]
    BY DEF InstallationInv, InstallInv, InstallTypes
  <2> QED
    BY <2>1 DEF AwaitInstaller, AwaitPreparer, PublicInterrupted, installing, installer, Step
<1>3. \/ kpc' = kpc \/ (kpc[Helper] \notin PrepareEnded /\ PStep(Helper, "crashed"))
  <2>1. kpc = [kpc EXCEPT ![Helper] = kpc[Helper]]
    BY DEF InstallationInv, PrepareInv
  <2> QED
    BY <2>1 DEF AwaitInstaller, AwaitPreparer, PublicInterrupted, preparer, PStep
<1>4. OutcomeInv'
  <2>1. CASE FailPublic
    BY <1>1, <2>1, FailTells DEF InstallationInv
  <2>2. CASE ~FailPublic
    <3>1. /\ \/ ppc' = "prepare"
             \/ ppc' = "bind" /\ kpc' = kpc /\ kpc[Helper] = "prepared"
          /\ ppc \in {"install", "prepare"} /\ UNCHANGED <<residue, outcome>>
      BY <2>2 DEF AwaitInstaller, AwaitPreparer, PublicInterrupted, PublicAt, PGoto
    <3> QED BY <1>1, <3>1, OutcomeSame DEF InstallationInv
  <2> QED BY <2>1, <2>2
<1> QED BY <1>1, <1>2, <1>3, <1>4, KillKeeps

-----------------------------------------------------------------------------
(* The invariant holds before anything runs ...                            *)
LEMMA InstallationInit ==
  ASSUME PublicFacts, InstallerAssumption, Init
  PROVE  InstallationInv
<1>1. InstallInv
  <2>1. /\ coordinate = Absent /\ ipc = [i \in Installers |-> "idle"]
        /\ index = [i \in Installers |-> NoFiles] /\ staging = [i \in Installers |-> NoFiles]
    BY DEF Init, InstallerInit
  <2>2. InstallTypes
    BY <2>1 DEF InstallTypes, InstallerPlaces, Absent
  <2>3. CoordinateOK
    BY <2>1 DEF CoordinateOK, Absent, NoFiles
  <2>4. \A i \in Installers : StagingOK(i)
    BY <2>1 DEF StagingOK
  <2> QED BY <2>2, <2>3, <2>4 DEF InstallInv
<1>2. PrepareInv
  <2>1. /\ sidecars = NoSidecars
        /\ kpc = [k \in Preparers |-> "idle"] /\ written = [k \in Preparers |-> 0]
    BY DEF Init, PreparerInit
  <2>2. \A k \in Preparers : PreparerOK(k) /\ ~WroteFirst(k)
    BY <2>1, OrderFacts DEF PreparerOK, WroteFirst, PublicFacts
  <2> QED BY <2>1, <2>2 DEF PrepareInv, SidecarsExact, NoSidecars, PreparerPlaces
<1>3. OutcomeInv
  BY DEF Init, OutcomeInv, OutcomeTellsTarget, NoFiles
<1>4. TrieInv
  BY DEF Init, ArchiveInit, TrieInv, Created, NoFileAboveEntry, Empty
<1> QED BY <1>1, <1>2, <1>3, <1>4 DEF InstallationInv

(* ... and every step keeps it.                                            *)
LEMMA InstallationStep ==
  ASSUME PublicFacts, ArchiveAssumption, InstallationInv, [Next]_vars
  PROVE  InstallationInv'
<1>1. CASE UNCHANGED vars
  <2>1. UNCHANGED <<archive, installing, preparer, public>>
    BY <1>1 DEF vars
  <2>2. OutcomeInv'
    BY <2>1, OutcomeSame DEF InstallationInv, OutcomeInv, public, preparer
  <2> QED BY <2>1, <2>2, HelpersRest DEF Others, public
<1>2. CASE ArchiveNext /\ UNCHANGED <<installing, preparer, public>>
  <2>1. OutcomeInv'
    BY <1>2, OutcomeSame DEF InstallationInv, OutcomeInv, public, preparer
  <2> QED
    BY <1>2, <2>1, ArchiveKeeps, InstallSame, PrepareSame DEF InstallationInv, installing
<1>3. CASE Alter /\ UNCHANGED <<archive, preparer, public>>
  <2>1. UNCHANGED <<coordinate, installer>>
    BY <1>3 DEF Alter
  <2>2. OutcomeInv'
    BY <1>3, OutcomeSame DEF InstallationInv, OutcomeInv, public, preparer
  <2> QED
    BY <1>3, <2>1, <2>2, InstallSame, PrepareSame, TrieSame DEF InstallationInv
<1>4. CASE \/ ValidateTarget \/ StartFetch \/ CurlRuns \/ CurlExits \/ ReadChunk
           \/ CheckFetch \/ CheckDigest
  <2>1. UNCHANGED Others
    BY <1>4 DEF ValidateTarget, StartFetch, CurlRuns, CurlExits, ReadChunk, CheckFetch,
       CheckDigest
  <2> QED BY <1>4, <2>1, FetchTells, HelpersRest DEF InstallationInv
<1>5. CASE Reserve \/ Occupy
  <2>1. UNCHANGED Others
    BY <1>5 DEF Reserve, Occupy
  <2> QED BY <1>5, <2>1, ReserveTells, HelpersRest DEF InstallationInv
<1>6. CASE CheckBinding \/ PublishFile \/ FinishPublish
  <2>1. UNCHANGED Others
    BY <1>6 DEF CheckBinding, PublishFile, FinishPublish
  <2> QED BY <1>6, <2>1, PublishTells, HelpersRest DEF InstallationInv
<1> QED
  BY <1>1, <1>2, <1>3, <1>4, <1>5, <1>6, InstallStepKeeps, PrepareStepKeeps, AwaitKeeps
  DEF Next, PublicStep

(* So it holds in every state of every behaviour.                          *)
LEMMA InstallationInvariant == Spec => []InstallationInv
<1>1. PublicFacts
  BY PublicAssumption, PreparerAssumption, PublishedAssumption DEF PublicFacts
<1>2. Init => InstallationInv
  BY <1>1, InstallationInit, InstallerAssumption
<1>3. InstallationInv /\ [Next]_vars => InstallationInv'
  BY <1>1, InstallationStep, ArchiveAssumption
<1> QED BY <1>2, <1>3, PTL DEF Spec

-----------------------------------------------------------------------------
(* Whatever is visible at a coordinate was declared by the index that its  *)
(* installer had verified, for any number of calls, and any assets that    *)
(* change after their verification (install, verify_checksum).             *)
THEOREM InstallsDeclared == Spec => []InstalledIsDeclared
<1>1. InstallationInv => InstalledIsDeclared
  <2> SUFFICES ASSUME InstallInv, NEW n \in DOMAIN coordinate.files
               PROVE  /\ n \in Published /\ coordinate.by \in Installers
                      /\ coordinate.files[n] = index[coordinate.by][n]
    BY DEF InstallationInv, InstalledIsDeclared
  <2>1. coordinate.files # NoFiles
    BY DEF NoFiles
  <2> QED BY <2>1 DEF InstallInv, CoordinateOK
<1> QED BY <1>1, InstallationInvariant, PTL

(* A call that returns success leaves the whole release, and one that      *)
(* reports an error leaves nothing of its own, whatever other calls do     *)
(* with the same coordinate (install).                                     *)
THEOREM InstallsWhole == Spec => []InstalledIsWhole
<1>1. InstallationInv => InstalledIsWhole
  <2> SUFFICES ASSUME InstallInv, NEW i \in Installers
               PROVE  /\ At(i, "installed") =>
                           coordinate.by = i /\ DOMAIN coordinate.files = Published
                      /\ At(i, "failed") => coordinate.by # i /\ staging[i] = NoFiles
    BY DEF InstallationInv, InstalledIsWhole
  <2>1. StagingOK(i) /\ i # Nobody
    BY InstallerAssumption DEF InstallInv, InstallerAssumption
  <2>2. At(i, "failed") => coordinate.by # i
    BY <2>1 DEF At, InstallInv, CoordinateOK
  <2> QED BY <2>1, <2>2 DEF At, StagingOK
<1> QED BY <1>1, InstallationInvariant, PTL

(* Sidecars are complete as soon as they are visible, and of any number of *)
(* calls on one coordinate at most one reports success, with the artifacts *)
(* and all their sidecars there (prepare_repository, _write_new_sidecar).  *)
THEOREM PreparesComplete == Spec => []PreparedComplete
<1>1. InstallationInv => PreparedComplete
  <2> SUFFICES ASSUME PrepareInv
               PROVE  PreparedComplete
    BY DEF InstallationInv
  <2>1. \A k \in Preparers : kpc[k] = "prepared" =>
          WroteFirst(k) /\ DOMAIN sidecars = Sidecars /\ HashesHold(Present)
    BY OrderFacts, PreparerAssumption DEF PrepareInv, PreparerOK, WroteFirst
  <2> QED BY <2>1 DEF PrepareInv, PreparedComplete, PreparedIsComplete
<1> QED BY <1>1, InstallationInvariant, PTL

(* OK is printed only with exactly the pinned files in the reserved        *)
(* directory, nothing else is ever written there, and an error that leaves *)
(* the reservation behind says so, wherever the installer, its downloads   *)
(* and its helpers fail, are interrupted or time out                       *)
(* (install_public_release).                                               *)
THEOREM OutcomeIsTold == Spec => []OutcomeTellsTarget
<1>1. InstallationInv => OutcomeTellsTarget
  BY DEF InstallationInv, OutcomeInv
<1> QED BY <1>1, InstallationInvariant, PTL

(* An archive that is accepted unpacks to what it lists on any file system *)
(* that folds case or Unicode forms: for any alphabet, any folding, any    *)
(* depth, and entries in any order (register_archive_path,                 *)
(* validate_archive_path_graph).                                           *)
THEOREM AcceptedUnpacks == Spec => []ArchiveUnpacks
<1>1. InstallationInv => ArchiveUnpacks
  BY SpelledOnce, ArchiveAssumption DEF InstallationInv
<1> QED BY <1>1, InstallationInvariant, PTL
=============================================================================
