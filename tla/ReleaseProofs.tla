--------------------------- MODULE ReleaseProofs ---------------------------
(* Proofs about the release-preparation commands, for any coordinate, any  *)
(* order of the files and any number of edits by others: what a bundle is  *)
(* built from was in the repository together, what a command leaves behind *)
(* is told, a starter fits the commit it is bound to, the SBOM pairs that  *)
(* are verified complete the ones that were generated, and those the       *)
(* official CLI accepts were in place together.                            *)
EXTENDS ReleasePreparation, FiniteSetTheorems, SequenceTheorems, TLAPS

(***************************************************************************)
(* The upload bundle.  A stamp that is met again was not given to an edit  *)
(* in between, so what carries it has not changed since it was recorded.   *)
(***************************************************************************)
Walking == {"stat", "read"}
Gathered == {"secret", "list", "export", "checks", "signatures", "mkdir", "made", "bundle",
             "receipts", "readback", "receipt", "compare"}
Reviewed == Gathered \ {"secret", "list", "export", "checks"}
Trusted == Reviewed \ {"signatures"}
Unwritten == {"start", "walk", "stat", "read", "secret", "list", "export", "checks",
              "signatures", "mkdir", "made"}

(* Stamps and directories come from edits so far; contents are functions.  *)
StampsInv ==
  /\ edits \in Nat /\ repository.dir \in 0 .. edits
  /\ \A f \in DOMAIN repository.files : repository.files[f].stamp \in 0 .. edits
  /\ BytesOf(repository.files) \in past
  /\ \A m \in past : m = [f \in DOMAIN m |-> m[f]]
  /\ contents = [f \in DOMAIN contents |-> contents[f]]
  /\ DOMAIN output = {"by", "bundle", "receipt"}

(* A walk under way has seen, or has still to see, every file there is, if *)
(* no directory has changed since the listing; and so has the first walk.  *)
WalkInv ==
  /\ walk \in 1 .. 3
  /\ bpc = "start" => walk = 1
  /\ bpc = "walk" => walk # 1
  /\ bpc \in Walking =>
       /\ DOMAIN stats = {"files", "dir"} /\ stats.dir \in 0 .. edits
       /\ \A f \in DOMAIN stats.files : stats.files[f] \in 0 .. edits
       /\ repository.dir = stats.dir =>
            DOMAIN repository.files = DOMAIN stats.files \cup todo
       /\ bpc = "stat" => todo \cap DOMAIN stats.files = {}
       /\ bpc = "read" => walk = 2 /\ \E f \in todo : todo \cap DOMAIN stats.files = {f}
  /\ bpc \in Walking \cup {"walk"} /\ walk # 1 =>
       /\ first.dir \in 0 .. edits
       /\ \A f \in DOMAIN first.files : first.files[f] \in 0 .. edits
       /\ repository.dir = first.dir => DOMAIN repository.files = DOMAIN first.files

(* What was read is what is there, as long as the stamp is the one seen.   *)
StillThere(seen) ==
  \A f \in DOMAIN contents \cap DOMAIN repository.files :
    repository.files[f].stamp = seen[f] => repository.files[f].bytes = contents[f]

(* m, the repository as the third walk began, is what was read, unless the *)
(* third walk has met, or will meet, a stamp or directory the first did not. *)
Agrees(m) ==
  /\ stats.dir = first.dir => DOMAIN m = DOMAIN first.files
  /\ \A f \in DOMAIN m \cap DOMAIN contents :
       /\ f \in DOMAIN stats.files /\ stats.files[f] = first.files[f] => m[f] = contents[f]
       /\ f \in todo \cap DOMAIN repository.files /\ repository.files[f].stamp = first.files[f]
            => m[f] = contents[f]

ContentsInv ==
  /\ bpc = "start" \/ (bpc \in Walking /\ walk = 1) \/ (bpc = "walk" /\ walk = 2) =>
       DOMAIN contents = {}
  /\ bpc \in Walking /\ walk = 2 =>
       DOMAIN contents = DOMAIN stats.files \ todo /\ StillThere(stats.files)
  /\ bpc \in Walking \cup {"walk"} /\ walk = 3 => DOMAIN contents = DOMAIN first.files
  /\ bpc = "walk" /\ walk = 3 => StillThere(first.files)
  /\ bpc \in Walking /\ walk = 3 => \E m \in past : Agrees(m)
  /\ bpc \in Gathered \/ told = "ok" => contents \in past

(* What was checked stays what is used, and what is written is told.       *)
CheckedInv ==
  /\ job \in {"build", "verify"} /\ (told # "none" => bpc = "end")
  /\ bpc \in {"mkdir", "made", "bundle", "receipts", "readback"} => job = "build"
  /\ bpc \in {"receipt", "compare"} => job = "verify"
  /\ bpc \in Reviewed \/ told = "ok" =>
       \A n \in Payloads : contents[Part(n, "payload")] = Manifest[n]
  /\ bpc \in Trusted \/ told = "ok" => OnlyExpected(keys)
  /\ job = "build" /\ (bpc \in Unwritten \/ told = "error") =>
       output.bundle = Missing /\ output.receipt = Missing
  /\ job = "verify" /\ told = "ok" => claimed = Receipt(Zip(Entries))

BundleInv == StampsInv /\ WalkInv /\ ContentsInv /\ CheckedInv

(* The receipt follows from the contents and the tool.                     *)
LEMMA ReceiptSame ==
  ASSUME UNCHANGED <<contents, tool>>
  PROVE  Receipt(Zip(Entries))' = Receipt(Zip(Entries))
BY DEF Receipt, Zip, Entries, Excluded

(* A walk begins with the listing, which nothing has been read of yet. *)
LEMMA ListingSteps ==
  ASSUME BundleInv, StartWalk \/ OutputExists
  PROVE  BundleInv'
<1> USE ReceiptSame DEF BundleInv, StampsInv, WalkInv, ContentsInv, CheckedInv, Walking, Gathered,
                        Reviewed,
          Trusted, Unwritten, StillThere, Agrees, BytesOf, others, reading, BAt, BGoto, Refuse,
          Missing, Nothing
<1>1. CASE StartWalk
  BY <1>1 DEF StartWalk
<1>2. CASE OutputExists
  BY <1>2 DEF OutputExists
<1> QED  BY <1>1, <1>2

(* The key and the contents are checked; what was read is what is checked. *)
LEMMA InspectionSteps ==
  ASSUME BundleInv, InspectSecrets \/ ListKeys \/ ExportKey \/ CheckContents \/ CheckSignatures
  PROVE  BundleInv'
<1> USE ReceiptSame DEF BundleInv, StampsInv, WalkInv, ContentsInv, CheckedInv, Walking, Gathered,
                        Reviewed,
          Trusted, Unwritten, StillThere, Agrees, BytesOf, others, reading, BAt, BGoto, Refuse,
          Require, ContentsChecked
<1>1. CASE InspectSecrets
  BY <1>1 DEF InspectSecrets
<1>2. CASE ListKeys
  BY <1>2 DEF ListKeys
<1>3. CASE ExportKey
  BY <1>3 DEF ExportKey
<1>4. CASE CheckContents
  BY <1>4 DEF CheckContents
<1>5. CASE CheckSignatures
  BY <1>5 DEF CheckSignatures
<1> QED  BY <1>1, <1>2, <1>3, <1>4, <1>5

(* Only MakeOutput and BindOutput come before the first write, and an error after
   it is a residue. *)
LEMMA WritingSteps ==
  ASSUME BundleInv, MakeOutput \/ BindOutput \/ WriteBundle \/ WriteReceipt \/ FailBundle
  PROVE  BundleInv'
<1> USE ReceiptSame DEF BundleInv, StampsInv, WalkInv, ContentsInv, CheckedInv, Walking, Gathered,
                        Reviewed,
          Trusted, Unwritten, StillThere, Agrees, BytesOf, others, reading, BAt, BGoto, Refuse,
          Missing, Created
<1>1. CASE MakeOutput
  BY <1>1 DEF MakeOutput
<1>2. CASE BindOutput
  BY <1>2 DEF BindOutput
<1>3. CASE WriteBundle
  BY <1>3 DEF WriteBundle
<1>4. CASE WriteReceipt
  BY <1>4 DEF WriteReceipt
<1>5. CASE FailBundle
  BY <1>5 DEF FailBundle
<1> QED  BY <1>1, <1>2, <1>3, <1>4, <1>5

(* An edit of the repository marks what it touches with its own number.    *)
LEMMA EditMarked ==
  ASSUME BundleInv, BundleEdit, EditRepository
  PROVE  /\ edits' = edits + 1 /\ repository'.dir \in {repository.dir, edits'}
         /\ repository'.dir = repository.dir => DOMAIN repository'.files = DOMAIN repository.files
         /\ \A f \in DOMAIN repository'.files :
              \/ repository'.files[f].stamp = edits'
              \/ f \in DOMAIN repository.files /\ repository'.files[f] = repository.files[f]
         /\ past' = past \cup {BytesOf(repository'.files)}
<1>1. edits' = edits + 1 /\ past' = past \cup {BytesOf(repository'.files)}
  BY DEF BundleEdit, EditRepository
<1>2. edits \in Nat /\ repository.dir \in 0 .. edits
  BY DEF BundleInv, StampsInv
<1>3. PICK f \in Needed \cup Optional :
        (\E bytes \in {Correct(f), <<f[1], 1>>} : Put(f, bytes)) \/ Drop(f)
  BY DEF EditRepository
<1>4. CASE Drop(f)
  BY <1>1, <1>2, <1>4 DEF Drop
<1>5. ASSUME NEW bytes, Put(f, bytes)
      PROVE  /\ repository'.dir \in {repository.dir, edits'}
             /\ repository'.dir = repository.dir =>
                  DOMAIN repository'.files = DOMAIN repository.files
             /\ \A g \in DOMAIN repository'.files :
                  \/ repository'.files[g].stamp = edits'
                  \/ g \in DOMAIN repository.files /\ repository'.files[g] = repository.files[g]
  BY <1>1, <1>2, <1>5 DEF Put
<1> QED  BY <1>1, <1>3, <1>4, <1>5

(* An edit of others: what it touches gets a stamp that was never seen.    *)
LEMMA EditStep ==
  ASSUME BundleInv, BundleEdit
  PROVE  BundleInv'
<1> USE DEF BundleInv
<1>1. edits' = edits + 1 /\ edits \in Nat
      /\ UNCHANGED <<job, bpc, walk, todo, stats, first, contents, keys, claimed, told>>
  BY DEF BundleEdit, reading, StampsInv
<1>2. CASE EditRepository
  <2>1. UNCHANGED <<home, tool, output>>
    BY <1>2 DEF EditRepository
  <2>2. /\ repository'.dir \in {repository.dir, edits'}
        /\ repository'.dir = repository.dir => DOMAIN repository'.files = DOMAIN repository.files
        /\ \A f \in DOMAIN repository'.files :
             \/ repository'.files[f].stamp = edits'
             \/ f \in DOMAIN repository.files /\ repository'.files[f] = repository.files[f]
        /\ past' = past \cup {BytesOf(repository'.files)}
    BY <1>2, EditMarked
  <2>3. StampsInv'
    BY <1>1, <2>1, <2>2 DEF StampsInv, BytesOf
  <2>4. WalkInv'
    BY <1>1, <2>2 DEF WalkInv, StampsInv
  <2>5. bpc \in Walking /\ walk = 2 => StillThere(stats.files)'
    BY <1>1, <2>2 DEF ContentsInv, WalkInv, StillThere
  <2>6. bpc = "walk" /\ walk = 3 => StillThere(first.files)'
    BY <1>1, <2>2 DEF ContentsInv, WalkInv, StillThere
  <2>7. ASSUME bpc \in Walking, walk = 3
        PROVE  \E m \in past' : Agrees(m)'
    <3>1. PICK m \in past : Agrees(m)
      BY <2>7 DEF ContentsInv
    <3>2. DOMAIN contents = DOMAIN first.files
          /\ \A f \in DOMAIN first.files : first.files[f] \in 0 .. edits
      BY <2>7 DEF ContentsInv, WalkInv
    <3>3. Agrees(m)'
      BY <1>1, <2>2, <3>1, <3>2 DEF Agrees
    <3> QED  BY <2>2, <3>1, <3>3
  <2>8. ContentsInv'
    BY <1>1, <2>2, <2>5, <2>6, <2>7 DEF ContentsInv
  <2>9. CheckedInv'
    BY <1>1, <2>1, ReceiptSame DEF CheckedInv
  <2> QED  BY <2>3, <2>4, <2>8, <2>9
<1>3. CASE EditHome \/ EditBundleOutput \/ EditTool
  <2>1. UNCHANGED <<repository, past>>
    BY <1>3 DEF EditHome, EditBundleOutput, EditTool
  <2>2. DOMAIN output' = DOMAIN output
        /\ (output.bundle = Missing /\ output.receipt = Missing =>
              output'.bundle = Missing /\ output'.receipt = Missing)
    BY <1>3 DEF EditHome, EditBundleOutput, EditTool, StampsInv, Missing
  <2>3. StampsInv' /\ WalkInv' /\ ContentsInv'
    BY <1>1, <2>1, <2>2
    DEF StampsInv, WalkInv, ContentsInv, StillThere, Agrees, BytesOf
  <2>4. ~(job = "verify" /\ told = "ok")
    BY DEF BundleEdit, Active, CheckedInv
  <2>5. CheckedInv'
    BY <1>1, <2>2, <2>4 DEF CheckedInv
  <2> QED  BY <2>3, <2>5
<1> QED  BY <1>2, <1>3 DEF BundleEdit

(* One entry is looked at: its stamp is noted before it may be read.       *)
LEMMA StatStep ==
  ASSUME BundleInv, StatEntry
  PROVE  BundleInv'
<1> USE DEF BundleInv
<1>1. /\ bpc = "stat"
      /\ UNCHANGED <<others, output, walk, first, contents, keys>>
  BY DEF StatEntry, BAt
<1>2. PICK f \in todo :
        \/ /\ f \in DOMAIN repository.files
           /\ stats' = [stats EXCEPT !.files =
                          [g \in DOMAIN @ \cup {f} |->
                             IF g = f THEN repository.files[f].stamp ELSE @[g]]]
           /\ IF walk = 2 THEN bpc' = "read" /\ UNCHANGED todo
                          ELSE todo' = todo \ {f} /\ UNCHANGED bpc
           /\ UNCHANGED told
        \/ bpc' = "end" /\ told' = "error" /\ UNCHANGED <<todo, stats>>
  BY DEF StatEntry, BGoto, Refuse
<1>3. CASE bpc' = "end" /\ told' = "error" /\ UNCHANGED <<todo, stats>>
  BY <1>1, <1>3
  DEF StampsInv, WalkInv, ContentsInv, CheckedInv, Walking, Gathered, Reviewed, Trusted,
      Unwritten, BytesOf, others
<1>4. CASE /\ f \in DOMAIN repository.files
           /\ stats' = [stats EXCEPT !.files =
                          [g \in DOMAIN @ \cup {f} |->
                             IF g = f THEN repository.files[f].stamp ELSE @[g]]]
           /\ IF walk = 2 THEN bpc' = "read" /\ UNCHANGED todo
                          ELSE todo' = todo \ {f} /\ UNCHANGED bpc
           /\ UNCHANGED told
  <2>1. /\ DOMAIN stats' = {"files", "dir"} /\ stats'.dir = stats.dir
        /\ DOMAIN stats'.files = DOMAIN stats.files \cup {f}
        /\ stats'.files[f] = repository.files[f].stamp
        /\ \A g \in DOMAIN stats.files : g # f => stats'.files[g] = stats.files[g]
    BY <1>1, <1>4 DEF WalkInv, Walking
  <2>2. f \notin DOMAIN stats.files /\ walk \in 1 .. 3 /\ bpc \in Walking /\ bpc' \in Walking
    BY <1>1, <1>2, <1>4 DEF WalkInv, Walking
  <2>3. StampsInv' /\ CheckedInv'
    BY <1>1, <1>4, <2>2
    DEF StampsInv, CheckedInv, Walking, Gathered, Reviewed, Trusted, Unwritten, BytesOf, others
  <2>4. WalkInv'
    <3>1. repository.dir = stats.dir => DOMAIN repository.files = DOMAIN stats'.files \cup todo'
      BY <1>1, <1>4, <2>1, <2>2 DEF WalkInv
    <3>2. walk = 2 => todo' \cap DOMAIN stats'.files = {f} /\ f \in todo'
      BY <1>1, <1>4, <2>1, <2>2 DEF WalkInv
    <3>3. walk # 2 => todo' \cap DOMAIN stats'.files = {}
      BY <1>1, <1>4, <2>1, <2>2 DEF WalkInv
    <3> QED
      BY <1>1, <1>4, <2>1, <2>2, <3>1, <3>2, <3>3 DEF WalkInv, StampsInv, Walking, others
  <2>5. ContentsInv'
    <3>1. CASE walk = 1
      BY <1>1, <1>4, <3>1 DEF ContentsInv, Walking, Gathered, others
    <3>2. CASE walk = 2
      <4>1. DOMAIN contents = DOMAIN stats'.files \ todo'
        BY <1>4, <2>1, <2>2, <3>2 DEF ContentsInv
      <4>2. StillThere(stats.files)'
        BY <1>1, <2>1, <2>2, <3>2 DEF ContentsInv, StillThere, others
      <4> QED  BY <1>1, <1>4, <3>2, <4>1, <4>2 DEF ContentsInv, Walking, Gathered, others
    <3>3. CASE walk = 3
      <4>1. PICK m \in past : Agrees(m)
        BY <2>2, <3>3 DEF ContentsInv
      <4>2. Agrees(m)'
        BY <1>1, <1>4, <2>1, <2>2, <3>3, <4>1 DEF Agrees, others
      <4> QED
        BY <1>1, <1>4, <2>2, <3>3, <4>1, <4>2 DEF ContentsInv, Walking, Gathered, others
    <3> QED  BY <2>2, <3>1, <3>2, <3>3
  <2> QED  BY <2>3, <2>4, <2>5
<1> QED  BY <1>2, <1>3, <1>4

(* The bytes are read while the file still has the stamp it was seen with. *)
LEMMA ReadStep ==
  ASSUME BundleInv, ReadEntry
  PROVE  BundleInv'
<1> USE DEF BundleInv
<1>1. /\ bpc = "read" /\ walk = 2
      /\ UNCHANGED <<others, output, walk, stats, first, keys>>
  BY DEF ReadEntry, BAt, WalkInv, Walking
<1>2. PICK f \in todo \cap DOMAIN stats.files :
        \/ /\ f \in DOMAIN repository.files /\ repository.files[f].stamp = stats.files[f]
           /\ contents' = [g \in DOMAIN contents \cup {f} |->
                             IF g = f THEN repository.files[f].bytes ELSE contents[g]]
           /\ todo' = todo \ {f} /\ bpc' = "stat" /\ UNCHANGED told
        \/ bpc' = "end" /\ told' = "error" /\ UNCHANGED <<todo, contents>>
  BY DEF ReadEntry, BGoto, Refuse
<1>3. todo \cap DOMAIN stats.files = {f}
  BY <1>1, <1>2 DEF WalkInv, Walking
<1>4. CASE bpc' = "end" /\ told' = "error" /\ UNCHANGED <<todo, contents>>
  BY <1>1, <1>4
  DEF StampsInv, WalkInv, ContentsInv, CheckedInv, Walking, Gathered, Reviewed, Trusted,
      Unwritten, BytesOf, others
<1>5. CASE /\ f \in DOMAIN repository.files /\ repository.files[f].stamp = stats.files[f]
           /\ contents' = [g \in DOMAIN contents \cup {f} |->
                             IF g = f THEN repository.files[f].bytes ELSE contents[g]]
           /\ todo' = todo \ {f} /\ bpc' = "stat" /\ UNCHANGED told
  <2>1. StampsInv' /\ CheckedInv'
    BY <1>1, <1>5
    DEF StampsInv, CheckedInv, Walking, Gathered, Reviewed, Trusted, Unwritten, BytesOf, others
  <2>2. WalkInv'
    BY <1>1, <1>3, <1>5 DEF WalkInv, Walking, others
  <2>3. DOMAIN contents' = DOMAIN stats.files \ todo'
    BY <1>1, <1>3, <1>5 DEF ContentsInv, Walking
  <2>4. StillThere(stats.files)'
    BY <1>1, <1>5 DEF ContentsInv, Walking, StillThere, others
  <2>5. ContentsInv'
    BY <1>1, <1>5, <2>3, <2>4 DEF ContentsInv, CheckedInv, Walking, Gathered, others
  <2> QED  BY <2>1, <2>2, <2>5
<1> QED  BY <1>2, <1>4, <1>5

(* A walk ends: the first fixes what there is, the third has found it again,
   and what was read in between was there together as the third began. *)
LEMMA EndStep ==
  ASSUME BundleInv, EndWalk
  PROVE  BundleInv'
<1> USE DEF BundleInv
<1>1. /\ bpc = "stat" /\ todo = {} /\ bpc \in Walking /\ walk \in 1 .. 3 /\ told = "none"
      /\ UNCHANGED <<others, output, todo, stats, contents, keys>>
  BY DEF EndWalk, BAt, Walking, WalkInv, CheckedInv
<1>2. CASE bpc' = "end" /\ told' = "error" /\ UNCHANGED <<walk, first>>
  BY <1>1, <1>2
  DEF StampsInv, WalkInv, ContentsInv, CheckedInv, Walking, Gathered, Reviewed, Trusted,
      Unwritten, BytesOf, others
<1>3. CASE /\ repository.dir = stats.dir /\ (walk = 1 \/ stats = first)
           /\ bpc' = (IF walk = 3 THEN "secret" ELSE "walk") /\ UNCHANGED told
           /\ walk' = (IF walk = 3 THEN 1 ELSE walk + 1)
           /\ first' = (IF walk = 1 THEN stats ELSE first)
  <2>1. StampsInv' /\ CheckedInv'
    BY <1>1, <1>3
    DEF StampsInv, CheckedInv, Walking, Gathered, Reviewed, Trusted, Unwritten, BytesOf, others
  <2>2. DOMAIN repository.files = DOMAIN stats.files
    BY <1>1, <1>3 DEF WalkInv
  <2>3. WalkInv'
    BY <1>1, <1>3, <2>2 DEF WalkInv, Walking, others
  <2>4. CASE walk = 1
    BY <1>1, <1>3, <2>1, <2>3, <2>4 DEF ContentsInv, Walking, Gathered, others
  <2>5. CASE walk = 2
    <3>1. StillThere(stats.files) /\ DOMAIN contents = DOMAIN stats.files
      BY <1>1, <2>5 DEF ContentsInv
    <3>2. StillThere(first.files)' /\ DOMAIN contents' = DOMAIN first'.files
      BY <1>1, <1>3, <2>5, <3>1 DEF StillThere, others
    <3> QED  BY <1>1, <1>3, <2>1, <2>3, <2>5, <3>2 DEF ContentsInv, Walking, Gathered
  <2>6. CASE walk = 3
    <3>1. PICK m \in past : Agrees(m)
      BY <1>1, <2>6 DEF ContentsInv
    <3>2. stats = first /\ DOMAIN contents = DOMAIN first.files
      BY <1>1, <1>3, <2>6 DEF ContentsInv
    <3>3. DOMAIN m = DOMAIN contents /\ \A f \in DOMAIN contents : m[f] = contents[f]
      BY <3>1, <3>2 DEF Agrees
    <3>4. m = [f \in DOMAIN m |-> m[f]] /\ contents = [f \in DOMAIN contents |-> contents[f]]
      BY DEF StampsInv
    <3>5. contents \in past
      BY <3>3, <3>4
    <3> QED  BY <1>1, <1>3, <2>1, <2>3, <2>6, <3>5 DEF ContentsInv, Walking, Gathered, others
  <2> QED  BY <1>1, <2>1, <2>3, <2>4, <2>5, <2>6
<1> QED  BY <1>2, <1>3 DEF EndWalk, BGoto, Refuse, SameWalk

(* The end of a build, and a verify from its start to its end: "ok" only   *)
(* over what was written or compared.                                      *)
LEMMA ReadBackStep ==
  ASSUME BundleInv, ReadBack
  PROVE  BundleInv'
<1>1. /\ bpc = "readback" /\ bpc' = "end" /\ told' \in {"ok", "residue"}
      /\ UNCHANGED <<others, output, reading, contents, keys>>
  BY DEF ReadBack, BAt, Refuse, BGoto
<1>2. job' = "build"
  BY <1>1 DEF BundleInv, CheckedInv, others
<1> QED
  BY <1>1, <1>2
  DEF BundleInv, StampsInv, WalkInv, ContentsInv, CheckedInv, Walking, Gathered, Reviewed,
      Trusted, Unwritten, BytesOf, others, reading

(* A verify begins with nothing read, and compares with what it read itself. *)
LEMMA VerifySteps ==
  ASSUME BundleInv, StartVerify \/ ReadReceipt \/ CompareBundle
  PROVE  BundleInv'
<1> USE DEF BundleInv, StampsInv, WalkInv, ContentsInv, CheckedInv, Walking, Gathered, Reviewed,
            Trusted, Unwritten, BytesOf, BAt, BGoto, Refuse, reading
<1>1. CASE StartVerify
  BY <1>1 DEF StartVerify, Nothing
<1>2. CASE ReadReceipt
  <2>1. /\ bpc = "receipt" /\ told = "none" /\ told' \in {"none", "error"}
        /\ bpc' = (IF told' = "none" THEN "compare" ELSE "end")
        /\ UNCHANGED <<repository, home, tool, edits, past, job, output, reading, contents,
                       keys>>
    BY <1>2 DEF ReadReceipt, Require
  <2> QED  BY <2>1
<1>3. CASE CompareBundle
  <2>1. /\ bpc = "compare" /\ bpc' = "end" /\ told' \in {"ok", "error"}
        /\ UNCHANGED <<others, output, reading, contents, keys>>
        /\ told' = "ok" => output.bundle = Zip(Entries) /\ claimed = Receipt(output.bundle)
    BY <1>3 DEF CompareBundle
  <2>2. told' = "ok" => claimed' = Receipt(Zip(Entries))'
    BY <2>1, ReceiptSame DEF others
  <2> QED  BY <2>1, <2>2 DEF others
<1> QED  BY <1>1, <1>2, <1>3

(* The commands begin with nothing edited, read or written.                *)
LEMMA BundleStarts ==
  ASSUME BundleInit
  PROVE  BundleInv
<1>1. \A f \in DOMAIN repository.files : repository.files[f].stamp = 0
  BY DEF BundleInit
<1>2. repository.dir = 0 /\ edits = 0 /\ bpc = "start" /\ told = "none" /\ job = "build"
      /\ walk = 1 /\ contents = Nothing /\ past = {BytesOf(repository.files)}
      /\ output = [by |-> "nobody", bundle |-> Missing, receipt |-> Missing]
  BY DEF BundleInit
<1>3. StampsInv
  BY <1>1, <1>2 DEF StampsInv, BytesOf, Nothing
<1>4. WalkInv /\ ContentsInv /\ CheckedInv
  BY <1>2 DEF WalkInv, ContentsInv, CheckedInv, Walking, Gathered, Reviewed, Trusted, Nothing
<1> QED  BY <1>3, <1>4 DEF BundleInv

LEMMA BundleStutters ==
  ASSUME BundleInv, UNCHANGED bundling
  PROVE  BundleInv'
BY ReceiptSame
DEF bundling, others, reading, BundleInv, StampsInv, WalkInv, ContentsInv, CheckedInv, Walking,
    Gathered, Reviewed, Trusted, Unwritten, StillThere, Agrees, BytesOf

LEMMA BundleInvariant == PreparationSpec => []BundleInv
<1>1. PreparationInit => BundleInv
  BY BundleStarts DEF PreparationInit, BundleIdle
<1>2. BundleInv /\ [PreparationNext]_preparing => BundleInv'
  <2> SUFFICES ASSUME BundleInv, [PreparationNext]_preparing  PROVE BundleInv'
    OBVIOUS
  <2>1. CASE BundleNext
    BY <2>1, ListingSteps, StatStep, ReadStep, EndStep, InspectionSteps, WritingSteps,
       ReadBackStep, VerifySteps, EditStep DEF BundleNext
  <2>2. CASE UNCHANGED bundling
    BY <2>2, BundleStutters
  <2> QED  BY <2>1, <2>2 DEF PreparationNext, preparing
<1> QED  BY <1>1, <1>2, PTL DEF PreparationSpec

(* Whatever others edit between the three walks, the inspections and the checks, a
   build or a verify that succeeds worked on bytes that were in the repository
   together, on the reviewed payloads, and on the one usable key: _read_repository,
   _verify_public_gpg_home, _prepare_staging. *)
THEOREM BundlesTogether == PreparationSpec => []BundledTogether
<1>1. BundleInv => BundledTogether
  BY DEF BundleInv, ContentsInv, CheckedInv, BundledTogether
<1> QED  BY <1>1, BundleInvariant, PTL

(* A build that fails after its first write says that there is a residue, and a
   verify accepts only the receipt of what it read: _write_outputs, verify_bundle. *)
THEOREM ResidueTold == PreparationSpec => []ResidueIsTold
<1>1. BundleInv => ResidueIsTold
  BY DEF BundleInv, CheckedInv, ResidueIsTold
<1> QED  BY <1>1, BundleInvariant, PTL

-----------------------------------------------------------------------------
(***************************************************************************)
(* The pilot starter.  Its output directory is its own from mkdir on, and  *)
(* the way to an error leads through the clean-up.                         *)
(***************************************************************************)
StarterInv ==
  /\ DOMAIN out = {"by", "files"}
  /\ out = [by |-> out.by, files |-> out.files]
  /\ out.files = [n \in DOMAIN out.files |-> out.files[n]]
  /\ out.by # "us" => DOMAIN out.files = {}
  /\ spc \in {"poms", "parents", "text", "mkdir"} => out.by # "us"
  /\ phase \in {"prepare", "create"} /\ spc \in {"head", "status", "bind"} => out.by # "us"
  /\ spc \in {"write", "cleanup"} => out.by = "us"
  /\ spc = "error" => FailureLeavesNothing

(* Reading and checking: a refusal while the directory is ours leads to the clean-up. *)
LEMMA ReadingSteps ==
  ASSUME StarterInv,
         ReadPom \/ FollowParent \/ CheckText \/ TakeHead \/ TakeStatus \/ BindPom \/ CheckPaths
  PROVE  StarterInv'
<1> USE DEF StarterInv, Demand, Deny, SGoto, SAt, FailureLeavesNothing, command
<1>1. CASE ReadPom
  BY <1>1 DEF ReadPom
<1>2. CASE FollowParent
  BY <1>2 DEF FollowParent
<1>3. CASE CheckText
  BY <1>3 DEF CheckText
<1>4. CASE TakeHead
  BY <1>4 DEF TakeHead
<1>5. CASE TakeStatus
  BY <1>5 DEF TakeStatus
<1>6. CASE BindPom
  BY <1>6 DEF BindPom
<1>7. CASE CheckPaths
  BY <1>7 DEF CheckPaths
<1> QED  BY <1>1, <1>2, <1>3, <1>4, <1>5, <1>6, <1>7

(* The directory is made once, by us or not at all, and filled only by us.  *)
LEMMA WritingOutSteps ==
  ASSUME StarterInv, MakeRoot \/ WriteFile \/ FinishWriting \/ VerifyOutput
  PROVE  StarterInv'
<1> USE DEF StarterInv, SAt, SGoto, command
<1>1. CASE MakeRoot
  <2>1. CASE out.by = "nobody" /\ out' = [out EXCEPT !.by = "us"] /\ spc' = "write"
    BY <1>1, <2>1 DEF MakeRoot
  <2>2. CASE out.by # "nobody" /\ spc' = "error" /\ UNCHANGED out
    <3>1. UNCHANGED phase /\ out.by # "us" /\ DOMAIN out.files = {}
      BY <1>1 DEF MakeRoot
    <3> QED  BY <2>2, <3>1 DEF FailureLeavesNothing
  <2> QED  BY <1>1, <2>1, <2>2 DEF MakeRoot
<1>2. CASE WriteFile
  BY <1>2 DEF WriteFile, WithFile, Deny
<1>3. CASE FinishWriting \/ VerifyOutput
  BY <1>3 DEF FinishWriting, VerifyOutput, FailureLeavesNothing, Demand, Deny
<1> QED  BY <1>1, <1>2, <1>3

(* The clean-up goes on until no file is ours; the directory goes if it is empty. *)
LEMMA CleanUpStep ==
  ASSUME StarterInv, CleanUp
  PROVE  StarterInv'
<1> DEFINE mine == {n \in DOMAIN out.files : out.files[n] = "us"}
<1>1. spc = "cleanup"
  BY DEF CleanUp, SAt
<1>2. CASE \E n \in mine : out' = [out EXCEPT !.files = WithoutFile(@, n)] /\ UNCHANGED spc
  BY <1>1, <1>2 DEF StarterInv, WithoutFile
<1>3. CASE /\ mine = {} /\ spc' = "error"
           /\ out' = IF out = [NoOutput EXCEPT !.by = "us"] THEN NoOutput ELSE out
  <2>1. DOMAIN NoOutput.files = {} /\ NoOutput = [by |-> "nobody", files |-> NoOutput.files]
    BY DEF NoOutput
  <2>2. CASE out = [NoOutput EXCEPT !.by = "us"]
    BY <1>3, <2>1, <2>2 DEF StarterInv, FailureLeavesNothing, SAt, NoOutput
  <2>3. CASE out # [NoOutput EXCEPT !.by = "us"]
    <3>1. out.by = "us" => out.files # NoOutput.files
      BY <2>1, <2>3 DEF StarterInv
    <3> QED  BY <1>3, <2>3, <3>1 DEF StarterInv, FailureLeavesNothing, SAt
  <2> QED  BY <2>2, <2>3
<1> QED  BY <1>2, <1>3 DEF CleanUp, SGoto

(* Others take the directory first, or put files into it while it is ours. *)
LEMMA StarterEditStep ==
  ASSUME StarterInv, StarterEdit
  PROVE  StarterInv'
<1>1. UNCHANGED <<spc, phase>> /\ spc # "error"
  BY DEF StarterEdit, command
<1>2. CASE UNCHANGED out
  BY <1>1, <1>2 DEF StarterInv
<1>3. CASE out.by = "nobody" /\ out' = [out EXCEPT !.by = "other"]
  BY <1>1, <1>3 DEF StarterInv
<1>4. CASE out.by = "us" /\ \E n \in Files \cup {"extra"} :
             out' = [out EXCEPT !.files = WithFile(@, n, "other")]
  BY <1>1, <1>4 DEF StarterInv, WithFile
<1> QED  BY <1>2, <1>3, <1>4 DEF StarterEdit, EditTarget, EditOutput

LEMMA StarterInvariant == PreparationSpec => []StarterInv
<1>1. PreparationInit => StarterInv
  <2> SUFFICES ASSUME StarterInit  PROVE StarterInv
    BY DEF PreparationInit, StarterIdle
  <2>1. out = NoOutput /\ spc = "poms"
    BY DEF StarterInit
  <2> QED  BY <2>1 DEF StarterInv, NoOutput
<1>2. StarterInv /\ [PreparationNext]_preparing => StarterInv'
  <2> SUFFICES ASSUME StarterInv, [PreparationNext]_preparing  PROVE StarterInv'
    OBVIOUS
  <2>1. CASE StarterNext
    BY <2>1, ReadingSteps, WritingOutSteps, CleanUpStep, StarterEditStep DEF StarterNext
  <2>2. CASE UNCHANGED rendering
    BY <2>2 DEF rendering, command, StarterInv, FailureLeavesNothing, SAt
  <2> QED  BY <2>1, <2>2 DEF PreparationNext, preparing
<1> QED  BY <1>1, <1>2, PTL DEF PreparationSpec

(* A starter command that fails has removed every file it created, and its directory
   unless another process has put something into it: _cleanup_created_bundle. *)
THEOREM StarterLeavesNothing == PreparationSpec => []FailureLeavesNothing
<1>1. StarterInv => FailureLeavesNothing
  BY DEF StarterInv, FailureLeavesNothing, SAt
<1> QED  BY <1>1, StarterInvariant, PTL

-----------------------------------------------------------------------------
(***************************************************************************)
(* What a verified starter is bound to.  A Git snapshot reads HEAD and     *)
(* then compares with the commit that is named HEAD afterwards; the code   *)
(* cannot tell when HEAD is moved in between, and back.                    *)
(***************************************************************************)
HeadHeld == spc \in {"status", "bind"} => target.head = snap.head

Committed == target.commits[Expected]
Gathering == {"poms", "parents", "text"}
Denied == {"cleanup", "error"}
Before(i) == IF i = 1 THEN [path |-> Owning, pom |-> read[Owning]] ELSE chain[i - 1]
Followed == {chain[i].path : i \in DOMAIN chain}

(* Nobody rewrites the commits.                                            *)
TargetInv ==
  /\ target = [commits |-> target.commits, head |-> target.head, poms |-> target.poms,
               taken |-> target.taken, hidden |-> target.hidden]
  /\ target.commits \in Histories

(* The chain goes from a POM to its parent, to each once, up to the        *)
(* reactor's or to a POM without one.                                      *)
ChainInv ==
  /\ chain \in Seq({chain[i] : i \in DOMAIN chain})
  /\ spc = "poms" => chain = <<>>
  /\ DOMAIN read \subseteq {Root, Owning}
  /\ spc \notin {"poms"} \cup Denied => DOMAIN read = {Root, Owning}
  /\ Owning \notin Followed
  /\ \A i, j \in DOMAIN chain : chain[i].path = chain[j].path => i = j
  /\ \A i \in DOMAIN chain : Before(i).path # Root /\ chain[i].path = Before(i).pom.parent
  /\ spc \notin {"poms", "parents"} \cup Denied =>
       Current.path = Root \/ Current.pom.parent = "none"

(* A set that a chain enters and never leaves holds all of it.             *)
Led(S) == Owning \in S /\ \A i \in DOMAIN chain : Before(i).path \in S => chain[i].path \in S
ReachInv == \A S \in SUBSET DOMAIN Committed : Led(S) => Followed \subseteq S

TextInv ==
  spc \notin Gathering \cup Denied =>
    /\ \A i \in DOMAIN chain : chain[i].pom.plain
    /\ \A p \in DOMAIN read \ Followed : read[p].plain

(* Which snapshot is taken where, and that the first is the expected one.  *)
SnapshotInv ==
  /\ {"head", "clean", "index"} \subseteq DOMAIN snap
  /\ phase \in {"prepare", "create", "revalidate", "final"}
  /\ spc \in Gathering => phase = "prepare"
  /\ spc \in {"mkdir", "write"} => phase = "create"
  /\ spc = "bind" => phase \in {"prepare", "revalidate"} /\ snap = held
  /\ spc \in {"verify", "VERIFIED"} => phase = "final"
  /\ spc = "bind" \/ phase # "prepare" => held.head = Expected /\ held.clean = TRUE

(* What was read and compared is what the expected commit has.             *)
AsCommitted(p) == p \in DOMAIN Committed /\ Compared[p] = Committed[p]
BytesInv ==
  /\ spc = "bind" /\ phase = "prepare" => \A p \in Bound \ left : AsCommitted(p)
  /\ phase # "prepare" => \A p \in Bound : AsCommitted(p)

(* What the target was seen to be since the bundle was complete.           *)
SeenClean == \E t \in since : t.head = Expected /\ Clean(t)
Seen(p) == \E t \in since : p \in DOMAIN t.poms /\ t.poms[p] = Committed[p]
SinceInv ==
  /\ since # {} => target \in since
  /\ phase \in {"revalidate", "final"} => since # {}
  /\ spc = "bind" /\ phase = "revalidate" => SeenClean /\ \A p \in Bound \ left : Seen(p)
  /\ phase = "final" => SeenClean /\ \A p \in Bound : Seen(p)
  /\ phase = "final" /\ spc \notin Denied => \E t \in since : t.taken = {}

FitInv ==
  TargetInv /\ ChainInv /\ ReachInv /\ TextInv /\ SnapshotInv /\ BytesInv /\ SinceInv

(* Nobody rewrites the commits.                                            *)
LEMMA TargetStep ==
  ASSUME TargetInv, [StarterNext]_rendering
  PROVE  TargetInv' /\ Committed' = Committed
<1>1. CASE target' = target
  BY <1>1 DEF TargetInv, Committed
<1>2. CASE EditTarget
  <2>1. target' = [commits |-> target.commits, head |-> target'.head, poms |-> target'.poms,
                   taken |-> target'.taken, hidden |-> target'.hidden]
    BY <1>2 DEF EditTarget, TargetInv
  <2> QED  BY <2>1 DEF TargetInv, Committed
<1>3. CASE ReadPom \/ FollowParent \/ CheckText \/ TakeHead \/ TakeStatus
  BY <1>1, <1>3 DEF ReadPom, FollowParent, CheckText, TakeHead, TakeStatus
<1>4. CASE BindPom \/ CheckPaths \/ MakeRoot \/ WriteFile \/ FinishWriting \/ VerifyOutput
           \/ CleanUp
  BY <1>1, <1>4 DEF BindPom, CheckPaths, MakeRoot, WriteFile, FinishWriting, VerifyOutput, CleanUp
<1> QED
  BY <1>1, <1>2, <1>3, <1>4 DEF StarterNext, StarterEdit, EditOutput, rendering

(* After the texts are checked, the POMs that were read stay as they are.  *)
Later ==
  /\ UNCHANGED <<read, chain>>
  /\ spc' \in Gathering => spc' = spc
  /\ spc \in Gathering => spc' = spc
  /\ spc \in Denied => spc' \in Denied

LEMMA LaterSteps ==
  ASSUME [StarterNext]_rendering
  PROVE  ReadPom \/ FollowParent \/ CheckText \/ Later
<1> USE DEF Later, Gathering, Denied, SAt, SGoto, Demand, Deny, command
<1>1. CASE TakeHead \/ TakeStatus
  BY <1>1 DEF TakeHead, TakeStatus
<1>2. CASE BindPom \/ CheckPaths
  BY <1>2 DEF BindPom, CheckPaths
<1>3. CASE MakeRoot \/ WriteFile \/ FinishWriting \/ VerifyOutput \/ CleanUp
  BY <1>3 DEF MakeRoot, WriteFile, FinishWriting, VerifyOutput, CleanUp
<1>4. CASE StarterEdit
  BY <1>4 DEF StarterEdit
<1> QED  BY <1>1, <1>2, <1>3, <1>4 DEF StarterNext, rendering

(* The reactor's POM and the owning one are read before the chain begins.  *)
LEMMA ReadPomChain ==
  ASSUME ChainInv, ReadPom
  PROVE  (ChainInv /\ ReachInv /\ TextInv)'
<1>1. /\ spc = "poms" /\ chain = <<>> /\ chain' = <<>> /\ DOMAIN chain' = {}
      /\ DOMAIN read \subseteq {Root, Owning}
  BY DEF ReadPom, ChainInv, SAt
<1>2. Followed' = {}
  BY <1>1 DEF Followed
<1>3. /\ DOMAIN read' \subseteq {Root, Owning}
      /\ spc' \in {"poms", "parents"} \cup Denied
      /\ spc' = "parents" => DOMAIN read' = {Root, Owning}
  BY <1>1 DEF ReadPom, SGoto, Demand, Deny, Denied
<1> QED  BY <1>1, <1>2, <1>3 DEF ChainInv, ReachInv, TextInv, Denied, Gathering

(* A round of _local_parent_chain extends the chain or ends it.            *)
Extends(p) ==
  /\ Current.path # Root /\ p # "none" /\ p = Current.pom.parent /\ p \notin Visited
  /\ chain' = Append(chain, [path |-> p, pom |-> target.poms[p]])
  /\ spc' \in {"parents"} \cup Denied

LEMMA FollowCases ==
  ASSUME FollowParent
  PROVE  /\ spc = "parents" /\ read' = read
         /\ \/ Extends(Current.pom.parent)
            \/ /\ chain' = chain /\ spc' \in {"text"} \cup Denied
               /\ spc' = "text" => Current.path = Root \/ Current.pom.parent = "none"
BY DEF FollowParent, SAt, SGoto, Demand, Deny, Denied, Extends

LEMMA ExtendedChain ==
  ASSUME ChainInv, spc = "parents", read' = read, Extends(Current.pom.parent)
  PROVE  /\ ChainInv'
         /\ DOMAIN chain' = DOMAIN chain \cup {Len(chain) + 1} /\ Len(chain) + 1 \notin DOMAIN chain
         /\ \A i \in DOMAIN chain : chain'[i] = chain[i] /\ Before(i)' = Before(i)
         /\ \A i : i = Len(chain) + 1 => Before(i)' = Current
         /\ chain'[Len(chain) + 1].path = Current.pom.parent
<1> DEFINE n == Len(chain)
           e == [path |-> Current.pom.parent, pom |-> target.poms[Current.pom.parent]]
           C == {chain[i] : i \in DOMAIN chain}
<1>1. chain \in Seq(C) /\ chain' = Append(chain, e)
  BY DEF ChainInv, Extends
<1>2. n \in Nat /\ DOMAIN chain = 1 .. n
  BY <1>1, LenProperties
<1>3. /\ chain' \in Seq(C \cup {e}) /\ DOMAIN chain' = 1 .. n + 1 /\ Len(chain') = n + 1
      /\ \A i \in 1 .. n : chain'[i] = chain[i]
      /\ chain'[n + 1] = e
  <2>1. chain \in Seq(C \cup {e})
    BY <1>1, <1>2, SeqDef
  <2> HIDE DEF n, e, C
  <2> QED  BY <1>1, <1>2, <2>1, AppendProperties DEF n
<1>4. DOMAIN chain' = DOMAIN chain \cup {n + 1} /\ n + 1 \notin DOMAIN chain
  BY <1>2, <1>3
<1>5. \A i \in DOMAIN chain : chain'[i] = chain[i] /\ Before(i)' = Before(i)
  BY <1>2, <1>3 DEF Before, Extends
<1>6. ASSUME NEW i, i = n + 1
      PROVE  Before(i)' = Current
  <2>1. CASE n = 0
    <3>1. chain = <<>> /\ i = 1
      BY <1>1, <1>6, <2>1, EmptySeq
    <3>2. Before(i)' = [path |-> Owning, pom |-> read'[Owning]]
      BY <3>1 DEF Before
    <3> QED  BY <3>1, <3>2 DEF Current
  <2>2. CASE n # 0
    <3>1. chain # <<>> /\ i # 1 /\ i - 1 = n /\ n \in 1 .. n
      BY <1>2, <1>6, <2>2
    <3>2. Before(i)' = chain'[n]
      BY <3>1 DEF Before
    <3> QED  BY <1>3, <3>1, <3>2 DEF Current
  <2> QED  BY <2>1, <2>2
<1>7. Followed' = Followed \cup {Current.pom.parent} /\ Current.pom.parent \notin Followed \cup {Owning}
  <2>1. Visited = {Owning} \cup Followed
    BY DEF Visited, Followed
  <2> QED  BY <1>3, <1>4, <1>5, <2>1 DEF Followed, Extends
<1>8. C' = C \cup {e}
  BY <1>3, <1>4, <1>5
<1>9. chain' \in Seq({chain'[i] : i \in DOMAIN chain'})
  BY <1>3, <1>8
<1>10. \A i, j \in DOMAIN chain' : chain'[i].path = chain'[j].path => i = j
  BY <1>3, <1>4, <1>5, <1>7 DEF ChainInv, Followed
<1>11. \A i \in DOMAIN chain' :
         Before(i)'.path # Root /\ chain'[i].path = Before(i)'.pom.parent
  <2>1. \A i \in DOMAIN chain' : i = n + 1 \/ i \in DOMAIN chain
    BY <1>4
  <2>2. chain'[n + 1].path = Current.pom.parent
    BY <1>3
  <2> HIDE DEF n, e, C
  <2> QED  BY <1>5, <1>6, <2>1, <2>2 DEF ChainInv, Extends
<1>12. ChainInv'
  BY <1>7, <1>9, <1>10, <1>11 DEF ChainInv, Extends, Denied
<1> QED  BY <1>3, <1>4, <1>5, <1>6, <1>12

LEMMA FollowChain ==
  ASSUME ChainInv, ReachInv, FollowParent, Committed' = Committed
  PROVE  (ChainInv /\ ReachInv /\ TextInv)'
<1>1. spc = "parents" /\ read' = read /\ spc' \in {"parents", "text"} \cup Denied
  BY FollowCases DEF Extends
<1>2. TextInv'
  BY <1>1 DEF TextInv, Gathering
<1>3. CASE Extends(Current.pom.parent)
  <2>1. ASSUME NEW S \in SUBSET DOMAIN Committed, Led(S)'
        PROVE  Followed' \subseteq S
    <3>1. /\ Owning \in S
          /\ \A i \in DOMAIN chain' : Before(i)'.path \in S => chain'[i].path \in S
      BY <2>1 DEF Led
    <3>2. Led(S)
      BY <1>1, <1>3, <3>1, ExtendedChain DEF Led
    <3>3. Followed \subseteq S
      BY <3>2 DEF ReachInv
    <3>4. Current.path \in S
      <4>1. CASE chain = <<>>
        BY <3>1, <4>1 DEF Current
      <4>2. CASE chain # <<>>
        <5>1. chain \in Seq({chain[i] : i \in DOMAIN chain})
          BY DEF ChainInv
        <5>2. Len(chain) \in DOMAIN chain
          BY <4>2, <5>1, LenProperties, EmptySeq
        <5> QED  BY <3>3, <4>2, <5>2 DEF Current, Followed
      <4> QED  BY <4>1, <4>2
    <3>5. chain'[Len(chain) + 1].path \in S
      <4>1. \A i : i = Len(chain) + 1 => Before(i)' = Current /\ i \in DOMAIN chain'
        BY <1>1, <1>3, ExtendedChain
      <4> QED  BY <3>1, <3>4, <4>1
    <3> QED  BY <1>1, <1>3, <3>3, <3>5, ExtendedChain DEF Followed
  <2> QED  BY <1>1, <1>2, <1>3, <2>1, ExtendedChain DEF ReachInv
<1>4. CASE /\ chain' = chain /\ spc' \in {"text"} \cup Denied
           /\ spc' = "text" => Current.path = Root \/ Current.pom.parent = "none"
  <2>1. ChainInv'
    BY <1>1, <1>4 DEF ChainInv, Followed, Before, Current, Denied
  <2>2. ReachInv'
    BY <1>1, <1>4 DEF ReachInv, Followed, Led, Before
  <2> QED  BY <1>2, <2>1, <2>2
<1> QED  BY <1>3, <1>4, FollowCases

LEMMA ChainStep ==
  ASSUME TargetInv, ChainInv, ReachInv, TextInv, [StarterNext]_rendering
  PROVE  (ChainInv /\ ReachInv /\ TextInv)'
<1>1. Committed' = Committed
  BY TargetStep
<1>2. ASSUME UNCHANGED <<read, chain>>,
             spc' = "poms" => spc = "poms",
             spc' \notin {"poms"} \cup Denied => spc \notin {"poms"} \cup Denied,
             spc' \notin {"poms", "parents"} \cup Denied => spc \notin {"poms", "parents"} \cup Denied
      PROVE  (ChainInv /\ ReachInv)'
  BY <1>1, <1>2 DEF ChainInv, ReachInv, Followed, Led, Before, Current
<1>3. CASE CheckText
  <2>1. UNCHANGED <<read, chain>> /\ spc = "text" /\ spc' \in {"head"} \cup Denied
    BY <1>3 DEF CheckText, command, SAt, SGoto, Demand, Deny, Denied
  <2>2. spc' = "head" => /\ \A p \in DOMAIN read \ Followed : read[p].plain
                         /\ \A i \in DOMAIN chain : chain[i].pom.plain
    BY <1>3 DEF CheckText, SAt, SGoto, Demand, Deny, Followed
  <2>3. TextInv'
    BY <2>1, <2>2 DEF TextInv, Followed, Denied
  <2> QED  BY <1>2, <2>1, <2>3 DEF Denied
<1>4. CASE Later
  <2>1. TextInv'
    BY <1>4 DEF TextInv, Later, Followed, Gathering
  <2> QED  BY <1>2, <1>4, <2>1 DEF Later, Gathering
<1> QED  BY <1>1, <1>3, <1>4, LaterSteps, ReadPomChain, FollowChain

-----------------------------------------------------------------------------
(* Git snapshots.                                                          *)
LEMMA SnapshotStep ==
  ASSUME SnapshotInv, [StarterNext]_rendering
  PROVE  SnapshotInv'
<1> USE DEF SnapshotInv, Gathering, SAt, SGoto, Demand, Deny, command
<1>1. CASE ReadPom \/ FollowParent \/ CheckText
  BY <1>1 DEF ReadPom, FollowParent, CheckText
<1>2. CASE TakeHead
  BY <1>2 DEF TakeHead
<1>3. CASE TakeStatus
  <2> DEFINE now == [snap EXCEPT !.clean = Clean(target), !.index = target.commits[target.head]]
  <2>1. /\ snap' = now /\ UNCHANGED phase
        /\ DOMAIN now = DOMAIN snap
    BY <1>3 DEF TakeStatus
  <2>2. CASE phase = "prepare"
    <3>1. held' = now /\ spc' \in {"bind", "cleanup", "error"}
      BY <1>3, <2>2 DEF TakeStatus
    <3>2. spc' = "bind" => now.clean /\ now.head = Expected
      BY <1>3, <2>2 DEF TakeStatus
    <3>3. now.clean = Clean(target)
      OBVIOUS
    <3>4. spc' = "bind" => now.clean = TRUE
      BY <3>2, <3>3 DEF Clean
    <3> HIDE DEF now
    <3> QED  BY <2>1, <2>2, <3>1, <3>2, <3>4
  <2>3. CASE phase # "prepare"
    <3>1. /\ held' = held /\ spc' \in {"bind", "mkdir", "verify", "cleanup", "error"}
          /\ spc' = "bind" => phase = "revalidate" /\ now = held
          /\ spc' = "mkdir" => phase = "create"
          /\ spc' = "verify" => phase = "final"
      BY <1>3, <2>3 DEF TakeStatus
    <3> HIDE DEF now
    <3> QED  BY <2>1, <2>3, <3>1
  <2> QED  BY <2>2, <2>3
<1>4. CASE BindPom \/ CheckPaths
  BY <1>4 DEF BindPom, CheckPaths
<1>5. CASE MakeRoot \/ WriteFile \/ FinishWriting \/ VerifyOutput \/ CleanUp
  BY <1>5 DEF MakeRoot, WriteFile, FinishWriting, VerifyOutput, CleanUp
<1>6. CASE StarterEdit
  BY <1>6 DEF StarterEdit
<1> QED  BY <1>1, <1>2, <1>3, <1>4, <1>5, <1>6 DEF StarterNext, rendering

LEMMA SameBound ==
  ASSUME UNCHANGED <<read, chain>>
  PROVE  Bound' = Bound /\ Compared' = Compared
BY DEF Bound, Compared

(* While a POM is bound, HEAD is the expected commit.                      *)
LEMMA BindsExpected ==
  ASSUME SnapshotInv, HeadHeld, spc = "bind"
  PROVE  target.head = Expected
BY DEF SnapshotInv, HeadHeld

LEMMA BytesStep ==
  ASSUME TargetInv, SnapshotInv, BytesInv, HeadHeld, [StarterNext]_rendering
  PROVE  BytesInv'
<1>1. Committed' = Committed
  BY TargetStep
<1>2. ASSUME UNCHANGED <<read, chain>>
      PROVE  Bound' = Bound /\ \A p : AsCommitted(p)' <=> AsCommitted(p)
  BY <1>1, <1>2, SameBound DEF AsCommitted
<1>3. CASE ReadPom \/ FollowParent \/ CheckText
  <2>1. spc \in Gathering /\ phase' = phase /\ spc' # "bind"
    BY <1>3 DEF ReadPom, FollowParent, CheckText, command, SAt, SGoto, Demand, Deny, Gathering
  <2> QED  BY <2>1 DEF BytesInv, SnapshotInv
<1>4. CASE TakeStatus
  <2>1. UNCHANGED <<read, chain, phase>> /\ left' = Bound
    BY <1>4 DEF TakeStatus
  <2> QED  BY <1>2, <2>1 DEF BytesInv
<1>5. CASE BindPom
  <2>1. /\ UNCHANGED <<read, chain, phase>> /\ spc = "bind"
        /\ \E p \in left : left' = left \ {p} /\
             (phase = "prepare" /\ spc' = "bind" => HeadBound(p, Compared[p]))
    BY <1>5 DEF BindPom, SAt, SGoto, Demand, Deny
  <2>2. \A p : HeadBound(p, Compared[p]) => AsCommitted(p)
    BY <2>1, BindsExpected DEF HeadBound, AsCommitted, Committed
  <2> QED  BY <1>2, <2>1, <2>2 DEF BytesInv
<1>6. CASE CheckPaths
  <2>1. UNCHANGED <<read, chain>> /\ spc = "bind" /\ left = {} /\ phase' # "prepare"
    BY <1>6 DEF CheckPaths, SAt
  <2>2. \A p \in Bound : AsCommitted(p)
    BY <2>1 DEF BytesInv
  <2> QED  BY <1>2, <2>1, <2>2 DEF BytesInv
<1>7. CASE TakeHead \/ MakeRoot \/ WriteFile \/ FinishWriting \/ VerifyOutput \/ CleanUp
           \/ StarterEdit \/ UNCHANGED rendering
  <2>1. UNCHANGED <<read, chain, left>>
    BY <1>7 DEF TakeHead, MakeRoot, WriteFile, FinishWriting, VerifyOutput, CleanUp, StarterEdit,
                command, rendering
  <2>2. phase' = phase \/ (phase = "create" /\ phase' = "revalidate")
    BY <1>7 DEF TakeHead, MakeRoot, WriteFile, FinishWriting, VerifyOutput, CleanUp, StarterEdit,
                command, rendering, SnapshotInv, SAt
  <2>3. spc' = "bind" => spc = "bind" /\ phase' = phase
    BY <1>7 DEF TakeHead, MakeRoot, WriteFile, FinishWriting, VerifyOutput, CleanUp, StarterEdit,
                command, rendering, SAt, SGoto, Demand, Deny
  <2> QED  BY <1>2, <2>1, <2>2, <2>3 DEF BytesInv
<1> QED  BY <1>3, <1>4, <1>5, <1>6, <1>7 DEF StarterNext

-----------------------------------------------------------------------------
(* The target since the bundle was complete.                               *)
LEMMA SinceStep ==
  ASSUME TargetInv, SnapshotInv, SinceInv, HeadHeld, [StarterNext]_rendering
  PROVE  SinceInv'
<1>1. Committed' = Committed
  BY TargetStep
<1>2. ASSUME UNCHANGED <<read, chain>>, since \subseteq since'
      PROVE  /\ Bound' = Bound
             /\ SeenClean => SeenClean'
             /\ \A p : Seen(p) => Seen(p)'
             /\ (\E t \in since : t.taken = {}) => \E t \in since' : t.taken = {}
  <2>1. Bound' = Bound
    BY <1>2, SameBound
  <2>2. SeenClean => SeenClean'
    BY <1>2 DEF SeenClean, Clean
  <2>3. \A p : Seen(p) => Seen(p)'
    BY <1>1, <1>2 DEF Seen
  <2> QED  BY <1>2, <2>1, <2>2, <2>3
<1>3. CASE ReadPom \/ FollowParent \/ CheckText
  <2>1. /\ spc \in Gathering /\ phase' = phase /\ spc' # "bind" /\ UNCHANGED <<target, since>>
    BY <1>3 DEF ReadPom, FollowParent, CheckText, command, SAt, SGoto, Demand, Deny, Gathering
  <2> QED  BY <2>1 DEF SinceInv, SnapshotInv
<1>4. CASE TakeStatus
  <2>1. /\ UNCHANGED <<target, read, chain, phase, since>> /\ left' = Bound /\ spc = "status"
        /\ phase # "prepare" /\ spc' \notin Denied =>
             held.clean = Clean(target) /\ held.head = snap.head
    BY <1>4 DEF TakeStatus, SAt, SGoto, Demand, Deny, Denied, SnapshotInv
  <2>2. phase = "revalidate" /\ spc' = "bind" => SeenClean
    <3>1. SUFFICES ASSUME phase = "revalidate", spc' = "bind"  PROVE SeenClean
      OBVIOUS
    <3>2. Clean(target) /\ target.head = Expected
      BY <2>1, <3>1 DEF SnapshotInv, HeadHeld, Denied
    <3> QED  BY <3>1, <3>2 DEF SeenClean, SinceInv
  <2> QED  BY <1>2, <2>1, <2>2 DEF SinceInv, SnapshotInv, Denied
<1>5. CASE BindPom
  <2>1. /\ UNCHANGED <<target, read, chain, phase, since>> /\ spc = "bind"
        /\ \E p \in left : left' = left \ {p} /\
             (phase # "prepare" /\ spc' = "bind" =>
                p \in DOMAIN target.poms /\ HeadBound(p, target.poms[p]))
    BY <1>5 DEF BindPom, SAt, SGoto, Demand, Deny
  <2>2. phase = "revalidate" =>
          \A p \in DOMAIN target.poms : HeadBound(p, target.poms[p]) => Seen(p)
    BY <2>1, BindsExpected DEF HeadBound, Seen, Committed, SinceInv
  <2>3. phase # "final"
    BY <2>1 DEF SnapshotInv
  <2> QED  BY <1>2, <2>1, <2>2, <2>3 DEF SinceInv
<1>6. CASE CheckPaths
  <2>1. /\ UNCHANGED <<target, read, chain, since>> /\ spc = "bind" /\ left = {}
        /\ phase' = IF phase = "prepare" THEN "create" ELSE "final"
        /\ spc' \in {"head"} \cup Denied
        /\ spc' = "head" => target.taken = {}
    BY <1>6 DEF CheckPaths, SAt, SGoto, Demand, Deny, Denied
  <2>2. CASE phase = "revalidate"
    <3>1. SeenClean /\ \A p \in Bound : Seen(p)
      BY <2>1, <2>2 DEF SinceInv
    <3> QED  BY <1>2, <2>1, <2>2, <3>1 DEF SinceInv, Denied
  <2>3. CASE phase = "prepare"
    BY <2>1, <2>3 DEF SinceInv, Denied
  <2> QED  BY <2>1, <2>2, <2>3 DEF SnapshotInv
<1>7. CASE FinishWriting
  BY <1>7 DEF FinishWriting, SinceInv, SGoto
<1>8. CASE TakeHead \/ MakeRoot \/ WriteFile \/ VerifyOutput \/ CleanUp \/ UNCHANGED rendering
  <2>1. UNCHANGED <<target, read, chain, phase, left, since>>
    BY <1>8 DEF TakeHead, MakeRoot, WriteFile, VerifyOutput, CleanUp, command, rendering
  <2>2. (spc' = "bind" => spc = "bind") /\ (spc \in Denied => spc' \in Denied)
    BY <1>8 DEF TakeHead, MakeRoot, WriteFile, VerifyOutput, CleanUp, rendering, SAt, SGoto,
                Demand, Deny, Denied
  <2> QED  BY <1>2, <2>1, <2>2 DEF SinceInv
<1>9. CASE StarterEdit
  <2>1. /\ UNCHANGED <<spc, read, chain, phase, left>>
        /\ \/ UNCHANGED <<target, since>>
           \/ since' = IF since = {} THEN {} ELSE since \cup {target'}
    BY <1>9 DEF StarterEdit, EditTarget, EditOutput, command
  <2> QED  BY <1>2, <2>1 DEF SinceInv
<1> QED  BY <1>3, <1>4, <1>5, <1>6, <1>7, <1>8, <1>9 DEF StarterNext

LEMMA FitInit ==
  ASSUME StarterInit
  PROVE  FitInv
<1>1. /\ spc = "poms" /\ read = NoPoms /\ chain = <<>> /\ phase = "prepare"
      /\ held = snap /\ since = {} /\ DOMAIN snap = {"head", "clean", "index"}
      /\ snap.head = Expected /\ snap.clean = TRUE
  BY DEF StarterInit
<1>2. TargetInv
  BY DEF StarterInit, TargetInv
<1>3. DOMAIN chain = {} /\ Followed = {} /\ DOMAIN read = {}
  BY <1>1 DEF Followed, NoPoms
<1>4. ChainInv /\ ReachInv /\ TextInv
  BY <1>1, <1>3 DEF ChainInv, ReachInv, TextInv, Gathering
<1>5. SnapshotInv /\ BytesInv /\ SinceInv
  BY <1>1 DEF SnapshotInv, BytesInv, SinceInv
<1> QED  BY <1>2, <1>4, <1>5 DEF FitInv

(* What is compared for each POM of the chain.                             *)
LEMMA ComparedIsRead ==
  ASSUME ChainInv, DOMAIN read = {Root, Owning}
  PROVE  /\ Bound = {Root, Owning} \cup Followed
         /\ Compared[Owning] = read[Owning]
         /\ \A i \in DOMAIN chain : chain[i].path # Root => Compared[chain[i].path] = chain[i].pom
<1>1. Bound = {Root, Owning} \cup Followed
  BY DEF Bound, Followed
<1>2. Compared[Owning] = read[Owning]
  BY <1>1 DEF Compared
<1>3. ASSUME NEW i \in DOMAIN chain, chain[i].path # Root
      PROVE  Compared[chain[i].path] = chain[i].pom
  <2> DEFINE p == chain[i].path
             at == CHOOSE j \in DOMAIN chain : chain[j].path = p
  <2>1. at \in DOMAIN chain /\ chain[at].path = p
    OBVIOUS
  <2>2. at = i
    BY <2>1 DEF ChainInv
  <2>3. p \in Bound /\ p \notin DOMAIN read
    BY <1>1, <1>3 DEF ChainInv, Followed
  <2>4. Compared[p] = chain[at].pom
    BY <2>3 DEF Compared
  <2> QED  BY <2>2, <2>4
<1> QED  BY <1>1, <1>2, <1>3

(* The chain that was read is the inheritance the commit declares.         *)
LEMMA BoundAreAncestors ==
  ASSUME ChainInv, ReachInv, TargetInv, DOMAIN read = {Root, Owning},
         Current.path = Root \/ Current.pom.parent = "none",
         \A p \in Bound : AsCommitted(p)
  PROVE  Bound = Ancestors
<1>1. /\ Bound = {Root, Owning} \cup Followed /\ Bound \subseteq DOMAIN Committed
      /\ "none" \notin DOMAIN Committed
  BY ComparedIsRead, StarterAssumption DEF AsCommitted, TargetInv, Committed
<1>2. read[Owning] = Committed[Owning]
  BY <1>1, ComparedIsRead DEF AsCommitted
<1>3. \A i \in DOMAIN chain : chain[i].path # Root => chain[i].pom = Committed[chain[i].path]
  BY <1>1, ComparedIsRead DEF AsCommitted, Followed
<1>4. chain \in Seq({chain[i] : i \in DOMAIN chain}) /\ Len(chain) \in Nat
      /\ DOMAIN chain = 1 .. Len(chain)
  <2>1. chain \in Seq({chain[i] : i \in DOMAIN chain})
    BY DEF ChainInv
  <2> QED  BY <2>1, LenProperties
<1>5. \A i \in DOMAIN chain :
        chain[i].path \in DOMAIN Committed /\ ParentOf(Before(i).path) = {chain[i].path}
  <2>1. SUFFICES ASSUME NEW i \in DOMAIN chain
                 PROVE  /\ chain[i].path \in DOMAIN Committed
                        /\ ParentOf(Before(i).path) = {chain[i].path}
    OBVIOUS
  <2>2. Before(i).pom = Committed[Before(i).path]
    <3>1. CASE i = 1
      BY <1>2, <3>1 DEF Before
    <3>2. CASE i # 1
      <4>1. Before(i) = chain[i - 1] /\ i - 1 \in DOMAIN chain
        BY <1>4, <3>2 DEF Before
      <4> QED  BY <1>3, <4>1 DEF ChainInv
    <3> QED  BY <3>1, <3>2
  <2>3. chain[i].path \in DOMAIN Committed
    BY <1>1 DEF Followed
  <2> QED  BY <2>2, <2>3 DEF ChainInv, ParentOf, Committed
<1>6. ASSUME NEW S \in SUBSET DOMAIN Committed, Closed(S)
      PROVE  Bound \subseteq S
  <2>1. Led(S)
    BY <1>5, <1>6 DEF Led, Closed
  <2> QED  BY <1>1, <1>6, <2>1 DEF ReachInv, Closed
<1>7. Closed(Bound)
  <2>1. SUFFICES ASSUME NEW p \in Bound, NEW q \in ParentOf(p)  PROVE q \in Bound
    BY <1>1 DEF Closed
  <2>2. p # Root /\ q = Committed[p].parent /\ q # "none"
    BY <1>1, <2>1 DEF ParentOf, Committed
  <2>3. ASSUME Current.path = p, Current.pom = Committed[p]  PROVE FALSE
    BY <2>2, <2>3
  <2>4. ASSUME NEW i \in DOMAIN chain, Before(i).path = p  PROVE q \in Bound
    BY <1>1, <1>5, <2>1, <2>4 DEF Followed
  <2>5. CASE p = Owning
    <3>1. CASE chain = <<>>
      BY <1>2, <2>3, <2>5, <3>1 DEF Current
    <3>2. CASE chain # <<>>
      <4>1. 1 \in DOMAIN chain
        BY <1>4, <3>2, EmptySeq
      <4> QED  BY <2>4, <2>5, <4>1 DEF Before
    <3> QED  BY <3>1, <3>2
  <2>6. CASE p # Owning
    <3>1. PICK i \in DOMAIN chain : chain[i].path = p
      BY <1>1, <2>2, <2>6 DEF Followed
    <3>2. CASE i = Len(chain)
      <4>1. chain # <<>>
        BY <1>4, <3>1
      <4> QED  BY <1>3, <2>2, <2>3, <3>1, <3>2, <4>1 DEF Current
    <3>3. CASE i # Len(chain)
      <4>1. i + 1 \in DOMAIN chain /\ i + 1 # 1 /\ (i + 1) - 1 = i
        BY <1>4, <3>1, <3>3
      <4>2. Before(i + 1).path = p
        BY <3>1, <4>1 DEF Before
      <4> QED  BY <2>4, <4>1, <4>2
    <3> QED  BY <3>2, <3>3
  <2> QED  BY <2>5, <2>6
<1>8. \A p \in Ancestors : p \in Bound
  BY <1>1, <1>7 DEF Ancestors, Committed
<1>9. \A p \in Bound : p \in Ancestors
  BY <1>1, <1>6 DEF Ancestors, Committed
<1> QED  BY <1>8, <1>9

LEMMA FitMeans ==
  ASSUME FitInv
  PROVE  BundleFitsTarget
<1> SUFFICES ASSUME spc = "VERIFIED"  PROVE BundleFitsTarget
  BY DEF BundleFitsTarget, SAt
<1>1. /\ phase = "final" /\ DOMAIN read = {Root, Owning}
      /\ Current.path = Root \/ Current.pom.parent = "none"
  BY DEF FitInv, ChainInv, SnapshotInv, Denied
<1>2. \A p \in Bound : AsCommitted(p)
  BY <1>1 DEF FitInv, BytesInv
<1>3. Bound = Ancestors
  BY <1>1, <1>2, BoundAreAncestors DEF FitInv
<1>4. \A p \in Bound : p # Root => Compared[p].plain
  <2>1. /\ \A i \in DOMAIN chain : chain[i].pom.plain
        /\ \A p \in DOMAIN read \ Followed : read[p].plain
        /\ Owning \notin Followed
    BY DEF FitInv, TextInv, ChainInv, Gathering, Denied
  <2> QED  BY <1>1, <2>1, ComparedIsRead DEF FitInv, Followed
<1>5. SeenClean /\ (\A p \in Bound : Seen(p)) /\ \E t \in since : t.taken = {}
  BY <1>1 DEF FitInv, SinceInv, Denied
<1> QED  BY <1>2, <1>3, <1>4, <1>5 DEF BundleFitsTarget, AsCommitted, SeenClean, Seen, Committed

(* A verified starter was derived from the expected commit and its target was seen clean
   at that commit afterwards (_prepare, _revalidate_target), for any target, any length of
   the parent chain and any number of edits, checkouts included, as long as HEAD is not
   moved while _git_snapshot and _require_head_bound_regular work with it. *)
THEOREM StarterFitsTarget == PreparationSpec /\ []HeadHeld => []BundleFitsTarget
<1>1. PreparationInit => FitInv
  BY FitInit DEF PreparationInit, StarterIdle
<1>2. FitInv /\ HeadHeld /\ [PreparationNext]_preparing => FitInv'
  <2> SUFFICES ASSUME FitInv, HeadHeld, [PreparationNext]_preparing  PROVE FitInv'
    OBVIOUS
  <2>1. [StarterNext]_rendering
    BY DEF PreparationNext, preparing
  <2> QED
    BY <2>1, TargetStep, ChainStep, SnapshotStep, BytesStep, SinceStep DEF FitInv
<1> QED  BY <1>1, <1>2, FitMeans, PTL DEF PreparationSpec

-----------------------------------------------------------------------------
(***************************************************************************)
(* The SBOM finalizer: what completing a document does to it.              *)
(***************************************************************************)
LEMMA NamesApart ==
  /\ Container \notin FirstPartyNames /\ Container \notin DOMAIN Override
  /\ Container \notin {Example, Connector, Pinned, Forbidden}
  /\ FirstPartyNames \cap DOMAIN Override = {} /\ Example \in FirstPartyNames
BY DEF FirstPartyNames, Roles, Unreleased, Aggregate, Published, Example, Override, Container,
       Connector, Pinned, Forbidden

(* The licence a component ends with.                                      *)
LicenseOf(n, was) ==
  IF n \in FirstPartyNames THEN Apache ELSE IF n \in DOMAIN Override THEN Override[n] ELSE was

(* The setters change licences only.                                       *)
LEMMA LicensesSet ==
  ASSUME NEW d, IsDocument(d)
  PROVE  LET e == SetLicenses(d) IN
         /\ IsDocument(e)
         /\ e.gen = d.gen /\ e.root = d.root /\ e.defect = d.defect /\ e.graph = d.graph
         /\ DOMAIN e.components = DOMAIN d.components
         /\ \A n \in DOMAIN d.components :
              /\ e.components[n].version = d.components[n].version
              /\ e.components[n].exact = d.components[n].exact
              /\ e.components[n].license = LicenseOf(n, d.components[n].license)
<1> DEFINE set == [n \in DOMAIN d.components |->
     IF n \in FirstPartyNames THEN [d.components[n] EXCEPT !.license = Apache]
     ELSE IF n \in DOMAIN Override THEN [d.components[n] EXCEPT !.license = Override[n]]
     ELSE d.components[n]]
<1>1. SetLicenses(d) = [d EXCEPT !.components = set]
  BY DEF SetLicenses, IsDocument
<1>2. /\ DOMAIN set = DOMAIN d.components /\ set = [n \in DOMAIN set |-> set[n]]
      /\ \A n \in DOMAIN d.components :
           /\ DOMAIN set[n] = {"license", "version", "exact"}
           /\ set[n].version = d.components[n].version /\ set[n].exact = d.components[n].exact
           /\ set[n].license = LicenseOf(n, d.components[n].license)
  BY DEF IsDocument, LicenseOf
<1> HIDE DEF set
<1>3. SetLicenses(d) = [gen |-> d.gen, root |-> d.root, components |-> set, graph |-> d.graph,
                        defect |-> d.defect]
  BY <1>1 DEF IsDocument
<1> DEFINE e == SetLicenses(d)
<1>4. /\ DOMAIN e = {"gen", "root", "components", "graph", "defect"}
      /\ e.gen = d.gen /\ e.root = d.root /\ e.defect = d.defect /\ e.graph = d.graph
      /\ e.components = set
  BY <1>3
<1>5. e = [gen |-> e.gen, root |-> e.root, components |-> e.components, graph |-> e.graph,
           defect |-> e.defect]
  BY <1>3, <1>4
<1> HIDE DEF e
<1>6. IsDocument(e)
  BY <1>2, <1>4, <1>5 DEF IsDocument
<1>7. /\ e.gen = d.gen /\ e.root = d.root /\ e.defect = d.defect /\ e.graph = d.graph
      /\ DOMAIN e.components = DOMAIN d.components
      /\ \A n \in DOMAIN d.components :
           /\ e.components[n].version = d.components[n].version
           /\ e.components[n].exact = d.components[n].exact
           /\ e.components[n].license = LicenseOf(n, d.components[n].license)
  BY <1>2, <1>4
<1> QED  BY <1>6, <1>7 DEF e
(* The container is put in, where there is an example.                     *)
LEMMA ContainerAdded ==
  ASSUME NEW d, IsDocument(d)
  PROVE  LET e == AddContainer(d)
             extra == IF HasExample(d) THEN {Container} ELSE {} IN
         /\ IsDocument(e)
         /\ e.gen = d.gen /\ e.root = d.root /\ e.defect = d.defect
         /\ DOMAIN e.components = DOMAIN d.components \cup extra
         /\ DOMAIN e.graph = DOMAIN d.graph \cup extra
         /\ HasExample(d) => e.components[Container] = PinnedContainer /\ e.graph[Container] = {}
         /\ \A n \in DOMAIN d.components \ extra : e.components[n] = d.components[n]
         /\ \A n \in DOMAIN d.graph \ extra :
              e.graph[n] = d.graph[n] \cup (IF n = Example THEN extra ELSE {})
<1> DEFINE e == AddContainer(d)
<1>1. CASE ~HasExample(d)
  BY <1>1 DEF AddContainer
<1>2. CASE HasExample(d)
  <2> DEFINE components == With(d.components, Container, PinnedContainer)
             graph == With([n \in DOMAIN d.graph |->
                              IF n = Example THEN d.graph[n] \cup {Container} ELSE d.graph[n]],
                           Container, {})
  <2>1. e = [d EXCEPT !.components = components, !.graph = graph]
    BY <1>2 DEF AddContainer, IsDocument
  <2>2. /\ DOMAIN components = DOMAIN d.components \cup {Container}
        /\ components = [n \in DOMAIN components |-> components[n]]
        /\ components[Container] = PinnedContainer
        /\ \A n \in DOMAIN d.components : n # Container => components[n] = d.components[n]
        /\ \A n \in DOMAIN components : DOMAIN components[n] = {"license", "version", "exact"}
    BY DEF With, PinnedContainer, IsDocument
  <2>3. /\ DOMAIN graph = DOMAIN d.graph \cup {Container}
        /\ graph = [n \in DOMAIN graph |-> graph[n]] /\ graph[Container] = {}
        /\ \A n \in DOMAIN d.graph : n # Container =>
             graph[n] = d.graph[n] \cup (IF n = Example THEN {Container} ELSE {})
    BY DEF With
  <2> HIDE DEF components, graph
  <2>4. e = [gen |-> d.gen, root |-> d.root, components |-> components, graph |-> graph,
             defect |-> d.defect]
    BY <2>1 DEF IsDocument
  <2>5. /\ DOMAIN e = {"gen", "root", "components", "graph", "defect"}
        /\ e.gen = d.gen /\ e.root = d.root /\ e.defect = d.defect /\ e.graph = graph
        /\ e.components = components
    BY <2>4
  <2>6. e = [gen |-> e.gen, root |-> e.root, components |-> e.components, graph |-> e.graph,
             defect |-> e.defect]
    BY <2>4, <2>5
  <2> HIDE DEF e
  <2>7. IsDocument(e)
    BY <2>2, <2>3, <2>5, <2>6 DEF IsDocument
  <2> QED  BY <1>2, <2>2, <2>3, <2>5, <2>7 DEF e
<1> QED  BY <1>1, <1>2

(* Both together: the completed document.                                  *)
LEMMA FinalizedShape ==
  ASSUME NEW d, IsDocument(d)
  PROVE  LET e == Finalized(d)
             extra == IF HasExample(d) THEN {Container} ELSE {} IN
         /\ IsDocument(e)
         /\ e.gen = d.gen /\ e.root = d.root /\ e.defect = d.defect
         /\ DOMAIN e.components = DOMAIN d.components \cup extra
         /\ DOMAIN e.graph = DOMAIN d.graph \cup extra
         /\ HasExample(d) => e.components[Container] = PinnedContainer /\ e.graph[Container] = {}
         /\ \A n \in DOMAIN d.components \ extra :
              /\ e.components[n].version = d.components[n].version
              /\ e.components[n].exact = d.components[n].exact
              /\ e.components[n].license = LicenseOf(n, d.components[n].license)
         /\ \A n \in DOMAIN d.graph \ extra :
              e.graph[n] = d.graph[n] \cup (IF n = Example THEN extra ELSE {})
<1>1. HasExample(SetLicenses(d)) <=> HasExample(d)
  BY LicensesSet DEF HasExample
<1> QED  BY <1>1, LicensesSet, ContainerAdded DEF Finalized

(* A completed document that passes the comparison is what its source should
   become: IsFinal, clause by clause. *)
LEMMA FinalizedIsFinal ==
  ASSUME NEW s, IsDocument(s), Finalizable(s), Identified(Finalized(s)),
         RoleAndGraph(Finalized(s))
  PROVE  IsFinal(Finalized(s), s)
<1> DEFINE d == Finalized(s)
           extra == IF HasExample(s) THEN {Container} ELSE {}
<1>1. /\ d.gen = s.gen /\ d.root = s.root
      /\ DOMAIN d.components = DOMAIN s.components \cup extra
      /\ DOMAIN d.graph = DOMAIN s.graph \cup extra
      /\ HasExample(s) => d.components[Container] = PinnedContainer /\ d.graph[Container] = {}
      /\ \A n \in DOMAIN s.components \ extra :
           /\ d.components[n].version = s.components[n].version
           /\ d.components[n].license = LicenseOf(n, s.components[n].license)
      /\ \A n \in DOMAIN s.graph \ extra :
           d.graph[n] = s.graph[n] \cup (IF n = Example THEN extra ELSE {})
  BY FinalizedShape
<1>2. /\ DOMAIN d.graph = DOMAIN d.components
      /\ \A n \in DOMAIN d.components : d.components[n].exact
  BY DEF RoleAndGraph, Identified
<1>3. /\ HasExample(s) /\ Container \in DOMAIN s.components =>
           s.components[Container] = PinnedContainer
      /\ HasExample(s) /\ Container \in DOMAIN s.graph => s.graph[Container] = {}
  BY DEF Finalizable
<1> HIDE DEF d
<1>4. ASSUME NEW n \in DOMAIN s.components
      PROVE  /\ d.components[n].version = s.components[n].version /\ d.components[n].exact
             /\ d.components[n].license = CASE n \in FirstPartyNames  -> Apache
                                            [] n \in DOMAIN Override  -> Override[n]
                                            [] OTHER                  -> s.components[n].license
             /\ d.graph[n] = (IF n \in DOMAIN s.graph THEN s.graph[n] ELSE {})
                               \cup (IF n = Example THEN extra ELSE {})
  <2>1. CASE n \in extra
    BY <1>1, <1>2, <1>3, <2>1, NamesApart
  <2>2. CASE n \notin extra
    <3>1. d.components[n].license = LicenseOf(n, s.components[n].license)
      BY <1>1, <2>2
    <3>2. n \in DOMAIN s.graph
      BY <1>1, <1>2, <2>2
    <3>3. d.components[n].license = CASE n \in FirstPartyNames  -> Apache
                                      [] n \in DOMAIN Override  -> Override[n]
                                      [] OTHER                  -> s.components[n].license
      BY <3>1, NamesApart DEF LicenseOf
    <3> QED  BY <1>1, <1>2, <2>2, <3>2, <3>3
  <2> QED  BY <2>1, <2>2
<1>5. IsFinal(d, s)
  BY <1>1, <1>2, <1>4 DEF IsFinal, HasExample
<1> QED  BY <1>5 DEF d

(* A document that was put in place and passes is its own completion.      *)
LEMMA AcceptedIsFinal ==
  ASSUME NEW d, IsDocument(d), Licensed(d), Identified(d), RoleAndGraph(d)
  PROVE  IsFinal(d, d)
<1> DEFINE extra == IF HasExample(d) THEN {Container} ELSE {}
<1>1. /\ HasExample(d) => Container \in DOMAIN d.components /\ Container \in d.graph[Example]
      /\ DOMAIN d.graph = DOMAIN d.components
      /\ \A n \in DOMAIN d.components : d.components[n].exact
  BY DEF Licensed, RoleAndGraph, Identified
<1>2. ASSUME NEW n \in DOMAIN d.components
      PROVE  /\ d.components[n].license = CASE n \in FirstPartyNames  -> Apache
                                            [] n \in DOMAIN Override  -> Override[n]
                                            [] OTHER                  -> d.components[n].license
             /\ d.graph[n] = (IF n \in DOMAIN d.graph THEN d.graph[n] ELSE {})
                               \cup (IF n = Example THEN extra ELSE {})
  <2>1. /\ n \in FirstPartyNames => d.components[n].license = Apache
        /\ n \in DOMAIN Override => d.components[n].license = Override[n]
    BY DEF Licensed, FirstParty
  <2>2. d.components[n].license = CASE n \in FirstPartyNames  -> Apache
                                    [] n \in DOMAIN Override  -> Override[n]
                                    [] OTHER                  -> d.components[n].license
    BY <2>1, NamesApart
  <2> QED  BY <1>1, <2>2 DEF HasExample
<1> QED  BY <1>1, <1>2 DEF IsFinal, HasExample

(* What _verify_pair requires of the two documents together.               *)
Accepted(j, x) ==
  /\ JsonSound(j) /\ Contract(j) /\ Licensed(j)
  /\ XmlSound(x) /\ Contract(x) /\ Licensed(x) /\ SemanticPair(j, x)

(* What the setters complete and the comparison accepts, the verification
   accepts: nothing is refused only after it was written. *)
LEMMA FinalizedSound ==
  ASSUME NEW d, IsDocument(d), JsonSound(d), Contract(d)
  PROVE  JsonSound(Finalized(d)) /\ Contract(Finalized(d))
<1> DEFINE e == Finalized(d)
           extra == IF HasExample(d) THEN {Container} ELSE {}
<1>1. /\ e.defect = d.defect /\ DOMAIN e.components = DOMAIN d.components \cup extra
      /\ \A n \in DOMAIN d.components \ extra : e.components[n].exact = d.components[n].exact
  BY FinalizedShape
<1> HIDE DEF e
<1>2. Forbidden \notin DOMAIN e.components /\ FirstParty(e) # {}
  BY <1>1, NamesApart DEF Contract, FirstParty
<1>3. HasExample(e) => Pinned \in DOMAIN e.components /\ e.components[Pinned].exact
  BY <1>1, NamesApart DEF Contract, HasExample
<1>4. JsonSound(e) /\ Contract(e)
  BY <1>1, <1>2, <1>3 DEF JsonSound, Contract
<1> QED  BY <1>4 DEF e

LEMMA FinalizedLicensed ==
  ASSUME NEW d, IsDocument(d), Finalizable(d), Identified(Finalized(d)),
         RoleAndGraph(Finalized(d))
  PROVE  Licensed(Finalized(d))
<1> DEFINE e == Finalized(d)
           extra == IF HasExample(d) THEN {Container} ELSE {}
<1>1. /\ DOMAIN e.components = DOMAIN d.components \cup extra
      /\ HasExample(d) => e.components[Container] = PinnedContainer /\ e.graph[Container] = {}
      /\ \A n \in DOMAIN d.components \ extra :
           e.components[n].license = LicenseOf(n, d.components[n].license)
      /\ \A n \in DOMAIN d.graph \ extra :
           e.graph[n] = d.graph[n] \cup (IF n = Example THEN extra ELSE {})
  BY FinalizedShape
<1>2. /\ \A n \in DOMAIN e.components : e.components[n].exact
      /\ \A n \in FirstParty(e) : e.components[n].license = Apache
  BY DEF Identified, RoleAndGraph
<1>3. IF HasExample(d) THEN Connector \in DOMAIN d.components /\ Example \in DOMAIN d.graph
                       ELSE Container \notin DOMAIN d.components
  BY DEF Finalizable
<1> HIDE DEF e
<1>4. \A n \in DOMAIN e.components \cap DOMAIN Override : e.components[n].license = Override[n]
  BY <1>1, NamesApart DEF LicenseOf
<1>5. HasExample(e) <=> HasExample(d)
  BY <1>1, NamesApart DEF HasExample
<1>6. HasExample(e) =>
        /\ {Connector, Container} \subseteq DOMAIN e.components
        /\ e.components[Container] = PinnedContainer
        /\ Container \in e.graph[Example] /\ e.graph[Container] = {}
  BY <1>1, <1>3, <1>5, NamesApart
<1>7. ~HasExample(e) => Container \notin DOMAIN e.components
  BY <1>1, <1>3, <1>5
<1>8. Licensed(e)
  BY <1>2, <1>4, <1>6, <1>7 DEF Licensed, ReviewedExact
<1> QED  BY <1>8 DEF e

LEMMA FinalizedAccepted ==
  ASSUME NEW j, IsDocument(j), JsonSound(j), Contract(j), Finalizable(j),
         NEW x, IsDocument(x), XmlSound(x), Contract(x), Finalizable(x),
         SemanticPair(Finalized(j), Finalized(x))
  PROVE  Accepted(Finalized(j), Finalized(x))
<1>1. JsonSound(Finalized(j)) /\ Contract(Finalized(j)) /\ Licensed(Finalized(j))
  BY FinalizedSound, FinalizedLicensed DEF SemanticPair
<1>2. JsonSound(Finalized(x)) /\ Contract(Finalized(x))
  BY FinalizedSound DEF XmlSound, JsonSound
<1>3. XmlSound(Finalized(x)) /\ Licensed(Finalized(x))
  BY <1>1, <1>2 DEF SemanticPair, XmlSound, JsonSound, Licensed, FirstParty, ReviewedExact,
     HasExample
<1> QED  BY <1>1, <1>2, <1>3 DEF Accepted

(* Two documents that are accepted together are the same document.         *)
LEMMA AcceptedSame ==
  ASSUME NEW j, IsDocument(j), NEW x, IsDocument(x), Accepted(j, x)
  PROVE  j = x
<1>1. j.gen = x.gen /\ j.root = x.root /\ j.components = x.components /\ j.graph = x.graph
      /\ j.defect = x.defect
  BY DEF Accepted, SemanticPair, JsonSound, XmlSound
<1> QED  BY <1>1 DEF IsDocument

-----------------------------------------------------------------------------
(***************************************************************************)
(* The SBOM finalizer's invariant.  What it loads, writes and has verified *)
(* is a completion of something generated; while nobody disturbs it, what  *)
(* it has verified is on disk, and what it has written will be accepted.   *)
(***************************************************************************)
Origin(r, f) == {s[r][f] : s \in SourceSets} \cup {Regenerated[r]}
Completions(r, f) == {Finalized(d) : d \in {o \in Origin(r, f) : Finalizable(o)}}
Placed(r, f) == {Absent, Regenerated[r]} \cup Completions(r, f)

WritePlaces == {"write-json", "write-xml"}
VerifyPlaces == {"verify-json", "verify-xml"}
EarlyPlaces == {"load-json", "load-xml"} \cup WritePlaces
PairPlaces == EarlyPlaces \cup VerifyPlaces

SbomTypes ==
  /\ DOMAIN files = Paths /\ disturbed \in BOOLEAN
  /\ DOMAIN inHand = Formats /\ \A f \in Formats : IsDocument(inHand[f])
  /\ fpc \in PairPlaces \cup {"collect", "end"} /\ (verdict = "none" <=> fpc # "end")
  /\ fpc \in EarlyPlaces => task = "finalize"
  /\ pair \in 1 .. 4 /\ (fpc \in PairPlaces => pair # 4)

OriginInv ==
  /\ \A r \in Roles, f \in Formats : files[Source(r, f)].document \in Origin(r, f)
  /\ verdict # "ok" =>
       \A r \in Roles, f \in Formats : files[Output(r, f)].document \in Placed(r, f)

HandInv ==
  /\ fpc = "load-xml" =>
       \E d \in Origin(Role, "json") :
         JsonSound(d) /\ Contract(d) /\ Finalizable(d) /\ inHand["json"] = Finalized(d)
  /\ fpc \in WritePlaces => /\ \A f \in Formats : inHand[f] \in Completions(Role, f)
                            /\ Accepted(inHand["json"], inHand["xml"])
  /\ fpc = "verify-xml" => /\ inHand["json"] \in Placed(Role, "json")
                           /\ JsonSound(inHand["json"]) /\ Contract(inHand["json"])

VerifiedInv ==
  /\ DOMAIN verified \subseteq Roles
  /\ fpc \in PairPlaces => DOMAIN verified = {Pairs[i] : i \in 1 .. pair - 1} /\ compared = {}
  /\ fpc = "collect" \/ verdict = "ok" => DOMAIN verified = Roles
  /\ \A r \in DOMAIN verified :
       /\ verified[r]["json"] = verified[r]["xml"]
       /\ \E o \in Origin(r, "json") : IsFinal(verified[r]["json"], o)

UndisturbedInv ==
  ~disturbed =>
    /\ fpc = "write-xml" => files[Output(Role, "json")].document = inHand["json"]
    /\ fpc = "verify-json" /\ task = "finalize" =>
         Accepted(files[Output(Role, "json")].document, files[Output(Role, "xml")].document)
    /\ fpc = "verify-xml" => inHand["json"] = files[Output(Role, "json")].document
    /\ fpc = "verify-xml" /\ task = "finalize" =>
         Accepted(inHand["json"], files[Output(Role, "xml")].document)
    /\ \A r \in DOMAIN verified, f \in Formats :
         files[Output(r, f)].document = verified[r][f]
    /\ fpc = "collect" => compared = {verified[Pairs[i]]["json"] : i \in 1 .. pair - 1}
    /\ verdict = "ok" => compared = {verified[r]["json"] : r \in Roles}

SbomInv == /\ SbomTypes /\ OriginInv /\ HandInv /\ VerifiedInv /\ UndisturbedInv
           /\ RefusedBeforeWriting

LEMMA RolesInOrder ==
  /\ Len(Pairs) = 3 /\ \A i \in 1 .. 3 : Pairs[i] \in Roles
  /\ \A i, j \in 1 .. 3 : Pairs[i] = Pairs[j] => i = j
  /\ Roles = {Pairs[i] : i \in 1 .. 3}
BY DEF Pairs, Roles, Aggregate, Published, Example

LEMMA PathsApart ==
  ASSUME NEW r \in Roles, NEW f \in Formats, NEW q \in Roles, NEW g \in Formats
  PROVE  /\ Output(r, f) \in Paths /\ Source(r, f) \in Paths /\ Source(r, f) # Output(q, g)
         /\ Output(r, f) = Output(q, g) => r = q /\ f = g
         /\ Source(r, f) = Source(q, g) => r = q /\ f = g
BY DEF Output, Source, Paths

LEMMA DocumentsTyped ==
  ASSUME NEW r \in Roles, NEW f \in Formats
  PROVE  /\ \A d \in Origin(r, f) : IsDocument(d)
         /\ \A d \in Completions(r, f) : IsDocument(d)
         /\ \A d \in Placed(r, f) : IsDocument(d)
         /\ Regenerated[r] \in Placed(r, f) /\ Completions(r, f) \subseteq Placed(r, f)
<1>1. \A d \in Origin(r, f) : IsDocument(d)
  BY SbomAssumption DEF Origin
<1>2. \A d \in Completions(r, f) : IsDocument(d)
  BY <1>1, FinalizedShape DEF Completions
<1>3. IsDocument(Absent)
  BY DEF IsDocument, Absent
<1>4. Regenerated[r] \in Origin(r, f)
  BY DEF Origin
<1> QED  BY <1>1, <1>2, <1>3, <1>4 DEF Placed

(* What was loaded from where the outputs are, and is accepted, completes
   something that was generated: it was completed, or came so.             *)
LEMMA AcceptedCompletes ==
  ASSUME NEW r \in Roles, NEW j \in Placed(r, "json"), NEW x \in Placed(r, "xml"), Accepted(j, x)
  PROVE  j = x /\ \E o \in Origin(r, "json") : IsFinal(j, o)
<1>1. IsDocument(j) /\ IsDocument(x)
  BY DocumentsTyped DEF Formats
<1>2. j = x
  BY <1>1, AcceptedSame
<1>3. /\ j.defect = "none" /\ Licensed(j) /\ Identified(j) /\ RoleAndGraph(j)
  BY DEF Accepted, SemanticPair, JsonSound
<1>4. j # Absent
  BY <1>3 DEF Absent
<1>5. CASE j = Regenerated[r]
  BY <1>1, <1>2, <1>3, <1>5, AcceptedIsFinal DEF Origin
<1>6. CASE j \in Completions(r, "json")
  <2>1. PICK o \in Origin(r, "json") : Finalizable(o) /\ j = Finalized(o)
    BY <1>6 DEF Completions
  <2>2. IsDocument(o)
    BY DocumentsTyped DEF Formats
  <2> QED  BY <1>2, <1>3, <2>1, <2>2, FinalizedIsFinal
<1> QED  BY <1>4, <1>5, <1>6 DEF Placed

LEMMA SbomStart == SbomInit => SbomInv
<1> SUFFICES ASSUME SbomInit PROVE SbomInv
  OBVIOUS
<1>1. PICK s \in SourceSets :
        files = [p \in Paths |-> Fresh(IF p[1] = "source" THEN s[p[2]][p[3]] ELSE Absent)]
  BY DEF SbomInit
<1>2. ASSUME NEW r \in Roles, NEW f \in Formats
      PROVE  files[Source(r, f)].document = s[r][f] /\ files[Output(r, f)].document = Absent
  BY <1>1, PathsApart DEF Fresh, Source, Output
<1>3. SbomTypes
  <2>1. IsDocument(Absent)
    BY DEF IsDocument, Absent
  <2>2. DOMAIN files = Paths /\ disturbed \in BOOLEAN
    BY <1>1 DEF SbomInit
  <2>3. DOMAIN inHand = Formats /\ \A f \in Formats : IsDocument(inHand[f])
    BY <2>1 DEF SbomInit
  <2> QED  BY <2>2, <2>3 DEF SbomTypes, SbomInit, PairPlaces, EarlyPlaces
<1>4. OriginInv
  BY <1>2 DEF OriginInv, Origin, Placed
<1>5. DOMAIN verified = {} /\ compared = {} /\ fpc = "load-json" /\ verdict = "none" /\ pair = 1
  BY DEF SbomInit, NoneVerified
<1>6. HandInv /\ UndisturbedInv /\ RefusedBeforeWriting
  BY <1>5 DEF HandInv, UndisturbedInv, RefusedBeforeWriting, WritePlaces
<1>7. VerifiedInv
  <2>1. {Pairs[i] : i \in 1 .. pair - 1} = {}
    BY <1>5
  <2> QED  BY <1>5, <2>1 DEF VerifiedInv
<1> QED  BY <1>3, <1>4, <1>6, <1>7 DEF SbomInv

LEMMA LoadJsonStep == SbomInv /\ LoadJson => SbomInv'
<1> SUFFICES ASSUME SbomInv, LoadJson PROVE SbomInv'
  OBVIOUS
<1> USE DEF SbomInv
<1> DEFINE d == files[Source(Role, "json")].document
           fine == JsonSound(d) /\ Contract(d) /\ Finalizable(d)
<1>0. fpc = "load-json" /\ pair \in 1 .. 3 /\ Role \in Roles /\ task = "finalize" /\ verdict = "none"
  <2>1. fpc = "load-json" /\ fpc \in EarlyPlaces /\ fpc \in PairPlaces
    BY DEF LoadJson, FAt, PairPlaces, EarlyPlaces
  <2> QED  BY <2>1, RolesInOrder DEF SbomTypes, Role
<1>1. /\ fpc = "load-json" /\ pair \in 1 .. 3 /\ Role \in Roles /\ task = "finalize"
      /\ verdict = "none"
      /\ UNCHANGED <<files, task, pair, verified, compared, disturbed, touches>>
      /\ IF fine THEN fpc' = "load-xml" /\ verdict' = verdict
                      /\ inHand' = [inHand EXCEPT !["json"] = Finalized(d)]
                 ELSE fpc' = "end" /\ verdict' = "refused" /\ inHand' = inHand
  BY <1>0 DEF LoadJson, FGoto, FRequire, FromSource
<1>2. d \in Origin(Role, "json") /\ IsDocument(d)
  BY <1>1, DocumentsTyped DEF OriginInv, Formats
<1>3. IsDocument(Finalized(d))
  BY <1>2, FinalizedShape
<1> HIDE DEF d, fine
<1>4. SbomTypes'
  BY <1>1, <1>3 DEF SbomTypes, PairPlaces, EarlyPlaces, WritePlaces, VerifyPlaces, Formats
<1>5. OriginInv'
  BY <1>1 DEF OriginInv
<1>6. HandInv'
  <2>1. Role' = Role
    BY <1>1 DEF Role
  <2>2. fpc' = "load-xml" => inHand'["json"] = Finalized(d) /\ fine
    BY <1>1 DEF SbomTypes, Formats
  <2>3. fpc' \notin WritePlaces /\ fpc' # "verify-xml"
    BY <1>1 DEF WritePlaces
  <2> QED  BY <1>2, <2>1, <2>2, <2>3 DEF HandInv, fine
<1>7. VerifiedInv'
  BY <1>1 DEF VerifiedInv, PairPlaces, EarlyPlaces, WritePlaces, VerifyPlaces
<1>8. UndisturbedInv' /\ RefusedBeforeWriting'
  BY <1>1 DEF UndisturbedInv, RefusedBeforeWriting
<1> QED  BY <1>4, <1>5, <1>6, <1>7, <1>8

LEMMA LoadXmlStep == SbomInv /\ LoadXml => SbomInv'
<1> SUFFICES ASSUME SbomInv, LoadXml PROVE SbomInv'
  OBVIOUS
<1> USE DEF SbomInv
<1> DEFINE d == files[Source(Role, "xml")].document
           fine == /\ XmlSound(d) /\ Contract(d) /\ Finalizable(d)
                   /\ SemanticPair(inHand["json"], Finalized(d))
<1>0. fpc = "load-xml" /\ pair \in 1 .. 3 /\ Role \in Roles /\ task = "finalize" /\ verdict = "none"
  <2>1. fpc = "load-xml" /\ fpc \in EarlyPlaces /\ fpc \in PairPlaces
    BY DEF LoadXml, FAt, PairPlaces, EarlyPlaces
  <2> QED  BY <2>1, RolesInOrder DEF SbomTypes, Role
<1>1. /\ fpc = "load-xml" /\ pair \in 1 .. 3 /\ Role \in Roles /\ task = "finalize"
      /\ verdict = "none" /\ UNCHANGED <<files, task, pair, verified, compared, disturbed, touches>>
      /\ inHand' \in {inHand, [inHand EXCEPT !["xml"] = Finalized(d)]}
      /\ fine => inHand' = [inHand EXCEPT !["xml"] = Finalized(d)]
      /\ IF fine THEN fpc' = "write-json" /\ verdict' = verdict
                 ELSE fpc' = "end" /\ verdict' = "refused"
  BY <1>0 DEF LoadXml, FGoto, FRequire, FromSource
<1>2. d \in Origin(Role, "xml") /\ IsDocument(d)
  BY <1>1, DocumentsTyped DEF OriginInv, Formats
<1>3. IsDocument(Finalized(d))
  BY <1>2, FinalizedShape
<1>4. PICK o \in Origin(Role, "json") :
        JsonSound(o) /\ Contract(o) /\ Finalizable(o) /\ inHand["json"] = Finalized(o)
  BY <1>1 DEF HandInv
<1>5. IsDocument(o)
  BY <1>1, DocumentsTyped DEF Formats
<1>6. fine => /\ Accepted(Finalized(o), Finalized(d))
              /\ Finalized(o) \in Completions(Role, "json")
              /\ Finalized(d) \in Completions(Role, "xml")
  BY <1>2, <1>4, <1>5, FinalizedAccepted DEF Completions
<1> HIDE DEF d, fine
<1>7. SbomTypes'
  BY <1>1, <1>3 DEF SbomTypes, PairPlaces, EarlyPlaces, WritePlaces, VerifyPlaces, Formats
<1>8. OriginInv'
  BY <1>1 DEF OriginInv
<1>9. HandInv'
  <2>1. Role' = Role
    BY <1>1 DEF Role
  <2>2. fine => inHand'["json"] = Finalized(o) /\ inHand'["xml"] = Finalized(d)
    BY <1>1, <1>4 DEF SbomTypes, Formats
  <2>3. fpc' # "load-xml" /\ fpc' # "verify-xml" /\ (fpc' \in WritePlaces => fine)
    BY <1>1 DEF WritePlaces
  <2>4. \A f \in Formats : f = "json" \/ f = "xml"
    BY DEF Formats
  <2> QED  BY <1>6, <2>1, <2>2, <2>3, <2>4 DEF HandInv
<1>10. VerifiedInv'
  BY <1>1 DEF VerifiedInv, PairPlaces, EarlyPlaces, WritePlaces, VerifyPlaces
<1>11. UndisturbedInv' /\ RefusedBeforeWriting'
  BY <1>1 DEF UndisturbedInv, RefusedBeforeWriting
<1> QED  BY <1>7, <1>8, <1>9, <1>10, <1>11

LEMMA WriteDocumentStep == SbomInv /\ WriteDocument => SbomInv'
<1> SUFFICES ASSUME SbomInv, WriteDocument PROVE SbomInv'
  OBVIOUS
<1> USE DEF SbomInv
<1>1. PICK f \in Formats :
        /\ fpc = (IF f = "json" THEN "write-json" ELSE "write-xml")
        /\ files' = [files EXCEPT ![Output(Role, f)] =
                       [document |-> inHand[f], stamp |-> 2 * touches + 1]]
        /\ fpc' = IF f = "json" THEN "write-xml" ELSE "verify-json"
  BY DEF WriteDocument, FAt, FGoto
<1>2. fpc \in WritePlaces /\ fpc' \in {"write-xml", "verify-json"}
  BY <1>1 DEF WritePlaces
<1>3. UNCHANGED <<task, pair, inHand, verified, compared, verdict, disturbed, touches>> /\ Role' = Role
  BY DEF WriteDocument, Role
<1>4. task = "finalize" /\ pair \in 1 .. 3 /\ Role \in Roles /\ verdict = "none"
  <2>1. fpc \in EarlyPlaces /\ fpc \in PairPlaces /\ fpc # "end"
    BY <1>2 DEF PairPlaces, EarlyPlaces, WritePlaces
  <2> QED  BY <2>1, RolesInOrder DEF SbomTypes, Role
<1>5. inHand[f] \in Completions(Role, f) /\ Accepted(inHand["json"], inHand["xml"])
  BY <1>2 DEF HandInv
<1>6. /\ DOMAIN files' = Paths /\ files'[Output(Role, f)].document = inHand[f]
      /\ \A r \in Roles, g \in Formats :
           /\ files'[Source(r, g)] = files[Source(r, g)]
           /\ r # Role \/ g # f => files'[Output(r, g)] = files[Output(r, g)]
  BY <1>1, <1>4, PathsApart DEF SbomTypes
<1>7. SbomTypes'
  <2>1. fpc' \in PairPlaces /\ fpc' # "end"
    BY <1>2 DEF PairPlaces, EarlyPlaces, WritePlaces, VerifyPlaces
  <2> QED  BY <1>3, <1>4, <1>6, <2>1 DEF SbomTypes
<1>8. OriginInv'
  BY <1>3, <1>4, <1>5, <1>6, DocumentsTyped DEF OriginInv
<1>9. HandInv'
  BY <1>2, <1>3, <1>5 DEF HandInv
<1>10. VerifiedInv'
  <2>1. fpc \in PairPlaces /\ fpc' \in PairPlaces /\ fpc' # "collect"
    BY <1>2 DEF PairPlaces, EarlyPlaces, VerifyPlaces, WritePlaces
  <2> QED  BY <1>3, <1>4, <2>1 DEF VerifiedInv
<1>11. UndisturbedInv' /\ RefusedBeforeWriting'
  <2>1. fpc' = "write-xml" => files'[Output(Role, "json")].document = inHand["json"]
    BY <1>1, <1>6
  <2>2. ~disturbed /\ fpc' = "verify-json" =>
          Accepted(files'[Output(Role, "json")].document, files'[Output(Role, "xml")].document)
    <3>1. fpc' = "verify-json" => f = "xml" /\ fpc = "write-xml"
      BY <1>1 DEF Formats
    <3>2. ~disturbed /\ fpc = "write-xml" => files[Output(Role, "json")].document = inHand["json"]
      BY DEF UndisturbedInv
    <3>3. f = "xml" => files'[Output(Role, "json")] = files[Output(Role, "json")]
      BY <1>4, <1>6 DEF Formats
    <3> QED  BY <1>5, <1>6, <3>1, <3>2, <3>3
  <2>3. \A r \in DOMAIN verified : r \in Roles /\ r # Role
    <3>1. fpc \in PairPlaces
      BY <1>2 DEF PairPlaces, EarlyPlaces
    <3>2. DOMAIN verified = {Pairs[i] : i \in 1 .. pair - 1}
      BY <3>1 DEF VerifiedInv
    <3> QED  BY <1>4, <3>2, RolesInOrder DEF Role
  <2>4. ~disturbed => \A r \in DOMAIN verified, g \in Formats :
                        files'[Output(r, g)].document = verified[r][g]
    BY <1>6, <2>3 DEF UndisturbedInv
  <2> QED  BY <1>2, <1>3, <1>4, <2>1, <2>2, <2>4 DEF UndisturbedInv, RefusedBeforeWriting
<1> QED  BY <1>7, <1>8, <1>9, <1>10, <1>11

LEMMA VerifyJsonStep == SbomInv /\ VerifyJson => SbomInv'
<1> SUFFICES ASSUME SbomInv, VerifyJson PROVE SbomInv'
  OBVIOUS
<1> USE DEF SbomInv
<1> DEFINE d == files[Output(Role, "json")].document
           fine == JsonSound(d) /\ Contract(d)
<1>1. fpc = "verify-json" /\ fpc \in PairPlaces /\ pair \in 1 .. 3 /\ Role \in Roles /\ verdict = "none"
  <2>1. fpc = "verify-json" /\ fpc \in PairPlaces
    BY DEF VerifyJson, FAt, PairPlaces, VerifyPlaces
  <2> QED  BY <2>1, RolesInOrder DEF SbomTypes, Role
<1>2. /\ UNCHANGED <<files, task, pair, verified, compared, disturbed, touches>> /\ Role' = Role
      /\ inHand' = [inHand EXCEPT !["json"] = d]
      /\ IF fine THEN fpc' = "verify-xml" /\ verdict' = verdict
                 ELSE fpc' = "end" /\ verdict' = "unverified"
  BY <1>1 DEF VerifyJson, FGoto, FRequire, FromSource, Role
<1>3. d \in Placed(Role, "json") /\ IsDocument(d)
  BY <1>1, DocumentsTyped DEF OriginInv, Formats
<1>4. ~disturbed /\ task = "finalize" =>
        Accepted(files[Output(Role, "json")].document, files[Output(Role, "xml")].document)
  BY <1>1 DEF UndisturbedInv
<1>5. ~disturbed /\ task = "finalize" => fine
  BY <1>4 DEF Accepted
<1> HIDE DEF fine
<1>6. inHand'["json"] = d /\ DOMAIN inHand' = Formats /\ \A f \in Formats : IsDocument(inHand'[f])
  BY <1>2, <1>3 DEF SbomTypes, Formats
<1>7. SbomTypes'
  <2>1. "verify-xml" \in PairPlaces /\ "verify-xml" \notin EarlyPlaces /\ "end" \notin EarlyPlaces
    BY DEF PairPlaces, EarlyPlaces, WritePlaces, VerifyPlaces
  <2> QED  BY <1>1, <1>2, <1>6, <2>1 DEF SbomTypes
<1>8. OriginInv'
  BY <1>1, <1>2 DEF OriginInv
<1>9. HandInv'
  <2>1. fpc' # "load-xml" /\ fpc' \notin WritePlaces /\ (fpc' = "verify-xml" => fine)
    BY <1>2 DEF WritePlaces
  <2> QED  BY <1>2, <1>3, <1>6, <2>1 DEF HandInv, fine
<1>10. VerifiedInv'
  <2>1. fpc' # "collect" /\ verdict' # "ok"
    BY <1>1, <1>2
  <2>2. UNCHANGED <<verified, pair, compared>>
    BY <1>2
  <2> QED  BY <1>1, <2>1, <2>2 DEF VerifiedInv
<1>11. UndisturbedInv'
  <2>1. fpc' \in {"verify-xml", "end"} /\ verdict' # "ok"
    BY <1>1, <1>2
  <2> QED  BY <1>2, <1>4, <1>6, <2>1 DEF UndisturbedInv
<1>12. RefusedBeforeWriting'
  BY <1>1, <1>2, <1>5 DEF RefusedBeforeWriting
<1> QED  BY <1>7, <1>8, <1>9, <1>10, <1>11, <1>12

LEMMA VerifyXmlStep == SbomInv /\ VerifyXml => SbomInv'
<1> SUFFICES ASSUME SbomInv, VerifyXml PROVE SbomInv'
  OBVIOUS
<1> USE DEF SbomInv
<1> DEFINE j == inHand["json"]
           d == files[Output(Role, "xml")].document
           fine == /\ XmlSound(d) /\ Contract(d) /\ SemanticPair(j, d)
                   /\ Licensed(j) /\ Licensed(d)
<1>1. fpc = "verify-xml" /\ fpc \in PairPlaces /\ pair \in 1 .. 3 /\ Role \in Roles /\ verdict = "none"
  <2>1. fpc = "verify-xml" /\ fpc \in PairPlaces
    BY DEF VerifyXml, FAt, PairPlaces, VerifyPlaces
  <2> QED  BY <2>1, RolesInOrder DEF SbomTypes, Role
<1>2. /\ UNCHANGED <<files, task, compared, disturbed, touches>>
      /\ inHand' = [inHand EXCEPT !["xml"] = d]
      /\ verified' = IF fine THEN With(verified, Role, inHand') ELSE verified
      /\ pair' = IF ~fine THEN pair ELSE IF pair < 3 THEN pair + 1 ELSE 1
      /\ IF fine THEN /\ fpc' = IF pair = 3 THEN "collect"
                                ELSE IF task = "finalize" THEN "load-json" ELSE "verify-json"
                      /\ verdict' = verdict
                 ELSE fpc' = "end" /\ verdict' = "unverified"
  BY <1>1, RolesInOrder DEF VerifyXml, FGoto, FRequire, FromSource
<1>3. j \in Placed(Role, "json") /\ JsonSound(j) /\ Contract(j)
  BY <1>1 DEF HandInv
<1>4. d \in Placed(Role, "xml") /\ IsDocument(d)
  BY <1>1, DocumentsTyped DEF OriginInv, Formats
<1>5. fine => Accepted(j, d)
  BY <1>3 DEF Accepted
<1>6. fine => j = d /\ \E o \in Origin(Role, "json") : IsFinal(j, o)
  BY <1>1, <1>3, <1>4, <1>5, AcceptedCompletes
<1>7. ~disturbed /\ task = "finalize" => fine
  BY <1>1 DEF UndisturbedInv, Accepted
<1>8. ~disturbed => j = files[Output(Role, "json")].document
  BY <1>1 DEF UndisturbedInv
<1>9. DOMAIN verified = {Pairs[i] : i \in 1 .. pair - 1} /\ compared = {}
  BY <1>1 DEF VerifiedInv
<1> HIDE DEF fine
<1>10. /\ inHand'["json"] = j /\ inHand'["xml"] = d /\ DOMAIN inHand' = Formats
       /\ \A f \in Formats : IsDocument(inHand'[f])
  BY <1>2, <1>4 DEF SbomTypes, Formats
<1>11. fpc' \in {"collect", "load-json", "verify-json", "end"} /\ verdict' # "ok"
  BY <1>1, <1>2
<1>12. fine => /\ DOMAIN verified' = {Pairs[i] : i \in 1 .. pair} /\ verified'[Role] = inHand'
               /\ Role \notin DOMAIN verified
               /\ \A r \in DOMAIN verified : verified'[r] = verified[r]
  <2>1. {Pairs[i] : i \in 1 .. pair} = {Pairs[i] : i \in 1 .. pair - 1} \cup {Role}
    BY <1>1 DEF Role
  <2>2. Role \notin {Pairs[i] : i \in 1 .. pair - 1}
    BY <1>1, RolesInOrder DEF Role
  <2> QED  BY <1>2, <1>9, <2>1, <2>2 DEF With
<1>13. SbomTypes'
  <2>1. /\ {"load-json", "verify-json"} \subseteq PairPlaces /\ "collect" \notin PairPlaces
        /\ "verify-json" \notin EarlyPlaces /\ "collect" \notin EarlyPlaces /\ "end" \notin EarlyPlaces
        /\ "end" \notin PairPlaces
    BY DEF PairPlaces, EarlyPlaces, WritePlaces, VerifyPlaces
  <2>2. pair' \in 1 .. 3
    BY <1>1, <1>2
  <2>3. (verdict' = "none" <=> fpc' # "end") /\ (fpc' = "load-json" => task' = "finalize")
    BY <1>1, <1>2
  <2> QED  BY <1>1, <1>2, <1>10, <1>11, <2>1, <2>2, <2>3 DEF SbomTypes
<1>14. OriginInv'
  BY <1>1, <1>2, <1>11 DEF OriginInv
<1>15. HandInv'
  BY <1>11 DEF HandInv, WritePlaces
<1>16. VerifiedInv'
  <2>1. CASE ~fine
    <3>1. fpc' = "end" /\ "end" \notin PairPlaces /\ verified' = verified
      BY <1>2, <2>1 DEF PairPlaces, EarlyPlaces, WritePlaces, VerifyPlaces
    <3> QED  BY <1>11, <3>1 DEF VerifiedInv
  <2>2. CASE fine
    <3>1. DOMAIN verified' \subseteq Roles
      BY <1>1, <1>12, <2>2, RolesInOrder
    <3>2. fpc' \in PairPlaces => DOMAIN verified' = {Pairs[i] : i \in 1 .. pair' - 1} /\ compared' = {}
      <4>1. fpc' \in PairPlaces => pair # 3 /\ pair' - 1 = pair
        BY <1>1, <1>2, <2>2 DEF PairPlaces, EarlyPlaces, WritePlaces, VerifyPlaces
      <4> QED  BY <1>2, <1>9, <1>12, <2>2, <4>1
    <3>3. fpc' = "collect" => DOMAIN verified' = Roles
      <4>1. fpc' = "collect" => pair = 3
        BY <1>2, <2>2
      <4> QED  BY <1>12, <2>2, <4>1, RolesInOrder
    <3>4. ASSUME NEW r \in DOMAIN verified'
          PROVE  /\ verified'[r]["json"] = verified'[r]["xml"]
                 /\ \E o \in Origin(r, "json") : IsFinal(verified'[r]["json"], o)
      <4>1. CASE r = Role
        BY <1>6, <1>10, <1>12, <2>2, <4>1
      <4>2. CASE r # Role
        <5>1. r \in DOMAIN verified
          BY <1>1, <1>9, <1>12, <2>2, <4>2 DEF Role
        <5> QED  BY <1>12, <2>2, <5>1 DEF VerifiedInv
      <4> QED  BY <4>1, <4>2
    <3> QED  BY <1>11, <3>1, <3>2, <3>3, <3>4 DEF VerifiedInv
  <2> QED  BY <2>1, <2>2
<1>17. UndisturbedInv'
  <2>1. CASE ~fine
    BY <1>2, <1>11, <2>1 DEF UndisturbedInv
  <2>2. CASE fine
    <3>1. ASSUME ~disturbed, NEW r \in DOMAIN verified', NEW f \in Formats
          PROVE  files[Output(r, f)].document = verified'[r][f]
      <4>1. CASE r = Role
        BY <1>8, <1>10, <1>12, <2>2, <3>1, <4>1 DEF Formats
      <4>2. CASE r # Role
        <5>1. r \in DOMAIN verified
          BY <1>1, <1>9, <1>12, <2>2, <4>2 DEF Role
        <5> QED  BY <1>12, <2>2, <3>1, <5>1 DEF UndisturbedInv
      <4> QED  BY <4>1, <4>2
    <3>2. fpc' # "write-xml" /\ fpc' # "verify-xml" /\ (fpc' = "verify-json" => task # "finalize")
      BY <1>2, <1>11
    <3>3. fpc' = "collect" => compared' = {verified'[Pairs[i]]["json"] : i \in 1 .. pair' - 1}
      <4>1. fpc' = "collect" => pair' = 1
        BY <1>2, <2>2
      <4> QED  BY <1>2, <1>9, <4>1
    <3> QED  BY <1>2, <1>11, <3>1, <3>2, <3>3 DEF UndisturbedInv
  <2> QED  BY <2>1, <2>2
<1>18. RefusedBeforeWriting'
  BY <1>1, <1>2, <1>7 DEF RefusedBeforeWriting
<1> QED  BY <1>13, <1>14, <1>15, <1>16, <1>17, <1>18

LEMMA CollectPairStep == SbomInv /\ CollectPair => SbomInv'
<1> SUFFICES ASSUME SbomInv, CollectPair PROVE SbomInv'
  OBVIOUS
<1> USE DEF SbomInv
<1> DEFINE d == files[Output(Role, "json")].document
           fine == JsonSound(d) /\ Contract(d)
<1>1. fpc = "collect" /\ pair \in 1 .. 3 /\ Role \in Roles /\ verdict = "none"
  BY RolesInOrder DEF CollectPair, FAt, SbomTypes, Role
<1>2. /\ UNCHANGED <<files, task, inHand, verified, disturbed, touches>>
      /\ compared' = compared \cup {d} /\ pair' = pair + 1
      /\ IF fine THEN fpc' = "collect" /\ verdict' = verdict
                 ELSE fpc' = "end" /\ verdict' = "unverified"
  BY <1>1 DEF CollectPair, FGoto, FRequire, FromSource
<1> HIDE DEF fine
<1>3. fpc' \in {"collect", "end"} /\ verdict' # "ok" /\ pair' \in 1 .. 4
  BY <1>1, <1>2
<1>4. fpc' \notin PairPlaces /\ fpc' \notin EarlyPlaces
  BY <1>3 DEF PairPlaces, EarlyPlaces, WritePlaces, VerifyPlaces
<1>5. SbomTypes'
  BY <1>1, <1>2, <1>3, <1>4 DEF SbomTypes
<1>6. OriginInv'
  BY <1>1, <1>2 DEF OriginInv
<1>7. HandInv'
  BY <1>3 DEF HandInv, WritePlaces
<1>8. DOMAIN verified = Roles
  BY <1>1 DEF VerifiedInv
<1>9. VerifiedInv'
  BY <1>2, <1>3, <1>4, <1>8 DEF VerifiedInv
<1>10. UndisturbedInv'
  <2>1. ASSUME ~disturbed
        PROVE  compared' = {verified[Pairs[i]]["json"] : i \in 1 .. pair' - 1}
    <3>1. compared = {verified[Pairs[i]]["json"] : i \in 1 .. pair - 1}
      BY <1>1, <2>1 DEF UndisturbedInv
    <3>2. d = verified[Pairs[pair]]["json"]
      BY <1>1, <1>8, <2>1 DEF UndisturbedInv, Role, Formats
    <3>3. {verified[Pairs[i]]["json"] : i \in 1 .. pair} =
            {verified[Pairs[i]]["json"] : i \in 1 .. pair - 1} \cup {verified[Pairs[pair]]["json"]}
      BY <1>1
    <3>4. pair' - 1 = pair
      BY <1>1, <1>2
    <3> QED  BY <1>2, <3>1, <3>2, <3>3, <3>4
  <2> QED  BY <1>2, <1>3, <2>1 DEF UndisturbedInv
<1>11. RefusedBeforeWriting'
  BY <1>2, <1>8 DEF RefusedBeforeWriting
<1> QED  BY <1>5, <1>6, <1>7, <1>9, <1>10, <1>11

LEMMA EndFinalizerStep == SbomInv /\ EndFinalizer => SbomInv'
<1> SUFFICES ASSUME SbomInv, EndFinalizer PROVE SbomInv'
  OBVIOUS
<1> USE DEF SbomInv
<1>1. /\ fpc = "collect" /\ pair = 4 /\ verdict = "none"
      /\ UNCHANGED <<files, task, pair, inHand, verified, compared, disturbed, touches>>
      /\ fpc' = "end" /\ verdict' \in {"ok", "unverified"}
  BY RolesInOrder DEF EndFinalizer, FAt, FGoto, SbomTypes
<1>2. fpc' \notin PairPlaces /\ fpc' \notin EarlyPlaces
  BY <1>1 DEF PairPlaces, EarlyPlaces, WritePlaces, VerifyPlaces
<1>3. SbomTypes'
  BY <1>1, <1>2 DEF SbomTypes
<1>4. OriginInv'
  BY <1>1 DEF OriginInv
<1>5. HandInv'
  BY <1>1 DEF HandInv, WritePlaces
<1>6. DOMAIN verified = Roles
  BY <1>1 DEF VerifiedInv
<1>7. VerifiedInv'
  BY <1>1, <1>2, <1>6 DEF VerifiedInv
<1>8. UndisturbedInv'
  <2>1. {verified[Pairs[i]]["json"] : i \in 1 .. 3} = {verified[r]["json"] : r \in Roles}
    BY RolesInOrder
  <2>2. ~disturbed => compared = {verified[r]["json"] : r \in Roles}
    <3>1. pair - 1 = 3
      BY <1>1
    <3> QED  BY <1>1, <2>1, <3>1 DEF UndisturbedInv
  <2> QED  BY <1>1, <2>2 DEF UndisturbedInv
<1>9. RefusedBeforeWriting'
  BY <1>1, <1>6 DEF RefusedBeforeWriting
<1> QED  BY <1>3, <1>4, <1>5, <1>7, <1>8, <1>9

LEMMA StopFinalizerStep == SbomInv /\ StopFinalizer => SbomInv'
<1> SUFFICES ASSUME SbomInv, StopFinalizer PROVE SbomInv'
  OBVIOUS
<1> USE DEF SbomInv
<1>1. /\ fpc # "end" /\ fpc' = "end" /\ verdict' = "stopped"
      /\ UNCHANGED <<files, task, pair, inHand, verified, compared, disturbed>>
  BY DEF StopFinalizer, FGoto
<1>2. verdict = "none"
  BY <1>1 DEF SbomTypes
<1>3. fpc' \notin PairPlaces /\ fpc' \notin EarlyPlaces /\ fpc' \notin WritePlaces
  BY <1>1 DEF PairPlaces, EarlyPlaces, WritePlaces, VerifyPlaces
<1>4. SbomTypes'
  BY <1>1, <1>3 DEF SbomTypes
<1>5. OriginInv' /\ HandInv' /\ RefusedBeforeWriting'
  BY <1>1, <1>2, <1>3 DEF OriginInv, HandInv, RefusedBeforeWriting
<1>6. VerifiedInv' /\ UndisturbedInv'
  BY <1>1, <1>3 DEF VerifiedInv, UndisturbedInv
<1> QED  BY <1>4, <1>5, <1>6

(* Run again, it finds what a killed run has left; nothing is known of it. *)
LEMMA RerunStep == SbomInv /\ Rerun => SbomInv'
<1> SUFFICES ASSUME SbomInv, Rerun PROVE SbomInv'
  OBVIOUS
<1> USE DEF SbomInv
<1>1. /\ verdict = "stopped" /\ task' \in {"finalize", "verify"}
      /\ fpc' = (IF task' = "finalize" THEN "load-json" ELSE "verify-json") /\ pair' = 1
      /\ verified' = NoneVerified /\ compared' = {} /\ verdict' = "none" /\ disturbed' = FALSE
      /\ UNCHANGED <<files, inHand, touches>>
  BY DEF Rerun, FGoto
<1>2. /\ fpc' \in PairPlaces /\ (fpc' \in EarlyPlaces => task' = "finalize")
      /\ fpc' \in {"load-json", "verify-json"} /\ (fpc' = "verify-json" => task' # "finalize")
  BY <1>1 DEF PairPlaces, EarlyPlaces, WritePlaces, VerifyPlaces
<1>3. DOMAIN verified' = {}
  BY <1>1 DEF NoneVerified
<1>4. SbomTypes'
  <2>1. /\ DOMAIN files' = Paths /\ disturbed' \in BOOLEAN
        /\ DOMAIN inHand' = Formats /\ \A f \in Formats : IsDocument(inHand'[f])
    BY <1>1 DEF SbomTypes
  <2>2. verdict' = "none" /\ fpc' # "end" /\ pair' \in 1 .. 4 /\ pair' # 4
    BY <1>1, <1>2
  <2> QED  BY <1>2, <2>1, <2>2 DEF SbomTypes
<1>5. OriginInv' /\ RefusedBeforeWriting'
  BY <1>1 DEF OriginInv, RefusedBeforeWriting
<1>6. HandInv'
  BY <1>2 DEF HandInv, WritePlaces
<1>7. VerifiedInv'
  <2>1. {Pairs[i] : i \in 1 .. pair' - 1} = {}
    BY <1>1
  <2> QED  BY <1>1, <1>2, <1>3, <2>1 DEF VerifiedInv
<1>8. UndisturbedInv'
  BY <1>1, <1>2, <1>3 DEF UndisturbedInv
<1> QED  BY <1>4, <1>5, <1>6, <1>7, <1>8

LEMMA SbomEditStep == SbomInv /\ fpc # "end" /\ SbomEdit => SbomInv'
<1> SUFFICES ASSUME SbomInv, fpc # "end", SbomEdit PROVE SbomInv'
  OBVIOUS
<1> USE DEF SbomInv
<1>0. PICK r \in Roles, f \in Formats, place \in {"source", "output"} :
        \E d \in {Regenerated[r]} \cup (IF place = "output" /\ Finalizable(Regenerated[r])
                                         THEN {Finalized(Regenerated[r])} ELSE {}) :
          files' = [files EXCEPT ![<<place, r, f>>] = [document |-> d, stamp |-> 2 * touches + 2]]
  BY DEF SbomEdit
<1>1. PICK d \in {Regenerated[r]} \cup (IF place = "output" /\ Finalizable(Regenerated[r])
                                         THEN {Finalized(Regenerated[r])} ELSE {}) :
        files' = [files EXCEPT ![<<place, r, f>>] = [document |-> d, stamp |-> 2 * touches + 2]]
  BY <1>0
<1>2. /\ disturbed' = TRUE /\ verdict = "none"
      /\ UNCHANGED <<task, fpc, pair, inHand, verified, compared, verdict>> /\ Role' = Role
  BY DEF SbomEdit, SbomTypes, Role
<1>3. DOMAIN files' = Paths
  BY <1>1 DEF SbomTypes
<1>4. SbomTypes'
  BY <1>2, <1>3 DEF SbomTypes
<1>5. OriginInv'
  <2>1. ASSUME NEW q \in Roles, NEW g \in Formats
        PROVE  files'[Source(q, g)].document \in Origin(q, g)
    <3>1. Source(q, g) \in Paths /\ files[Source(q, g)].document \in Origin(q, g)
      BY PathsApart DEF OriginInv
    <3>2. CASE <<place, r, f>> = Source(q, g)
      <4>1. place = "source" /\ r = q
        BY <3>2 DEF Source
      <4> QED  BY <1>1, <3>1, <3>2, <4>1 DEF Origin, SbomTypes
    <3>3. CASE <<place, r, f>> # Source(q, g)
      BY <1>1, <3>1, <3>3 DEF SbomTypes
    <3> QED  BY <3>2, <3>3
  <2>2. ASSUME NEW q \in Roles, NEW g \in Formats
        PROVE  files'[Output(q, g)].document \in Placed(q, g)
    <3>1. Output(q, g) \in Paths /\ files[Output(q, g)].document \in Placed(q, g)
      BY <1>2, PathsApart DEF OriginInv
    <3>2. CASE <<place, r, f>> = Output(q, g)
      <4>1. place = "output" /\ r = q
        BY <3>2 DEF Output
      <4>2. d \in Placed(q, g)
        BY <1>1, <4>1 DEF Placed, Completions, Origin
      <4> QED  BY <1>1, <3>1, <3>2, <4>2 DEF SbomTypes
    <3>3. CASE <<place, r, f>> # Output(q, g)
      BY <1>1, <3>1, <3>3 DEF SbomTypes
    <3> QED  BY <3>2, <3>3
  <2> QED  BY <2>1, <2>2 DEF OriginInv
<1>6. HandInv'
  BY <1>2 DEF HandInv
<1>7. VerifiedInv' /\ UndisturbedInv' /\ RefusedBeforeWriting'
  BY <1>2 DEF VerifiedInv, UndisturbedInv, RefusedBeforeWriting
<1> QED  BY <1>4, <1>5, <1>6, <1>7

(* The validator begins when all is done; others may then replace outputs. *)
LEMMA ValidatorLeavesSbom ==
  SbomInv /\ (vpc # "idle" => verdict = "ok") /\ OfficialNext => SbomInv'
<1> SUFFICES ASSUME SbomInv, vpc # "idle" => verdict = "ok", OfficialNext PROVE SbomInv'
  OBVIOUS
<1>1. CASE UNCHANGED finalizing
  <2>1. Role' = Role
    BY <1>1 DEF finalizing, Role
  <2> QED  BY <1>1, <2>1 DEF finalizing, SbomInv, SbomTypes, OriginInv, HandInv, VerifiedInv,
         UndisturbedInv, RefusedBeforeWriting
<1>2. CASE ValidationEdit
  <2> USE DEF SbomInv
  <2>1. /\ verdict = "ok" /\ disturbed' = TRUE /\ fpc = "end"
        /\ UNCHANGED <<task, fpc, pair, inHand, verified, compared, verdict>>
    BY <1>2 DEF ValidationEdit, SbomTypes
  <2>2. \/ files' = files
        \/ \E i \in 1 .. 6 : \E document :
             files' = [files EXCEPT ![Documents[i]] = [document |-> document, stamp |-> 2 * touches + 2]]
    BY <1>2 DEF ValidationEdit, EditLock, EditCache, EditOutputs
  <2>3. \A i \in 1 .. 6 : \E r \in Roles, f \in Formats : Documents[i] = Output(r, f)
    BY DEF Documents, Pairs, Roles, Formats, Aggregate, Published, Example
  <2>4. /\ DOMAIN files' = Paths
        /\ \A r \in Roles, f \in Formats : files'[Source(r, f)] = files[Source(r, f)]
    <3>1. CASE files' = files
      BY <3>1 DEF SbomTypes
    <3>2. ASSUME NEW i \in 1 .. 6, NEW document,
                 files' = [files EXCEPT ![Documents[i]] =
                             [document |-> document, stamp |-> 2 * touches + 2]]
          PROVE  /\ DOMAIN files' = Paths
                 /\ \A r \in Roles, f \in Formats : files'[Source(r, f)] = files[Source(r, f)]
      <4>1. PICK q \in Roles, g \in Formats : Documents[i] = Output(q, g)
        BY <2>3
      <4>2. \A r \in Roles, f \in Formats : Source(r, f) # Documents[i] /\ Source(r, f) \in Paths
        BY <4>1, PathsApart
      <4> QED  BY <3>2, <4>2 DEF SbomTypes
    <3> QED  BY <2>2, <3>1, <3>2
  <2>5. SbomTypes'
    BY <2>1, <2>4 DEF SbomTypes
  <2>6. OriginInv'
    BY <2>1, <2>4 DEF OriginInv
  <2>7. HandInv'
    BY <2>1 DEF HandInv, WritePlaces
  <2> QED  BY <2>1, <2>5, <2>6, <2>7 DEF VerifiedInv, UndisturbedInv, RefusedBeforeWriting
<1> QED
  BY <1>1, <1>2 DEF OfficialNext, StartValidation, LoadLock, LookInCache, Download, LinkEntry,
     RequireAsset, SnapshotRepository, SnapshotDocument, RunCli, CheckUnchanged, EndValidation

-----------------------------------------------------------------------------
(***************************************************************************)
(* The official validation's invariant.  Stamps are never given again, so  *)
(* a file that is seen with the stamp of its fingerprint is the file that  *)
(* was fingerprinted, and the one the CLI has read.                        *)
(***************************************************************************)
BeforeDocuments == {"lock", "cache", "download", "link", "asset", "repository"}
BeforeRuns == BeforeDocuments \cup {"documents"}
Running == {"run", "unchanged"}
Fingerprinted(k) == {Documents[i] : i \in 1 .. k}

ValidatorTypes ==
  /\ vpc \in BeforeRuns \cup Running \cup {"idle", "end"} /\ (vpc # "idle" => verdict = "ok")
  /\ vpc # "end" => outcome = "none"
  /\ touches \in Nat /\ lock.asset \in Assets /\ locked.asset \in Assets
  /\ DOMAIN lock = {"asset", "valid", "stamp"}
  /\ DOMAIN cache = Assets /\ \A a \in Assets : DOMAIN cache[a] = DOMAIN NoEntry
  /\ vpc \in (BeforeRuns \ {"lock"}) \cup Running => locked.valid
  /\ \A m \in moments : m = [i \in 1 .. 6 |-> m[i]]
  /\ vpc \in BeforeRuns \cup Running => OutputsNow \in moments

StampInv ==
  /\ \A p \in Paths : files[p].stamp \in 0 .. 2 * touches + 1
  /\ \A a \in Assets : cache[a].stamp \in 0 .. 2 * touches + 1
  /\ binary \in 0 .. 2 * touches + 1
  /\ \A p \in DOMAIN prints : prints[p] \in 0 .. 2 * touches + 1

(* The executable is the one that was verified, as long as its stamp is.   *)
ExecutableInv ==
  vpc \in {"repository", "documents"} \cup Running =>
    (Entry # NoEntry /\ Entry.stamp = binary => Entry.bytes = locked.asset)

DocumentsInv ==
  /\ vpc \in {"idle"} \cup BeforeDocuments => prints = NoPrints
  /\ vpc = "documents" => \E k \in 0 .. 5 : DOMAIN prints = Fingerprinted(k)
  /\ vpc \in Running => DOMAIN prints = Fingerprinted(6)
  /\ vpc \in {"idle"} \cup BeforeRuns => passed = NoPrints /\ ran = {}

RunInv ==
  /\ vpc \in Running =>
       /\ queue \in Seq({<<"version">>} \cup Fingerprinted(6))
       /\ DOMAIN passed \subseteq Fingerprinted(6)
       /\ \A p \in DOMAIN passed : files[p].stamp = prints[p] => passed[p] = files[p].document
       /\ ~disturbed => \A p \in DOMAIN passed : passed[p] = files[p].document
  /\ vpc = "run" =>
       /\ ran \subseteq {locked.asset} /\ (queue = <<>> => ran # {})
       /\ \A p \in Fingerprinted(6) : p \in DOMAIN passed \/ \E k \in 1 .. Len(queue) : queue[k] = p
       /\ \E m \in moments : \A i \in 1 .. 6 :
            Documents[i] \in DOMAIN passed => passed[Documents[i]] = m[i]
  /\ vpc = "unchanged" =>
       /\ queue # <<>> /\ ran # {}
       /\ Entry # NoEntry /\ Entry.stamp = binary => ran \subseteq {locked.asset}
       /\ \A p \in Fingerprinted(6) : p \in DOMAIN passed \/ \E k \in 2 .. Len(queue) : queue[k] = p

OfficialInv ==
  ValidatorTypes /\ StampInv /\ ExecutableInv /\ DocumentsInv /\ RunInv /\ ValidatedTogether

LEMMA DocumentsListed ==
  /\ Documents[1] = Output(Aggregate, "json") /\ Documents[2] = Output(Aggregate, "xml")
  /\ Documents[3] = Output(Published, "json") /\ Documents[4] = Output(Published, "xml")
  /\ Documents[5] = Output(Example, "json") /\ Documents[6] = Output(Example, "xml")
<1>1. /\ (1 + 1) \div 2 = 1 /\ (2 + 1) \div 2 = 1 /\ (3 + 1) \div 2 = 2 /\ (4 + 1) \div 2 = 2
      /\ (5 + 1) \div 2 = 3 /\ (6 + 1) \div 2 = 3
      /\ 1 % 2 = 1 /\ 2 % 2 = 0 /\ 3 % 2 = 1 /\ 4 % 2 = 0 /\ 5 % 2 = 1 /\ 6 % 2 = 0
  OBVIOUS
<1> QED  BY <1>1 DEF Documents, Pairs

LEMMA DocumentsApart ==
  /\ \A i \in 1 .. 6 : Documents[i] \in Paths /\ Documents[i] # <<"version">>
  /\ \A i, j \in 1 .. 6 : Documents[i] = Documents[j] => i = j
  /\ \A r \in Roles, f \in Formats : \E i \in 1 .. 6 : Documents[i] = Output(r, f)
<1>1. /\ {Aggregate, Published, Example} = Roles /\ {"json", "xml"} = Formats
      /\ Aggregate # Published /\ Aggregate # Example /\ Published # Example
  BY DEF Roles, Formats, Aggregate, Published, Example
<1>2. \A i \in 1 .. 6 : i = 1 \/ i = 2 \/ i = 3 \/ i = 4 \/ i = 5 \/ i = 6
  OBVIOUS
<1>3. \A i \in 1 .. 6 : \E r \in Roles, f \in Formats : Documents[i] = Output(r, f)
  BY <1>1, <1>2, DocumentsListed
<1>4. \A r \in Roles, f \in Formats : Output(r, f) \in Paths /\ Output(r, f) # <<"version">>
  BY PathsApart DEF Output
<1>5. \A i, j \in 1 .. 6 : Documents[i] = Documents[j] => i = j
  BY <1>1, <1>2, DocumentsListed, PathsApart
<1>6. \A r \in Roles, f \in Formats : \E i \in 1 .. 6 : Documents[i] = Output(r, f)
  BY <1>1, DocumentsListed
<1>7. \A i \in 1 .. 6 : Documents[i] \in Paths /\ Documents[i] # <<"version">>
  BY <1>3, <1>4
<1> QED  BY <1>5, <1>6, <1>7

(* How many documents have been fingerprinted.                             *)
LEMMA FingerprintedCount ==
  \A k \in 0 .. 6 : IsFiniteSet(Fingerprinted(k)) /\ Cardinality(Fingerprinted(k)) = k
<1>1. Fingerprinted(0) = {} /\ IsFiniteSet(Fingerprinted(0)) /\ Cardinality(Fingerprinted(0)) = 0
  BY FS_EmptySet DEF Fingerprinted
<1>2. ASSUME NEW k \in 0 .. 5, IsFiniteSet(Fingerprinted(k)), Cardinality(Fingerprinted(k)) = k
      PROVE  IsFiniteSet(Fingerprinted(k + 1)) /\ Cardinality(Fingerprinted(k + 1)) = k + 1
  <2>1. Fingerprinted(k + 1) = Fingerprinted(k) \cup {Documents[k + 1]}
    BY DEF Fingerprinted
  <2>2. Documents[k + 1] \notin Fingerprinted(k)
    BY DocumentsApart DEF Fingerprinted
  <2> QED  BY <1>2, <2>1, <2>2, FS_AddElement
<1> DEFINE Counted(k) == IsFiniteSet(Fingerprinted(k)) /\ Cardinality(Fingerprinted(k)) = k
<1>3. Counted(0) /\ \A k \in 0 .. 5 : Counted(k) => Counted(k + 1)
  BY <1>1, <1>2
<1> HIDE DEF Counted
<1>4. Counted(0) /\ Counted(1) /\ Counted(2) /\ Counted(3) /\ Counted(4) /\ Counted(5) /\ Counted(6)
  <2>1. Counted(0) /\ Counted(0 + 1)
    BY <1>3
  <2>2. Counted(1 + 1)
    BY <1>3, <2>1
  <2>3. Counted(2 + 1)
    BY <1>3, <2>2
  <2>4. Counted(3 + 1)
    BY <1>3, <2>3
  <2>5. Counted(4 + 1)
    BY <1>3, <2>4
  <2>6. Counted(5 + 1)
    BY <1>3, <2>5
  <2> QED  BY <2>1, <2>2, <2>3, <2>4, <2>5, <2>6
<1> QED  BY <1>4 DEF Counted

LEMMA OfficialStart == SbomInit /\ OfficialInit => OfficialInv
<1> SUFFICES ASSUME SbomInit, OfficialInit PROVE OfficialInv
  OBVIOUS
<1>1. PICK s \in SourceSets :
        files = [p \in Paths |-> Fresh(IF p[1] = "source" THEN s[p[2]][p[3]] ELSE Absent)]
  BY DEF SbomInit
<1>2. touches = 0 /\ \A p \in Paths : files[p].stamp = 0
  BY <1>1 DEF SbomInit, Fresh
<1>3. /\ vpc = "idle" /\ outcome = "none" /\ prints = NoPrints /\ passed = NoPrints /\ ran = {}
      /\ moments = {} /\ binary = 0 /\ cache = [a \in Assets |-> NoEntry]
      /\ lock = [asset |-> "pinned", valid |-> TRUE, stamp |-> 0] /\ locked = lock
  BY DEF OfficialInit
<1>4. ValidatorTypes
  BY <1>2, <1>3 DEF ValidatorTypes, Assets, BeforeRuns, BeforeDocuments, Running
<1>5. StampInv
  BY <1>2, <1>3 DEF StampInv, NoEntry, NoPrints
<1>6. ExecutableInv /\ DocumentsInv /\ RunInv /\ ValidatedTogether
  BY <1>3 DEF ExecutableInv, DocumentsInv, RunInv, ValidatedTogether, Running
<1> QED  BY <1>4, <1>5, <1>6 DEF OfficialInv

(* While the finalizer works, the validator has not begun.                 *)
LEMMA FinalizerLeavesOfficial ==
  SbomInv /\ OfficialInv /\ FinalizerNext /\ UNCHANGED validation => OfficialInv'
<1> SUFFICES ASSUME SbomInv, OfficialInv, FinalizerNext, UNCHANGED validation PROVE OfficialInv'
  OBVIOUS
<1> USE DEF OfficialInv
<1>1. verdict # "ok"
  <2>1. fpc # "end" \/ verdict = "stopped"
    BY DEF FinalizerNext, LoadJson, LoadXml, WriteDocument, VerifyJson, VerifyXml, CollectPair,
       EndFinalizer, StopFinalizer, Rerun, FAt
  <2> QED  BY <2>1 DEF SbomInv, SbomTypes
<1>2. vpc = "idle" /\ outcome = "none" /\ UNCHANGED validation
  BY <1>1 DEF ValidatorTypes
<1>3. /\ touches \in Nat /\ touches' \in {touches, touches + 1}
      /\ \/ files' = files
         \/ \E p \in Paths : \E document :
              files' = [files EXCEPT ![p] = [document |-> document, stamp |-> 2 * touches + 1]]
         \/ touches' = touches + 1 /\ \E p \in Paths : \E document :
              files' = [files EXCEPT ![p] = [document |-> document, stamp |-> 2 * touches + 2]]
  <2>0. touches \in Nat
    BY DEF ValidatorTypes
  <2>1. CASE WriteDocument
    <3>1. PICK f \in Formats :
            /\ fpc = (IF f = "json" THEN "write-json" ELSE "write-xml")
            /\ files' = [files EXCEPT ![Output(Role, f)] =
                           [document |-> inHand[f], stamp |-> 2 * touches + 1]]
      BY <2>1 DEF WriteDocument, FAt
    <3>2. touches' = touches
      BY <2>1 DEF WriteDocument
    <3>3. fpc \in PairPlaces
      BY <3>1 DEF PairPlaces, EarlyPlaces, WritePlaces
    <3>4. Role \in Roles
      BY <3>3, RolesInOrder DEF SbomInv, SbomTypes, Role
    <3> QED  BY <2>0, <3>1, <3>2, <3>4, PathsApart
  <2>2. CASE SbomEdit
    <3>1. PICK r \in Roles, f \in Formats, place \in {"source", "output"} : \E document :
            files' = [files EXCEPT ![<<place, r, f>>] =
                        [document |-> document, stamp |-> 2 * touches + 2]]
      BY <2>2 DEF SbomEdit
    <3>2. touches' = touches + 1 /\ <<place, r, f>> \in Paths
      BY <2>2 DEF SbomEdit, Paths
    <3> QED  BY <2>0, <3>1, <3>2
  <2>3. CASE files' = files /\ touches' \in {touches, touches + 1}
    BY <2>0, <2>3
  <2> QED
    BY <2>1, <2>2, <2>3 DEF FinalizerNext, LoadJson, LoadXml, VerifyJson, VerifyXml, CollectPair,
       EndFinalizer, StopFinalizer, Rerun
<1>4. StampInv'
  <2>1. /\ \A a \in Assets : cache[a].stamp \in 0 .. 2 * touches' + 1
        /\ binary \in 0 .. 2 * touches' + 1 /\ \A p \in DOMAIN prints : prints[p] \in 0 .. 2 * touches' + 1
        /\ \A p \in Paths : files[p].stamp \in 0 .. 2 * touches' + 1
    <3>1. touches \in Nat /\ touches' \in Nat /\ touches <= touches'
      BY <1>3
    <3>2. \A x \in 0 .. 2 * touches + 1 : x \in 0 .. 2 * touches' + 1
      <4>1. CASE touches' = touches
        BY <4>1
      <4>2. CASE touches' = touches + 1
        BY <3>1, <4>2
      <4> QED  BY <1>3, <4>1, <4>2
    <3> QED  BY <3>2 DEF StampInv
  <2>2. DOMAIN files = Paths
    BY DEF SbomInv, SbomTypes
  <2>3. \A p \in Paths : files'[p].stamp \in 0 .. 2 * touches' + 1
    <3>1. CASE files' = files
      BY <2>1, <3>1
    <3>2. ASSUME NEW p \in Paths, NEW document,
                 NEW stamp \in 0 .. 2 * touches' + 1,
                 files' = [files EXCEPT ![p] = [document |-> document, stamp |-> stamp]]
          PROVE  \A q \in Paths : files'[q].stamp \in 0 .. 2 * touches' + 1
      BY <2>1, <2>2, <3>2
    <3>3. 2 * touches + 1 \in 0 .. 2 * touches' + 1
      BY <1>3
    <3>4. touches' = touches + 1 => 2 * touches + 2 \in 0 .. 2 * touches' + 1
      BY <1>3
    <3> QED  BY <1>3, <3>1, <3>2, <3>3, <3>4
  <2> QED  BY <1>2, <2>1, <2>3 DEF StampInv, validation
<1>5. ValidatorTypes'
  <2>1. touches' \in Nat
    BY <1>3
  <2> QED  BY <1>2, <2>1 DEF ValidatorTypes, validation, BeforeRuns, BeforeDocuments, Running
<1>6. ExecutableInv' /\ DocumentsInv' /\ RunInv' /\ ValidatedTogether'
  BY <1>2 DEF validation, ExecutableInv, DocumentsInv, RunInv, ValidatedTogether, Running
<1> QED  BY <1>4, <1>5, <1>6

LEMMA StartValidationStep == OfficialInv /\ StartValidation => OfficialInv'
<1> SUFFICES ASSUME OfficialInv, StartValidation PROVE OfficialInv'
  OBVIOUS
<1> USE DEF OfficialInv
<1>1. /\ vpc = "idle" /\ verdict = "ok" /\ vpc' = "lock" /\ moments' = {OutputsNow}
      /\ UNCHANGED <<finalizing, lock, cache, locked, binary, prints, queue, passed, ran, outcome>>
  BY DEF StartValidation, VAt, VGoto
<1>2. UNCHANGED <<files, touches, verdict, disturbed, verified>> /\ OutputsNow' = OutputsNow
  BY <1>1 DEF finalizing, OutputsNow
<1>3. ValidatorTypes'
  <2>1. OutputsNow = [i \in 1 .. 6 |-> OutputsNow[i]]
    BY DEF OutputsNow
  <2> QED  BY <1>1, <1>2, <2>1 DEF ValidatorTypes, BeforeRuns, BeforeDocuments, Running
<1>4. StampInv'
  BY <1>1, <1>2 DEF StampInv
<1>5. DocumentsInv'
  BY <1>1 DEF DocumentsInv, BeforeRuns, BeforeDocuments, Running
<1>6. ExecutableInv' /\ RunInv' /\ ValidatedTogether'
  BY <1>1 DEF ValidatorTypes, ExecutableInv, RunInv, ValidatedTogether, Running
<1> QED  BY <1>3, <1>4, <1>5, <1>6

(* Steps that go on, or end in failure, and leave what the fingerprints and
   the runs are about alone.  *)
LEMMA LoadLockStep == OfficialInv /\ LoadLock => OfficialInv'
<1> SUFFICES ASSUME OfficialInv, LoadLock PROVE OfficialInv'
  OBVIOUS
<1> USE DEF OfficialInv
<1>1. /\ vpc = "lock" /\ locked' = lock /\ outcome = "none"
      /\ \/ lock.valid /\ vpc' = "cache" /\ outcome' = "none"
         \/ vpc' = "end" /\ outcome' = "failed"
      /\ UNCHANGED <<finalizing, lock, cache, binary, prints, queue, passed, ran, moments>>
  BY DEF LoadLock, VAt, VGoto, VRequire, ValidatorTypes
<1>2. UNCHANGED <<files, touches, verdict, disturbed, verified>> /\ OutputsNow' = OutputsNow
  BY <1>1 DEF finalizing, OutputsNow
<1>3. ValidatorTypes'
  BY <1>1, <1>2 DEF ValidatorTypes, BeforeRuns, BeforeDocuments, Running
<1>4. StampInv'
  BY <1>1, <1>2 DEF StampInv
<1>5. DocumentsInv'
  BY <1>1 DEF DocumentsInv, BeforeRuns, BeforeDocuments, Running
<1>6. ExecutableInv' /\ RunInv' /\ ValidatedTogether'
  BY <1>1 DEF ExecutableInv, RunInv, ValidatedTogether, Running
<1> QED  BY <1>3, <1>4, <1>5, <1>6

LEMMA CacheStep == OfficialInv /\ (LookInCache \/ Download) => OfficialInv'
<1> SUFFICES ASSUME OfficialInv, LookInCache \/ Download PROVE OfficialInv'
  OBVIOUS
<1> USE DEF OfficialInv
<1>1. /\ vpc \in {"cache", "download"} /\ outcome = "none"
      /\ \/ vpc' \in {"download", "link", "asset"} /\ outcome' = "none"
         \/ vpc' = "end" /\ outcome' = "failed"
      /\ UNCHANGED <<finalizing, lock, cache, locked, binary, prints, queue, passed, ran, moments>>
  BY DEF LookInCache, Download, VAt, VGoto, VRequire, ValidatorTypes
<1>2. UNCHANGED <<files, touches, verdict, disturbed, verified>> /\ OutputsNow' = OutputsNow
  BY <1>1 DEF finalizing, OutputsNow
<1>3. ValidatorTypes'
  BY <1>1, <1>2 DEF ValidatorTypes, BeforeRuns, BeforeDocuments, Running
<1>4. StampInv'
  BY <1>1, <1>2 DEF StampInv
<1>5. DocumentsInv'
  BY <1>1 DEF DocumentsInv, BeforeRuns, BeforeDocuments, Running
<1>6. ExecutableInv' /\ RunInv' /\ ValidatedTogether'
  BY <1>1 DEF ExecutableInv, RunInv, ValidatedTogether, Running
<1> QED  BY <1>3, <1>4, <1>5, <1>6

LEMMA LinkEntryStep == OfficialInv /\ LinkEntry => OfficialInv'
<1> SUFFICES ASSUME OfficialInv, LinkEntry PROVE OfficialInv'
  OBVIOUS
<1> USE DEF OfficialInv
<1> DEFINE linked == [bytes |-> locked.asset, strict |-> TRUE, runs |-> TRUE, stamp |-> 2 * touches + 1]
<1>1. /\ vpc = "link" /\ outcome = "none"
      /\ \/ vpc' = "asset" /\ outcome' = "none"
         \/ vpc' = "end" /\ outcome' = "failed"
      /\ cache' = IF Entry # NoEntry THEN cache ELSE [cache EXCEPT ![locked.asset] = linked]
      /\ UNCHANGED <<finalizing, lock, locked, binary, prints, queue, passed, ran, moments>>
  BY DEF LinkEntry, VAt, VGoto, VRequire, ValidatorTypes
<1>2. UNCHANGED <<files, touches, verdict, disturbed, verified>> /\ OutputsNow' = OutputsNow
  BY <1>1 DEF finalizing, OutputsNow
<1>3. DOMAIN linked = DOMAIN NoEntry /\ linked.stamp = 2 * touches + 1
  BY DEF NoEntry
<1> HIDE DEF linked
<1>4. /\ DOMAIN cache' = Assets
      /\ \A a \in Assets : cache'[a] = cache[a] \/ cache'[a] = linked
  BY <1>1 DEF ValidatorTypes
<1>5. ValidatorTypes'
  BY <1>1, <1>2, <1>3, <1>4 DEF ValidatorTypes, BeforeRuns, BeforeDocuments, Running
<1>6. StampInv'
  <2>1. 2 * touches + 1 \in 0 .. 2 * touches + 1
    BY DEF ValidatorTypes
  <2>2. \A a \in Assets : cache'[a].stamp \in 0 .. 2 * touches + 1
    BY <1>3, <1>4, <2>1 DEF StampInv
  <2> QED  BY <1>1, <1>2, <2>2 DEF StampInv
<1>7. DocumentsInv'
  BY <1>1 DEF DocumentsInv, BeforeRuns, BeforeDocuments, Running
<1>8. ExecutableInv' /\ RunInv' /\ ValidatedTogether'
  BY <1>1 DEF ExecutableInv, RunInv, ValidatedTogether, Running
<1> QED  BY <1>5, <1>6, <1>7, <1>8

LEMMA RequireAssetStep == OfficialInv /\ RequireAsset => OfficialInv'
<1> SUFFICES ASSUME OfficialInv, RequireAsset PROVE OfficialInv'
  OBVIOUS
<1> USE DEF OfficialInv
<1>1. /\ vpc = "asset" /\ outcome = "none" /\ binary' = Entry.stamp
      /\ \/ Entry.bytes = locked.asset /\ vpc' = "repository" /\ outcome' = "none"
         \/ vpc' = "end" /\ outcome' = "failed"
      /\ cache' \in {cache, [cache EXCEPT ![locked.asset].runs = TRUE]}
      /\ UNCHANGED <<finalizing, lock, locked, prints, queue, passed, ran, moments>>
  BY DEF RequireAsset, VAt, VGoto, VRequire, ValidatorTypes
<1>2. UNCHANGED <<files, touches, verdict, disturbed, verified>> /\ OutputsNow' = OutputsNow
  BY <1>1 DEF finalizing, OutputsNow
<1>3. /\ DOMAIN cache' = Assets
      /\ \A a \in Assets : /\ DOMAIN cache'[a] = DOMAIN NoEntry
                           /\ cache'[a].bytes = cache[a].bytes /\ cache'[a].stamp = cache[a].stamp
  BY <1>1 DEF ValidatorTypes, NoEntry
<1>4. locked.asset \in Assets
  BY DEF ValidatorTypes
<1>5. ValidatorTypes'
  BY <1>1, <1>2, <1>3 DEF ValidatorTypes, BeforeRuns, BeforeDocuments, Running
<1>6. StampInv'
  BY <1>1, <1>2, <1>3, <1>4 DEF StampInv, Entry
<1>7. DocumentsInv'
  BY <1>1 DEF DocumentsInv, BeforeRuns, BeforeDocuments, Running
<1>8. ExecutableInv'
  BY <1>1, <1>3, <1>4 DEF ExecutableInv, Entry, Running
<1>9. RunInv' /\ ValidatedTogether'
  BY <1>1 DEF RunInv, ValidatedTogether, Running
<1> QED  BY <1>5, <1>6, <1>7, <1>8, <1>9

LEMMA SnapshotRepositoryStep == OfficialInv /\ SnapshotRepository => OfficialInv'
<1> SUFFICES ASSUME OfficialInv, SnapshotRepository PROVE OfficialInv'
  OBVIOUS
<1> USE DEF OfficialInv
<1>1. /\ vpc = "repository" /\ outcome = "none"
      /\ \/ vpc' = "documents" /\ outcome' = "none"
         \/ vpc' = "end" /\ outcome' = "failed"
      /\ UNCHANGED <<finalizing, lock, cache, locked, binary, prints, queue, passed, ran, moments>>
  BY DEF SnapshotRepository, VAt, VGoto, VRequire, ValidatorTypes
<1>2. UNCHANGED <<files, touches, verdict, disturbed, verified>> /\ OutputsNow' = OutputsNow
  BY <1>1 DEF finalizing, OutputsNow
<1>3. ValidatorTypes'
  BY <1>1, <1>2 DEF ValidatorTypes, BeforeRuns, BeforeDocuments, Running
<1>4. StampInv'
  BY <1>1, <1>2 DEF StampInv
<1>5. DocumentsInv'
  <2>1. vpc \in BeforeDocuments /\ vpc \in BeforeRuns
    BY <1>1 DEF BeforeRuns, BeforeDocuments
  <2>2. DOMAIN prints = Fingerprinted(0)
    BY <2>1 DEF DocumentsInv, NoPrints, Fingerprinted
  <2>3. vpc' \notin {"idle"} \cup BeforeDocuments /\ vpc' \notin Running
    BY <1>1 DEF BeforeDocuments, Running
  <2>4. 0 \in 0 .. 5
    OBVIOUS
  <2> QED  BY <1>1, <2>1, <2>2, <2>3, <2>4 DEF DocumentsInv
<1>6. ExecutableInv'
  BY <1>1 DEF ExecutableInv, Entry, Running
<1>7. RunInv' /\ ValidatedTogether'
  BY <1>1 DEF RunInv, ValidatedTogether, Running
<1> QED  BY <1>3, <1>4, <1>5, <1>6, <1>7

LEMMA SnapshotDocumentStep == SbomInv /\ OfficialInv /\ SnapshotDocument => OfficialInv'
<1> SUFFICES ASSUME SbomInv, OfficialInv, SnapshotDocument PROVE OfficialInv'
  OBVIOUS
<1> USE DEF OfficialInv
<1> DEFINE n == Cardinality(DOMAIN prints) + 1
<1>1. vpc = "documents" /\ vpc \in BeforeRuns /\ outcome = "none"
  BY DEF SnapshotDocument, VAt, ValidatorTypes, BeforeRuns
<1>2. /\ prints' = With(prints, Documents[n], files[Documents[n]].stamp)
      /\ IF n = 6 THEN vpc' = "run" /\ queue' = <<<<"version">>>> \o Documents
                  ELSE vpc' = "documents" /\ queue' = queue
      /\ UNCHANGED <<finalizing, lock, cache, locked, binary, passed, ran, moments, outcome>>
  BY <1>1 DEF SnapshotDocument, VGoto
<1>3. UNCHANGED <<files, touches, verdict, disturbed, verified>> /\ OutputsNow' = OutputsNow
  BY <1>2 DEF finalizing, OutputsNow
<1>4. PICK k \in 0 .. 5 : DOMAIN prints = Fingerprinted(k)
  BY <1>1 DEF DocumentsInv
<1>5. n = k + 1
  BY <1>4, FingerprintedCount
<1>6. n \in 1 .. 6 /\ Documents[n] \in Paths
  BY <1>4, <1>5, DocumentsApart
<1> HIDE DEF n
<1>7. DOMAIN prints' = Fingerprinted(n)
  <2>1. Fingerprinted(n) = Fingerprinted(k) \cup {Documents[n]}
    BY <1>4, <1>5 DEF Fingerprinted
  <2> QED  BY <1>2, <1>4, <2>1 DEF With
<1>8. vpc' \in {"run", "documents"} /\ (vpc' = "run" <=> n = 6)
  BY <1>2
<1>9. ValidatorTypes'
  BY <1>1, <1>2, <1>3, <1>8 DEF ValidatorTypes, BeforeRuns, BeforeDocuments, Running
<1>10. StampInv'
  <2>1. \A p \in DOMAIN prints' : prints'[p] \in 0 .. 2 * touches + 1
    BY <1>2, <1>6 DEF StampInv, With
  <2> QED  BY <1>2, <1>3, <2>1 DEF StampInv
<1>11. ExecutableInv'
  BY <1>1, <1>2, <1>8 DEF ExecutableInv, Entry
<1>12. passed = NoPrints /\ ran = {} /\ DOMAIN passed = {}
  BY <1>1 DEF DocumentsInv, NoPrints
<1>13. DocumentsInv'
  <2>1. CASE n = 6
    BY <1>2, <1>7, <2>1 DEF DocumentsInv, BeforeRuns, BeforeDocuments
  <2>2. CASE n # 6
    <3>1. n \in 0 .. 5
      BY <1>6, <2>2
    <3> QED  BY <1>2, <1>7, <1>12, <2>2, <3>1 DEF DocumentsInv, BeforeRuns, BeforeDocuments, Running
  <2> QED  BY <2>1, <2>2
<1>14. RunInv'
  <2>1. CASE n # 6
    BY <1>8, <2>1 DEF RunInv, Running
  <2>2. CASE n = 6
    <3> DEFINE Runs == {<<"version">>} \cup Fingerprinted(6)
           version == <<"version">>
    <3>0. version \in Runs /\ Documents \in [1 .. 6 -> Runs] /\ queue' = <<version>> \o Documents
      BY <1>2, <2>2 DEF Documents, Fingerprinted
    <3>3. \A p \in Fingerprinted(6) : \E i \in 1 .. 6 : p = Documents[i]
      BY DEF Fingerprinted
    <3> HIDE DEF Runs, version
    <3>1. Documents \in Seq(Runs) /\ Len(Documents) = 6
      <4>1. Documents \in Seq(Runs)
        BY <3>0, SeqDef
      <4>2. DOMAIN Documents = 1 .. 6
        BY <3>0
      <4> QED  BY <4>1, <4>2, LenProperties
    <3>2. <<version>> \in Seq(Runs) /\ Len(<<version>>) = 1
      BY <3>0
    <3>4. queue' \in Seq(Runs) /\ Len(queue') = 7 /\ \A i \in 1 .. 6 : queue'[i + 1] = Documents[i]
      <4> DEFINE one == <<version>>
      <4> HIDE DEF one
      <4>0. one \in Seq(Runs) /\ Len(one) = 1 /\ queue' = one \o Documents
        BY <3>0, <3>2 DEF one
      <4>1. /\ queue' \in Seq(Runs) /\ Len(queue') = 1 + 6
            /\ \A i \in 1 .. 1 + 6 : queue'[i] = IF i <= 1 THEN one[i] ELSE Documents[i - 1]
        <5>1. /\ one \o Documents \in Seq(Runs)
              /\ Len(one \o Documents) = Len(one) + Len(Documents)
              /\ \A i \in 1 .. Len(one) + Len(Documents) :
                   (one \o Documents)[i] = IF i <= Len(one) THEN one[i] ELSE Documents[i - Len(one)]
          BY <3>1, <4>0, ConcatProperties
        <5>2. Len(one) = 1 /\ Len(Documents) = 6
          BY <3>1, <4>0
        <5> QED  BY ONLY <4>0, <5>1, <5>2
      <4>2. \A i \in 1 .. 6 : i + 1 \in 1 .. 1 + 6 /\ ~(i + 1 <= 1) /\ (i + 1) - 1 = i
        OBVIOUS
      <4> QED  BY <4>1, <4>2
    <3>5. \A i \in 1 .. 6 : \E l \in 1 .. Len(queue') : queue'[l] = Documents[i]
      BY <3>4
    <3>6. queue' # <<>>
      BY <3>4, EmptySeq
    <3>7. \E m \in moments : TRUE
      BY <1>1 DEF ValidatorTypes
    <3>8. /\ vpc' = "run" /\ passed' = passed /\ ran' = {} /\ moments' = moments
          /\ locked' = locked /\ prints' = prints'
      BY <1>2, <1>12, <2>2
    <3> QED  BY <1>12, <3>3, <3>4, <3>5, <3>6, <3>7, <3>8 DEF RunInv, Runs
  <2> QED  BY <2>1, <2>2
<1>15. ValidatedTogether'
  BY <1>1, <1>2 DEF ValidatedTogether
<1> QED  BY <1>9, <1>10, <1>11, <1>13, <1>14, <1>15

LEMMA RunCliStep == SbomInv /\ OfficialInv /\ RunCli => OfficialInv'
<1> SUFFICES ASSUME SbomInv, OfficialInv, RunCli PROVE OfficialInv'
  OBVIOUS
<1> USE DEF OfficialInv
<1> DEFINE on == Head(queue)
<1>1. /\ vpc = "run" /\ vpc \in Running /\ outcome = "none" /\ queue # <<>>
      /\ ran' = ran \cup {Entry.bytes}
      /\ UNCHANGED <<finalizing, lock, cache, locked, binary, prints, queue, moments>>
  BY DEF RunCli, VAt, ValidatorTypes, Running
<1>2. \/ /\ vpc' = "unchanged" /\ outcome' = outcome
         /\ \/ on = <<"version">> /\ passed' = passed
            \/ on # <<"version">> /\ passed' = With(passed, on, files[on].document)
      \/ vpc' = "end" /\ outcome' = "failed" /\ passed' = passed
  BY DEF RunCli, VGoto, VRequire
<1>3. UNCHANGED <<files, touches, verdict, disturbed, verified>> /\ OutputsNow' = OutputsNow
  BY <1>1 DEF finalizing, OutputsNow
<1>4. on \in {<<"version">>} \cup Fingerprinted(6) /\ on = queue[1] /\ queue \in Seq({<<"version">>} \cup Fingerprinted(6))
  BY <1>1 DEF RunInv
<1> HIDE DEF on
<1>5. ValidatorTypes'
  BY <1>1, <1>2, <1>3 DEF ValidatorTypes, BeforeRuns, BeforeDocuments, Running
<1>6. StampInv'
  BY <1>1, <1>3 DEF StampInv
<1>7. ExecutableInv'
  BY <1>1, <1>2 DEF ExecutableInv, Entry
<1>8. DocumentsInv'
  BY <1>1, <1>2 DEF DocumentsInv, BeforeRuns, BeforeDocuments, Running
<1>9. RunInv'
  <2>1. CASE vpc' = "end"
    BY <2>1 DEF RunInv, Running
  <2>2. CASE vpc' = "unchanged"
    <3>1. /\ DOMAIN passed' \subseteq Fingerprinted(6)
          /\ DOMAIN passed \subseteq DOMAIN passed'
          /\ on # <<"version">> => on \in DOMAIN passed'
          /\ \A p \in DOMAIN passed' : passed'[p] = files[p].document
                                       \/ (p \in DOMAIN passed /\ passed'[p] = passed[p])
      <4>1. DOMAIN passed \subseteq Fingerprinted(6)
        BY <1>1 DEF RunInv
      <4>2. CASE on = <<"version">> /\ passed' = passed
        BY <4>1, <4>2
      <4>3. CASE on # <<"version">> /\ passed' = With(passed, on, files[on].document)
        <5>1. on \in Fingerprinted(6)
          BY <1>4, <4>3
        <5>2. DOMAIN passed' = DOMAIN passed \cup {on}
          BY <4>3 DEF With
        <5>3. \A p \in DOMAIN passed' : passed'[p] = IF p = on THEN files[on].document ELSE passed[p]
          BY <4>3, <5>2 DEF With
        <5>4. DOMAIN passed' \subseteq Fingerprinted(6)
          BY <4>1, <5>1, <5>2
        <5>5. \A p \in DOMAIN passed' : passed'[p] = files[p].document
                                        \/ (p \in DOMAIN passed /\ passed'[p] = passed[p])
          <6> SUFFICES ASSUME NEW p \in DOMAIN passed'
                       PROVE  passed'[p] = files[p].document
                              \/ (p \in DOMAIN passed /\ passed'[p] = passed[p])
            OBVIOUS
          <6>1. CASE p = on
            BY <5>3, <6>1
          <6>2. CASE p # on
            BY <5>2, <5>3, <6>2
          <6> QED  BY <6>1, <6>2
        <5> QED  BY <5>2, <5>4, <5>5
      <4> QED  BY <1>2, <2>2, <4>2, <4>3
    <3>2. \A p \in DOMAIN passed' : files[p].stamp = prints[p] => passed'[p] = files[p].document
      BY <1>1, <3>1 DEF RunInv
    <3>3. ~disturbed => \A p \in DOMAIN passed' : passed'[p] = files[p].document
      BY <1>1, <3>1 DEF RunInv
    <3>4. Entry # NoEntry /\ Entry.stamp = binary => ran' \subseteq {locked.asset}
      BY <1>1 DEF RunInv, ExecutableInv
    <3>5. ASSUME NEW p \in Fingerprinted(6)
          PROVE  p \in DOMAIN passed' \/ \E l \in 2 .. Len(queue) : queue[l] = p
      <4>1. CASE p \in DOMAIN passed
        BY <3>1, <4>1
      <4>2. CASE \E l \in 1 .. Len(queue) : queue[l] = p
        <5>1. PICK l \in 1 .. Len(queue) : queue[l] = p
          BY <4>2
        <5>2. CASE l = 1
          <6>1. p = on /\ p # <<"version">>
            BY <1>4, <5>1, <5>2, DocumentsApart DEF Fingerprinted
          <6> QED  BY <3>1, <6>1
        <5>3. CASE l # 1
          <6>1. l \in 2 .. Len(queue)
            BY <1>4, <5>1, <5>3
          <6> QED  BY <5>1, <6>1
        <5> QED  BY <5>2, <5>3
      <4> QED  BY <1>1, <4>1, <4>2 DEF RunInv
    <3>6. ran' # {} /\ Entry' = Entry
      BY <1>1 DEF Entry
    <3> QED
      BY <1>1, <1>3, <1>4, <2>2, <3>1, <3>2, <3>3, <3>4, <3>5, <3>6 DEF RunInv
  <2> QED  BY <1>2, <2>1, <2>2
<1>10. ValidatedTogether'
  BY <1>1, <1>2 DEF ValidatedTogether
<1> QED  BY <1>5, <1>6, <1>7, <1>8, <1>9, <1>10

(* Everything is as it was fingerprinted: what was accepted is there now.  *)
LEMMA CheckUnchangedStep == SbomInv /\ OfficialInv /\ CheckUnchanged => OfficialInv'
<1> SUFFICES ASSUME SbomInv, OfficialInv, CheckUnchanged PROVE OfficialInv'
  OBVIOUS
<1> USE DEF OfficialInv
<1>1. /\ vpc = "unchanged" /\ vpc \in Running /\ outcome = "none" /\ queue' = Tail(queue)
      /\ UNCHANGED <<finalizing, lock, cache, locked, binary, prints, passed, ran, moments>>
      /\ \/ /\ vpc' = "run" /\ outcome' = "none" /\ Entry # NoEntry /\ Entry.stamp = binary
            /\ \A p \in DOMAIN prints : files[p].stamp = prints[p]
         \/ vpc' = "end" /\ outcome' = "failed"
  BY DEF CheckUnchanged, VAt, VGoto, VRequire, ValidatorTypes, Running
<1>2. UNCHANGED <<files, touches, verdict, disturbed, verified>> /\ OutputsNow' = OutputsNow
  BY <1>1 DEF finalizing, OutputsNow
<1>3. ValidatorTypes'
  BY <1>1, <1>2 DEF ValidatorTypes, BeforeRuns, BeforeDocuments, Running
<1>4. StampInv'
  BY <1>1, <1>2 DEF StampInv
<1>5. ExecutableInv'
  BY <1>1 DEF ExecutableInv, Entry, Running
<1>6. DocumentsInv'
  BY <1>1 DEF DocumentsInv, BeforeRuns, BeforeDocuments, Running
<1>7. RunInv'
  <2>1. CASE vpc' = "end"
    BY <2>1 DEF RunInv, Running
  <2>2. CASE vpc' = "run"
    <3> DEFINE Runs == {<<"version">>} \cup Fingerprinted(6)
    <3>1. queue \in Seq(Runs) /\ queue # <<>>
      BY <1>1 DEF RunInv
    <3> HIDE DEF Runs
    <3>2. queue' \in Seq(Runs) /\ Len(queue') = Len(queue) - 1 /\ Len(queue) \in Nat
          /\ \A l \in 1 .. Len(queue') : queue'[l] = queue[l + 1]
      BY <1>1, <3>1
    <3>3. ASSUME NEW p \in Fingerprinted(6)
          PROVE  p \in DOMAIN passed \/ \E l \in 1 .. Len(queue') : queue'[l] = p
      <4>1. CASE p \in DOMAIN passed
        BY <4>1
      <4>2. ASSUME NEW l \in 2 .. Len(queue), queue[l] = p
            PROVE  \E i \in 1 .. Len(queue') : queue'[i] = p
        <5>1. l - 1 \in 1 .. Len(queue') /\ (l - 1) + 1 = l
          BY <3>2
        <5> QED  BY <3>2, <4>2, <5>1
      <4> QED  BY <1>1, <4>1, <4>2 DEF RunInv
    <3>4. DOMAIN prints = Fingerprinted(6) /\ DOMAIN passed \subseteq Fingerprinted(6)
      BY <1>1 DEF DocumentsInv, RunInv
    <3>5. \A p \in DOMAIN passed : passed[p] = files[p].document
      BY <1>1, <2>2, <3>4 DEF RunInv
    <3>6. OutputsNow \in moments
      BY <1>1 DEF ValidatorTypes
    <3>7. \A i \in 1 .. 6 : Documents[i] \in DOMAIN passed => passed[Documents[i]] = OutputsNow[i]
      BY <3>5 DEF OutputsNow
    <3>8. ran \subseteq {locked.asset} /\ ran # {}
      BY <1>1, <2>2 DEF RunInv
    <3> QED  BY <1>1, <1>2, <2>2, <3>2, <3>3, <3>4, <3>5, <3>6, <3>7, <3>8 DEF RunInv, Runs
  <2> QED  BY <1>1, <2>1, <2>2
<1>8. ValidatedTogether'
  BY <1>1 DEF ValidatedTogether
<1> QED  BY <1>3, <1>4, <1>5, <1>6, <1>7, <1>8

LEMMA EndValidationStep == SbomInv /\ OfficialInv /\ EndValidation => OfficialInv'
<1> SUFFICES ASSUME SbomInv, OfficialInv, EndValidation PROVE OfficialInv'
  OBVIOUS
<1> USE DEF OfficialInv
<1>1. /\ vpc = "run" /\ vpc \in Running /\ queue = <<>> /\ vpc' = "end" /\ outcome' = "ok"
      /\ UNCHANGED <<finalizing, lock, cache, locked, binary, prints, queue, passed, ran, moments>>
  BY DEF EndValidation, VAt, VGoto, Running
<1>2. UNCHANGED <<files, touches, verdict, disturbed, verified>> /\ OutputsNow' = OutputsNow
  BY <1>1 DEF finalizing, OutputsNow
<1>3. ValidatorTypes'
  BY <1>1, <1>2 DEF ValidatorTypes, BeforeRuns, BeforeDocuments, Running
<1>4. StampInv'
  BY <1>1, <1>2 DEF StampInv
<1>5. ExecutableInv' /\ DocumentsInv' /\ RunInv'
  BY <1>1 DEF ExecutableInv, DocumentsInv, RunInv, BeforeRuns, BeforeDocuments, Running
<1>6. ValidatedTogether'
  <2>1. \A p \in Fingerprinted(6) : p \in DOMAIN passed
    <3>1. \A l \in 1 .. Len(queue) : FALSE
      BY <1>1
    <3> QED  BY <1>1, <3>1 DEF RunInv
  <2>2. \A i \in 1 .. 6 : Documents[i] \in DOMAIN passed
    BY <2>1 DEF Fingerprinted
  <2>3. PICK m \in moments : \A i \in 1 .. 6 : passed[Documents[i]] = m[i]
    BY <1>1, <2>2 DEF RunInv
  <2>4. m = [i \in 1 .. 6 |-> m[i]]
    BY DEF ValidatorTypes
  <2>5. [i \in 1 .. 6 |-> passed[Documents[i]]] = m
    BY <2>3, <2>4
  <2>6. ran = {locked.asset} /\ locked.valid
    BY <1>1 DEF RunInv, ValidatorTypes
  <2>7. ASSUME ~disturbed, NEW r \in Roles, NEW f \in Formats
        PROVE  passed[Output(r, f)] = verified[r][f]
    <3>1. verdict = "ok"
      BY <1>1 DEF ValidatorTypes
    <3>2. DOMAIN verified = Roles
      BY <3>1 DEF SbomInv, VerifiedInv
    <3>3. files[Output(r, f)].document = verified[r][f]
      BY <2>7, <3>2 DEF SbomInv, UndisturbedInv
    <3>4. Output(r, f) \in DOMAIN passed
      BY <2>2, DocumentsApart
    <3> QED  BY <1>1, <2>7, <3>3, <3>4 DEF RunInv
  <2> QED  BY <1>1, <1>2, <2>5, <2>6, <2>7 DEF ValidatedTogether
<1> QED  BY <1>3, <1>4, <1>5, <1>6

(* Whatever is replaced gets a stamp no fingerprint has.                   *)
LEMMA ValidationEditStep == SbomInv /\ OfficialInv /\ ValidationEdit => OfficialInv'
<1> SUFFICES ASSUME SbomInv, OfficialInv, ValidationEdit PROVE OfficialInv'
  OBVIOUS
<1> USE DEF OfficialInv
<1> DEFINE stamp == 2 * touches + 2
<1>1. /\ vpc \notin {"idle", "end"} /\ touches' = touches + 1 /\ disturbed' = TRUE
      /\ moments' = moments \cup {OutputsNow'}
      /\ UNCHANGED <<task, fpc, pair, inHand, verified, compared, verdict, vpc, locked, binary,
                     prints, queue, passed, ran, outcome>>
  BY DEF ValidationEdit, OutputsNow
<1>2. /\ touches \in Nat /\ touches' \in Nat /\ stamp \in 0 .. 2 * touches' + 1 /\ 0 \in 0 .. 2 * touches' + 1
      /\ \A x \in 0 .. 2 * touches + 1 : x \in 0 .. 2 * touches' + 1 /\ x # stamp
  BY <1>1 DEF ValidatorTypes
<1> HIDE DEF stamp
<1>3. lock'.asset \in Assets /\ DOMAIN lock' = DOMAIN lock
  BY DEF ValidationEdit, EditLock, EditCache, EditOutputs, ValidatorTypes, Assets
<1>4. /\ DOMAIN cache' = Assets
      /\ \A a \in Assets : \/ cache'[a] = cache[a] \/ cache'[a] = NoEntry
                           \/ cache'[a].stamp = stamp /\ DOMAIN cache'[a] = DOMAIN NoEntry
  <2>1. CASE EditCache
    <3>1. PICK entry : /\ cache' = [cache EXCEPT !["pinned"] = entry]
                       /\ entry = NoEntry \/ (entry.stamp = stamp /\ DOMAIN entry = DOMAIN NoEntry)
      <4>1. PICK entry \in {[bytes |-> "pinned", strict |-> TRUE, runs |-> TRUE, stamp |-> stamp],
                   [bytes |-> "pinned", strict |-> FALSE, runs |-> TRUE, stamp |-> stamp],
                   [bytes |-> "pinned", strict |-> TRUE, runs |-> FALSE, stamp |-> stamp],
                   [bytes |-> "wrong", strict |-> TRUE, runs |-> TRUE, stamp |-> stamp], NoEntry} :
                cache' = [cache EXCEPT !["pinned"] = entry]
        BY <2>1 DEF EditCache, stamp
      <4>2. DOMAIN NoEntry = {"bytes", "strict", "runs", "stamp"}
        BY DEF NoEntry
      <4>3. \/ entry = NoEntry
            \/ \E bytes, strict, runs :
                 entry = [bytes |-> bytes, strict |-> strict, runs |-> runs, stamp |-> stamp]
        BY <4>1
      <4>4. entry = NoEntry \/ entry.stamp = stamp
        BY <4>3
      <4>5. entry = NoEntry \/ DOMAIN entry = DOMAIN NoEntry
        BY <4>2, <4>3
      <4> QED  BY <4>1, <4>4, <4>5
    <3> QED  BY <3>1 DEF ValidatorTypes
  <2> QED  BY <2>1 DEF ValidationEdit, EditLock, EditOutputs, ValidatorTypes
<1>5. \A p \in Paths : files'[p] = files[p] \/ files'[p].stamp = stamp
  <2>1. DOMAIN files = Paths
    BY DEF SbomInv, SbomTypes
  <2>2. CASE EditOutputs
    <3>1. PICK i \in 1 .. 6 : \E document :
            files' = [files EXCEPT ![Documents[i]] = [document |-> document, stamp |-> stamp]]
      BY <2>2 DEF EditOutputs, stamp
    <3> QED  BY <2>1, <3>1
  <2> QED  BY <2>2 DEF ValidationEdit, EditLock, EditCache
<1>6. ValidatorTypes'
  <2>1. OutputsNow' = [i \in 1 .. 6 |-> OutputsNow'[i]]
    BY DEF OutputsNow
  <2>2. \A a \in Assets : DOMAIN cache'[a] = DOMAIN NoEntry
    BY <1>4 DEF ValidatorTypes
  <2> QED  BY <1>1, <1>2, <1>3, <1>4, <2>1, <2>2 DEF ValidatorTypes
<1>7. StampInv'
  <2>1. NoEntry.stamp = 0
    BY DEF NoEntry
  <2>2. \A a \in Assets : cache'[a].stamp \in 0 .. 2 * touches' + 1
    BY <1>2, <1>4, <2>1 DEF StampInv
  <2>3. \A p \in Paths : files'[p].stamp \in 0 .. 2 * touches' + 1
    BY <1>2, <1>5 DEF StampInv
  <2> QED  BY <1>1, <1>2, <2>2, <2>3 DEF StampInv
<1>8. locked.asset \in Assets /\ binary # stamp
      /\ (Entry' # NoEntry /\ Entry'.stamp = binary => Entry' = Entry)
  <2>1. locked.asset \in Assets /\ binary # stamp
    BY <1>2 DEF ValidatorTypes, StampInv
  <2>2. Entry' = cache'[locked.asset]
    BY <1>1 DEF Entry
  <2> QED  BY <1>4, <2>1, <2>2 DEF Entry
<1>9. ExecutableInv'
  BY <1>1, <1>8 DEF ExecutableInv
<1>10. DocumentsInv'
  BY <1>1 DEF DocumentsInv
<1>11. RunInv'
  <2>1. ASSUME vpc \in Running, NEW p \in DOMAIN passed, files'[p].stamp = prints[p]
        PROVE  passed[p] = files'[p].document
    <3>1. p \in DOMAIN prints /\ p \in Paths
      BY <2>1, DocumentsApart DEF RunInv, DocumentsInv, Fingerprinted
    <3>2. prints[p] # stamp
      BY <1>2, <3>1 DEF StampInv
    <3>3. files'[p] = files[p]
      BY <1>5, <2>1, <3>1, <3>2
    <3> QED  BY <2>1, <3>3 DEF RunInv
  <2>2. vpc = "run" => \E m \in moments' : \A i \in 1 .. 6 :
                          Documents[i] \in DOMAIN passed => passed[Documents[i]] = m[i]
    BY <1>1 DEF RunInv
  <2>3. vpc = "unchanged" =>
          (Entry' # NoEntry /\ Entry'.stamp = binary => ran \subseteq {locked.asset})
    BY <1>8 DEF RunInv
  <2> QED  BY <1>1, <2>1, <2>2, <2>3 DEF RunInv
<1>12. ValidatedTogether'
  BY <1>1 DEF ValidatedTogether, ValidatorTypes
<1> QED  BY <1>6, <1>7, <1>9, <1>10, <1>11, <1>12

-----------------------------------------------------------------------------
(***************************************************************************)
(* Together they are inductive: the validator needs to know that what it   *)
(* starts from is what the finalizer verified.                             *)
(***************************************************************************)
ProvingInv == SbomInv /\ OfficialInv

LEMMA ProvingInvariant == PreparationSpec => []ProvingInv
<1>1. PreparationInit => ProvingInv
  BY SbomStart, OfficialStart DEF PreparationInit, SbomIdle, ProvingInv
<1>2. ProvingInv /\ [PreparationNext]_preparing => ProvingInv'
  <2> SUFFICES ASSUME ProvingInv, [PreparationNext]_preparing PROVE ProvingInv'
    OBVIOUS
  <2> USE DEF ProvingInv
  <2>1. CASE FinalizerNext /\ UNCHANGED validation
    <3>1. OfficialInv'
      BY <2>1, FinalizerLeavesOfficial
    <3>2. SbomInv'
      BY <2>1, LoadJsonStep, LoadXmlStep, WriteDocumentStep, VerifyJsonStep, VerifyXmlStep,
         CollectPairStep, EndFinalizerStep, StopFinalizerStep, RerunStep, SbomEditStep
         DEF FinalizerNext
    <3> QED  BY <3>1, <3>2
  <2>2. CASE OfficialNext
    <3>1. SbomInv'
      BY <2>2, ValidatorLeavesSbom DEF OfficialInv, ValidatorTypes
    <3>2. OfficialInv'
      BY <2>2, StartValidationStep, LoadLockStep, CacheStep, LinkEntryStep, RequireAssetStep,
         SnapshotRepositoryStep, SnapshotDocumentStep, RunCliStep, CheckUnchangedStep,
         EndValidationStep, ValidationEditStep DEF OfficialNext
    <3> QED  BY <3>1, <3>2
  <2>3. CASE UNCHANGED proving
    <3>1. SbomInv'
      <4>1. Role' = Role
        BY <2>3 DEF proving, finalizing, Role
      <4> QED  BY <2>3, <4>1 DEF proving, finalizing, SbomInv, SbomTypes, OriginInv, HandInv,
             VerifiedInv, UndisturbedInv, RefusedBeforeWriting
    <3>2. OfficialInv'
      <4>1. OutputsNow' = OutputsNow /\ Entry' = Entry
        BY <2>3 DEF proving, finalizing, validation, OutputsNow, Entry
      <4> QED  BY <2>3, <4>1 DEF proving, finalizing, validation, OfficialInv, ValidatorTypes, StampInv,
             ExecutableInv, DocumentsInv, RunInv, ValidatedTogether
    <3> QED  BY <3>1, <3>2
  <2> QED  BY <2>1, <2>2, <2>3 DEF PreparationNext, preparing
<1> QED  BY <1>1, <1>2, PTL DEF PreparationSpec

(* VerifiedIsFinal: a successful finalizer has verified, for every pair, one
   document in both formats that completes something a build generated, and
   if nobody touched the files, these are on disk and were compared with
   each other (_verify_pair, _validate_pair_collection). *)
LEMMA VerifiedIsFinalHolds == SbomInv => VerifiedIsFinal
<1> SUFFICES ASSUME SbomInv, verdict = "ok" PROVE
      /\ \A r \in Roles :
           /\ verified[r]["json"] = verified[r]["xml"]
           /\ \E s \in SourceSets \cup {NextSources} : IsFinal(verified[r]["json"], s[r]["json"])
      /\ ~disturbed => /\ compared = {verified[r]["json"] : r \in Roles}
                       /\ \A r \in Roles, f \in Formats :
                            files[Output(r, f)].document = verified[r][f]
  BY DEF VerifiedIsFinal
<1>1. DOMAIN verified = Roles
  BY DEF SbomInv, VerifiedInv
<1>2. ASSUME NEW r \in Roles
      PROVE  /\ verified[r]["json"] = verified[r]["xml"]
             /\ \E s \in SourceSets \cup {NextSources} : IsFinal(verified[r]["json"], s[r]["json"])
  <2>1. PICK o \in Origin(r, "json") : IsFinal(verified[r]["json"], o)
    BY <1>1 DEF SbomInv, VerifiedInv
  <2>2. verified[r]["json"] = verified[r]["xml"]
    BY <1>1 DEF SbomInv, VerifiedInv
  <2>3. CASE o \in {s[r]["json"] : s \in SourceSets}
    <3>1. PICK s \in SourceSets : o = s[r]["json"]
      BY <2>3
    <3> QED  BY <2>1, <2>2, <3>1
  <2>4. CASE o = Regenerated[r]
    <3>1. NextSources[r]["json"] = o
      BY <2>4 DEF NextSources, Formats
    <3> QED  BY <2>1, <2>2, <3>1
  <2> QED  BY <2>3, <2>4 DEF Origin
<1>3. ~disturbed => /\ compared = {verified[r]["json"] : r \in Roles}
                    /\ \A r \in Roles, f \in Formats : files[Output(r, f)].document = verified[r][f]
  BY <1>1 DEF SbomInv, UndisturbedInv
<1> QED  BY <1>2, <1>3

THEOREM FinalizerVerifies == PreparationSpec => []VerifiedIsFinal
<1>1. ProvingInv => VerifiedIsFinal
  BY VerifiedIsFinalHolds DEF ProvingInv
<1> QED  BY <1>1, ProvingInvariant, PTL

(* RefusedBeforeWriting: what the finalizer completes it also accepts, so a
   pair nobody disturbs is refused before it is written (_finalize_pair). *)
THEOREM FinalizerRefusesFirst == PreparationSpec => []RefusedBeforeWriting
<1>1. ProvingInv => RefusedBeforeWriting
  BY DEF ProvingInv, SbomInv
<1> QED  BY <1>1, ProvingInvariant, PTL

(* ValidatedTogether: the six documents that the official CLI accepted were
   in place at one moment, and it was the locked executable that accepted
   them (_run_protected_command, _require_unchanged). *)
THEOREM OfficialValidates == PreparationSpec => []ValidatedTogether
<1>1. ProvingInv => ValidatedTogether
  BY DEF ProvingInv, OfficialInv
<1> QED  BY <1>1, ProvingInvariant, PTL
=============================================================================
