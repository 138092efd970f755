----------------------------- MODULE UploadBundle -----------------------------
(***************************************************************************)
(* src/scripts/prepare-central-upload-bundle.py: a build reads a signed    *)
(* Maven staging repository three times, checks it against the reviewed    *)
(* manifest and a public key, and writes a bundle and its receipt into a   *)
(* new directory; a verify repeats the checks and compares the two files.  *)
(* Meanwhile others edit the repository, the GnuPG home and the output.    *)
(*                                                                         *)
(* Bytes are tuples: a payload <<name, v>>, <<"sum", bytes>>, and          *)
(* <<"sig", key, bytes>>; a digest stands for its bytes.  The metadata     *)
(* (inode, times, size) that show an edit are a stamp, unique per edit.    *)
(***************************************************************************)
EXTENDS Naturals, Sequences, FiniteSets

CONSTANTS
  Payloads,       \* the five payload names of a coordinate
  Reading,        \* all file names in the order in which a walk visits them
  KeyName,        \* the expected primary fingerprint
  BundleEdits     \* bound on the edits others make

\* _expected_inventory
Part(n, kind) == <<n, kind>>
Needed == (Payloads \X {"payload", "signature", "checksum"}) \cup
          {Part("metadata", "payload"), Part("metadata", "checksum")}
Optional == Payloads \X {"signature checksum"}
Uploaded == Payloads \X {"payload", "signature", "checksum"}

ASSUME ReadingAssumption ==
  /\ BundleEdits \in Nat /\ "metadata" \notin Payloads
  /\ Reading \in Seq(Needed \cup Optional)
  /\ {Reading[i] : i \in DOMAIN Reading} = Needed \cup Optional

VARIABLES
  repository,   \* [files, dir]: file -> [bytes, stamp], and the directories' stamp
  home,         \* [keys, secret]: the public GnuPG home
  output,       \* [by, bundle, receipt]: the output directory
  tool,         \* the bytes of the script
  edits, past,  \* edits so far; every content the repository has had since the job began
  job, bpc,     \* "build" or "verify", and its place
  walk, todo, stats, first,   \* of _read_repository; todo: files listed, not yet visited
  contents, keys,             \* bytes read; what _verify_public_gpg_home exported
  claimed,      \* the receipt a verify has read
  told          \* "none", "ok", "error", "residue": the line the job ends with

reading == <<walk, todo, stats, first>>
others == <<repository, home, tool, edits, past, job, claimed>>
bundling == <<others, output, bpc, reading, contents, keys, told>>

Nothing == [f \in {} |-> <<>>]
Missing == <<>>
Key(v, usable) == [name |-> KeyName, v |-> v, usable |-> usable]
Bytes(n) == <<n, 0>>
Signature(key, bytes) == <<"sig", key, bytes>>
Sum(bytes) == <<"sum", bytes>>
\* the reviewed payload manifest, which pins size and digest of each payload
Manifest == [n \in Payloads |-> Bytes(n)]

Correct(f) ==
  LET n == f[1] IN
  CASE f[2] = "payload"   -> Bytes(n)
    [] f[2] = "signature" -> Signature(KeyName, Bytes(n))
    [] f[2] = "checksum"  -> Sum(Bytes(n))
    [] OTHER              -> Sum(Signature(KeyName, Bytes(n)))

BytesOf(files) == [f \in DOMAIN files |-> files[f].bytes]

BundleInit ==
  /\ \E some \in SUBSET Optional, wrong \in Needed \ (Payloads \X {"checksum"}) :
       \E bytes \in {Correct(wrong), <<wrong[1], 1>>, <<"special">>} :
         /\ repository = [files |-> [f \in Needed \cup some |->
                            [bytes |-> IF f = wrong THEN bytes ELSE Correct(f), stamp |-> 0]],
                         dir |-> 0]
         /\ bytes # Correct(wrong) => some = {}
  /\ home = [keys |-> {Key(0, TRUE)}, secret |-> FALSE] /\ tool = 0
  /\ output = [by |-> "nobody", bundle |-> Missing, receipt |-> Missing]
  /\ edits = 0 /\ past = {BytesOf(repository.files)}
  /\ job = "build" /\ bpc = "start" /\ walk = 1 /\ todo = {}
  /\ stats = Nothing /\ first = [files |-> Nothing, dir |-> 0]
  /\ contents = Nothing /\ keys = {} /\ claimed = Missing /\ told = "none"

BGoto(next) == bpc' = next
BAt(place) == bpc = place

\* every error ends in one line and exit code 2
Refuse(message) == BGoto("end") /\ told' = message
Require(condition, next) ==
  IF condition THEN BGoto(next) /\ UNCHANGED told ELSE Refuse("error")

-----------------------------------------------------------------------------
(* _read_repository: three walks, the second of which reads.               *)

\* the canonical paths and the absent output, then the root and its first listing
StartWalk ==
  /\ \/ BAt("start") /\ (job = "verify" \/ output.by = "nobody")
     \/ BAt("walk")
  /\ todo' = DOMAIN repository.files
  /\ stats' = [files |-> Nothing, dir |-> repository.dir]
  /\ BGoto("stat") /\ UNCHANGED <<others, output, walk, first, contents, keys, told>>

OutputExists ==
  /\ BAt("start") /\ job = "build" /\ output.by # "nobody" /\ Refuse("error")
  /\ UNCHANGED <<others, output, reading, contents, keys>>

\* the entries of a listing are sorted by name
Position(f) == CHOOSE i \in DOMAIN Reading : Reading[i] = f
Foremost(f) == \A g \in todo : Position(f) <= Position(g)

\* _walk_repository.visit: one entry of the listing; links and special files are refused
StatEntry ==
  /\ BAt("stat")
  /\ \E f \in {g \in todo : Foremost(g)} :
     IF f \in DOMAIN repository.files /\ repository.files[f].bytes # <<"special">>
       THEN /\ stats' = [stats EXCEPT !.files =
                           [g \in DOMAIN @ \cup {f} |->
                              IF g = f THEN repository.files[f].stamp ELSE @[g]]]
            /\ IF walk = 2 THEN BGoto("read") /\ UNCHANGED todo
                           ELSE todo' = todo \ {f} /\ UNCHANGED bpc
            /\ UNCHANGED told
       ELSE Refuse("error") /\ UNCHANGED <<todo, stats>>
  /\ UNCHANGED <<others, output, walk, first, contents, keys>>

\* _read_regular_at: the file opened is the file of the listing, before and after
ReadEntry ==
  /\ BAt("read")
  /\ \E f \in todo \cap DOMAIN stats.files :
     IF f \in DOMAIN repository.files /\ repository.files[f].stamp = stats.files[f]
       THEN /\ contents' = [g \in DOMAIN contents \cup {f} |->
                              IF g = f THEN repository.files[f].bytes ELSE contents[g]]
            /\ todo' = todo \ {f} /\ BGoto("stat") /\ UNCHANGED told
       ELSE Refuse("error") /\ UNCHANGED <<todo, contents>>
  /\ UNCHANGED <<others, output, walk, stats, first, keys>>

InventoryExact ==
  Needed \subseteq DOMAIN stats.files /\ DOMAIN stats.files \subseteq Needed \cup Optional

\* only the names are compared with the first walk's
SameWalkBug ==
  IF walk = 1 THEN InventoryExact ELSE DOMAIN stats.files = DOMAIN first.files

\* each walk sees the files and directories of the first one, which are those expected
SameWalk == IF walk = 1 THEN InventoryExact ELSE stats = first

EndWalk ==
  /\ BAt("stat") /\ todo = {}
  /\ IF repository.dir = stats.dir /\ SameWalk
       THEN /\ BGoto(IF walk = 3 THEN "secret" ELSE "walk") /\ UNCHANGED told
            /\ walk' = IF walk = 3 THEN 1 ELSE walk + 1
            /\ first' = IF walk = 1 THEN stats ELSE first
       ELSE Refuse("error") /\ UNCHANGED <<walk, first>>
  /\ UNCHANGED <<others, output, todo, stats, contents, keys>>

-----------------------------------------------------------------------------
(* _verify_public_gpg_home, then the pure checks of _prepare_staging.      *)

\* _inspect_secret_material_names, --list-secret-keys
InspectSecrets ==
  /\ BAt("secret") /\ Require(~home.secret, "list")
  /\ UNCHANGED <<others, output, reading, contents, keys>>

\* --list-keys: exactly the expected primary key, neither expired nor revoked
OnlyExpected(ks) == Cardinality(ks) = 1 /\ \A k \in ks : k.name = KeyName /\ k.usable
ListKeys ==
  /\ BAt("list") /\ Require(OnlyExpected(home.keys), "export")
  /\ UNCHANGED <<others, output, reading, contents, keys>>

\* --export of the fingerprint, and the secret names once more
ExportKey ==
  /\ BAt("export")
  /\ keys' = {k \in home.keys : k.name = KeyName}
  /\ Require(keys' # {} /\ ~home.secret, "checks")
  /\ UNCHANGED <<others, output, reading, contents>>

\* reviewed payloads, _verify_checksum of each file and of each optional sidecar; the
\* coordinates of POM, metadata and module follow from payload bytes that are reviewed
ContentsChecked ==
  /\ \A n \in Payloads : contents[Part(n, "payload")] = Manifest[n]
  /\ \A n \in Payloads \cup {"metadata"} :
       contents[Part(n, "checksum")] = Sum(contents[Part(n, "payload")])
  /\ \A n \in Payloads : Part(n, "signature checksum") \in DOMAIN contents =>
       contents[Part(n, "signature checksum")] = Sum(contents[Part(n, "signature")])
  /\ contents[Part("metadata", "payload")] = Bytes("metadata")

CheckContents ==
  /\ BAt("checks") /\ Require(ContentsChecked, "signatures")
  /\ UNCHANGED <<others, output, reading, contents, keys>>

\* the signatures are good ones of the key that was exported
Signed == \A n \in Payloads :
  contents[Part(n, "signature")] = Signature(KeyName, contents[Part(n, "payload")])

\* a private home with what was exported is checked as the public one was, then used
CheckSignatures ==
  /\ BAt("signatures")
  /\ Require(OnlyExpected(keys) /\ Signed, IF job = "build" THEN "mkdir" ELSE "receipt")
  /\ UNCHANGED <<others, output, reading, contents, keys>>

\* what is uploaded, and what is left out; together they are all that was read
Entries == [f \in Uploaded |-> contents[f]]
Excluded == [f \in (DOMAIN contents) \ Uploaded |-> contents[f]]

\* _zip_bytes, _receipt: both are functions of the inputs and the tool
Zip(entries) == <<"zip", entries>>
Receipt(bundle) == <<"receipt", bundle, Excluded, Manifest, KeyName, tool>>

-----------------------------------------------------------------------------
(* _write_outputs: a new directory, two new files, both read back.         *)

MakeOutput ==
  /\ BAt("mkdir")
  /\ IF output.by = "nobody"
       THEN output' = [output EXCEPT !.by = "us"] /\ BGoto("made") /\ UNCHANGED told
       ELSE Refuse("error") /\ UNCHANGED output
  /\ UNCHANGED <<others, reading, contents, keys>>

\* output_was_created is set, and the new directory is still the one just made
BindOutput ==
  /\ BAt("made") /\ BGoto("bundle")
  /\ UNCHANGED <<others, output, reading, contents, keys, told>>

WriteBundle ==
  /\ BAt("bundle") /\ BGoto("receipts")
  /\ output' = [output EXCEPT !.bundle = Zip(Entries)]
  /\ UNCHANGED <<others, reading, contents, keys, told>>

WriteReceipt ==
  /\ BAt("receipts") /\ BGoto("readback")
  /\ output' = [output EXCEPT !.receipt = Receipt(Zip(Entries))]
  /\ UNCHANGED <<others, reading, contents, keys, told>>

\* _read_output_file of both, and the identity of files, parent and directory
ReadBack ==
  /\ BAt("readback")
  /\ IF output = [by |-> "us", bundle |-> Zip(Entries), receipt |-> Receipt(Zip(Entries))]
       THEN Refuse("ok") ELSE Refuse("residue")
  /\ UNCHANGED <<others, output, reading, contents, keys>>

\* places at which output_was_created is set
Created == {"bundle", "receipts", "readback"}

\* an error is reported, and of an output that was begun nothing is said
FailBundleBug ==
  /\ bpc \in {"start", "made"} \cup Created
  /\ \/ UNCHANGED output
     \/ BAt("bundle") /\ output' = [output EXCEPT !.bundle = <<"part">>]
     \/ BAt("receipts") /\ output' = [output EXCEPT !.receipt = <<"part">>]
  /\ Refuse("error")
  /\ UNCHANGED <<others, reading, contents, keys>>

\* OSError or KeyboardInterrupt, also in the middle of a write; nothing is deleted.  The
\* flag is not yet set when the signal comes right after mkdir.  (One while the inputs are
\* read ends the command as any refusal there does.)
FailBundle ==
  /\ bpc \in {"start", "made"} \cup Created
  /\ \/ UNCHANGED output
     \/ BAt("bundle") /\ output' = [output EXCEPT !.bundle = <<"part">>]
     \/ BAt("receipts") /\ output' = [output EXCEPT !.receipt = <<"part">>]
  /\ Refuse(IF bpc \in Created THEN "residue" ELSE "error")
  /\ UNCHANGED <<others, reading, contents, keys>>

-----------------------------------------------------------------------------
(* verify_bundle, after _prepare_staging.                                  *)

StartVerify ==
  /\ job = "build" /\ BAt("end") /\ output.receipt # Missing
  /\ job' = "verify" /\ BGoto("start") /\ told' = "none"
  /\ contents' = Nothing /\ keys' = {} /\ walk' = 1 /\ past' = {BytesOf(repository.files)}
  /\ UNCHANGED <<repository, home, tool, edits, output, todo, stats, first, claimed>>

\* canonical JSON with the exact fields and claims, and the digest it records
ReadReceipt ==
  /\ BAt("receipt") /\ claimed' = output.receipt
  /\ Require(output.receipt[1] = "receipt", "compare")
  /\ UNCHANGED <<repository, home, tool, edits, past, job, output, reading, contents,
                 keys>>

\* the bundle is the one recorded and the exact encoding of what was read, and the
\* receipt the one these inputs and this tool give
CompareBundle ==
  /\ BAt("compare")
  /\ Refuse(IF /\ claimed[2] = output.bundle /\ output.bundle = Zip(Entries)
               /\ claimed = Receipt(output.bundle)
            THEN "ok" ELSE "error")
  /\ UNCHANGED <<others, output, reading, contents, keys>>

-----------------------------------------------------------------------------
(* Others.                                                                 *)

Put(f, bytes) ==
  LET files == repository.files IN
  repository' = [files |-> [g \in DOMAIN files \cup {f} |->
                              IF g = f THEN [bytes |-> bytes, stamp |-> edits + 1] ELSE files[g]],
                 dir |-> IF f \in DOMAIN files THEN repository.dir ELSE edits + 1]
Drop(f) ==
  repository' = [files |-> [g \in DOMAIN repository.files \ {f} |-> repository.files[g]],
                 dir |-> edits + 1]

EditRepository ==
  /\ \E f \in Needed \cup Optional :
       \/ \E bytes \in {Correct(f), <<f[1], 1>>} : Put(f, bytes)
       \/ f \in DOMAIN repository.files /\ Drop(f)
  /\ past' = past \cup {BytesOf(repository'.files)}
  /\ UNCHANGED <<home, tool, output>>

\* a key is revoked or replaced, a secret key imported
EditHome ==
  /\ home' \in {[home EXCEPT !.keys = {Key(1, FALSE)}], [home EXCEPT !.secret = TRUE],
                [home EXCEPT !.keys = @ \cup {[name |-> "other", v |-> 0, usable |-> TRUE]}]}
  /\ UNCHANGED <<repository, past, tool, output>>

\* the output is taken, or rewritten with a receipt that fits
EditBundleOutput ==
  /\ LET forged == Zip([f \in Uploaded |-> <<f[1], 1>>]) IN
     output' \in (IF output.by = "nobody" THEN {[output EXCEPT !.by = "other"]}
                  ELSE IF output.receipt = Missing THEN {}
                  ELSE {[output EXCEPT !.bundle = forged],
                        [output EXCEPT !.bundle = forged, !.receipt = Receipt(forged)]})
  /\ UNCHANGED <<repository, past, home, tool>>

EditTool == tool' = 1 /\ UNCHANGED <<repository, past, home, output>>

\* a command runs, or will run on what the last one left
Active == bpc # "end" \/ (job = "build" /\ told = "ok")
BundleEdit ==
  /\ edits < BundleEdits /\ edits' = edits + 1 /\ Active
  /\ EditRepository \/ EditHome \/ EditBundleOutput \/ EditTool
  /\ UNCHANGED <<job, bpc, reading, contents, keys, claimed, told>>

BundleNext ==
  \/ StartWalk \/ OutputExists \/ StatEntry \/ ReadEntry \/ EndWalk
  \/ InspectSecrets \/ ListKeys \/ ExportKey \/ CheckContents \/ CheckSignatures
  \/ MakeOutput \/ BindOutput \/ WriteBundle \/ WriteReceipt \/ ReadBack \/ FailBundle
  \/ StartVerify \/ ReadReceipt \/ CompareBundle \/ BundleEdit

-----------------------------------------------------------------------------
\* A bundle is built or verified only from bytes that were in the repository together, at
\* one moment since the command began, and from signatures of the one expected key as it
\* was usable, whatever is edited between the steps (_read_repository, _prepare_staging).
BundledTogether ==
  told = "ok" =>
    /\ contents \in past /\ OnlyExpected(keys)
    /\ \A n \in Payloads : contents[Part(n, "payload")] = Manifest[n]

\* A command that fails without the residue line has left at most an empty directory, and
\* one that succeeds a receipt for exactly what it checked (_write_outputs).
ResidueIsTold ==
  /\ job = "build" /\ told = "error" /\ output.by = "us" =>
       output.bundle = Missing /\ output.receipt = Missing
  /\ job = "verify" /\ told = "ok" => claimed = Receipt(Zip(Entries))
=============================================================================
