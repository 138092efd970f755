--------------------------- MODULE OfficialValidation ---------------------------
(***************************************************************************)
(* src/scripts/validate-official-cyclonedx.py: once the finalizer has      *)
(* succeeded (build.gradle), the official CLI, pinned by a lock file and   *)
(* kept in a cache, is run on the six documents.  It reads them by path,   *)
(* so every run is followed by a check that the lock, the executable and   *)
(* the documents are still the files that were fingerprinted.              *)
(*                                                                         *)
(* A stamp stands for the device, inode, size and time of a fingerprint.   *)
(***************************************************************************)
EXTENDS SbomFinalizer

Assets == {"pinned", "other"}
NoEntry == [bytes |-> "none", strict |-> TRUE, runs |-> FALSE, stamp |-> 0]

VARIABLES
  lock,        \* [asset, valid, stamp]: security/cyclonedx-cli.lock.json
  cache,       \* asset -> entry of .gradle's cache, addressed by the asset's digest
  vpc,         \* place of the validator
  locked,      \* the lock as parsed
  binary,      \* stamp of the executable that was verified
  prints,      \* document path -> stamp
  queue,       \* runs of the CLI still to be made: "version", then each document
  passed,      \* document path -> document the CLI has accepted
  ran,         \* bytes of the executables that were run
  moments,     \* contents the six outputs have had since the validator began
  outcome      \* "none", "ok", "failed"

validation == <<lock, cache, vpc, locked, binary, prints, queue, passed, ran, moments, outcome>>
proving == <<finalizing, validation>>

Documents == [i \in 1 .. 6 |-> Output(Pairs[(i + 1) \div 2], IF i % 2 = 1 THEN "json" ELSE "xml")]
OutputsNow == [i \in 1 .. 6 |-> files[Documents[i]].document]
NoPrints == [p \in {} |-> 0]

OfficialInit ==
  /\ lock = [asset |-> "pinned", valid |-> TRUE, stamp |-> 0] /\ cache = [a \in Assets |-> NoEntry]
  /\ vpc = "idle" /\ locked = lock /\ binary = 0 /\ prints = NoPrints
  /\ queue = <<>> /\ passed = NoPrints /\ ran = {} /\ moments = {} /\ outcome = "none"

VGoto(next) == vpc' = next
VAt(place) == vpc = place
\* a CycloneDxValidationError: one line, exit code 2
VRequire(condition, next) ==
  IF condition THEN VGoto(next) /\ UNCHANGED outcome ELSE VGoto("end") /\ outcome' = "failed"
Entry == cache[locked.asset]

-----------------------------------------------------------------------------
\* validateOfficialCycloneDxSbom dependsOn prepareVerifiedSbom
StartValidation ==
  /\ VAt("idle") /\ verdict = "ok" /\ VGoto("lock") /\ moments' = {OutputsNow}
  /\ UNCHANGED <<finalizing, lock, cache, locked, binary, prints, queue, passed, ran, outcome>>

\* load_lock: all of it is fixed but digest and size of each platform's asset
LoadLock ==
  /\ VAt("lock") /\ locked' = lock /\ VRequire(lock.valid, "cache")
  /\ UNCHANGED <<finalizing, lock, cache, binary, prints, queue, passed, ran, moments>>

\* prepare_binary: with --offline a missing entry is refused
LookInCache ==
  /\ VAt("cache")
  /\ IF Entry # NoEntry THEN VRequire(TRUE, "asset")
     ELSE \E offline \in BOOLEAN : VRequire(~offline, "download")
  /\ UNCHANGED <<finalizing, lock, cache, locked, binary, prints, queue, passed, ran, moments>>

\* _download_verified: host, status, length and digest; only exact bytes get further
Download ==
  /\ VAt("download") /\ \E exact \in BOOLEAN : VRequire(exact, "link")
  /\ UNCHANGED <<finalizing, lock, cache, locked, binary, prints, queue, passed, ran, moments>>

\* the complete file is linked into the cache, never over an entry that has appeared
LinkEntry ==
  /\ VAt("link") /\ VRequire(Entry = NoEntry, "asset")
  /\ cache' = IF Entry # NoEntry THEN cache
              ELSE [cache EXCEPT ![locked.asset] =
                      [bytes |-> locked.asset, strict |-> TRUE, runs |-> TRUE, stamp |-> 2 * touches + 1]]
  /\ UNCHANGED <<finalizing, lock, locked, binary, prints, queue, passed, ran, moments>>

\* _require_expected_asset: the locked bytes, not writable by others, made executable
RequireAsset ==
  /\ VAt("asset") /\ VRequire(Entry.bytes = locked.asset /\ Entry.strict, "repository")
  /\ binary' = Entry.stamp
  /\ cache' = IF outcome' = "none" THEN [cache EXCEPT ![locked.asset].runs = TRUE] ELSE cache
  /\ UNCHANGED <<finalizing, lock, locked, prints, queue, passed, ran, moments>>

\* _snapshot_files of the lock and the executable, which are still those verified
SnapshotRepository ==
  /\ VAt("repository")
  /\ VRequire(lock.stamp = locked.stamp /\ Entry # NoEntry /\ Entry.stamp = binary, "documents")
  /\ UNCHANGED <<finalizing, lock, cache, locked, binary, prints, queue, passed, ran, moments>>

\* ... and of the documents, one after the other
SnapshotDocument ==
  /\ VAt("documents")
  /\ LET n == Cardinality(DOMAIN prints) + 1 IN
     /\ prints' = With(prints, Documents[n], files[Documents[n]].stamp)
     /\ IF n = 6 THEN VGoto("run") /\ queue' = <<<<"version">>>> \o Documents
                 ELSE UNCHANGED <<vpc, queue>>
  /\ UNCHANGED <<finalizing, lock, cache, locked, binary, passed, ran, moments, outcome>>

\* the official validator's judgement of a document
SchemaValid(d) == d.defect = "none"

\* _run_command: the CLI is run by its path and opens the document by its path; it may time out
RunCli ==
  /\ VAt("run") /\ queue # <<>>
  /\ LET on == Head(queue) IN
     /\ ran' = ran \cup {Entry.bytes}
     /\ \/ /\ Entry # NoEntry
           /\ IF on = <<"version">> THEN Entry.bytes = locked.asset /\ UNCHANGED passed
              ELSE SchemaValid(files[on].document) /\ passed' = With(passed, on, files[on].document)
           /\ VGoto("unchanged") /\ UNCHANGED outcome
        \/ UNCHANGED passed /\ VRequire(FALSE, "end")
  /\ UNCHANGED <<finalizing, lock, cache, locked, binary, prints, queue, moments>>

\* the documents are not looked at again after a run
CheckUnchangedBug ==
  /\ VAt("unchanged") /\ queue' = Tail(queue)
  /\ VRequire(lock.stamp = locked.stamp /\ Entry # NoEntry /\ Entry.stamp = binary, "run")
  /\ UNCHANGED <<finalizing, lock, cache, locked, binary, prints, passed, ran, moments>>

\* _require_unchanged, also when the run has failed.  Each file is looked at in turn; what
\* is seen unchanged was unchanged since its fingerprint, so the order does not matter
CheckUnchanged ==
  /\ VAt("unchanged") /\ queue' = Tail(queue)
  /\ VRequire(/\ lock.stamp = locked.stamp /\ Entry # NoEntry /\ Entry.stamp = binary
              /\ \A p \in DOMAIN prints : files[p].stamp = prints[p], "run")
  /\ UNCHANGED <<finalizing, lock, cache, locked, binary, prints, passed, ran, moments>>

EndValidation ==
  /\ VAt("run") /\ queue = <<>> /\ VGoto("end") /\ outcome' = "ok"
  /\ UNCHANGED <<finalizing, lock, cache, locked, binary, prints, queue, passed, ran, moments>>

-----------------------------------------------------------------------------
(* Others, while the validator runs.                                       *)

EditLock ==
  /\ lock' \in {[lock EXCEPT !.stamp = 2 * touches + 2, !.asset = "other"],
                [lock EXCEPT !.stamp = 2 * touches + 2, !.valid = FALSE]}
  /\ UNCHANGED <<files, cache>>

\* another validator's download, a hand-made entry, or none
EditCache ==
  /\ \E entry \in {[bytes |-> "pinned", strict |-> TRUE, runs |-> TRUE, stamp |-> 2 * touches + 2],
                   [bytes |-> "pinned", strict |-> FALSE, runs |-> TRUE, stamp |-> 2 * touches + 2],
                   [bytes |-> "pinned", strict |-> TRUE, runs |-> FALSE, stamp |-> 2 * touches + 2],
                   [bytes |-> "wrong", strict |-> TRUE, runs |-> TRUE, stamp |-> 2 * touches + 2], NoEntry} :
       cache' = [cache EXCEPT !["pinned"] = entry]
  /\ UNCHANGED <<files, lock>>

\* a document is replaced by the next build's, or by one its format's schema refuses
EditOutputs ==
  /\ \E i \in 1 .. 6 :
       \E d \in {Finalized(Regenerated[Documents[i][2]]),
                [Regenerated[Documents[i][2]] EXCEPT !.defect = "profile"]} :
         files' = [files EXCEPT ![Documents[i]] = [document |-> d, stamp |-> 2 * touches + 2]]
  /\ UNCHANGED <<lock, cache>>

ValidationEdit ==
  /\ vpc \notin {"idle", "end"} /\ touches < SbomEdits /\ touches' = touches + 1 /\ disturbed' = TRUE
  /\ EditLock \/ EditCache \/ EditOutputs
  /\ moments' = moments \cup {[i \in 1 .. 6 |-> files'[Documents[i]].document]}
  /\ UNCHANGED <<task, fpc, pair, inHand, verified, compared, verdict, vpc, locked, binary, prints,
                 queue, passed, ran, outcome>>

OfficialNext ==
  \/ StartValidation \/ LoadLock \/ LookInCache \/ Download \/ LinkEntry \/ RequireAsset
  \/ SnapshotRepository \/ SnapshotDocument \/ RunCli \/ CheckUnchanged \/ EndValidation
  \/ ValidationEdit

-----------------------------------------------------------------------------
\* When the validator succeeds, the six documents the CLI accepted were in place together,
\* at one moment since it began, and every run was of the executable the lock names; if
\* nobody touched the files, they are the documents the finalizer verified
\* (_run_protected_command, _require_unchanged).
ValidatedTogether ==
  outcome = "ok" =>
    /\ [i \in 1 .. 6 |-> passed[Documents[i]]] \in moments /\ ran = {locked.asset} /\ locked.valid
    /\ ~disturbed => \A r \in Roles, f \in Formats : passed[Output(r, f)] = verified[r][f]
=============================================================================
