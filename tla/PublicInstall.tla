---------------------------- MODULE PublicInstall ----------------------------
(***************************************************************************)
(* src/scripts/install-public-v0_1_2.py: reserve a new Maven repository,   *)
(* download the pinned helpers and the release through curl, run the       *)
(* installer and the checksum preparer on a private staged repository, and *)
(* publish the staged coordinate into the reserved directory.              *)
(*                                                                         *)
(* The helpers are the modules ReleaseInstaller and ChecksumPreparer.  In  *)
(* mode "public" this process runs one call of each on its staged          *)
(* repository; in mode "direct" users run any number of them on a          *)
(* repository they share.  Both install a release whose archive's paths    *)
(* ArchivePaths has scanned.                                               *)
(***************************************************************************)
EXTENDS ReleaseInstaller, ChecksumPreparer, ArchivePaths

CONSTANTS
  Directories,    \* the asset directories of mode "direct"
  Exact,          \* the released one, which the pinned index declares
  Delegate,       \* the call of the installer made in mode "public"
  Helper,         \* the call of the preparer made in mode "public"
  PublicFaults,   \* see the actions
  Chunks,         \* EXPECTED_DOWNLOAD_SIZES, in chunks of a download
  PipeCapacity    \* chunks a pipe holds

ASSUME PublicAssumption ==
  /\ Delegate \in Installers /\ Helper \in Preparers
  /\ DOMAIN Artifacts = Published
  /\ Chunks \in Nat /\ PipeCapacity \in Nat /\ Exact \notin Directories

VARIABLES
  mode, ppc,
  curl,       \* [state, sent]: the child of the running download
  fetched,    \* chunks read from it
  queue,      \* what is still to be downloaded
  target,     \* [by, files, bound]: the requested path's directory
  residue,    \* the error message tells what was left behind
  outcome     \* "none", "ok", "error"

fetching == <<curl, fetched, queue>>
public == <<mode, ppc, fetching, target, residue, outcome>>
vars == <<archive, installing, preparer, public>>

Idle == [state |-> "none", sent |-> 0]
Downloads == <<"installer", "preparer", "assets">>

\* the private repository's coordinate as the preparer and _staged_coordinate see it
Present == coordinate.files

Init ==
  /\ ArchiveInit /\ PreparerInit
  /\ mode \in {"direct", "public"}
  /\ InstallerInit(IF mode = "public" THEN {Exact} ELSE Directories)
  /\ ppc = "validate" /\ curl = Idle /\ fetched = 0 /\ queue = Downloads
  /\ target = [by |-> Nobody, files |-> NoFiles, bound |-> FALSE]
  /\ residue = FALSE /\ outcome = "none"

PGoto(next) == ppc' = next
PublicAt(place) == mode = "public" /\ verdict = "left" /\ ppc = place
Others == <<archive, installing, preparer, mode>>

\* the error reaches the user without the retained-residue message
FailPublicBug ==
  /\ PGoto("end") /\ outcome' = "error" /\ residue' = FALSE
  /\ curl' = Idle /\ UNCHANGED <<fetched, queue>>

\* every error after the reservation closes the temporary directory (its copies of the
\* assets and of the staged repository) and says that the reservation stays
FailPublic ==
  /\ PGoto("end") /\ outcome' = "error" /\ residue' = (target.by = "us")
  /\ curl' = Idle /\ UNCHANGED <<fetched, queue>>

-----------------------------------------------------------------------------
\* _validate_repository_argument: a new absent path under a canonical parent
ValidateTarget ==
  /\ PublicAt("validate")
  /\ IF target.by = Nobody THEN PGoto("reserve") /\ UNCHANGED <<fetching, residue, outcome>>
                           ELSE FailPublic
  /\ UNCHANGED <<Others, target>>

\* _reserve_repository: mkdir, then the descriptor is bound to the path
Reserve ==
  /\ PublicAt("reserve")
  /\ \/ target.by # Nobody /\ FailPublic /\ UNCHANGED target
     \/ /\ target.by = Nobody /\ PGoto("fetch")
        /\ target' = [target EXCEPT !.by = "us", !.bound = TRUE]
        /\ UNCHANGED <<fetching, residue, outcome>>
     \/ /\ "io" \in PublicFaults /\ target.by = Nobody
        /\ target' = [target EXCEPT !.by = "us", !.bound = TRUE]
        /\ PGoto("end") /\ outcome' = "error" /\ residue' = TRUE /\ UNCHANGED fetching
  /\ UNCHANGED Others

\* another process takes the path before the reservation, or moves it away after it
Occupy ==
  /\ mode = "public" /\ "occupied" \in PublicFaults
  /\ \/ target.by = Nobody /\ target' = [target EXCEPT !.by = "other"]
     \/ target.bound /\ outcome = "none" /\ target' = [target EXCEPT !.bound = FALSE]
  /\ UNCHANGED <<Others, ppc, fetching, residue, outcome>>

-----------------------------------------------------------------------------
(* _download_with_curl: one child, its output through a pipe, its         *)
(* diagnostics through another that is read only at the end.               *)

\* a release asset's redirect is looked up first; then the child is started
StartFetch ==
  /\ PublicAt("fetch")
  /\ \/ curl' = [Idle EXCEPT !.state = "running"] /\ fetched' = 0 /\ PGoto("read")
        /\ UNCHANGED <<queue, residue, outcome>>
     \/ "redirect" \in PublicFaults /\ FailPublic
  /\ UNCHANGED <<Others, target>>

\* curl blocks on a full pipe, and sends at most one chunk too many; its diagnostics,
\* read last, are assumed to fit into their pipe
Blocked == curl.sent - fetched = PipeCapacity
CurlRuns ==
  /\ mode = "public" /\ curl.state = "running" /\ ~Blocked
  /\ curl.sent <= Chunks /\ curl' = [curl EXCEPT !.sent = @ + 1]
  /\ UNCHANGED <<Others, ppc, fetched, queue, target, residue, outcome>>

\* the transfer is over, or --max-time or an error ended it: never while it is blocked
CurlExits ==
  /\ mode = "public" /\ curl.state = "running" /\ ~Blocked
  /\ \/ curl' = [curl EXCEPT !.state = "exited"]
     \/ "curl" \in PublicFaults /\ curl' = [curl EXCEPT !.state = "failed"]
  /\ UNCHANGED <<Others, ppc, fetched, queue, target, residue, outcome>>

\* the child's exit is awaited before the diagnostics are read: it may be blocked
ReadChunkBug ==
  /\ PublicAt("read") /\ curl.state \in {"exited", "failed"} /\ PGoto("check")
  /\ UNCHANGED <<Others, fetching, target, residue, outcome>>

\* a chunk, or the error that it is one too many: the child is killed on the way out;
\* end of file only once the child is gone
ReadChunk ==
  /\ PublicAt("read")
  /\ \/ /\ fetched < curl.sent /\ fetched + 1 > Chunks /\ FailPublic
     \/ /\ fetched < curl.sent /\ fetched + 1 <= Chunks /\ fetched' = fetched + 1
        /\ PGoto("read") /\ UNCHANGED <<curl, queue, residue, outcome>>
     \/ /\ fetched = curl.sent /\ curl.state \in {"exited", "failed"} /\ PGoto("check")
        /\ UNCHANGED <<fetching, residue, outcome>>
  /\ UNCHANGED <<Others, target>>

\* exit status, direct 200 and exact size; then the pinned digest of what matters
CheckFetch ==
  /\ PublicAt("check")
  /\ IF curl.state = "exited" /\ fetched = Chunks
       THEN /\ PGoto("digest") /\ curl' = Idle /\ UNCHANGED <<fetched, queue, residue, outcome>>
       ELSE FailPublic
  /\ UNCHANGED <<Others, target>>

\* the helpers by their own digests, the assets by that of their index
CheckDigest ==
  /\ PublicAt("digest")
  /\ \/ /\ queue' = Tail(queue) /\ PGoto(IF Len(queue) = 1 THEN "install" ELSE "fetch")
        /\ UNCHANGED <<curl, fetched, residue, outcome>>
     \/ "digest" \in PublicFaults /\ FailPublic
  /\ UNCHANGED <<Others, target>>

-----------------------------------------------------------------------------
(* The two helpers, then the publication.                                  *)

\* subprocess.run with a timeout: the helper is killed when the time is over
AwaitInstaller ==
  /\ PublicAt("install")
  /\ \/ ipc[Delegate] = "installed" /\ PGoto("prepare")
        /\ UNCHANGED <<ipc, fetching, residue, outcome>>
     \/ ipc[Delegate] \in {"failed", "dead"} /\ FailPublic /\ UNCHANGED ipc
     \/ /\ "timeout" \in PublicFaults /\ ipc[Delegate] \notin Ended
        /\ Step(Delegate, "dead") /\ FailPublic
  /\ UNCHANGED <<archive, preparer, assets, coordinate, index, staging, mode, target>>

AwaitPreparer ==
  /\ PublicAt("prepare")
  /\ \/ kpc[Helper] = "prepared" /\ PGoto("bind")
        /\ UNCHANGED <<kpc, fetching, residue, outcome>>
     \/ kpc[Helper] \in {"refused", "crashed"} /\ FailPublic /\ UNCHANGED kpc
     \/ /\ "timeout" \in PublicFaults /\ kpc[Helper] \notin PrepareEnded
        /\ PStep(Helper, "crashed") /\ FailPublic
  /\ UNCHANGED <<archive, installing, sidecars, temps, written, mode, target>>

\* _staged_coordinate and the path binding before anything is written
StagedExact == DOMAIN Present = DOMAIN Artifacts /\ DOMAIN sidecars = Sidecars /\ temps = {}
CheckBinding ==
  /\ PublicAt("bind")
  /\ IF StagedExact /\ target.bound
       THEN PGoto("publish") /\ UNCHANGED <<fetching, residue, outcome>> ELSE FailPublic
  /\ UNCHANGED <<Others, target>>

\* _copy_regular_file_at, file by file in a new directory chain; each copy is read back
Staged == {<<n>> : n \in DOMAIN Present} \cup DOMAIN sidecars
StagedContent(f) == IF Len(f) = 1 THEN Present[f[1]] ELSE sidecars[f]
PublishFile ==
  /\ PublicAt("publish") /\ DOMAIN target.files # Staged
  /\ \/ /\ \E n \in Staged \ DOMAIN target.files :
             target' = [target EXCEPT !.files = With(@, n, StagedContent(n))]
        /\ UNCHANGED <<ppc, fetching, residue, outcome>>
     \/ "io" \in PublicFaults /\ FailPublic /\ UNCHANGED target
  /\ UNCHANGED Others

\* the inventories once more, and the path still bound to what was filled
FinishPublish ==
  /\ PublicAt("publish") /\ DOMAIN target.files = Staged
  /\ IF target.bound
       THEN PGoto("end") /\ outcome' = "ok" /\ UNCHANGED <<fetching, residue>> ELSE FailPublic
  /\ UNCHANGED <<Others, target>>

\* KeyboardInterrupt after the reservation: the child that runs is killed on the way out
PublicInterrupted ==
  /\ "interrupt" \in PublicFaults /\ mode = "public" /\ verdict = "left"
  /\ ppc \notin {"validate", "reserve", "end"} /\ FailPublic
  /\ ipc' = [ipc EXCEPT ![Delegate] = IF @ \in Ended \cup {"idle"} THEN @ ELSE "dead"]
  /\ kpc' = [kpc EXCEPT ![Helper] = IF @ \in PrepareEnded \cup {"idle"} THEN @ ELSE "crashed"]
  /\ UNCHANGED <<archive, assets, coordinate, index, staging, sidecars, temps, written,
                 mode, target>>

-----------------------------------------------------------------------------
PublicStep ==
  \/ ValidateTarget \/ Reserve \/ StartFetch \/ ReadChunk \/ CheckFetch \/ CheckDigest
  \/ AwaitInstaller \/ AwaitPreparer \/ CheckBinding \/ PublishFile \/ FinishPublish

\* a helper runs while the public installer waits for it, or at a user's will
Runs(mine, place) == verdict = "left" /\ (mode = "direct" \/ (mine /\ ppc = place))

InstallStep(i) ==
  /\ Runs(i = Delegate, "install") /\ InstallerStep(i, verdict = "left")
  /\ UNCHANGED <<archive, preparer, public>>
PrepareStep(k) ==
  /\ Runs(k = Helper, "prepare") /\ PreparerStep(k, Present)
  /\ UNCHANGED <<archive, installing, public>>

Next ==
  \/ ArchiveNext /\ UNCHANGED <<installing, preparer, public>>
  \/ \E i \in Installers : InstallStep(i)
  \/ \E k \in Preparers : PrepareStep(k)
  \/ mode = "direct" /\ verdict = "left" /\ Alter /\ UNCHANGED <<archive, preparer, public>>
  \/ PublicStep \/ Occupy \/ CurlRuns \/ CurlExits \/ PublicInterrupted

\* this process and its helpers run, and curl ends by --max-time when it can
Fairness ==
  /\ WF_vars(PublicStep) /\ WF_vars(CurlExits)
  /\ WF_vars(InstallStep(Delegate)) /\ WF_vars(PrepareStep(Helper))
Spec == Init /\ [][Next]_vars /\ Fairness

-----------------------------------------------------------------------------
\* An accepted archive unpacks to what it lists on any file system: no two of its paths
\* and their ancestors differ only in case or Unicode form, and none lies below a file,
\* however the entries are ordered (register_archive_path, validate_archive_path_graph).
ArchiveUnpacks == NoPortableCollision /\ NoFileAboveEntry

\* A sidecar is complete as soon as Maven can see its name; a call of the preparer
\* reports success only while the artifacts and all sidecars are there, and of several
\* calls on one coordinate at most one does (prepare_repository, _write_new_sidecar).
PreparedComplete == SidecarsExact /\ PreparedIsComplete(Present)

\* OK is printed only with all twelve files, byte for byte the pinned ones, in the
\* reserved directory; whenever an error is reported after the reservation, the message
\* says that it was left behind; nothing else is ever written there.
OutcomeTellsTarget ==
  /\ \A f \in DOMAIN target.files :
       target.files[f] = IF Len(f) = 1 THEN Artifacts[f[1]] ELSE "exact"
  /\ outcome = "ok" => DOMAIN target.files = {<<n>> : n \in DOMAIN Artifacts} \cup Sidecars
  /\ outcome = "error" /\ target.by = "us" => residue

\* The public installer ends: it never waits for a child that waits for it, for a helper
\* without a time limit, or for output nobody writes.
PublicEnds == (mode = "public" /\ verdict = "left") ~> ppc = "end"
=============================================================================
