-------------------------- MODULE ReleaseInstaller --------------------------
(***************************************************************************)
(* src/scripts/install-release-assets.py: any number of calls that verify  *)
(* a directory of release assets and install its JARs and POM under one    *)
(* Maven coordinate.  The coordinate is a directory that other processes   *)
(* see while it is filled: mkdir claims it, then the staged copies are     *)
(* moved in one by one.                                                    *)
(***************************************************************************)
EXTENDS ReleaseAssets, Naturals

CONSTANTS
  Installers,
  InstallFaults   \* "io": an OSError; "interrupt"; "crash"; "alter": the assets change

VARIABLES
  assets,       \* the directory of downloaded assets
  coordinate,   \* [made, by, files]: the version directory in the repository
  ipc,          \* place of each call; "installed", "failed" or "dead" at its end
  index,        \* checksums of each call: the parsed SHA256SUMS
  staging       \* files in each call's temporary directory

installer == <<ipc, index, staging>>
installing == <<assets, coordinate, installer>>

NoFiles == [n \in {} |-> 0]
Nobody == "nobody"
ASSUME InstallerAssumption == Nobody \notin Installers
Absent == [made |-> FALSE, by |-> Nobody, files |-> NoFiles]
Ended == {"installed", "failed", "dead"}

InstallerInit(directories) ==
  /\ assets \in directories /\ coordinate = Absent
  /\ ipc = [i \in Installers |-> "idle"]
  /\ index = [i \in Installers |-> NoFiles] /\ staging = [i \in Installers |-> NoFiles]

At(i, place) == ipc[i] = place
Step(i, next) == ipc' = [ipc EXCEPT ![i] = next]
With(files, n, content) ==
  [m \in DOMAIN files \cup {n} |-> IF m = n THEN content ELSE files[m]]
Without(files, n) == [m \in DOMAIN files \ {n} |-> files[m]]

\* the temporary directory goes whenever its with block is left
Fail(i) == Step(i, "failed") /\ staging' = [staging EXCEPT ![i] = NoFiles]

\* run up to the contents of the assets: the checksums are read once, here
Verify(i) ==
  /\ At(i, "idle")
  /\ IF ChecksumsHold(assets)
       THEN Step(i, "validate") /\ index' = [index EXCEPT ![i] = IndexOf(assets)]
       ELSE Step(i, "failed") /\ UNCHANGED index
  /\ UNCHANGED <<assets, coordinate, staging>>

\* the contents are read again from the same files; archive is what the inventory of
\* the archive's paths said (ArchivePaths)
Validate(i, archiveAccepted) ==
  /\ At(i, "validate")
  /\ Step(i, IF ContentsHold(assets) /\ archiveAccepted THEN "inspect" ELSE "failed")
  /\ UNCHANGED <<assets, coordinate, index, staging>>

\* install: nothing may be at the destination, and no component is a symlink
Inspect(i) ==
  /\ At(i, "inspect")
  /\ Step(i, IF coordinate.made THEN "failed" ELSE "copy")
  /\ UNCHANGED <<assets, coordinate, index, staging>>

\* the copy is not compared again
CopyBug(i) ==
  /\ At(i, "copy")
  /\ IF DOMAIN staging[i] = Published
       THEN Step(i, "claim") /\ UNCHANGED staging
       ELSE \E n \in Published \ DOMAIN staging[i] :
              /\ staging' = [staging EXCEPT ![i] = With(staging[i], n, assets.files[n])]
              /\ UNCHANGED ipc
  /\ UNCHANGED <<assets, coordinate, index>>

\* one copy into the staging directory, compared with the checksum read at the start
Copy(i) ==
  /\ At(i, "copy")
  /\ IF DOMAIN staging[i] = Published
       THEN Step(i, "claim") /\ UNCHANGED staging
       ELSE \E n \in Published \ DOMAIN staging[i] :
              IF assets.files[n] = index[i][n]
                THEN /\ staging' = [staging EXCEPT ![i] = With(staging[i], n, assets.files[n])]
                     /\ UNCHANGED ipc
                ELSE Fail(i)
  /\ UNCHANGED <<assets, coordinate, index>>

\* mkdir is what decides between two calls
Claim(i) ==
  /\ At(i, "claim")
  /\ IF coordinate.made
       THEN Fail(i) /\ UNCHANGED coordinate
       ELSE /\ Step(i, "move") /\ coordinate' = [Absent EXCEPT !.made = TRUE, !.by = i]
            /\ UNCHANGED staging
  /\ UNCHANGED <<assets, index>>

\* os.replace of one staged file; the call returns when none is left
Move(i) ==
  /\ At(i, "move")
  /\ IF staging[i] = NoFiles
       THEN Step(i, "installed") /\ UNCHANGED <<coordinate, staging>>
       ELSE \E n \in DOMAIN staging[i] :
              /\ coordinate' = [coordinate EXCEPT !.files = With(@, n, staging[i][n])]
              /\ staging' = [staging EXCEPT ![i] = Without(staging[i], n)]
              /\ UNCHANGED ipc
  /\ UNCHANGED <<assets, index>>

\* what was moved so far stays
MoveFailsBug(i) ==
  /\ "io" \in InstallFaults /\ Fail(i)
  /\ At(i, "copy") \/ At(i, "claim") \/ (At(i, "move") /\ staging[i] # NoFiles)
  /\ UNCHANGED <<assets, coordinate, index>>

\* an OSError while files are moved takes the coordinate away again; one before does
\* not touch it
MoveFails(i) ==
  /\ "io" \in InstallFaults /\ Fail(i)
  /\ At(i, "copy") \/ At(i, "claim") \/ (At(i, "move") /\ staging[i] # NoFiles)
  /\ IF At(i, "move") THEN coordinate' = Absent ELSE UNCHANGED coordinate
  /\ UNCHANGED <<assets, index>>

\* KeyboardInterrupt is no OSError: the staging directory goes, the coordinate stays
Interrupted(i) ==
  /\ "interrupt" \in InstallFaults /\ ipc[i] \notin Ended
  /\ Step(i, "dead") /\ staging' = [staging EXCEPT ![i] = NoFiles]
  /\ UNCHANGED <<assets, coordinate, index>>

Crashed(i) ==
  /\ "crash" \in InstallFaults /\ ipc[i] \notin Ended /\ Step(i, "dead")
  /\ UNCHANGED <<assets, coordinate, index, staging>>

\* another download replaces a file, once
Alter ==
  /\ "alter" \in InstallFaults /\ ~assets.altered
  /\ \E n \in DOMAIN assets.files \ {Index} :
       assets' = [assets EXCEPT !.altered = TRUE, !.files[n].defects = {"other bytes"}]
  /\ UNCHANGED <<coordinate, installer>>

InstallerStep(i, archiveAccepted) ==
  \/ Verify(i) \/ Validate(i, archiveAccepted) \/ Inspect(i) \/ Copy(i) \/ Claim(i) \/ Move(i)
  \/ MoveFails(i) \/ Interrupted(i) \/ Crashed(i)

-----------------------------------------------------------------------------
\* Whatever is visible at the coordinate was declared by the index its installer had
\* verified, however the assets change meanwhile (install).
InstalledIsDeclared ==
  \A n \in DOMAIN coordinate.files :
    /\ n \in Published /\ coordinate.by \in Installers
    /\ coordinate.files[n] = index[coordinate.by][n]

\* A call that returns success leaves the whole release, and one that reports an error
\* leaves nothing of its own behind.
InstalledIsWhole ==
  \A i \in Installers :
    /\ At(i, "installed") => coordinate.by = i /\ DOMAIN coordinate.files = Published
    /\ At(i, "failed") => coordinate.by # i /\ staging[i] = NoFiles
=============================================================================
