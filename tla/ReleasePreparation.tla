--------------------------- MODULE ReleasePreparation ---------------------------
(***************************************************************************)
(* The release-preparation commands side by side: the Central upload       *)
(* bundle, the pilot starter, and the SBOM finalizer followed by the       *)
(* official validator.  The three lines of work share no file, so a state  *)
(* of one never decides a step of another; each behaviour follows one.     *)
(***************************************************************************)
EXTENDS UploadBundle, StarterRenderer, OfficialValidation

VARIABLE work       \* "bundle", "starter" or "sbom"
preparing == <<bundling, rendering, proving, work>>

\* what the other lines of work look like meanwhile
BundleIdle == BundleInit /\ BytesOf(repository.files) = [f \in Needed |-> Correct(f)]
StarterIdle == StarterInit /\ target.commits = CHOOSE h \in Histories : TRUE
SbomIdle ==
  LET some == CHOOSE s \in SourceSets : TRUE IN
  SbomInit /\ \A r \in Roles, f \in Formats : files[Source(r, f)].document = some[r][f]

PreparationInit ==
  /\ OfficialInit
  /\ \/ work = "bundle" /\ BundleInit /\ StarterIdle /\ SbomIdle
     \/ work = "starter" /\ BundleIdle /\ StarterInit /\ SbomIdle
     \/ work = "sbom" /\ BundleIdle /\ StarterIdle /\ SbomInit

PreparationNext ==
  /\ UNCHANGED work
  /\ \/ work = "bundle" /\ BundleNext /\ UNCHANGED <<rendering, proving>>
     \/ work = "starter" /\ StarterNext /\ UNCHANGED <<bundling, proving>>
     \/ work = "sbom" /\ FinalizerNext /\ UNCHANGED <<bundling, rendering, validation>>
     \/ work = "sbom" /\ OfficialNext /\ UNCHANGED <<bundling, rendering>>

PreparationSpec == PreparationInit /\ [][PreparationNext]_preparing
=============================================================================
