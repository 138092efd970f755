-------------------------- MODULE ChecksumPreparer --------------------------
(***************************************************************************)
(* src/scripts/prepare_maven_v0_1_2_checksums.py (and its twin for v0.1.0):*)
(* calls that write the Maven sidecars of one installed coordinate.  A     *)
(* sidecar is staged under a temporary name in the same directory, linked  *)
(* to its own name, and the temporary name removed; every other process    *)
(* sees each of these entries.                                             *)
(*                                                                         *)
(* Artifacts is the content the script pins, present what the coordinate   *)
(* holds, both as functions from file names; the module that composes this *)
(* one says where present comes from.                                      *)
(***************************************************************************)
EXTENDS Naturals, Sequences, FiniteSets

CONSTANTS
  Preparers,
  Artifacts,       \* EXPECTED_ARTIFACTS: file name -> content
  Algorithms,      \* "sha1", "sha256"
  Order,           \* the sidecars as pairs, in the order they are written
  PrepareFaults    \* "io": an OSError; "crash"

Sidecars == (DOMAIN Artifacts) \X Algorithms

ASSUME PreparerAssumption ==
  /\ Order \in Seq(Sidecars) /\ Order # <<>> /\ {Order[i] : i \in DOMAIN Order} = Sidecars
  /\ \A i, j \in DOMAIN Order : Order[i] = Order[j] => i = j

VARIABLES
  sidecars,     \* sidecar -> "exact" or "other", linked under its own name
  temps,        \* temporary names: a call owns at most one
  kpc, written  \* place of each call, and how many sidecars it has written

preparer == <<sidecars, temps, kpc, written>>

NoSidecars == [s \in {} |-> "exact"]
PrepareEnded == {"prepared", "refused", "crashed"}

PreparerInit ==
  /\ sidecars = NoSidecars /\ temps = {}
  /\ kpc = [k \in Preparers |-> "idle"] /\ written = [k \in Preparers |-> 0]

PStep(k, next) == kpc' = [kpc EXCEPT ![k] = next]

\* os.listdir sees everything: artifacts, sidecars and the temporary names of all calls
Inventory(present, extra) ==
  DOMAIN present = DOMAIN Artifacts /\ DOMAIN sidecars = extra /\ temps = {}
HashesHold(present) == \A n \in DOMAIN Artifacts : present[n] = Artifacts[n]

\* prepare_repository, _assert_initial_inventory, _assert_artifact_hashes: the
\* directory holds the artifacts and nothing else
CheckInstalled(k, present) ==
  /\ kpc[k] = "idle"
  /\ PStep(k, IF Inventory(present, {}) /\ HashesHold(present) THEN "stage" ELSE "refused")
  /\ UNCHANGED <<sidecars, temps, written>>

\* _write_new_sidecar: written and synced under a name of its own
StageSidecar(k) ==
  /\ kpc[k] = "stage" /\ written[k] < Len(Order)
  /\ PStep(k, "link") /\ temps' = temps \cup {k} /\ UNCHANGED <<sidecars, written>>

\* the sidecar is created under its own name and filled afterwards
LinkSidecarBug(k) ==
  LET s == Order[written[k] + 1] IN
  /\ kpc[k] = "link" /\ PStep(k, "unlink")
  /\ sidecars' = [t \in DOMAIN sidecars \cup {s} |-> IF t = s THEN "other" ELSE sidecars[t]]
  /\ UNCHANGED <<temps, written>>

\* os.link refuses a name that exists; the finally block removes the temporary name
LinkSidecar(k) ==
  LET s == Order[written[k] + 1] IN
  /\ kpc[k] = "link"
  /\ IF s \in DOMAIN sidecars
       THEN PStep(k, "abandon") /\ UNCHANGED sidecars
       ELSE PStep(k, "unlink") /\ sidecars' = [t \in DOMAIN sidecars \cup {s} |->
                                                IF t = s THEN "exact" ELSE sidecars[t]]
  /\ UNCHANGED <<temps, written>>

UnlinkTemporary(k) ==
  /\ kpc[k] \in {"unlink", "abandon"} /\ temps' = temps \ {k}
  /\ IF kpc[k] = "unlink"
       THEN PStep(k, "stage") /\ written' = [written EXCEPT ![k] = @ + 1]
       ELSE PStep(k, "refused") /\ UNCHANGED written
  /\ UNCHANGED sidecars

\* _assert_final_state: the exact inventory and every byte once more
CheckPrepared(k, present) ==
  /\ kpc[k] = "stage" /\ written[k] = Len(Order)
  /\ PStep(k, IF /\ Inventory(present, Sidecars) /\ HashesHold(present)
                 /\ \A s \in Sidecars : sidecars[s] = "exact"
              THEN "prepared" ELSE "refused")
  /\ UNCHANGED <<sidecars, temps, written>>

\* an OSError between two steps, or while a sidecar is staged or linked
PrepareFails(k) ==
  /\ "io" \in PrepareFaults /\ kpc[k] \in {"stage", "link"}
  /\ PStep(k, IF kpc[k] = "link" THEN "abandon" ELSE "refused")
  /\ UNCHANGED <<sidecars, temps, written>>

PrepareCrashes(k) ==
  /\ "crash" \in PrepareFaults /\ kpc[k] \notin PrepareEnded \cup {"idle"}
  /\ PStep(k, "crashed") /\ UNCHANGED <<sidecars, temps, written>>

PreparerStep(k, present) ==
  \/ CheckInstalled(k, present) \/ StageSidecar(k) \/ LinkSidecar(k) \/ UnlinkTemporary(k)
  \/ CheckPrepared(k, present) \/ PrepareFails(k) \/ PrepareCrashes(k)

-----------------------------------------------------------------------------
\* A sidecar is complete as soon as Maven can see its name, whatever call or crash
\* interrupts the writing, and no call rewrites one (_write_new_sidecar).
SidecarsExact == \A s \in DOMAIN sidecars : sidecars[s] = "exact"

\* A call reports success only while it leaves exactly the artifacts and all their
\* sidecars, and of several calls on one coordinate at most one does.
PreparedIsComplete(present) ==
  /\ \A k, l \in Preparers : kpc[k] = "prepared" /\ kpc[l] = "prepared" => k = l
  /\ \A k \in Preparers :
       kpc[k] = "prepared" => DOMAIN sidecars = Sidecars /\ HashesHold(present)
=============================================================================
