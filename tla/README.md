# RouteContract: specification and proofs

RouteContract records which physical executions ShardingSphere-JDBC performs for
one logical application operation, and compares what it observed with a reviewed
manifest. Its scripts install a public release, guide a pilot in another project
and prepare the next release. This directory holds TLA+ models of the parts whose
correctness depends on the order of events or on the agreement of several checks, the
TLC runs that check them, and TLAPS proofs of the results that hold for every number of
threads, captures, hooks and calls.

Paths below are relative to
`src/routecontract-shardingsphere-5.5/src/main/java/io/github/ym0506/routecontract/`
unless they start with `src/`. The variant in
`src/routecontract-shardingsphere-5.4.1-5.5.2` shares these sources and replaces
the hook (same control) and the runtime pre-flight.

## 1. Inventory

| Component | State it keeps | Operations | What is hard, what makes it correct |
|---|---|---|---|
| Capture registry (`internal/CaptureRegistry`) | map of live captures, transmittable thread-local token | `open`, `close`, `startAttempt`, `finish*`, `recordCurrentError` | token transmitted to pool threads that outlive the capture. An attempt belongs to the capture it was submitted under; a token never stays behind |
| Capture and attempt (`internal/MutableCapture`, `MutableAttempt`) | `closed`, `startCallbackObserved`, retained counter, limit flag, attempts queue, diagnostics queue; one atomic completion per attempt | `start`, `finish*`, `recordError`, `closeAndFreeze` | no locks: every access of a callback interleaves with every access of close. A snapshot is one consistent reading, incomplete evidence is never COMPLETE |
| SPI hook (`internal/RouteContractSqlExecutionHook`) | `lifecycle`, handle; unsynchronised, one thread per instance | `start`, `finishSuccess`, `finishFailure` | misuse in any order; never disturbs the JDBC execution |
| Entry point (`RouteContract`, `internal/CaptureScope`) | scope of the running call | `capture`, `captureResult` | action and close may both throw; nested calls are rejected |
| ShardingSphere executor, TransmittableThreadLocal (external) | queue of tasks, thread contexts | submit, run, join, early return | unjoined workers after a failure or an interrupt, late callbacks |
| Manifest store (`manifest/ManifestStore`) | approved and candidate file, probe, temporary file | `read`, `writeCandidate`; approval is a file move by a reviewer | concurrent calls, I/O errors in `finally`, process death, names the file system folds |
| Observed manifest (`manifest/ObservedExecutionManifest`, `ManifestCounts`, `ManifestAttempt`, `ManifestPolicy`, `DataSourceAliases`) | immutable values | `from`, validation | multisets of attempts, sums at the integer boundary |
| Verifier (`manifest/ManifestVerifier`) | none | `verify` | precedence of statuses, independence from the order of attempts |
| Report and command line (`manifest/ManifestReviewReport`, `ManifestReviewCli`) | none | render, exit code | display limit, exit code of every status |
| Codec (`manifest/ManifestCodec`) | none | encode, decode | canonical bytes, size limit |
| Runtime pre-flight (`internal/ShardingSphere553Preflight`) | verified flag | `verify` | double-checked locking |
| Assertions (`RouteAssertions`) | none | predicates over a snapshot | never pass on a snapshot that is not COMPLETE |
| Assisted pilot (`src/scripts/run-assisted-maven-pilot.py`) | child process group, signal state | run, forward, escalate, quiesce | signals and timeouts at every point |
| Installers (`src/scripts/install-public-v0_1_2.py`, `install-release-assets.py`, `prepare_maven_v0_1_*_checksums.py`) | files of a Maven coordinate | download, verify, publish | failures and death between publications |
| Central upload bundle (`src/scripts/prepare-central-upload-bundle.py`) | output directory with bundle and receipt; private GnuPG homes | build, verify | staging repository and key home edited between the walks; partial output must be named |
| Starter renderer (`src/scripts/render-maven-pilot-starter.py`) | new output directory | read POM chain, Git snapshots, write, revalidate, clean up | target worktree edited meanwhile; clean-up by name in a shared directory |
| SBOM finalizer (`src/scripts/finalize-sbom.py`) | three JSON/XML pairs | complete, write, read back, compare; rerun | interruption between two replaces; setters and verifier must agree |
| Official validation (`src/scripts/validate-official-cyclonedx.py`) | lock file, cache of executables | fetch, fingerprint, run on six documents | files reopened by path after they were fingerprinted |
| Release evidence validators (`src/scripts/validate-rc-activation-record.py`, `verify-supply-chain-policy.py`, `verify-public-*.py`) | none | compare files and downloads with fixed expectations | exhaustive lists of conditions |
| Agent comparison (`src/experiments/agent-comparison`) | worker slots, limits, spans | receive, stop; run with timeout | bounded handler threads |

How they interact: the application calls `RouteContract.capture`, which opens a
capture in the registry and puts its token on the calling thread. ShardingSphere
creates a hook instance per physical execution and calls it on the thread that
runs the execution; that thread sees the token because TransmittableThreadLocal
replays it around pool tasks. A start adds an attempt to the capture, a terminal
callback sets the attempt's completion, and the end of the action closes the
capture: the attempts are frozen one by one and a `RouteSnapshot` is assembled.
A manifest is made from a snapshot, written by the store as a
candidate, approved by a reviewer who moves the file, and compared by the
verifier, in a test or from the command line.

The public installer runs the release installer and the checksum preparer as
child processes on a staged repository of its own. The release scripts share no
file with each other, except that the official validator reads what the SBOM
finalizer has written.

The hazards of this code, each at its line and with the properties that would
show it going wrong, are listed in `PROJECT.json`.

## 2. Modules

| Module | What it is |
|---|---|
| `Collector` | registry, capture, attempts, hook and entry point under an arbitrary client |
| `CaptureSystem` | `Collector` driven by application threads and the ShardingSphere executor |
| `OneShotCapture` | what a call of `RouteContract.capture` promises, without threads or queues |
| `CaptureRefinement` | the refinement mapping from `CaptureSystem` to `OneShotCapture` |
| `ManifestStore` | the file-system steps of `writeCandidate` |
| `ManifestValues` | snapshots, assertions, manifests, documents and aliases as values (no state) |
| `ManifestVerifier` | both forms of `verify` and what a report says of a result (no state) |
| `ManifestReview` | `ManifestStore` with the command line and a verifying test: writers, reviewer and readers of the same two files |
| `AssistedPilot` | the pilot wrapper, its signal handlers and the verifier's process group |
| `ArchivePaths` | the path inventory of an archive |
| `ReleaseAssets` | what the release installer accepts (no state) |
| `ReleaseInstaller` | calls that install verified assets under one coordinate |
| `ChecksumPreparer` | calls that write the sidecars of one coordinate |
| `PublicInstall` | the public installer, composed of the three above |
| `UploadBundle` | the Central upload bundle: build and verify |
| `StarterRenderer` | the pilot starter |
| `SbomFinalizer` | the SBOM finalizer and its reruns |
| `OfficialValidation` | the official validator, after `SbomFinalizer` |
| `ReleasePreparation` | the three lines of release work side by side |
| `MCCollector`, `MCCaptureSystem`, `MCManifestStore`, `MCManifestReview`, `MCAssistedPilot`, `MCInstallation`, `MCReleasePreparation` | constants and symmetry sets of the TLC runs |
| `CollectorProofs` | theorems about `Collector` |
| `CaptureSystemProofs`, `CaptureRefinementProofs` | theorems about `CaptureSystem` and its refinement, on top of those |
| `ManifestStoreProofs` | theorems about `ManifestStore` |
| `ManifestReviewProofs` | theorems about `ManifestReview` and the values and verifier it works on, on top of those |
| `InstallationProofs` | theorems about `PublicInstall` and the three modules it is composed of |
| `AssistedPilotProofs` | theorems about `AssistedPilot` |
| `ReleaseProofs` | theorems about `ReleasePreparation` and the four modules it is composed of |

In every module, a definition whose name ends in `Bug` is a plausible wrong
version of the definition that follows it. No specification uses one; putting it
in the place of its definition makes the property named beside it in
`PROJECT.json` ("mutants") fail, which shows that the property can tell the code
from a faulty one.

### Collector

One action is one access to shared memory (a volatile or atomic field, the
concurrent map, a concurrent queue) together with the thread-local work around it.
`pc[t]` is the place of thread `t` inside the collector, `cap`, `hk` and `detail`
are its locals (capture, hook instance, kind of input or pending diagnostic).

| Code | Model |
|---|---|
| `CURRENT_CAPTURE` (transmittable thread-local) | `ctx`; `Replay` is a pool task's begin and end |
| `CAPTURES` | `registry` |
| `startCallbackObserved`, `retainedAttemptCount`, `attemptLimitDiagnosticRecorded`, `closed`, `attempts`, `collectorDiagnostics` | `observed`, `retained`, `limitFlag`, `closed`, `attempts`, `diags` |
| `MutableAttempt.completion` | `completion[h]`; an attempt is named by its hook instance |
| hook fields `lifecycle`, `inFlight` | `lifecycle`, `inFlight` |
| `RouteContract.capture` | `Open`, action, `BeginClose`, ..., `Remove`; `Delivered` is what the caller gets |
| `closeAndFreeze` | `CloseFlag`, `CloseChecks`, `Freeze` per attempt, `EndFreeze`, `Assemble` |
| `hook.start` -> `startAttempt` -> `MutableCapture.start` | `StartCall`, `Observe`, `RecordArgument`, `CheckClosed`, `Count`, `Limit`, `Retain`, `Record` |
| `hook.finish*` -> `MutableAttempt.finish*` | `FinishCall`, `RecordCause`, `Complete`, `Record` |
| misuse of a hook instance | `StartMisuse`, `FinishMisuse` |

Decisions worth knowing:

- The weakly consistent iteration over the attempts queue is `Freeze(t, h)` for
  any attempt not yet visited, until none is left (`EndFreeze`). This allows more
  orders than the queue (insertion order), which no property depends on.
- A missing start callback and the interrupt flag are tested in one step
  (`CloseChecks`); a start that sets `startCallbackObserved` after it and inserts
  before the iteration is in the model.
- The three codes for a null argument are one code, and the diagnostics a set:
  only whether a code is present matters to a status.
- `retained` counts without wrapping; see section 7.
- The hook is called by one thread at a time (`Free`): the executor creates one
  instance per physical execution, and its fields are unsynchronised.

### CaptureSystem

The client the documentation supports: callers run synchronous statements inside
a capture; a statement is a set of physical executions of which one (`trunk`)
runs on the caller and the others are pool tasks carrying the token the caller
saw at submission (`origin`). The normal path joins all of them. After a failed
execution or an interrupt the statement may return early (`LeaveEarly`), the
action may catch what it throws, and the tasks left behind start and finish
whenever they like, also after close and during the next capture. The executor
is not in this repository; the model is what the collector's code and
`src/docs/specification.md` (sections 6 and 12) rely on. `due` remembers, for each
capture, what of its executions had been reported when its close began.

### ManifestStore

A directory maps the two names to files and `data` maps a file to its bytes (a
manifest, `"empty"` or `"partial"`), so a rename changes the directory and a
reader keeps the file it opened. `layout` says how the two paths are related:
leaves of their own, names the file system folds into one leaf, or the same leaf
through different parents. The actions are the steps of `writeCandidate` in order:
`Check`, the probe of an absent candidate (`Look`, `Probe`, `Recheck`, `Compare`,
`Unprobe`), `Stage`, `Flush`, `Confirm`, `Move`, `Cleanup`. `Fail` is an I/O error
at any of them and leads where the enclosing `finally` leads; `Crash` is the death of
the process; `Approve` is the reviewer's move, which may come between any two steps.
`rejectApprovedAlias` is one step. A deletion that fails inside a `finally`, the
creation of parent directories and what a device keeps after a power loss are
left out.

### OneShotCapture and its refinement

The abstract specification knows executions, what has been told of each of them
(nothing, started, returned, failed), and one report per capture. `Report` makes the
report while executions may still go on: it says nothing that was not told, may be
INCOMPLETE for any reason, and is COMPLETE only when every execution submitted under the
capture has returned; it never changes, and `Deliver` hands it, or the
action's exception, to the caller. `CaptureRefinement` maps the phase of a capture
to the place of the thread that closes it, the report to its snapshot, and what was
told to the completions of its attempts. The beginning of a close is
the end of the action and its assembly is the report; the steps between them map to a
stutter, the callbacks that run meanwhile do not.

The refinement holds while the executions of a capture stay within the retention
limit: TLC checks it on `failure_paths`, and `RefinesOneShot` proves it for every
instance. Beyond the limit it fails in the way finding 1 describes: an execution that is
not retained is told to nobody, and its diagnostic may come too late.

### ManifestValues, ManifestVerifier, ManifestReview

A manifest is a bag of signatures with its counts, policy, status, operation and schema;
the canonical order of equal bags is not modelled. A document is a manifest as
somebody may have edited it: its entries are a sequence with possible repetitions,
its counts are what it declares, its integers are ints of `IntLimit`, and `bytes` and
`canonical` are the sizes of its text and of its canonical form. `Accepted` is the
constructor of `ObservedExecutionManifest` with those of its parts; `Decodable` and
`Encodable` are the two directions of the codec. `Verify` and `VerifySnapshot` are the two
overloads of `verify`, as tuples of levels of which the first with a finding is
the result. A sum over a bag is the number of the executions it stands for (`Copies`),
which needs no recursion. `ReviewAssumption` says that documents, snapshots and policies
have the parts of such values (`IsDocument`, `IsSnapshot`, `IsPolicy`), whatever they
hold, and that the policies calls use are ones the constructor accepts.

`ManifestReview` extends `ManifestStore`, and thereby runs the command line between
the steps of `writeCandidate` calls: `ReadBaseline`, `ReadCandidate`,
`CreateReport` (CREATE_NEW), `FillReport`. A call writes only documents it can be given
(`Written`: canonical and made from a snapshot), and one that cannot be encoded fails
where `encode` does. `Judge` is a test that verifies a snapshot with aliases. The
instance is a sum of three scenes, so that the product of all documents with all
interleavings is not explored: "calls" (few documents, all interleavings), "files" (any
document in either file, one review, its I/O errors, an output path somebody else
creates) and "snapshots" (one snapshot, one approved manifest, one alias map).

### AssistedPilot

One action is one call of the wrapper between whose bytecodes a signal may arrive.
`Signal` is the arrival, `Receive` a step of a handler; handlers interrupt each other, so
`frames` is a stack, and the wrapper moves only when it is empty. `raised` is the
exception in flight, and `pc` walks through the `finally` blocks of `_run_verifier` and
`execute`. `ChildActs`, `LeaderExits` and `Killed` are the verifier and the kernel: the
process group consists of the leader and descendants; a verifier may ignore SIGTERM
("stubborn"), be beyond SIGKILL ("unkillable", as a process in uninterruptible sleep) or
refuse signals ("foreign"). `Edit` changes the project between the checks. Names of the
actions follow the functions (`Attach`, `Detach`, `Quiesce`, `Stage`, `Isolate`).

Two signals that nest inside `receive` can both take its first branch, so that the
second does not escalate: the model keeps this, and the grace period after which SIGKILL
is sent still ends the pilot (`SignalEndsPilot`).

### Installers

`ArchivePaths` registers entries one by one in the trie of folded components, then checks
the graph of files and directories. `ReleaseAssets` is the verification of an asset
directory: contents are records that name their defects, a digest stands for the
content. `ReleaseInstaller` has any number of calls over one coordinate (inspect,
verify, stage, claim with `mkdir`, move one by one, roll back), `ChecksumPreparer` any number
of calls over its sidecars (stage, link, unlink). `PublicInstall` extends all three. In mode
"direct", users run both helpers on a repository they share; in mode "public" the public
installer reserves a directory, downloads through a child process and a bounded
pipe, runs one call of each helper on a staged repository, and publishes.

### Release preparation

`UploadBundle` walks the staging repository entry by entry (`StatEntry`, `ReadEntry`,
`EndWalk`), three walks for each build and verify, with others editing files in between
(a stamp stands for inode, times and size, so an edit that restores the bytes still
shows), and writes bundle and receipt into a directory others can touch. `StarterRenderer`
is one Git command or one stable file read per step. `SbomFinalizer` completes, writes
and verifies document by document, may be stopped at any step and is run again;
`OfficialValidation` extends it, since the build runs the validator after the finalizer
succeeded. The three lines of work share no file, so `ReleasePreparation` is their sum,
not their interleaving: a step of one never decides a step of another.

## 3. Runs

| Run | Module | Instance | What it checks |
|---|---|---|---|
| `failure_paths` | MCCaptureSystem | 1 caller, 2 workers, 1 capture, 3 executions, limit 3; failures, interrupts, lost terminal callbacks, arguments that cannot be fingerprinted | `CompleteIsWhole`, `NoSilentLoss`, `FailureNeverPasses`, `CloseNeverFails`, and `ImplementsOneShot`: the refinement |
| `two_captures` | MCCaptureSystem | 2 callers, 1 shared worker, 2 captures, 4 executions that end in failures | `NoCrossCapture`, `ContextRestored`, `OneOwner` |
| `limit_after_failure` | MCCaptureSystem | limit 1 and failures | `FailureNeverPasses` is violated: finding 1 |
| `progress` | MCCaptureSystem | 1 caller, 1 worker, 3 executions, limit 1, lost terminal callbacks, fairness | `LimitFailsClosed`, `CallsReturn` |
| `any_client` | MCCollector | 2 threads, 1 capture, 2 hook instances, limit 1, every input in any order | `TypeOK`, `RetainedBound`, `SnapshotAgrees`, `EvidenceIsFinal` |
| `store_one_writer` | MCManifestReview | 1 call at a time, all layouts, links, I/O errors, crashes, a reviewer, a run of the command line; every pair of 26 documents; every snapshot of up to 2 attempts, 4 alias maps | `TypeOK`, `ApprovedIsReviewed`, `CandidateNeverLost`, `DecodedIsExact`, `VerdictIsEquivalence`, `AssertionsAgree`, `ReviewIsSound` |
| `store_two_writers` | MCManifestStore | 2 overlapping calls, separate paths, I/O errors, crashes | `NoProbeRemains` |
| `store_lost_candidate` | MCManifestStore | 2 overlapping calls | `CandidateNeverLost` is violated: finding 2 |
| `store_folded_names` | MCManifestStore | 2 overlapping calls, folded names | `ApprovedIsReviewed` is violated: finding 3 |
| `pilot` | MCAssistedPilot | 15 projects, 8 archives, 4 natures of the verifier, 2 signals, fairness | `ResultIsClean`, `NoSignalLost`, `SignalReachesGroup`, `NothingLeftBehind`, `SignalEndsPilot` |
| `installation` | MCInstallation | public mode, and 2 installers with 2 preparers on one coordinate; I/O errors, interrupts, deaths, timeouts, wrong downloads; fairness | `ArchiveUnpacks`, `InstalledIsDeclared`, `InstalledIsWhole`, `PreparedComplete`, `OutcomeTellsTarget`, `PublicEnds` |
| `release` | MCReleasePreparation | 2 edits by others in each line of work; an SBOM run that stops and is run again | `BundledTogether`, `ResidueIsTold`, `BundleFitsTarget`, `FailureLeavesNothing`, `VerifiedIsFinal`, `RefusedBeforeWriting`, `ValidatedTogether` |

What the passing runs show. On the supported path, and on the failure paths the
specification document fails closed, a COMPLETE snapshot holds exactly the executions
submitted under its capture, all of them returned (`CompleteIsWhole`); a start that had
been reported when the close began is in the snapshot or the snapshot is INCOMPLETE
(`NoSilentLoss`), and close never throws away the evidence it was called to produce
(`CloseNeverFails`). Concurrent and stale tasks on shared threads never reach another
capture, and a token never stays behind on a thread. When all executions are
joined, more of them than the limit always make the capture INCOMPLETE. No client
whatever makes the collector rewrite a snapshot, an outcome or a delivered result,
retain more than the limit, or contradict an attempt's outcome.

Seen from its caller, a capture is one report at one moment (`ImplementsOneShot`). What
`read` accepts declares exactly the counts of its entries (`DecodedIsExact`: the declared
ones are added with `+`, which wraps, and only the comparison with the exactly
recomputed ones rejects what wraps). MATCH is the equality of the bags within the budgets,
whichever form of `verify` is called (`VerdictIsEquivalence`), a snapshot passes the
assertions exactly when the verifier finds it eligible and within the budgets
(`AssertionsAgree`: one counts names, the other aliases, and they agree because aliases
are injective), and the command line exits with 0 only with a complete report of a
match with a reviewed baseline (`ReviewIsSound`).

The pilot reports a result only of the reviewed verifier and after all of its group
is gone, loses no signal, and ends. The installers never leave a coordinate that is
partly installed except where a process died or was interrupted, which section 7 lists;
every sidecar is complete as soon as it is visible. The release commands accept only
states that existed at one moment although they read file by file (`BundledTogether`,
`BundleFitsTarget`, `ValidatedTogether`), name what they leave behind, and never accept a
pair of documents of two builds.

### Why the bounds are enough

- Two callbacks and one close are all that any of the collector's races involves:
  the interleavings between `closed`, the counter, the queue and the completion are
  between one start or terminal callback and the close, the limit race between two
  starts and the close. `failure_paths` has three threads and three executions,
  enough for a joined, a queued and a late one at once.
- Captures interact only through a thread's token and the registry. Two captures
  and a thread shared by their tasks cover replay, stale replay and restoration; with
  four executions each of them has a trunk and a pool task. There every execution ends in
  a failure, so a statement may return as soon as one has ended or after all have: how an
  execution ended does not matter to where its attempt goes.
- Null arguments and null failure causes are in `any_client`, where they meet every
  order of calls; in the system runs an argument either is valid or throws.
- `MaxRetained` is 1 where the limit matters (two and three starts pass it) and
  not reached elsewhere. `RetentionBounded` is proved for every limit.
- One writer needs three files (approved, candidate, temporary), two writers four.
  Two manifests distinguish an old from a new one.
- The model adds no other bound and no state constraint: hook instances and
  captures are used once, so all counters are bounded by the constants.

- `pilot`: two signals are what the code distinguishes (the first is forwarded, the
  second escalates); with both at any step, each can interrupt the other's handler.
- `installation`: two calls of each helper, since each races with one other; downloads
  of two chunks through a pipe of one, so that the child blocks while the pipe is
  full; archives of three entries over three components (two that fold together, one
  unportable), of which a fourth entry or a third level is beyond a limit of the code.
- `release`: two edits, one to disturb what was read and one to put it back. Payload
  names, roles and components are those of the code, or one for each group it treats alike.
- `store_one_writer`: the store's steps stop once the review has read both files,
  because nothing it does later depends on the store (`Reading`); the review's own
  I/O errors and a foreign output file are looked at in the scene "files". `IntLimit` is 8:
  the documents include a sum that wraps to the declared value and one that overflows while
  it is recomputed. `MaxBytes` is 2 with documents of 1, 2 and 3, `Ceiling` 3,
  `MaxDisplayed` 2 with up to four findings.

The collector runs do not check for deadlock (`CHECK_DEADLOCK FALSE`): when all
captures and hook instances of the instance are used up, the system has nothing
left to do. The
same holds of `store_one_writer` (a review ends), `pilot`, `installation` and `release`.
`store_two_writers` and the runs that expect a violation do check for it.

### Fairness

`FairSystemSpec` assumes that a thread inside the collector, or running an execution,
is scheduled (`WF` of `CollectorStep`, `ExecutionStep`), that pool threads take tasks,
and that a caller whose statement can return does. These are the JVM's scheduling and
a JDBC driver that returns. Not assumed: that an action ends, that a capture is ever
closed, or that an execution reports its end to the hook (`Vanish`). Since no step of
the collector waits for another thread, weak fairness is enough.

`AssistedPilot!Spec` assumes that the wrapper runs, that Python runs a pending handler
and that the kernel delivers a fatal signal. Nothing is assumed of the verifier: every
wait for it has a timeout. `PublicInstall!Spec` assumes that the installer and its helpers
run and that a download ends, since curl is called with `--max-time`. Nothing is assumed
of the calls users make themselves.

## 4. Proofs

| Theorem | Says | From |
|---|---|---|
| `CollectorProofs!TypeCorrect` | `Spec => []TypeOK` | `CollectorAssumption` |
| `CollectorProofs!RetentionBounded` | `Spec => []RetainedBound`, RC-10 for every limit and any client | `CollectorAssumption` |
| `CollectorProofs!OwnedByOne` | `Spec => []OneOwner`, whatever tokens are replayed onto whatever threads | `CollectorAssumption` |
| `CollectorProofs!SnapshotsConsistent` | `Spec => []SnapshotAgrees` | `CollectorAssumption` |
| `CollectorProofs!EvidenceKept` | `Spec => EvidenceIsFinal` | `CollectorAssumption` |
| `CaptureSystemProofs!ClientImplementsCollector` | `SystemSpec => Spec`: callers and executor use the collector as its arbitrary client may, so the five theorems above hold of the whole system | `SystemAssumption`, `CollectorAssumption` |
| `CaptureSystemProofs!SystemTypeCorrect` | `SystemSpec => []SystemTypeOK`, with `OneRunner`: a hook instance has one user at a time | the same |
| `CaptureSystemProofs!CapturesIsolated` | `SystemSpec => []NoCrossCapture` | the same |
| `CaptureSystemProofs!NoTokenLeaks` | `SystemSpec => []ContextRestored` | the same |
| `CaptureSystemProofs!CompleteWithinLimit` | `CompleteIsWhole` in every state in which no capture has been given more executions than `MaxRetained` | the same |
| `CaptureSystemProofs!NothingLostWithinLimit` | `NoSilentLoss` in these states | the same |
| `CaptureSystemProofs!FailureKeptWithinLimit` | `FailureNeverPasses` in these states; finding 1 shows what happens in others | the same |
| `CaptureSystemProofs!CloseSucceedsWithinLimit` | `CloseNeverFails` in these states | the same |
| `CaptureSystemProofs!LimitAlwaysTold` | `SystemSpec => []LimitFailsClosed`, without a condition | the same |
| `CaptureRefinementProofs!RefinesOneShot` | behaviours of `SystemSpec` in which no capture is given more executions than `MaxRetained` satisfy `ImplementsOneShot` | the same |
| `ManifestStoreProofs!StoreTypeCorrect` | `Spec => []TypeOK`, temporary files are never shared | `StoreAssumption` |
| `ManifestStoreProofs!ApprovedProtected` | `Spec => []ApprovedIsReviewed`: for any number of concurrent calls, errors and crashes, or in every layout for calls that do not overlap | also `Guarded`: `Layouts = {"separate"}` or at most one writer; finding 3 shows that it is needed |
| `ManifestStoreProofs!LoneWriterKeepsCandidate` | `Spec => CandidateNeverLost` in every layout | also at most one writer; finding 2 shows that it is needed |
| `ManifestStoreProofs!NoProbeLeft` | `Spec => []NoProbeRemains` for any number of overlapping calls, in every layout | `StoreAssumption` |
| `ManifestReviewProofs!ReadManifestsAreExact` | `ReviewSpec => []DecodedIsExact` for all documents and every width of an int | `ValueAssumption`, `ReportAssumption`, `ReviewAssumption`, `StoreAssumption` |
| `ManifestReviewProofs!VerdictIsExact` | `ReviewSpec => []VerdictIsEquivalence` for all documents, snapshots, aliases and policies | the same |
| `ManifestReviewProofs!AssertionsFollowVerdict` | `ReviewSpec => []AssertionsAgree` | the same |
| `ManifestReviewProofs!ReviewsAreSound` | `ReviewSpec => []ReviewIsSound` | also `Guarded` |
| `ManifestReviewProofs!StoreUnderReview` | `ReviewSpec => [](TypeOK /\ ApprovedIsReviewed)` | also `Guarded` |
| `ManifestReviewProofs!CandidateKeptUnderReview` | `ReviewSpec => CandidateNeverLost` | also at most one writer |
| `InstallationProofs!InstallsDeclared` | `Spec => []InstalledIsDeclared` for any release and any number of overlapping calls | the assumptions of the installer modules |
| `InstallationProofs!InstallsWhole` | `Spec => []InstalledIsWhole` | the same |
| `InstallationProofs!PreparesComplete` | `Spec => []PreparedComplete` for any order of sidecars and any number of calls | the same |
| `InstallationProofs!OutcomeIsTold` | `Spec => []OutcomeTellsTarget` | the same |
| `InstallationProofs!AcceptedUnpacks` | `Spec => []ArchiveUnpacks` for any components, folding and depth | the same |
| `AssistedPilotProofs!CleanResult` | `Spec => []ResultIsClean` for any project, archive, faults and number of signals | `PilotAssumption` |
| `AssistedPilotProofs!SignalsKept` | `Spec => []NoSignalLost` | the same |
| `AssistedPilotProofs!SignalsForwarded` | `Spec => []SignalReachesGroup` | the same |
| `AssistedPilotProofs!NothingLeft` | `Spec => []NothingLeftBehind` | the same |
| `ReleaseProofs!BundlesTogether` | `PreparationSpec => []BundledTogether` for any payloads, order of reading and number of edits | `ReadingAssumption` |
| `ReleaseProofs!ResidueTold` | `PreparationSpec => []ResidueIsTold` | the same |
| `ReleaseProofs!StarterLeavesNothing` | `PreparationSpec => []FailureLeavesNothing` for any target and files to write | `StarterAssumption` |
| `ReleaseProofs!StarterFitsTarget` | `PreparationSpec /\ []HeadHeld => []BundleFitsTarget` for any target, length of the parent chain and number of edits and checkouts | the same, and `HeadHeld`: HEAD is not moved while one Git snapshot is taken and the POMs are compared with it |
| `ReleaseProofs!FinalizerVerifies` | `PreparationSpec => []VerifiedIsFinal` for any generated documents | `SbomAssumption` |
| `ReleaseProofs!FinalizerRefusesFirst` | `PreparationSpec => []RefusedBeforeWriting` | the same |
| `ReleaseProofs!OfficialValidates` | `PreparationSpec => []ValidatedTogether` for any number of edits to documents and cache | the same |

- *Types.* `TypeOK` is not inductive: a step of a thread uses its locals, so what
  they hold has to be tied to the place (`LocalsOK`: a thread inside a call has a
  capture, one about to record has a code). Each thread-local move (`Call`, `Goto`,
  `Return`) has a lemma, so each action only shows what it does to shared state.
- *Retention.* The counter alone does not bound the queue: a start increments it and
  inserts later, and starts beyond the limit increment it too. `BoundInv` counts the
  slots of a capture, its attempts together with the threads that are about to insert
  one: they are at most the counter and at most the limit. `Count` takes a slot
  and increments, `Retain` turns a slot into an attempt, no other step takes one.
- *Ownership.* `OwnerInv`: while a call of `RouteContract.capture` runs, its thread owns
  the capture, the capture is registered and not closed before that thread closes it,
  and the thread sees its own token because a replay happens only on a thread without a
  running call. The two codes that would say otherwise are therefore never recorded. The
  hook's steps leave all of this alone (`OutsideSteps`); each other action has a lemma.
- *Evidence.* `EvidenceInv` adds two parts to ownership. `DeliveryInv`: until its call
  closes a capture, what it delivers is undecided, and its snapshot is empty until
  `Assemble`; so each is written once. `HookInv`: one thread at a time is inside a hook
  instance, a start that is under way has no attempt yet, and a frozen terminal outcome
  is the outcome the attempt has. `Retain` therefore overwrites no outcome, `Complete` only
  an unknown one, and a snapshot cannot be contradicted later. Most steps only move a
  thread (`Moves`, `Outside`); the few that write evidence have a lemma each.
- *The client.* Nothing proved of `Collector` assumed anything of its client but that it
  enters a hook instance on one thread at a time (`Free`). A step of the system that
  touches the collector is a step of `Collector!Next` if its client keeps to that
  (`ClientStep`), which needs `OneRunner`: no two threads run the same execution.
  The collector's inductive invariant is then available in every later proof, where
  `SystemInv` joins it with `TaskInv` (a callback runs on the execution its thread runs,
  under the capture that execution was submitted under), `PlaceInv` (an attempt or handle
  is with its own capture) and `ContextInv` (no task and no capture, no token).
- *Outcomes.* `OutcomeInv` is a chain, each part of which only uses those before it.
  `StageInv`: what the executor knows of an execution agrees with what its callbacks have
  recorded. `CountInv`: the counter never exceeds the executions that have started to
  count, so within the limit nobody sets the limit's flag. `LossInv`: whatever a callback
  has told of an open capture is retained, diagnosed, or behind the limit's flag.
  `WaitInv`: a caller waits for all of its executions unless it is interrupted or one
  failed. `HandleInv`: a terminal callback has an attempt to complete. `DueInv`: what was
  due when the action ended stays true and has left its trace. `CloseInv`: a close that is
  about to assemble knows that all have returned, that one failed which it will see, or
  that there is a diagnostic. `SnapInv`: what a snapshot that was taken says.
  The hypothesis is `Within(c)`: the executions submitted under `c` are at most
  `MaxRetained`. It is there because of finding 1: between a start that
  sets the limit's flag and its diagnostic the trace is only the flag, which close does
  not read. Stated for a state, it speaks of all earlier states too, since executions are
  only ever added (`WithinBefore`). When all executions have returned no start is left in
  that gap, and `LimitAlwaysTold` needs no hypothesis.
- *Refinement.* `RefinementInv` adds to `OutcomeInv` that a start under way has
  no outcome and that a snapshot has a status. There is a lemma for each kind of
  step: `OpenBegins`, `SubmitSubmits`, `EndActionEnds`, `AssembleReports`, `RemoveDelivers`
  are the steps of the promise; a callback is a `Tell` where it returns to its execution
  and a stutter before (`CallbackTells`, `CallTells`); the rest of a close, and what the
  executor does on its own, stutters. The heart is `AssembleJustified`: the status the
  assembly computes from the frozen outcomes, read one by one while callbacks still
  run, is one that `OneShotCapture` allows for what has been told at that one moment.
- *Approved manifest.* While the paths are leaves of their own, calls write only to
  the candidate leaf and to files no leaf holds. The strengthening is
  `LinkStopsCalls`: a link at the approved path could show the candidate, but then no
  call gets past its first check. `OneLeafInv` is for paths that are one leaf and calls
  that do not overlap: the leaf is absent when a call gets past its check, so the call
  makes its probe there, sees it through the approved path and refuses; it stages nothing.
- *Lone writer.* `LoneInv`: while a call holds a probe there is no complete candidate
  to lose, and what is about to be moved is complete.
- *Probes.* `ProbeInv`: an incomplete file at the candidate leaf is there only while some
  call is between making its probe and deleting it. It need not be that call's own probe,
  since calls delete by name; that some call is there is all that is needed, because
  each of them ends by emptying the leaf.
- *Manifests.* Sums are numbers of executions, so two of them are equal when the
  executions can be matched one to one: those of a bag are the disjoint union of the
  returned, failed and unknown ones, and those of the bag a snapshot gives are the
  snapshot's attempts (`CountedByKey`). A decoded manifest is `Sound`: its counts are
  within `Ceiling`, so the int sum of its parts cannot have wrapped (`WrapSmall`). The verdict
  is that of the first level with a finding, and for each level there is a lemma that says
  when it has one; without findings on any level, bags are equal key by key. A snapshot
  gets the verdict of its manifest because its own levels find something only where the
  manifest could not be made, and COMPLETE evidence has no diagnostic. Names and aliases have
  the same number because the alias map is injective.
- *Review.* `ReadInv`: what the review holds was decoded when it was read. `ReportInv`: the
  report is whole exactly when the review has ended with the verdict's status.
  `WriterInv`: a call writes a document made from a snapshot and stages it only if it can be
  encoded, so what it moves into place can be decoded. `BaselineInv`, with
  `ProtectedInv` of the store: the baseline was shown at the approved path when it was
  opened, therefore reviewed. Each step of the composition is a step of the store or
  leaves the store alone.
- *Installation.* `InstallInv`: what a call has staged is what the index it verified
  declares, and while it moves, staged and moved files are disjoint and together the
  release. The coordinate belongs to the call whose `mkdir` made it, which is past that
  step, so no other call removes or fills it and a call that failed owns none. Success
  is the case with nothing left to move. Asset directories are arbitrary values: the proof
  needs only that the copy of a file is compared with what was declared.
- *Preparation.* `PrepareInv`: as every call links in one order, only one call
  can have linked the first sidecar (`WroteFirst`), and only it goes on to the second;
  all others are refused. A prepared coordinate is therefore complete and the work of one,
  and since no installer touches a whole release again (`CompleteStays`) it stays so.
- *Outcome.* `OutcomeInv`: only the last step of the public installer sets the outcome,
  and publishing is reached only through a helper that has returned success. What
  that success means is taken from `PrepareInv` and `InstallInv`.
- *Archive.* `TrieInv`: the trie holds every prefix of every registered path, spelled as
  there. Two prefixes with the same folding are then the same prefix (`SpelledOnce`),
  which is what unpacking needs; `ValidateGraph` refuses a file above an entry.
- *Pilot.* `PilotInv` ties everything to the place of the wrapper. `HandlerInv`: which
  handlers are installed, and so what an arriving signal does. `ProcessInv`: where a
  verifier may run, and that from a `finally` block on either its group is gone or the
  failure to stop it is recorded. `ResultInv`: what a result on its way out
  already knows, so that nothing after it has to be looked at again. `SignalInv`: each
  signal that was received is latched, in a handler's frame, raised as an
  exception, or has killed the wrapper, and behind `LatchSignals` nothing but the wrapper's
  own test turns a latch into an exception. `ForwardInv` is `SignalReachesGroup` without
  its condition on the frames: the handlers keep it at every step.
- *Bundle.* An edit of the repository gives what it touches a stamp that was never seen
  (`StampsInv`). `WalkInv`: while no directory has changed since the listing, a walk has
  seen or has still to see each file there is, and a file that has the stamp it was seen
  with has the bytes that were read. The contents a build uses are therefore those of one
  moment, the beginning of the third walk, unless that walk meets a stamp the first did
  not (`ContentsInv`); `SameWalk` refuses then. `CheckedInv`: what was checked is
  still what is used, and nothing but an empty directory exists before the first write.
- *Starter.* `StarterInv`: the directory is the command's own from `mkdir` on, files in it
  that are its own are there only while it works, and each way to an error from there leads
  through the clean-up, which removes what is its own.
- *Starter and target.* `FitInv`, as long as `HeadHeld`. `ChainInv`: the chain that was read goes
  from a POM to its parent, to each once, and ends at the reactor's or at one without a
  parent; `ReachInv`: a set of POMs that the chain enters and never leaves holds all of it. What
  was read is compared with the expected commit (`BytesInv`), so the chain is the
  inheritance that commit declares (`BoundAreAncestors`). `SinceInv`: what the second half of the
  command compares was so in one of the states since the bundle was complete.
- *SBOM.* Completing a document changes only licences and the container, so a
  completed document that passes the comparison is what its source should become
  (`FinalizedIsFinal`), a second completion changes nothing (`AcceptedIsFinal`: a rerun over what
  a killed run has left), and what the comparison accepts the verification accepts
  (`FinalizedAccepted`, the agreement of the setters with the verifier). `SbomInv` adds where
  documents come from: what was loaded completes something that was generated
  (`OriginInv`), what is in hand has been checked as far as the place says (`HandInv`), and as
  long as nobody disturbs it, what was verified is on disk (`UndisturbedInv`).
- *Official validation.* `OfficialInv`: stamps are never given again, so a file that has the
  stamp of its fingerprint is the file that was fingerprinted, and the one the CLI read.
  The moment at which all six were in place is the one at which the fingerprints were complete.
  It is inductive together with `SbomInv`, since the validator starts from what the
  finalizer has verified (`ProvingInv`).

`PilotAssumption` says that the bounds are numbers and that there is a verifier;
`ReadingAssumption` that a walk visits the expected names in some order; `StarterAssumption`
that the expected commit has the two POMs the command is called for, and that "none", which
stands for a missing parent, is no path in it; `SbomAssumption`
that generated documents have the parts of a document (`IsDocument`), whatever they hold.
The assumptions of the installer modules are those of `ArchivePaths` (names and a folding),
`ReleaseAssets` (the POM is published, the index is not), `ReleaseInstaller` (`Nobody` is no
call), `ChecksumPreparer` (`Order` lists the sidecars, of which there are some, once each) and
`PublicInstall` (the four files of `EXPECTED_ARTIFACTS` are the published ones).

What stays with TLC, and why:

- Liveness (`CallsReturn`, `SignalEndsPilot`, `PublicEnds`): fairness and ENABLED are beyond the prover.
- `BundleFitsTarget` without `HeadHeld`: it is not true of every bound on the edits. Each
  Git snapshot reads HEAD first and compares with the commit named `HEAD` afterwards
  (`src/scripts/render-maven-pilot-starter.py:622`), so somebody who checks another commit
  out between them, and back again, six times in exactly the right places, gets a bundle
  although the POM it is bound to was in the worktree at no moment as the expected commit
  has it. TLC finds no such behaviour with five checkouts and one with six; the run allows
  two edits of any kind.

The inductive invariants were checked before they were proved: `OutcomeInv` and
`RefinementInv` of the capture system hold in `failure_paths`, `two_captures`,
`limit_after_failure` and `progress`, `ReadInv`, `ReportInv` and `WriterInv` in `store_one_writer`,
`InstallationInv` in `installation`, `PilotInv` in `pilot`,
`BundleInv`, `StarterInv`, `SbomInv` and `OfficialInv` in `release`, and `FitInv` there with three
edits, restricted to states that satisfy `HeadHeld`.

## 5. Findings

1. `limit_after_failure`: of two starts beyond the limit, the one that loses the
   compare-and-set of `attemptLimitDiagnosticRecorded` (`internal/MutableCapture.java:57`)
   returns before the winner has added `RC_ATTEMPT_LIMIT_EXCEEDED`. If its execution
   fails, the statement returns early, the action catches the exception, and close
   copies the diagnostics in between, the capture is COMPLETE. Joined statements are
   not affected (`LimitFailsClosed` in `progress`).
2. `store_lost_candidate`: the probe is deleted by name (line 150), which may delete
   the manifest another call has moved over it and returned.
3. `store_folded_names`: a call that takes another call's probe for a candidate skips its
   own probe (line 131) and can write through an absent approved path of a folded name.

The last two need two calls of `writeCandidate` for one candidate path to overlap.
The probe itself is an empty file at the candidate path: readers can see it, and a
crash leaves it behind. The models keep that behaviour, and `NoProbeRemains` says that
nothing but a crash does.

## 6. Plan

Done: the collector, the capture system, the abstract one-shot capture with its
refinement, the manifest store, manifests with their verifier and command line, the pilot,
the installers and the release commands, each with its proofs. Left, in order of importance:

1. `Preflight`: double-checked verification.
2. The telemetry receiver's worker slots.

## 7. Not modelled

Java library:

- Canonical bytes, field syntax and hashing (codec, fingerprint): content is what the
  models abstract. A document of exactly one MiB without a final line feed can be read,
  but its canonical form cannot be encoded, so a review of it ends with status 2;
  this is in the model (document "edge").
- Wording and layout of findings and reports; parsing of the command line's arguments.
- The 32-bit wrap of `retainedAttemptCount`: it takes 2^31 starts in one capture.
- A diagnostic recorded for misuse goes to the capture the calling thread sees, which is
  modelled; that the executor itself misuses a hook instance is not (only `any_client`
  does so).
- An action that clears its thread's interrupt flag before close: the flag is the only
  trace of an early return by interrupt, and the model keeps it set.
- The runtime pre-flight: see the plan.

Pilot: a stable read of one file, and the lookup of the tools, are one condition each.

Installers:

- curl's error pipe is read only after its output has ended; the model takes it to fit
  into the pipe.
- A KeyboardInterrupt between the return of `_reserve_repository` and the `try` that
  follows, and a failing clean-up of a temporary directory after success.
- An interrupt or a death while files are moved into the coordinate leaves it partly
  filled; `InstalledIsWhole` is about calls that report success and calls that roll
  back. Two preparers on one coordinate may both be refused, and one that failed leaves
  its sidecars behind, so that a retry is refused: the model keeps both.
- The preparer for v0.1.0 has the control of the one for v0.1.2 and is not a module
  of its own.

Release commands:

- Upload bundle: the Zip format; an interrupt directly after `mkdir`, which can leave an
  empty directory that no message names.
- Starter: the rendered texts; an interrupt before the first created file is recorded.
  The reactor's POM is read twice and the layout checks use the second reading, which is
  not itself compared with HEAD; `BundleFitsTarget` therefore does not speak of these
  checks. The identity check and the `unlink` of the clean-up are one step.
- SBOM: the check after the run is one step; `_validate_pair_collection` reads the JSON
  documents again, so that under concurrent edits the compared documents may differ
  from the verified ones; temporary files after SIGKILL; calls with a single pair; the
  release workflow's own digest of the files.
- Validators of the supply-chain policy, the activation record and public downloads:
  they compare files with fixed expectations, are sequential, and keep no state.

Benchmarks, the agent comparison and the example projects: measurements and consumers
of the library. The receiver of the agent comparison is in the plan.
