--------------------------- MODULE ManifestReview ---------------------------
(***************************************************************************)
(* What is done with manifests: tests write candidates from snapshots      *)
(* (ManifestStore) and verify snapshots against the approved manifest, a   *)
(* reviewer approves, and a call of ManifestReviewCli reads both files one *)
(* after the other and creates a report.                                   *)
(*                                                                         *)
(* Document gives what the bytes of each manifest of the store say.  The   *)
(* instance is a sum of three scenes: "calls", where calls of              *)
(* writeCandidate and moves go on while a review reads, on the few         *)
(* documents Quick and Stored; "files", where both files may hold anything *)
(* and only a review runs; "snapshots", where a test verifies a snapshot.  *)
(***************************************************************************)
EXTENDS ManifestStore, ManifestVerifier

CONSTANTS
  Document, Snapshots, AliasMaps, Policies,
  Quick,     \* documents that calls may write in the scene "calls"
  Stored     \* documents that are there when it begins

ASSUME ReviewAssumption ==
  /\ DOMAIN Document = Manifests /\ "none" \notin Manifests
  /\ \A m \in Manifests : IsDocument(Document[m])
  /\ \A s \in Snapshots : IsSnapshot(s)
  /\ \A p \in Policies : IsPolicy(p) /\ PolicyAccepted(p)
  /\ Stored # {} /\ Quick \cup Stored \subseteq Manifests

VARIABLES
  scene,
  review,    \* ManifestReviewCli.run: place, the two manifests read, exit status
  report,    \* the output path: "absent", "other", "partial", "written"
  judged     \* the last snapshot a test has verified, if any

reviewVars == <<vars, scene, review, report, judged>>

\* the documents writeCandidate can be given: canonical, and made from a snapshot
Written(m) ==
  LET d == Document[m] IN
  /\ d.strict /\ d.bytes = d.canonical /\ Distinct(d)
  /\ \E s \in Snapshots, aliases \in AliasMaps, p \in Policies :
       /\ SnapshotAccepted(s) /\ AliasesAccepted(aliases) /\ Resolved(s, aliases)
       /\ ValueOf(d) = From(s, aliases, p)
Writable == {m \in Quick : Written(m)}

ReviewInit ==
  /\ scene \in {"calls", "files", "snapshots"}
  /\ IF scene = "calls"
       THEN \E m \in Stored : data = [f \in Files |-> m]
       ELSE /\ dir \in [Names -> Files] /\ dir["approved"] # dir["candidate"]
            /\ \E a \in Manifests, c \in Manifests :
                 /\ scene = "snapshots" => a = c
                 /\ data = [f \in Files |-> IF f = dir["candidate"] THEN c ELSE a]
  /\ Init
  /\ review = [at |-> "start", baseline |-> "none", candidate |-> "none", exit |-> -1]
  /\ report = "absent" /\ judged = {}

-----------------------------------------------------------------------------
(* Writing candidates.                                                     *)

\* encode throws before the temporary file is created
EncodeFails(w) ==
  /\ ~Encodable(Document[manifest[w]]) /\ Inspect(w, "stage", "idle")

WriteStep(w) ==
  \/ \E m \in Writable : Begin(w, m)
  \/ Encodable(Document[manifest[w]]) /\ Stage(w)
  \/ EncodeFails(w)
  \/ Check(w) \/ Look(w) \/ Probe(w) \/ Recheck(w) \/ Compare(w) \/ Unprobe(w)
  \/ Flush(w) \/ Confirm(w) \/ Move(w) \/ Cleanup(w) \/ Fail(w) \/ Crash(w)

-----------------------------------------------------------------------------
(* Reading: ManifestStore.read follows links and decodes what it opened.   *)

Content(n) == IF Shown(n) \in Files THEN data[Shown(n)] ELSE "none"
Readable(n) == Content(n) \in Manifests /\ Decodable(Document[Content(n)])
Manifest(m) == ValueOf(Document[m])

ReviewAt(place) == review.at = place
EndReview(status) == [review EXCEPT !.at = "end", !.exit = status]

\* a bound: an error of the review's own is looked at in one scene
IOError == "io" \in Faults /\ scene = "files"

\* RC_REPORT_ERROR, and the usage message
FailReview == review' = EndReview(2) /\ UNCHANGED report

ReadBaseline ==
  /\ ReviewAt("start")
  /\ \/ /\ Readable("approved") /\ UNCHANGED report
        /\ review' = [review EXCEPT !.at = "candidate", !.baseline = Content("approved")]
     \/ (~Readable("approved") \/ IOError) /\ FailReview
  /\ UNCHANGED <<vars, scene, judged>>

ReadCandidate ==
  /\ ReviewAt("candidate")
  /\ \/ /\ Readable("candidate") /\ UNCHANGED report
        /\ review' = [review EXCEPT !.at = "compare", !.candidate = Content("candidate")]
     \/ (~Readable("candidate") \/ IOError) /\ FailReview
  /\ UNCHANGED <<vars, scene, judged>>

\* the digests are of the canonical forms; then CREATE_NEW
CreateReport ==
  /\ ReviewAt("compare")
  /\ LET encodable == \A m \in {review.baseline, review.candidate} : Encodable(Document[m])
     IN \/ /\ encodable /\ report = "absent" /\ report' = "partial"
           /\ review' = [review EXCEPT !.at = "fill"]
        \/ (~encodable \/ report # "absent" \/ IOError) /\ FailReview
  /\ UNCHANGED <<vars, scene, judged>>

Findings == Report(Manifest(review.baseline), Manifest(review.candidate))

FillReport ==
  /\ ReviewAt("fill")
  /\ \/ report' = "written" /\ review' = EndReview(Findings.exit)
     \/ IOError /\ FailReview
  /\ UNCHANGED <<vars, scene, judged>>

\* another process creates the output file
OutputAppears ==
  /\ scene = "files" /\ report = "absent" /\ review.exit = -1 /\ report' = "other"
  /\ UNCHANGED <<vars, scene, review, judged>>

\* a test verifies a snapshot it has just captured
Judge(s, aliases) ==
  /\ scene = "snapshots" /\ judged = {}
  /\ SnapshotAccepted(s) /\ AliasesAccepted(aliases) /\ Readable("approved")
  /\ judged' = {[approved |-> Content("approved"), snapshot |-> s, aliases |-> aliases,
                 status |-> VerifySnapshot(Manifest(Content("approved")), s, aliases).status]}
  /\ UNCHANGED <<vars, scene, review, report>>

-----------------------------------------------------------------------------
\* once both files are read, what happens in the store is the same with and without it
Reading == ReviewAt("start") \/ ReviewAt("candidate")

ReviewStep ==
  \/ ReadBaseline \/ ReadCandidate \/ CreateReport \/ FillReport \/ OutputAppears

ReviewNext ==
  \/ /\ scene = "calls" /\ Reading /\ (Approve \/ \E w \in Writers : WriteStep(w))
     /\ UNCHANGED <<scene, review, report, judged>>
  \/ scene # "snapshots" /\ ReviewStep
  \/ \E s \in Snapshots, aliases \in AliasMaps : Judge(s, aliases)

ReviewSpec == ReviewInit /\ [][ReviewNext]_reviewVars

-----------------------------------------------------------------------------
(* Properties.                                                             *)

\* What a review reads is exact: the declared counts are those of the entries, without
\* a wrap of their int sum, within the ceiling, and each signature is there once
\* (ManifestCodec.decode, the constructors of ObservedExecutionManifest, ManifestCounts).
DecodedIsExact ==
  \A m \in {review.baseline, review.candidate} \ {"none"} :
    LET d == Document[m]
        times == [i \in DOMAIN d.entries |-> d.entries[i].times]
        SumOf(outcomes) ==
          Cardinality(Copies(times, {i \in DOMAIN times : d.entries[i].outcome \in outcomes}))
    IN /\ d.counts.total = SumOf(AllOutcomes) /\ d.counts.total \in 0 .. Ceiling
       /\ d.counts.total = d.counts.returned + d.counts.failed + d.counts.unknown
       /\ d.status = "COMPLETE" => d.counts.returned = SumOf({Returned}) /\ d.counts.total > 0
       /\ \A i, j \in DOMAIN d.entries :
            Signature(d.entries[i]) = Signature(d.entries[j]) => i = j

\* what matching means, without levels, codes or counts
Enforceable(v) ==
  v.status = "COMPLETE" /\ \A g \in DOMAIN v.bag : g.outcome = Returned
Comparable(a, c) ==
  /\ a.schema = 1 /\ c.schema = 1 /\ a.operation = c.operation
  /\ Enforceable(a) /\ Enforceable(c) /\ a.policy = c.policy
  /\ Sum(c.bag, AllOutcomes) <= a.policy.attempts
  /\ Cardinality(AliasesOf(c.bag)) <= a.policy.names
Matches(a, c) == Comparable(a, c) /\ a.bag = c.bag
MatchesUpToShapes(a, c) ==
  /\ Comparable(a, c) /\ AliasesOf(a.bag) = AliasesOf(c.bag)
  /\ Sum(a.bag, AllOutcomes) = Sum(c.bag, AllOutcomes)

\* The verdict is MATCH exactly when the approved bag of executions was observed again
\* within its budgets, and passes the blocking checks besides only for other shapes or
\* another distribution over the same data sources, where the policy allows them; a
\* snapshot gets the verdict of its manifest (both forms of ManifestVerifier.verify).
VerdictIsEquivalence ==
  /\ review.candidate # "none" =>
       LET a == Manifest(review.baseline)
           c == Manifest(review.candidate)
       IN /\ Matched(Verify(a, c)) <=> Matches(a, c)
          /\ PassesBlockingChecks(Verify(a, c)) <=>
               Matches(a, c) \/ (~a.policy.exact /\ MatchesUpToShapes(a, c))
  /\ \A j \in judged : Resolved(j.snapshot, j.aliases) =>
       LET a == Manifest(j.approved)
           c == From(j.snapshot, j.aliases, a.policy)
       IN j.status = Verify(a, c).status /\ (j.status = "MATCH" <=> Matches(a, c))

\* Direct assertions on a snapshot and the verifier agree: on which captures count as
\* evidence, and on the budgets, although one counts names and the other their aliases
\* (RouteAssertions, DataSourceAliases, ManifestVerifier).
AssertionsAgree ==
  \A j \in judged : Resolved(j.snapshot, j.aliases) /\ j.status # "INCOMPATIBLE" =>
    LET s == j.snapshot
        a == Manifest(j.approved)
        names == {n \in DOMAIN j.aliases : j.aliases[n] \in AliasesOf(a.bag)}
    IN /\ HasCompleteCapture(s) <=> j.status # "NOT_ELIGIBLE"
       /\ HasAtMostAttempts(s, a.policy.attempts) /\ HasAtMostNames(s, a.policy.names)
            <=> j.status \notin {"NOT_ELIGIBLE", "POLICY_VIOLATION"}
       /\ j.status = "MATCH" =>
            /\ HasExactlyAttempts(s, a.counts.total) /\ HasNoReportedFailures(s)
            /\ ObservesExactly(s, names) /\ ObservesOnly(s, names)

\* While calls write and a reviewer moves files, a review reads a baseline that was
\* reviewed and never a probe or half a file; its exit status is 0 or 1 only with a
\* whole report that accounts for every finding, and what a call moves into place is
\* a document that a review accepts (ManifestReviewCli.run, ManifestReviewReport).
ReviewIsSound ==
  /\ review.baseline # "none" => review.baseline \in reviewed
  /\ review.exit \in {0, 1} =>
       /\ report = "written" /\ review.exit = Findings.exit
       /\ Findings.shown + Findings.omitted = Findings.total
       /\ Findings.shown <= MaxDisplayed
       /\ review.exit = 0 => Matches(Manifest(review.baseline), Manifest(review.candidate))
  /\ review.exit = 2 => report # "written"
  /\ \A w \in Writers : pc[w] = "move" => Decodable(Document[manifest[w]])
=============================================================================
