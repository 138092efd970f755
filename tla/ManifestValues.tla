--------------------------- MODULE ManifestValues ---------------------------
(***************************************************************************)
(* The values a review works on: snapshots of captures, what RouteAsser-   *)
(* tions says of them, and manifests, made from a snapshot or decoded from *)
(* a document somebody may have edited.  No state.                         *)
(*                                                                         *)
(* A shape stands for a fingerprint with its parameter types.  The entries *)
(* of a manifest are a bag: a function from signatures to multiplicities,  *)
(* so the canonical order of equal bags is not modelled.  The integers of  *)
(* a document are Java ints.                                               *)
(***************************************************************************)
EXTENDS Integers, Sequences, FiniteSets, FiniteSetsExt

CONSTANTS
  Ceiling,     \* MAX_RETAINED_ATTEMPTS_PER_CAPTURE
  IntLimit,    \* 2^31: an int is one of -IntLimit .. IntLimit - 1
  MaxBytes     \* MAX_MANIFEST_BYTES

ASSUME ValueAssumption ==
  /\ Ceiling \in Nat /\ IntLimit \in Nat /\ Ceiling < IntLimit /\ MaxBytes \in Nat

Returned == "CALLBACK_RETURNED"
Failed == "CALLBACK_FAILURE"
Unknown == "START_REPORTED"
AllOutcomes == {Returned, Failed, Unknown}

Statuses == {"COMPLETE", "REPORTED_EXECUTION_FAILURE", "INCOMPLETE"}

Ints == -IntLimit .. IntLimit - 1
\* int addition
Wrap(n) == ((n + IntLimit) % (2 * IntLimit)) - IntLimit

-----------------------------------------------------------------------------
(* Snapshots: [operation, status, attempts, diagnosed]; an attempt is      *)
(* [name, shape, outcome].  The counts are those of the attempts, which    *)
(* the constructor requires.                                               *)

IsSnapshot(s) ==
  /\ s.attempts \in Seq({s.attempts[i] : i \in DOMAIN s.attempts})
  /\ \A i \in DOMAIN s.attempts : s.attempts[i].outcome \in AllOutcomes
  /\ s.status \in Statuses /\ s.diagnosed \in BOOLEAN

Outcomes(s, outcome) == {i \in DOMAIN s.attempts : s.attempts[i].outcome = outcome}
CountOf(s, outcome) == Cardinality(Outcomes(s, outcome))
ObservedNames(s) == {s.attempts[i].name : i \in DOMAIN s.attempts}

DerivedStatus(s) ==
  CASE s.diagnosed \/ CountOf(s, Unknown) > 0 -> "INCOMPLETE"
    [] ~s.diagnosed /\ CountOf(s, Unknown) = 0 ->
         IF CountOf(s, Failed) > 0 THEN "REPORTED_EXECUTION_FAILURE" ELSE "COMPLETE"

\* the constructor of RouteSnapshot
SnapshotAccepted(s) ==
  /\ Len(s.attempts) <= Ceiling /\ s.status = DerivedStatus(s)
  /\ s.status = "COMPLETE" => s.attempts # <<>>

\* RouteAssertions: an assertion holds or throws
HasCompleteCapture(s) ==
  /\ s.status = "COMPLETE" /\ CountOf(s, Failed) = 0 /\ CountOf(s, Unknown) = 0
  /\ ~s.diagnosed
HasNoReportedFailures(s) ==
  /\ s.status # "INCOMPLETE" /\ CountOf(s, Unknown) = 0 /\ ~s.diagnosed
  /\ CountOf(s, Failed) = 0
HasAtMostAttempts(s, n) == HasCompleteCapture(s) /\ Len(s.attempts) <= n
HasExactlyAttempts(s, n) == HasCompleteCapture(s) /\ Len(s.attempts) = n
HasAtMostNames(s, n) == HasCompleteCapture(s) /\ Cardinality(ObservedNames(s)) <= n
ObservesExactly(s, names) == HasCompleteCapture(s) /\ ObservedNames(s) = names
ObservesOnly(s, names) == HasCompleteCapture(s) /\ ObservedNames(s) \subseteq names

-----------------------------------------------------------------------------
(* Manifests: [schema, operation, status, policy, counts, bag].            *)

\* each member of S as many times as times says
Copies(times, S) == UNION {{x} \X (1 .. times[x]) : x \in S}

\* the executions of a bag that ended in one outcome, or all of them
Sum(bag, outcomes) == Cardinality(Copies(bag, {g \in DOMAIN bag : g.outcome \in outcomes}))
AliasesOf(bag) == {g.alias : g \in DOMAIN bag}

\* ManifestCounts.from, exact: it throws where a sum leaves the int range
Recomputed(bag) ==
  [total |-> Sum(bag, AllOutcomes), returned |-> Sum(bag, {Returned}),
   failed |-> Sum(bag, {Failed}), unknown |-> Sum(bag, {Unknown}),
   names |-> Cardinality(AliasesOf(bag))]

\* the constructor of ManifestCounts
CountsAccepted(c) ==
  /\ \A field \in DOMAIN c : c[field] >= 0
  /\ Wrap(c.returned + c.failed + c.unknown) = c.total

IsPolicy(p) ==
  p \in [attempts : Ints, names : Ints, noFailures : BOOLEAN, exact : BOOLEAN]
PolicyAccepted(p) == p.attempts >= 0 /\ p.names >= 0 /\ p.noFailures

\* validateCaptureStatus
StatusFits(status, c) ==
  CASE status = "COMPLETE" -> c.failed = 0 /\ c.unknown = 0 /\ c.total # 0
    [] status = "REPORTED_EXECUTION_FAILURE" -> c.failed # 0 /\ c.unknown = 0
    [] status = "INCOMPLETE" -> TRUE

\* the constructor trusts the sum that ManifestCounts has checked
AcceptedBug(v) ==
  /\ v.schema > 0 /\ PolicyAccepted(v.policy) /\ CountsAccepted(v.counts)
  /\ \A g \in DOMAIN v.bag : v.bag[g] > 0
  /\ v.counts.total <= Ceiling /\ StatusFits(v.status, v.counts)

\* the constructor of ObservedExecutionManifest, with those of its parts
Accepted(v) ==
  /\ v.schema > 0 /\ PolicyAccepted(v.policy) /\ CountsAccepted(v.counts)
  /\ \A g \in DOMAIN v.bag : v.bag[g] > 0
  /\ Sum(v.bag, AllOutcomes) < IntLimit /\ v.counts = Recomputed(v.bag)
  /\ v.counts.total <= Ceiling /\ StatusFits(v.status, v.counts)

-----------------------------------------------------------------------------
(* Documents: what ManifestCodec reads and writes.  The entries are a      *)
(* sequence of [alias, shape, outcome, times]; strict says that the text   *)
(* is one JSON object with each known property once and nothing after it.  *)

IsDocument(d) ==
  /\ d.entries \in Seq({d.entries[i] : i \in DOMAIN d.entries})
  /\ \A i \in DOMAIN d.entries :
       d.entries[i].outcome \in AllOutcomes /\ d.entries[i].times \in Ints
  /\ d.schema \in Ints /\ d.status \in Statuses /\ IsPolicy(d.policy)
  /\ d.counts \in [total : Ints, returned : Ints, failed : Ints, unknown : Ints, names : Ints]
  /\ d.bytes \in Nat /\ d.canonical \in Nat

Signature(e) == [alias |-> e.alias, shape |-> e.shape, outcome |-> e.outcome]
Signatures(d) == {Signature(d.entries[i]) : i \in DOMAIN d.entries}
Distinct(d) == Cardinality(Signatures(d)) = Len(d.entries)

ValueOf(d) ==
  [schema |-> d.schema, operation |-> d.operation, status |-> d.status,
   policy |-> d.policy, counts |-> d.counts,
   bag |-> [g \in Signatures(d) |->
              d.entries[CHOOSE i \in DOMAIN d.entries : Signature(d.entries[i]) = g].times]]

\* decode; the limit is on what is read
Decodable(d) == d.bytes <= MaxBytes /\ d.strict /\ Distinct(d) /\ Accepted(ValueOf(d))

\* encode; the limit is on the canonical form, which ends in a line feed
Encodable(d) == d.canonical <= MaxBytes

-----------------------------------------------------------------------------
(* A manifest from a snapshot.                                             *)

\* different names may share an alias
AliasesAcceptedBug(aliases) == DOMAIN aliases # {}

\* DataSourceAliases.of
AliasesAccepted(aliases) ==
  \A m, n \in DOMAIN aliases : aliases[m] = aliases[n] => m = n

\* resolve finds an alias for every observed name
Resolved(s, aliases) == ObservedNames(s) \subseteq DOMAIN aliases

Structural(a, aliases) ==
  [alias |-> aliases[a.name], shape |-> a.shape, outcome |-> a.outcome]

BagOf(s, aliases) ==
  [g \in {Structural(s.attempts[i], aliases) : i \in DOMAIN s.attempts} |->
     Cardinality({i \in DOMAIN s.attempts : Structural(s.attempts[i], aliases) = g})]

\* ObservedExecutionManifest.from
From(s, aliases, policy) ==
  LET bag == BagOf(s, aliases) IN
  [schema |-> 1, operation |-> s.operation, status |-> s.status, policy |-> policy,
   counts |-> Recomputed(bag), bag |-> bag]
=============================================================================
