-------------------------- MODULE ManifestVerifier --------------------------
(***************************************************************************)
(* ManifestVerifier: compatibility, eligibility, budgets and structure,    *)
(* in that order; the first level with a finding is the result.            *)
(*                                                                         *)
(* A finding is a record of its code, its severity and, for a structural   *)
(* one, the signature it is about.                                         *)
(***************************************************************************)
EXTENDS ManifestValues

CONSTANT MaxDisplayed   \* MAX_DISPLAYED_FINDINGS
ASSUME ReportAssumption == MaxDisplayed \in Nat

NoSignature == [alias |-> "", shape |-> "", outcome |-> ""]
Finding(code, severity, g) == [code |-> code, severity |-> severity, of |-> g]

\* the findings of the codes whose condition holds
Blocking(holds) ==
  {Finding(code, "BLOCKING", NoSignature) : code \in {k \in DOMAIN holds : holds[k]}}

\* isContractEligible
Eligible(v) == v.status = "COMPLETE" /\ v.counts.failed = 0 /\ v.counts.unknown = 0

\* compatibilityFindings; a snapshot has schema 1
CompatibilityFindings(a, schema, operation) ==
  Blocking([UNSUPPORTED_SCHEMA |-> a.schema # 1 \/ schema # 1,
            OPERATION_ID_MISMATCH |-> a.operation # operation,
            APPROVED_MANIFEST_NOT_ELIGIBLE |-> ~Eligible(a)])

\* notEligibleResult: one finding, of the first of two conditions
NotEligibleFindings(status, failed, unknown, diagnosed) ==
  LET incomplete == status = "INCOMPLETE" \/ unknown # 0 \/ diagnosed IN
  Blocking([CAPTURE_INCOMPLETE |-> incomplete,
            CALLBACK_FAILURE_NOT_ELIGIBLE |->
              ~incomplete /\ (status = "REPORTED_EXECUTION_FAILURE" \/ failed # 0)])

PolicyFindings(policy, counts) ==
  Blocking([ATTEMPT_BUDGET_EXCEEDED |-> counts.total > policy.attempts,
            DATA_SOURCE_BUDGET_EXCEEDED |-> counts.names > policy.names])

Times(bag, g) == IF g \in DOMAIN bag THEN bag[g] ELSE 0

StructuralFindings(a, c) ==
  LET severity == IF a.policy.exact THEN "BLOCKING" ELSE "REVIEW"
      changed  == {g \in DOMAIN a.bag \cup DOMAIN c.bag : Times(a.bag, g) # Times(c.bag, g)}
  IN {Finding(IF Times(c.bag, g) < Times(a.bag, g) THEN "STRUCTURAL_ATTEMPT_REMOVED"
                                                   ELSE "STRUCTURAL_ATTEMPT_ADDED",
              severity, g) : g \in changed}

\* the data sources are compared by their number
DriftFindingsBug(a, c) ==
  StructuralFindings(a, c) \cup
  Blocking([POLICY_CHANGED |-> a.policy # c.policy,
            OBSERVED_ATTEMPT_COUNT_CHANGED |-> a.counts.total # c.counts.total,
            OBSERVED_DATA_SOURCE_SET_CHANGED |-> a.counts.names # c.counts.names,
            OUTCOME_COUNTS_CHANGED |-> a.counts.returned # c.counts.returned])

DriftFindings(a, c) ==
  StructuralFindings(a, c) \cup
  Blocking([POLICY_CHANGED |-> a.policy # c.policy,
            OBSERVED_ATTEMPT_COUNT_CHANGED |-> a.counts.total # c.counts.total,
            OBSERVED_DATA_SOURCE_SET_CHANGED |-> AliasesOf(a.bag) # AliasesOf(c.bag),
            OUTCOME_COUNTS_CHANGED |->
              \/ a.counts.returned # c.counts.returned \/ a.counts.failed # c.counts.failed
              \/ a.counts.unknown # c.counts.unknown])

-----------------------------------------------------------------------------
Level(status, findings) == [status |-> status, findings |-> findings]

\* the first level with a finding
FirstFailing(levels) ==
  levels[Min({i \in DOMAIN levels : levels[i].findings # {}})]

\* verify(approved, candidate)
Verify(a, c) ==
  LET drift    == DriftFindings(a, c)
      blocking == \E f \in drift : f.severity = "BLOCKING"
  IN FirstFailing(
       <<Level("INCOMPATIBLE", CompatibilityFindings(a, c.schema, c.operation)),
         Level("NOT_ELIGIBLE",
               NotEligibleFindings(c.status, c.counts.failed, c.counts.unknown, FALSE)),
         Level("POLICY_VIOLATION", PolicyFindings(a.policy, c.counts)),
         Level(IF blocking THEN "DRIFT" ELSE "REVIEW_REQUIRED", drift),
         Level("MATCH", {Finding("MATCH", "INFO", NoSignature)})>>)

\* verify(approved, snapshot, aliases): aliases are resolved after the first two
\* levels, and throw when a name has none
VerifySnapshot(a, s, aliases) ==
  FirstFailing(
    <<Level("INCOMPATIBLE", CompatibilityFindings(a, 1, s.operation)),
      Level("NOT_ELIGIBLE",
            NotEligibleFindings(s.status, CountOf(s, Failed), CountOf(s, Unknown), s.diagnosed)),
      IF Resolved(s, aliases)
        THEN Verify(a, From(s, aliases, a.policy))
        ELSE Level("thrown", {Finding("alias", "BLOCKING", NoSignature)})>>)

Matched(result) == result.status = "MATCH"
PassesBlockingChecks(result) == result.status \in {"MATCH", "REVIEW_REQUIRED"}

-----------------------------------------------------------------------------
(* ManifestReviewReport: what it says of a result.                         *)

\* one finding more than is shown counts as omitted only when two are
OmittedBug(result) ==
  Max({0, Cardinality(result.findings) - MaxDisplayed - 1})

Omitted(result) == Max({0, Cardinality(result.findings) - MaxDisplayed})
Displayed(result) == Min({MaxDisplayed, Cardinality(result.findings)})

Report(a, c) ==
  LET result == Verify(a, c) IN
  [status |-> result.status, exit |-> IF Matched(result) THEN 0 ELSE 1,
   passes |-> PassesBlockingChecks(result), total |-> Cardinality(result.findings),
   shown |-> Displayed(result), omitted |-> Omitted(result), baseline |-> a, candidate |-> c]
=============================================================================
