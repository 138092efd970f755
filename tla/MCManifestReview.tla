-------------------------- MODULE MCManifestReview --------------------------
(* Documents, snapshots and aliases for TLC.                               *)
EXTENDS ManifestReview, TLC

CONSTANTS p, q, f1, f2, f3, f4

Sym == Permutations(Files) \cup Permutations(Writers)

Policy(attempts, names, exact) ==
  [attempts |-> attempts, names |-> names, noFailures |-> TRUE, exact |-> exact]
Strict == Policy(2, 2, TRUE)
BudgetOnly == Policy(2, 2, FALSE)
MCPolicies == {Strict, BudgetOnly}

Entry4(alias, shape, outcome, times) ==
  [alias |-> alias, shape |-> shape, outcome |-> outcome, times |-> times]
Sums(es) ==
  LET Of(outcomes) == MapThenSumSet(LAMBDA i : es[i].times,
                                    {i \in DOMAIN es : es[i].outcome \in outcomes})
  IN [total |-> Of(AllOutcomes), returned |-> Of({Returned}), failed |-> Of({Failed}),
      unknown |-> Of({Unknown}), names |-> Cardinality({es[i].alias : i \in DOMAIN es})]
Doc(policy, status, es) ==
  [schema |-> 1, operation |-> "op", status |-> status, policy |-> policy,
   counts |-> Sums(es), entries |-> es, strict |-> TRUE, bytes |-> 1, canonical |-> 1]

Both == <<Entry4("a", "x", Returned, 1), Entry4("b", "x", Returned, 1)>>
Good == Doc(Strict, "COMPLETE", Both)
Once == [Good EXCEPT !.entries = <<Entry4("a", "x", Returned, 1)>>,
                     !.counts = Sums(<<Entry4("a", "x", Returned, 1)>>)]
MCDocument ==
  [good |-> Good,
   shape |-> Doc(Strict, "COMPLETE", <<Entry4("a", "y", Returned, 1), Both[2]>>),
   moved |-> Doc(BudgetOnly, "COMPLETE", <<Both[1], Entry4("c", "x", Returned, 1)>>),
   lenient |-> [Good EXCEPT !.policy = BudgetOnly],
   reshaped |-> Doc(BudgetOnly, "COMPLETE", <<Entry4("a", "y", Returned, 1), Both[2]>>),
   tight |-> [Good EXCEPT !.policy = Policy(1, 1, TRUE)],
   once |-> Once, twice |-> Doc(Strict, "COMPLETE", <<Entry4("a", "x", Returned, 2)>>),
   thrice |-> Doc(Strict, "COMPLETE", <<Entry4("a", "x", Returned, 2), Both[2]>>),
   failed |-> Doc(Strict, "REPORTED_EXECUTION_FAILURE", <<Entry4("a", "x", Failed, 1), Both[2]>>),
   unknown |-> Doc(Strict, "INCOMPLETE", <<Entry4("a", "x", Unknown, 1), Both[2]>>),
   diagnosed |-> [Good EXCEPT !.status = "INCOMPLETE"],
   foreign |-> [Good EXCEPT !.operation = "other"],
   later |-> [Good EXCEPT !.schema = 2],
   unpolicied |-> [Good EXCEPT !.policy.noFailures = FALSE],
   claimed |-> [Good EXCEPT !.status = "REPORTED_EXECUTION_FAILURE"],
   doubled |-> Doc(Strict, "COMPLETE", <<Both[1], Both[1]>>),
   zero |-> Doc(Strict, "COMPLETE", <<Both[1], Entry4("b", "x", Returned, 0)>>),
   wrapped |-> [Once EXCEPT !.status = "INCOMPLETE", !.counts =
                  [total |-> 1, returned |-> 7, failed |-> 7, unknown |-> 3, names |-> 1]],
   lying |-> [Good EXCEPT !.counts = Once.counts],
   overflow |-> [Doc(Strict, "COMPLETE", <<Entry4("a", "x", Returned, 7),
                                           Entry4("b", "x", Returned, 7)>>)
                 EXCEPT !.counts = Sums(<<Entry4("a", "x", Returned, 7)>>)],
   crowded |-> Doc(Strict, "COMPLETE", <<Entry4("a", "x", Returned, 7)>>),
   loose |-> [Good EXCEPT !.strict = FALSE],
   long |-> [Good EXCEPT !.bytes = 3],
   edge |-> [Good EXCEPT !.bytes = 2, !.canonical = 3],
   huge |-> Doc(Strict, "COMPLETE", <<Both[1], Entry4("b", "y", Returned, 1)>>)]
MCHuge == [MCDocument EXCEPT !.huge.bytes = 3, !.huge.canonical = 3]

Attempts == [name : {"n1", "n2"}, shape : {"x", "y"}, outcome : AllOutcomes]
MCSnapshots ==
  [operation : {"op"}, diagnosed : BOOLEAN,
   status : {"COMPLETE", "REPORTED_EXECUTION_FAILURE", "INCOMPLETE"},
   attempts : UNION {[1 .. n -> Attempts] : n \in 0 .. 2}
              \cup {[i \in 1 .. n |-> [name |-> "n1", shape |-> "x", outcome |-> Returned]] :
                      n \in {3, 4}}]
  \cup {[operation |-> "other", diagnosed |-> FALSE, status |-> "COMPLETE",
         attempts |-> <<[name |-> "n1", shape |-> "x", outcome |-> Returned]>>]}
MCAliasMaps ==
  {[n1 |-> "a", n2 |-> "b"], [n1 |-> "a", n2 |-> "c"], [n1 |-> "a", n2 |-> "a"], [n1 |-> "a"]}
=============================================================================
