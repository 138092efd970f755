---------------------------- MODULE SbomFinalizer ----------------------------
(***************************************************************************)
(* src/scripts/finalize-sbom.py: each generated JSON/XML pair is completed *)
(* with the reviewed licences and the pinned MySQL container, written, and *)
(* read back; then the three pairs are compared.  Builds regenerate the    *)
(* sources and replace the outputs meanwhile, and the command may stop     *)
(* anywhere and be run again.                                              *)
(*                                                                         *)
(* A document is [gen, root, components, graph, defect]: gen stands for    *)
(* serial number and timestamp, a component is [license, version, exact],  *)
(* exact saying that type, purl and bom-ref are those of its name, and     *)
(* defect is what its format's profile would refuse.  One component stands *)
(* for each group the code treats alike.                                   *)
(***************************************************************************)
EXTENDS Naturals, Sequences, FiniteSets

CONSTANTS
  SourceSets,     \* what a build may generate: role -> [json, xml]
  Regenerated,    \* what the next build generates
  SbomEdits       \* bound on the edits others make, and on interrupts

Aggregate == "routecontract"
Published == "routecontract-shardingsphere-5.5"
Example == "mysql-example"
Pairs == <<Aggregate, Published, Example>>
Roles == {Aggregate, Published, Example}
Formats == {"json", "xml"}

\* EXPECTED_FIRST_PARTY_CHILDREN, UNRELEASED_AGGREGATE_CHILDREN
ExpectedChildren ==
  [r \in Roles |-> CASE r = Aggregate -> {Published, Example}
                      [] r = Published -> {}
                      [] r = Example   -> {Published}]
Unreleased == {"mysql-5.4.1-5.5.2-example"}
FirstPartyNames == Roles \cup Unreleased \cup {"unknown module"}

Connector == "mysql-connector-j"
Container == "mysql"
Pinned == "calcite-core"          \* REQUIRED_EXAMPLE_MAVEN_COORDINATES
Forbidden == "jts-io-common"
Apache == "Apache-2.0"
\* REVIEWED_MAVEN_LICENSE_EXPRESSIONS and the connector's
Override == [n \in {Connector, "jts-core"} |->
  IF n = Connector THEN "GPL-2.0-only WITH Universal-FOSS-exception-1.0"
                   ELSE "EPL-2.0 OR BSD-3-Clause"]

\* what the parsers make of a document
IsDocument(d) ==
  /\ DOMAIN d = {"gen", "root", "components", "graph", "defect"}
  /\ d = [gen |-> d.gen, root |-> d.root, components |-> d.components, graph |-> d.graph,
          defect |-> d.defect]
  /\ d.components = [n \in DOMAIN d.components |-> d.components[n]]
  /\ \A n \in DOMAIN d.components : DOMAIN d.components[n] = {"license", "version", "exact"}
  /\ d.graph = [n \in DOMAIN d.graph |-> d.graph[n]]

ASSUME SbomAssumption ==
  /\ SbomEdits \in Nat
  /\ \A s \in SourceSets, r \in Roles, f \in Formats : IsDocument(s[r][f])
  /\ \A r \in Roles : IsDocument(Regenerated[r])

VARIABLES
  files,        \* <<place, role, format>> -> [document, stamp]
  task, fpc,    \* "finalize" or "verify", and the place of the command
  pair,         \* index of the pair it is at; 4 when all are done
  inHand,       \* [json, xml]: the documents loaded
  verified,     \* role -> [json, xml] as verified by this command
  compared,     \* documents _validate_pair_collection has read again
  verdict,      \* "none", "ok", "refused", "unverified", "stopped"
  disturbed,    \* others have edited since the command began
  touches       \* edits and interrupts so far

finalizing == <<files, task, fpc, pair, inHand, verified, compared, verdict, disturbed, touches>>

\* f, and key with value
With(f, key, value) == [k \in DOMAIN f \cup {key} |-> IF k = key THEN value ELSE f[k]]

Source(r, f) == <<"source", r, f>>
Output(r, f) == <<"output", r, f>>
Paths == {"source", "output"} \X Roles \X Formats
Role == Pairs[pair]
Absent == [gen |-> 0, root |-> "none", components |-> <<>>, graph |-> <<>>, defect |-> "bytes"]

-----------------------------------------------------------------------------
(* What one document must be, in either format.                            *)

FirstParty(d) == DOMAIN d.components \cap FirstPartyNames
HasExample(d) == Example \in DOMAIN d.components

\* _read_canonical_utf8, duplicate keys, the document's profile and its components' fields
JsonSound(d) == d.defect = "none"

\* the same for XML, which also refuses an ambiguous license choice before any is replaced
XmlSound(d) ==
  d.defect = "none" /\ \A n \in DOMAIN d.components : d.components[n].license # "ambiguous"

\* _json_exact_maven_components: a reviewed coordinate has exactly its identity
ReviewedExact(d) == \A n \in DOMAIN d.components \cap DOMAIN Override : d.components[n].exact

\* _validate_json_pinned_example_dependency_contract, and some first-party component
Contract(d) ==
  /\ Forbidden \notin DOMAIN d.components /\ FirstParty(d) # {}
  /\ HasExample(d) => Pinned \in DOMAIN d.components /\ d.components[Pinned].exact

\* _parse_supported_maven_purl: every purl is of the producer's form and fits its component
Identified(d) == \A n \in DOMAIN d.components : d.components[n].exact

PinnedContainer == [license |-> "none", version |-> "8.4.11", exact |-> TRUE]

\* _set_json_component_license and _set_json_mysql_supply_chain refuse
Finalizable(d) ==
  /\ \A n \in FirstParty(d) : d.components[n].license \in {"none", Apache}
  /\ ReviewedExact(d)
  /\ IF HasExample(d)
       THEN /\ Connector \in DOMAIN d.components /\ Example \in DOMAIN d.graph
            /\ Container \in DOMAIN d.components => d.components[Container] = PinnedContainer
            /\ Container \in DOMAIN d.graph => d.graph[Container] = {}
       ELSE Container \notin DOMAIN d.components

\* only licences that are missing are set
SetLicensesBug(d) ==
  [d EXCEPT !.components = [n \in DOMAIN @ |->
     IF @[n].license # "none" THEN @[n]
     ELSE IF n \in FirstPartyNames THEN [@[n] EXCEPT !.license = Apache]
     ELSE IF n \in DOMAIN Override THEN [@[n] EXCEPT !.license = Override[n]] ELSE @[n]]]

\* first-party licences are set if missing, reviewed ones replaced
SetLicenses(d) ==
  [d EXCEPT !.components = [n \in DOMAIN @ |->
     IF n \in FirstPartyNames THEN [@[n] EXCEPT !.license = Apache]
     ELSE IF n \in DOMAIN Override THEN [@[n] EXCEPT !.license = Override[n]] ELSE @[n]]]

\* the container is a component, a dependency of the example, and a leaf
AddContainer(d) ==
  IF HasExample(d)
  THEN [d EXCEPT !.components = With(@, Container, PinnedContainer),
                 !.graph = With([n \in DOMAIN @ |->
                                   IF n = Example THEN @[n] \cup {Container} ELSE @[n]],
                                Container, {})]
  ELSE d

Finalized(d) == AddContainer(SetLicenses(d))

\* _verify_json_mysql_supply_chain and the component licences
Licensed(d) ==
  /\ \A n \in FirstParty(d) : d.components[n].license = Apache
  /\ ReviewedExact(d)
  /\ \A n \in DOMAIN d.components \cap DOMAIN Override : d.components[n].license = Override[n]
  /\ HasExample(d) => /\ {Connector, Container} \subseteq DOMAIN d.components
                      /\ d.components[Container] = PinnedContainer
                      /\ Container \in d.graph[Example] /\ d.graph[Container] = {}
  /\ ~HasExample(d) => Container \notin DOMAIN d.components

-----------------------------------------------------------------------------
(* What the two documents of a pair, and the three pairs, must be.         *)

\* every node is in each set of nodes that has the root and is closed under the graph
Reachable(d) ==
  \A seen \in SUBSET DOMAIN d.graph :
    d.root \in seen /\ (\A n \in seen : d.graph[n] \subseteq seen) => seen = DOMAIN d.graph

RoleAndGraph(d) ==
  LET children == FirstParty(d) \ {d.root}
      allowed == IF d.root = Aggregate THEN Unreleased ELSE {} IN
  /\ d.root \in Roles
  /\ \A n \in FirstParty(d) : /\ d.components[n].license = Apache
                              /\ d.components[n].version = d.components[d.root].version
  /\ ExpectedChildren[d.root] \subseteq children
  /\ children \subseteq ExpectedChildren[d.root] \cup allowed
  /\ DOMAIN d.graph = DOMAIN d.components
  /\ \A n \in DOMAIN d.graph : d.graph[n] \subseteq DOMAIN d.graph
  /\ Reachable(d)

\* the serial numbers are not compared
SemanticPairBug(j, x) ==
  /\ j.root = x.root /\ j.components = x.components /\ Identified(j)
  /\ \A n \in DOMAIN j.components : j.components[n].license # "ambiguous"
  /\ j.graph = x.graph /\ RoleAndGraph(j)

\* _verify_semantic_pair, and the identities and serial numbers compared before it
SemanticPair(j, x) ==
  /\ j.gen = x.gen /\ j.root = x.root /\ j.components = x.components /\ Identified(j)
  /\ \A n \in DOMAIN j.components : j.components[n].license # "ambiguous"
  /\ j.graph = x.graph /\ RoleAndGraph(j)

\* _validate_pair_collection: one document for each role, of one version, that describe
\* their common modules alike
Collection(documents) ==
  LET by(r) == CHOOSE d \in documents : d.root = r
      same(n, a, b) == /\ n \in DOMAIN by(a).components /\ n \in DOMAIN by(b).components
                       /\ by(a).components[n] = by(b).components[n] IN
  /\ {d.root : d \in documents} = Roles
  /\ Cardinality({d.components[d.root].version : d \in documents}) = 1
  /\ same(Published, Aggregate, Published) /\ same(Published, Example, Published)
  /\ same(Example, Aggregate, Example)

-----------------------------------------------------------------------------
(* The command.                                                            *)

Fresh(document) == [document |-> document, stamp |-> 0]
NoneVerified == [r \in {} |-> 0]

SbomInit ==
  /\ \E s \in SourceSets :
       files = [p \in Paths |-> Fresh(IF p[1] = "source" THEN s[p[2]][p[3]] ELSE Absent)]
  /\ task = "finalize" /\ fpc = "load-json" /\ pair = 1
  /\ inHand = [f \in Formats |-> Absent] /\ verified = NoneVerified /\ compared = {}
  /\ verdict = "none" /\ disturbed = FALSE /\ touches = 0

FGoto(next) == fpc' = next
FAt(place) == fpc = place

\* an SbomError: one line, exit code 1; about a source, or about what was written
FromSource == {"load-json", "load-xml"}
FRequire(condition, next) ==
  IF condition THEN FGoto(next) /\ UNCHANGED verdict
  ELSE FGoto("end") /\ verdict' = IF fpc \in FromSource THEN "refused" ELSE "unverified"

LoadJson ==
  /\ FAt("load-json")
  /\ LET d == files[Source(Role, "json")].document IN
     IF JsonSound(d) /\ Contract(d) /\ Finalizable(d)
       THEN FRequire(TRUE, "load-xml") /\ inHand' = [inHand EXCEPT !["json"] = Finalized(d)]
       ELSE FRequire(FALSE, "end") /\ UNCHANGED inHand
  /\ UNCHANGED <<files, task, pair, verified, compared, disturbed, touches>>

\* and the two are compared before anything is written
LoadXml ==
  /\ FAt("load-xml")
  /\ LET d == files[Source(Role, "xml")].document IN
     IF XmlSound(d) /\ Contract(d) /\ Finalizable(d)
       THEN /\ FRequire(SemanticPair(inHand["json"], Finalized(d)), "write-json")
            /\ inHand' = [inHand EXCEPT !["xml"] = Finalized(d)]
       ELSE FRequire(FALSE, "end") /\ UNCHANGED inHand
  /\ UNCHANGED <<files, task, pair, verified, compared, disturbed, touches>>

\* _atomic_write_text and _atomic_write_xml: a synced temporary file replaces the output
WriteDocument ==
  /\ \E f \in Formats :
       /\ FAt(IF f = "json" THEN "write-json" ELSE "write-xml")
       /\ files' = [files EXCEPT ![Output(Role, f)] = [document |-> inHand[f], stamp |-> 2 * touches + 1]]
       /\ FGoto(IF f = "json" THEN "write-xml" ELSE "verify-json")
  /\ UNCHANGED <<task, pair, inHand, verified, compared, verdict, disturbed, touches>>

\* _verify_pair: both are loaded as they are now, compared, and must have every licence
VerifyJson ==
  /\ FAt("verify-json")
  /\ LET d == files[Output(Role, "json")].document IN
     /\ inHand' = [inHand EXCEPT !["json"] = d]
     /\ FRequire(JsonSound(d) /\ Contract(d), "verify-xml")
  /\ UNCHANGED <<files, task, pair, verified, compared, disturbed, touches>>

VerifyXml ==
  /\ FAt("verify-xml")
  /\ LET d == files[Output(Role, "xml")].document
         fine == XmlSound(d) /\ Contract(d) /\ SemanticPair(inHand["json"], d)
                   /\ Licensed(inHand["json"]) /\ Licensed(d) IN
     /\ inHand' = [inHand EXCEPT !["xml"] = d]
     /\ verified' = IF fine THEN With(verified, Role, inHand') ELSE verified
     /\ pair' = IF ~fine THEN pair ELSE IF pair < Len(Pairs) THEN pair + 1 ELSE 1
     /\ FRequire(fine, IF pair = Len(Pairs) THEN "collect"
                       ELSE IF task = "finalize" THEN "load-json" ELSE "verify-json")
  /\ UNCHANGED <<files, task, compared, disturbed, touches>>

\* _validate_pair_collection reads each JSON document once more
CollectPair ==
  /\ FAt("collect") /\ pair <= Len(Pairs)
  /\ LET d == files[Output(Role, "json")].document IN
     /\ compared' = compared \cup {d} /\ pair' = pair + 1
     /\ FRequire(JsonSound(d) /\ Contract(d), "collect")
  /\ UNCHANGED <<files, task, inHand, verified, disturbed, touches>>

EndFinalizer ==
  /\ FAt("collect") /\ pair > Len(Pairs)
  /\ FGoto("end") /\ verdict' = IF Collection(compared) THEN "ok" ELSE "unverified"
  /\ UNCHANGED <<files, task, pair, inHand, verified, compared, disturbed, touches>>

\* the command is killed, or a write fails: nothing but a temporary file is left
StopFinalizer ==
  /\ fpc # "end" /\ touches < SbomEdits /\ touches' = touches + 1
  /\ FGoto("end") /\ verdict' = "stopped"
  /\ UNCHANGED <<files, task, pair, inHand, verified, compared, disturbed>>

\* it is run again, with --pair or, as the release workflow does, with --verify-pair
Rerun ==
  /\ FAt("end") /\ verdict = "stopped"
  /\ task' \in {"finalize", "verify"}
  /\ FGoto(IF task' = "finalize" THEN "load-json" ELSE "verify-json") /\ pair' = 1
  /\ verified' = NoneVerified /\ compared' = {} /\ verdict' = "none" /\ disturbed' = FALSE
  /\ UNCHANGED <<files, inHand, touches>>

\* another build regenerates a source, or puts its own document, finished if it can be
\* finished, or not, in place
SbomEdit ==
  /\ touches < SbomEdits /\ touches' = touches + 1 /\ disturbed' = TRUE
  /\ \E r \in Roles, f \in Formats :
       \E place \in {"source", "output"} :
         \E d \in {Regenerated[r]} \cup (IF place = "output" /\ Finalizable(Regenerated[r])
                                       THEN {Finalized(Regenerated[r])} ELSE {}) :
           files' = [files EXCEPT ![<<place, r, f>>] = [document |-> d, stamp |-> 2 * touches + 2]]
  /\ UNCHANGED <<task, fpc, pair, inHand, verified, compared, verdict>>

FinalizerNext ==
  \/ LoadJson \/ LoadXml \/ WriteDocument \/ VerifyJson \/ VerifyXml \/ CollectPair
  \/ EndFinalizer \/ StopFinalizer \/ Rerun \/ (fpc # "end" /\ SbomEdit)

-----------------------------------------------------------------------------
\* d is what source s should become: nothing lost or renamed, first-party modules under
\* Apache, reviewed components under their expression, the container exactly with the example
IsFinal(d, s) ==
  LET extra == IF Example \in DOMAIN s.components THEN {Container} ELSE {}
      needs(n) == IF n \in DOMAIN s.graph THEN s.graph[n] ELSE {} IN
  /\ d.gen = s.gen /\ d.root = s.root
  /\ DOMAIN d.components = DOMAIN s.components \cup extra
  /\ DOMAIN d.graph = DOMAIN d.components
  /\ \A n \in DOMAIN s.components :
       /\ d.components[n].version = s.components[n].version /\ d.components[n].exact
       /\ d.components[n].license = CASE n \in FirstPartyNames  -> Apache
                                      [] n \in DOMAIN Override  -> Override[n]
                                      [] OTHER                  -> s.components[n].license
       /\ d.graph[n] = needs(n) \cup (IF n = Example THEN extra ELSE {})

\* the sources once every one has been generated again
NextSources == [r \in Roles |-> [f \in Formats |-> Regenerated[r]]]

\* When the command succeeds, the two documents of every pair it verified are one and the
\* same completion of one generated source, whatever was regenerated or replaced between
\* its reads; and if nobody touched the files, those are on disk and were compared with
\* each other (_finalize_pair, _verify_pair, _validate_pair_collection).
VerifiedIsFinal ==
  verdict = "ok" =>
    /\ \A r \in Roles :
         /\ verified[r]["json"] = verified[r]["xml"]
         /\ \E s \in SourceSets \cup {NextSources} : IsFinal(verified[r]["json"], s[r]["json"])
    /\ ~disturbed => /\ compared = {verified[r]["json"] : r \in Roles}
                     /\ \A r \in Roles, f \in Formats :
                          files[Output(r, f)].document = verified[r][f]

\* A pair that nobody disturbs is refused before it is written, never after: what the
\* setters complete, the verification accepts, even over what a killed run has left.
RefusedBeforeWriting ==
  verdict = "unverified" /\ task = "finalize" /\ ~disturbed => DOMAIN verified = Roles
=============================================================================
