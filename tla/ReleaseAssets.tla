---------------------------- MODULE ReleaseAssets ----------------------------
(***************************************************************************)
(* What src/scripts/install-release-assets.py accepts as the assets of a   *)
(* public release: pure checks of a directory of files.                    *)
(*                                                                         *)
(* A file's content is a record: the version it belongs to, the wrong      *)
(* things about it (defects), and, for the index and the evidence, what    *)
(* they say of other files (says).  A SHA-256 stands for the content.      *)
(* A check is the set of the defects it looks for.                         *)
(***************************************************************************)
EXTENDS FiniteSets

CONSTANT Published   \* the files that are installed; POM and three JARs in the code

Index == "SHA256SUMS"
Pom == "pom"
ASSUME PublishedAssumption == Pom \in Published /\ Index \notin Published

Boms == {"module.json", "module.xml", "aggregate.json", "aggregate.xml"}
Evidence == "evidence"

\* expected_public_payloads: names of the JARs and of the source ZIP carry the version
Payloads == Published \cup Boms \cup {Evidence, "summary", "source"}

Sound(content, checks) == content.defects \cap checks = {}

\* parse_checksums
IndexChecks == {"too large", "no final newline", "not ASCII", "bad line", "repeated name",
                "lists itself", "empty"}

\* parse_coordinate, direct_xml_value, optional_direct_xml_value, scalar_xml_value
PomChecks == {"too large", "not UTF-8", "declaration", "DTD", "not XML", "root", "model",
              "group", "artifact", "version", "packaging", "nested value", "repeated value"}

\* validate_pom_distribution_boundary
BoundaryChecks == {"parent", "relocation", "dependency not literal", "JTS or Mahout"}

\* the fields of the evidence itself: exact keys, digests, positive counts, one reviewed
\* and unexpired licence exception, the scanner and its database, no vulnerability
EvidenceChecks == {"too large", "not JSON", "repeated key", "keys", "schema", "revision",
                   "digest", "count", "license policy", "license review", "review expired",
                   "scanner", "database", "vulnerability"}

\* validate_archive besides the paths: the JAR as a whole, then what its label calls for
JarChecks == {"too large", "empty", "too many entries", "expands too far", "missing entry",
              "foreign namespace", "JTS or Mahout", "CRC", "not a ZIP"}
MainJarChecks == {"thin", "manifest", "module name", "provider"}
SourcesJarChecks == {"thin", "package of a source"}
JavadocChecks == {"classifier entry", "license marker", "version marker", "PNG marker"}

\* validate_source_archive besides the paths
SourceChecks == {"too large", "empty", "too many entries", "expands too far", "root",
                 "private path", "compiled class", "foreign namespace", "JTS or Mahout",
                 "missing source", "package of a source", "hook class", "provider", "CRC",
                 "not a ZIP"}

JarOf(name) ==
  CASE name = "jar"     -> JarChecks \cup MainJarChecks
    [] name = "sources" -> JarChecks \cup SourcesJarChecks
    [] name = "javadoc" -> JarChecks \cup JavadocChecks

-----------------------------------------------------------------------------
\* require_flat_regular_files, then the two files that say which release this is
Flat(d) == d.flat /\ {Index, Pom} \subseteq DOMAIN d.files
IndexOf(d) == d.files[Index].says

\* the POM's own checksum before it is parsed, the exact inventory for its version,
\* the allowlist of the index, then every checksum
ChecksumsHold(d) ==
  /\ Flat(d) /\ Sound(d.files[Index], IndexChecks)
  /\ Pom \in DOMAIN IndexOf(d) /\ IndexOf(d)[Pom] = d.files[Pom]
  /\ Sound(d.files[Pom], PomChecks \cup BoundaryChecks)
  /\ DOMAIN d.files = Payloads \cup {Index}
  /\ \A n \in Published \cup {"source"} : d.named[n] = d.files[Pom].version
  /\ DOMAIN IndexOf(d) = Payloads
  /\ \A n \in Payloads : d.files[n] = IndexOf(d)[n]

\* validate_supply_chain_evidence: the hashes it retains are those of this asset set
EvidenceHolds(d) ==
  LET e == d.files[Evidence] IN
  /\ Sound(e, EvidenceChecks)
  /\ \A n \in Boms \cup {Pom} : e.says[n] = d.files[n]

ContentsHold(d) ==
  /\ EvidenceHolds(d)
  /\ Sound(d.files["source"], SourceChecks)
  /\ \A n \in Published \ {Pom} : Sound(d.files[n], JarOf(n))
=============================================================================
