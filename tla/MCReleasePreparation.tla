------------------------ MODULE MCReleasePreparation ------------------------
(* One payload, small POM trees, and SBOM sources with one defect each.    *)
EXTENDS ReleasePreparation, TLC

\* a Maven coordinate with one payload, in the order of a walk
MCPayloads == {"pom"}
MCReading == <<<<"metadata", "payload">>, <<"metadata", "checksum">>, <<"pom", "payload">>,
               <<"pom", "signature">>, <<"pom", "signature checksum">>, <<"pom", "checksum">>>>

\* a tree of an owning POM, one between, and the reactor's
PomAt(parent) == [v |-> 1, parent |-> parent, fits |-> TRUE, plain |-> TRUE]
PomTree(own, mid, root) == ("own" :> own) @@ ("mid" :> mid) @@ ("root" :> root)
Usual(parent) == PomTree(PomAt("mid"), PomAt("root"), PomAt(parent))
MCHistories ==
  {("one" :> tree) @@ ("two" :> [tree EXCEPT !["mid"].v = 2]) :
     tree \in {Usual("external"), Usual("own"),
               PomTree(PomAt("root"), PomAt("root"), PomAt("none")),
               PomTree(PomAt("mid"), PomAt("own"), PomAt("none")),
               PomTree(PomAt("mid"), PomAt("external"), PomAt("none")),
               PomTree(PomAt("none"), PomAt("root"), PomAt("none")),
               [Usual("none") EXCEPT !["mid"].fits = FALSE],
               [Usual("none") EXCEPT !["mid"].plain = FALSE]}}
MCWriteOrder == <<"patch", "manifest">>

\* a generated document: a root that depends on its modules and libraries
Component(license) == [license |-> license, version |-> "v", exact |-> TRUE]
Generated(root, modules, libraries) ==
  LET names == {root} \cup modules \cup libraries IN
  [gen |-> 1, root |-> root, defect |-> "none",
   components |-> [n \in names |-> Component(IF n \in libraries THEN "MIT" ELSE "none")],
   graph |-> [n \in names |-> IF n = root THEN names \ {root} ELSE {}]]

\* one has its licence already, one its container
Good ==
  (Aggregate :> [Generated(Aggregate, {Published, Example} \cup Unreleased, {Connector, Pinned})
                   EXCEPT !.components[Published].license = Apache]) @@
  (Published :> Generated(Published, {}, {"jts-core"})) @@
  (Example :> AddContainer(Generated(Example, {Published}, {Connector, Pinned})))
MCRegenerated == [r \in Roles |-> [Good[r] EXCEPT !.gen = 2]]

Both(d) == [f \in Formats |-> d]
GoodSources == [r \in Roles |-> Both(Good[r])]
A == Good[Aggregate]
Without(n) == Generated(Aggregate, {Published, Example} \ {n}, {Connector, Pinned} \ {n})
Defective ==
  {[A EXCEPT !.defect = "profile"], Without(Pinned), Without(Connector), Without(Published),
   Generated(Aggregate, {Published, Example}, {Connector, Pinned, Forbidden}),
   [A EXCEPT !.components[Published].license = "MIT"],
   [A EXCEPT !.components[Published].version = "w"],
   [A EXCEPT !.components[Connector].exact = FALSE],
   [A EXCEPT !.components[Pinned].exact = FALSE],
   [A EXCEPT !.components[Pinned].license = "ambiguous"],
   [A EXCEPT !.graph[Aggregate] = {Published, Example}],
   [A EXCEPT !.graph[Example] = {"nowhere"}],
   [A EXCEPT !.graph = [n \in (DOMAIN A.graph) \ {Pinned} |-> {}]],
   [AddContainer(A) EXCEPT !.components[Container].license = "MIT"],
   [AddContainer(A) EXCEPT !.graph[Container] = {Pinned}]}
\* XML documents that differ from the JSON document
Different ==
  {[A EXCEPT !.components[Connector].license = "ambiguous"],
   [A EXCEPT !.components[Pinned].license = "BSD"], [A EXCEPT !.graph[Example] = {Connector}]}
OtherVersion == [Good[Example] EXCEPT !.components =
  [n \in DOMAIN @ |-> IF n \in FirstPartyNames THEN [@[n] EXCEPT !.version = "w"] ELSE @[n]]]
MCSourceSets ==
  {GoodSources} \cup {[GoodSources EXCEPT ![Aggregate] = Both(d)] : d \in Defective}
  \cup {[GoodSources EXCEPT ![Aggregate]["xml"] = d] : d \in Different}
  \cup {[GoodSources EXCEPT ![Published] = Both(Good[Example])],
        [GoodSources EXCEPT ![Published] = Both([Good[Published] EXCEPT
           !.components = (Container :> PinnedContainer) @@ @])],
        [GoodSources EXCEPT ![Example] = Both(OtherVersion)]}
=============================================================================
