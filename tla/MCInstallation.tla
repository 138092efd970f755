--------------------------- MODULE MCInstallation ---------------------------
(* A release of one POM and one JAR, with variants that must be refused.   *)
EXTENDS PublicInstall

MCPublished == {"pom", "jar"}
MCAlgorithms == {"sha1", "sha256"}
MCOrder == <<<<"jar", "sha1">>, <<"jar", "sha256">>, <<"pom", "sha1">>, <<"pom", "sha256">>>>

Content(defects) == [version |-> 1, defects |-> defects, says |-> NoFiles]
Digested == [n \in MCPublished \cup Boms \cup {"summary", "source"} |-> Content({})]
Bound(e) == [Content({}) EXCEPT !.says = [n \in Boms \cup {Pom} |-> Content(e)]]
\* a directory whose index declares the given files
Released(files) ==
  [flat |-> TRUE, altered |-> FALSE, named |-> [n \in MCPublished \cup {"source"} |-> 1],
   files |-> [n \in DOMAIN files \cup {Index} |->
                IF n = Index THEN [Content({}) EXCEPT !.says = files] ELSE files[n]]]
GoodFiles == With(Digested, Evidence, Bound({}))
MCExact == Released(GoodFiles)
MCArtifacts == [n \in MCPublished |-> GoodFiles[n]]

OtherDownload == Released(With(Digested, Evidence, Bound({"other bytes"})))
MCDirectories ==
  {[MCExact EXCEPT !.altered = TRUE], OtherDownload,
   Released(With(GoodFiles, "jar", Content({"other bytes"}))),
   [MCExact EXCEPT !.flat = FALSE], [MCExact EXCEPT !.named["jar"] = 2],
   [MCExact EXCEPT !.files["jar"] = Content({"CRC"})],
   Released(With(GoodFiles, "jar", Content({"module name"}))),
   Released(With(GoodFiles, "source", Content({"hook class"}))),
   Released(With(GoodFiles, "pom", Content({"relocation"})))}

MCFold == [c \in {"a", "A", "nul"} |-> IF c = "A" THEN "a" ELSE c]
=============================================================================
