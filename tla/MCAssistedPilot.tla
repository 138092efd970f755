-------------------------- MODULE MCAssistedPilot --------------------------
(* Projects and archives for TLC: a good one, and one for each check.      *)
EXTENDS AssistedPilot

Good == [outcome |-> "matched", ambient |-> FALSE, config |-> "exact", root |-> "canonical",
         mvn |-> "empty", module |-> "nested", poms |-> "regular", selector |-> "owning",
         tests |-> "distinct", operation |-> "safe", outputs |-> {},
         ancestors |-> "directories", approved |-> "original"]
Review == [Good EXCEPT !.outcome = "review", !.approved = "absent", !.mvn = "none"]
Refusals ==
  {[Good EXCEPT !.ambient = TRUE], [Good EXCEPT !.config = "duplicate key"],
   [Good EXCEPT !.root = "redirected"], [Good EXCEPT !.mvn = "config"],
   [Good EXCEPT !.module = "symlink"], [Good EXCEPT !.poms = "symlink"],
   [Good EXCEPT !.selector = "other"], [Good EXCEPT !.tests = "same class"],
   [Good EXCEPT !.operation = "unsafe"], [Good EXCEPT !.outputs = {"candidate"}],
   [Good EXCEPT !.ancestors = "symlink"], [Good EXCEPT !.approved = "linked"],
   [Review EXCEPT !.approved = "original"]}
MCProjects == {Good, Review} \cup Refusals

Member(path, kind, size) ==
  [path |-> path, kind |-> kind, size |-> size, actual |-> size, inside |-> TRUE,
   executable |-> path = "bin/mvn"]
Maven == <<Member("bin", "directory", 0), Member("bin", "directory", 0),
           Member("bin/mvn", "file", 1), Member("boot/a.jar", "file", 1)>>
MCArchives ==
  {Maven, <<>>, Append(Maven, Member("bin/mvn", "file", 0)),
   Append(Maven, Member("boot/b.jar", "file", 0)), Append(Maven, Member("lib", "link", 0)),
   Append(Maven, Member("lib/x.jar", "file", 2)),
   Append(Maven, [Member("lib/x.jar", "file", 0) EXCEPT !.actual = 1]),
   Append(Maven, [Member("up", "file", 0) EXCEPT !.inside = FALSE])}
=============================================================================
