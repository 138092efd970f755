---------------------------- MODULE ArchivePaths ----------------------------
(***************************************************************************)
(* The path inventory of an archive in src/scripts/install-release-        *)
(* assets.py: every entry of a JAR or of the source ZIP is registered in a *)
(* trie over its folded components, then the graph of the registered paths *)
(* is checked for files that would have to be directories.                 *)
(*                                                                         *)
(* A component is a model value and Fold gives its NFC, case-folded form;  *)
(* components no file system portably accepts are in Unportable.  A node   *)
(* of the trie is identified with the folded prefix that leads to it       *)
(* (the code numbers the nodes, one number per prefix).                    *)
(***************************************************************************)
EXTENDS Naturals, Sequences, FiniteSets

CONSTANTS
  Components, Unportable, Fold,
  MaxDepth,        \* MAX_ARCHIVE_PATH_COMPONENTS
  MaxTotal,        \* MAX_ARCHIVE_TOTAL_PATH_COMPONENTS
  MaxEntries,      \* MAX_SOURCE_ARCHIVE_ENTRIES, MAX_JAR_ENTRIES
  LongestPath      \* bound on the paths an archive offers, above MaxDepth

ASSUME ArchiveAssumption ==
  /\ Unportable \subseteq Components /\ DOMAIN Fold = Components
  /\ MaxDepth \in Nat /\ MaxTotal \in Nat /\ MaxEntries \in Nat /\ LongestPath \in Nat

VARIABLES
  entries,         \* logical_entries: registered path -> is it a directory
  trie,            \* portable_trie: folded prefix -> the component spelled there
  total,           \* total_path_components
  verdict          \* "open", "accepted", "rejected", and "left" once returned

archive == <<entries, trie, total, verdict>>

Empty == [p \in {} |-> FALSE]

ArchiveInit == entries = Empty /\ trie = Empty /\ total = 0 /\ verdict = "open"

Paths == UNION {[1 .. n -> Components] : n \in 1 .. LongestPath}
Prefixes(p) == {SubSeq(p, 1, n) : n \in 1 .. Len(p)}
ProperPrefixes(p) == Prefixes(p) \ {p}

\* portable_source_parts
Portable(p) == \A i \in 1 .. Len(p) : p[i] \notin Unportable
Folded(p) == [i \in 1 .. Len(p) |-> Fold[p[i]]]

\* an edge of the trie leads from a folded prefix to the next one
Spelling(p) == [q \in Prefixes(Folded(p)) |-> p[Len(q)]]

\* only the last component is looked up
CollidesBug(p) == Folded(p) \in DOMAIN trie /\ trie[Folded(p)] # p[Len(p)]

Collides(p) ==
  \E q \in DOMAIN trie \cap Prefixes(Folded(p)) : trie[q] # Spelling(p)[q]

Refused(p) ==
  \/ Len(p) > MaxDepth \/ total + Len(p) > MaxTotal
  \/ p \in DOMAIN entries \/ ~Portable(p) \/ Collides(p)

Reject == verdict' = "rejected" /\ UNCHANGED <<entries, trie, total>>

\* register_archive_path, after the checks validate_archive makes of the entry itself
Register(p, directory, plain) ==
  /\ verdict = "open" /\ Cardinality(DOMAIN entries) < MaxEntries
  /\ IF ~plain \/ Refused(p)
       THEN Reject
       ELSE /\ entries' = [q \in DOMAIN entries \cup {p} |->
                             IF q = p THEN directory ELSE entries[q]]
            /\ trie' = [q \in DOMAIN trie \cup Prefixes(Folded(p)) |->
                          IF q \in DOMAIN trie THEN trie[q] ELSE Spelling(p)[q]]
            /\ total' = total + Len(p)
            /\ UNCHANGED verdict

\* validate_archive_path_graph: a file is no ancestor, spelled so or otherwise
FileAncestor(p) ==
  \/ \E q \in ProperPrefixes(p) \cap DOMAIN entries : ~entries[q]
  \/ \E q \in DOMAIN entries : ~entries[q] /\ Folded(q) \in ProperPrefixes(Folded(p))

ValidateGraph ==
  /\ verdict = "open" /\ entries # Empty
  /\ IF \E p \in DOMAIN entries : FileAncestor(p)
       THEN Reject
       ELSE verdict' = "accepted" /\ UNCHANGED <<entries, trie, total>>

\* the function returns or raises: its locals are gone
Leave ==
  /\ verdict \in {"accepted", "rejected"}
  /\ verdict' = IF verdict = "accepted" THEN "left" ELSE "refused"
  /\ entries' = Empty /\ trie' = Empty /\ total' = 0

ArchiveNext ==
  \/ \E p \in Paths, directory, plain \in BOOLEAN : Register(p, directory, plain)
  \/ ValidateGraph
  \/ Leave

ArchiveSpec == ArchiveInit /\ [][ArchiveNext]_archive

-----------------------------------------------------------------------------
\* Every path the archive makes exist, its ancestors included.
Created == UNION {Prefixes(p) : p \in DOMAIN entries}

\* No two paths that registered entries would create differ only in case or Unicode
\* form, whatever the order and the depth of the entries (register_archive_path).
NoPortableCollision ==
  \A p, q \in Created : Folded(p) = Folded(q) => p = q

\* An accepted archive can be unpacked on any file system: no entry lies below a path
\* that another entry makes a file, also when the two are spelled differently
\* (validate_archive_path_graph).
NoFileAboveEntry ==
  verdict = "accepted" =>
    \A p, q \in DOMAIN entries :
      ~entries[q] => Folded(q) \notin ProperPrefixes(Folded(p))

\* The inventory stays within its limits and the trie holds what the entries spell.
ArchiveTypeOK ==
  /\ verdict \in {"open", "accepted", "rejected", "left", "refused"}
  /\ DOMAIN entries \subseteq Paths /\ Cardinality(DOMAIN entries) <= MaxEntries
  /\ total <= MaxTotal /\ \A p \in DOMAIN entries : Len(p) <= MaxDepth
  /\ DOMAIN trie = {Folded(p) : p \in Created}
=============================================================================
