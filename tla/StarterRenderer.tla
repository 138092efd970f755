--------------------------- MODULE StarterRenderer ---------------------------
(***************************************************************************)
(* src/scripts/render-maven-pilot-starter.py: derive a review bundle from  *)
(* a clean Git worktree, write it into a new directory, and revalidate the *)
(* target before the bundle is called verified.  Meanwhile others commit,  *)
(* edit or check out the target, and touch the new directory.              *)
(*                                                                         *)
(* A POM is [v, parent, fits, plain]: its bytes, the path its parent       *)
(* element leads to (or "none", "external"), whether the coordinates it    *)
(* declares there are the parent's own, and whether the pure checks of its *)
(* text accept it.  One Git command or one stable file read is one step.   *)
(***************************************************************************)
EXTENDS Naturals, Sequences, FiniteSets

CONSTANTS
  Owning,         \* path of the owning module's POM
  Histories,      \* possible targets: commit -> path -> POM
  Expected,       \* expectedTargetCommit
  MaxParents,     \* local parents that are followed; 32 in the code
  WriteOrder,     \* OUTPUT_WRITE_ORDER
  StarterEdits    \* bound on the edits others make

Root == "root"
ASSUME StarterAssumption ==
  /\ \A h \in Histories :
       /\ Expected \in DOMAIN h /\ {Root, Owning} \subseteq DOMAIN h[Expected]
       /\ "none" \notin DOMAIN h[Expected]
  /\ MaxParents \in Nat /\ StarterEdits \in Nat

VARIABLES
  target,      \* [commits, head, poms, taken, hidden]: the repository, HEAD, the worktree's
               \* POMs and pilot files, the POMs whose changes the index hides
  spc,         \* place of the command
  read,        \* the reactor's and the owning POM as read: path -> POM
  chain,       \* _local_parent_chain so far: sequence of [path, pom]
  snap, held,  \* the Git snapshot being taken, and the one of _prepare
  phase,       \* what it is taken for: "prepare", "create", "revalidate", "final"
  left,        \* POMs still to be compared with HEAD
  out,         \* [by, files]: the output root; file -> "us" or "other"
  changes,     \* edits so far
  since        \* states of the target since the bundle was complete

command == <<read, chain, snap, held, phase, left>>
rendering == <<target, spc, command, out, changes, since>>

NoPoms == [p \in {} |-> 0]
NoOutput == [by |-> "nobody", files |-> [n \in {} |-> "us"]]
Files == {WriteOrder[i] : i \in DOMAIN WriteOrder}

\* "candidate" is under target/, which Git ignores
Reserved == {"source", "approved", "candidate"}
Clean(t) ==
  /\ t.taken \subseteq {"candidate"} /\ DOMAIN t.poms = DOMAIN t.commits[t.head]
  /\ \A p \in DOMAIN t.poms : t.poms[p] = t.commits[t.head][p] \/ p \in t.hidden

StarterInit ==
  /\ target \in {[commits |-> h, head |-> Expected, poms |-> h[Expected], taken |-> {},
                   hidden |-> {}] : h \in Histories}
  /\ spc = "poms" /\ read = NoPoms /\ chain = <<>> /\ phase = "prepare" /\ left = {}
  /\ snap = [head |-> Expected, clean |-> TRUE, index |-> target.poms] /\ held = snap
  /\ out = NoOutput /\ changes = 0 /\ since = {}

SGoto(next) == spc' = next
SAt(place) == spc = place

\* a StarterError: once the output root is made, what was created is taken away again
Deny == SGoto(IF out.by = "us" THEN "cleanup" ELSE "error")
Demand(condition, next) == IF condition THEN SGoto(next) ELSE Deny

-----------------------------------------------------------------------------
(* _prepare.                                                               *)

ReadPom ==
  /\ SAt("poms")
  /\ IF {Root, Owning} \subseteq DOMAIN read
       THEN SGoto("parents") /\ UNCHANGED read
       ELSE LET p == IF Root \in DOMAIN read THEN Owning ELSE Root IN
            /\ read' = [q \in DOMAIN read \cup {p} |->
                          IF q = p /\ p \in DOMAIN target.poms THEN target.poms[p] ELSE read[q]]
            /\ Demand(p \in DOMAIN target.poms, "poms")
  /\ UNCHANGED <<target, chain, snap, held, phase, left, out, changes, since>>

\* one round of _local_parent_chain: an in-repository parent that was not yet visited and
\* has the coordinates declared; the reactor's own parent may only lead out of the tree
Current == IF chain = <<>> THEN [path |-> Owning, pom |-> read[Owning]] ELSE chain[Len(chain)]
Visited == {Owning} \cup {chain[i].path : i \in DOMAIN chain}

FollowParent ==
  LET p == Current.pom.parent
      atTop == Current.path = Root \/ p = "none"
      follows == ~atTop /\ p \in (DOMAIN target.poms) \ Visited /\ Current.pom.fits
  IN
  /\ SAt("parents")
  /\ chain' = IF follows THEN Append(chain, [path |-> p, pom |-> target.poms[p]]) ELSE chain
  /\ Demand(/\ read[Root].parent \in {"none", "external"} /\ Len(chain') <= MaxParents
            /\ (atTop => Len(chain) < MaxParents) /\ (atTop \/ follows),
            IF atTop THEN "text" ELSE "parents")
  /\ UNCHANGED <<target, read, snap, held, phase, left, out, changes, since>>

\* _reject_custom_profile_off_report_layout and the other checks of a POM's text: for the
\* reactor's POM it is the chain's reading that counts, if there is one
CheckText ==
  /\ SAt("text")
  /\ Demand(/\ \A p \in DOMAIN read \ {chain[i].path : i \in DOMAIN chain} : read[p].plain
            /\ \A i \in DOMAIN chain : chain[i].pom.plain, "head")
  /\ UNCHANGED <<target, command, out, changes, since>>

\* _git_snapshot: HEAD, then the status and the index, which holds what was checked out
TakeHead ==
  /\ SAt("head") /\ snap' = [snap EXCEPT !.head = target.head] /\ SGoto("status")
  /\ UNCHANGED <<target, read, chain, held, phase, left, out, changes, since>>

Bound == {Root, Owning} \cup {chain[i].path : i \in DOMAIN chain}
Compared == [p \in Bound |->
  IF p \in DOMAIN read THEN read[p]
  ELSE chain[CHOOSE i \in DOMAIN chain : chain[i].path = p].pom]

\* ... which the first time must be clean and at the expected commit, later the first one;
\* _reject_hidden_index_entries follows it, but not before the output is created
TakeStatus ==
  LET now == [snap EXCEPT !.clean = Clean(target), !.index = target.commits[target.head]]
      same == IF phase = "prepare" THEN now.clean /\ now.head = Expected ELSE now = held
  IN
  /\ SAt("status") /\ snap' = now
  /\ held' = IF phase = "prepare" THEN now ELSE held
  /\ left' = Bound
  /\ Demand(same /\ (phase # "create" => target.hidden = {}),
            CASE phase = "create" -> "mkdir" [] phase = "final" -> "verify" [] OTHER -> "bind")
  /\ UNCHANGED <<target, read, chain, phase, out, changes, since>>

\* _require_head_bound_regular: the bytes read first, and those of now when it is repeated,
\* are HEAD's
HeadBound(p, pom) == p \in DOMAIN target.commits[target.head] /\ pom = target.commits[target.head][p]
BindPom ==
  /\ SAt("bind") /\ left # {}
  /\ \E p \in left :
       /\ left' = left \ {p}
       /\ Demand(IF phase = "prepare" THEN HeadBound(p, Compared[p])
                 ELSE /\ p \in DOMAIN target.poms /\ HeadBound(p, target.poms[p])
                      /\ (p = Root /\ p # Owning) \/ target.poms[p] = Compared[p], "bind")
  /\ UNCHANGED <<target, read, chain, snap, held, phase, out, changes, since>>

\* expectedPomSha256, _safe_missing_path of source, baseline and candidate
CheckPaths ==
  /\ SAt("bind") /\ left = {}
  /\ phase' = IF phase = "prepare" THEN "create" ELSE "final"
  /\ Demand(target.taken = {} /\ read[Owning] = target.commits[Expected][Owning], "head")
  /\ UNCHANGED <<target, read, chain, snap, held, left, out, changes, since>>

-----------------------------------------------------------------------------
(* _write_bundle.                                                          *)

MakeRoot ==
  /\ SAt("mkdir")
  /\ IF out.by = "nobody" THEN out' = [out EXCEPT !.by = "us"] /\ SGoto("write")
                          ELSE SGoto("error") /\ UNCHANGED out
  /\ UNCHANGED <<target, command, changes, since>>

WithFile(files, n, owner) == [m \in DOMAIN files \cup {n} |-> IF m = n THEN owner ELSE files[m]]
WithoutFile(files, n) == [m \in DOMAIN files \ {n} |-> files[m]]
NextFile == WriteOrder[CHOOSE i \in DOMAIN WriteOrder :
                         /\ WriteOrder[i] \notin DOMAIN out.files
                         /\ \A j \in 1 .. i - 1 : WriteOrder[j] \in DOMAIN out.files]

\* _write_one creates its file exclusively, and takes a file it cannot finish away
WriteFile ==
  /\ SAt("write") /\ ~(Files \subseteq DOMAIN out.files)
  /\ \/ out' = [out EXCEPT !.files = WithFile(@, NextFile, "us")] /\ UNCHANGED spc
     \/ UNCHANGED out /\ Deny
  /\ UNCHANGED <<target, command, changes, since>>

\* the target is verified without being looked at again
FinishWritingBug ==
  /\ SAt("write") /\ Files \subseteq DOMAIN out.files
  /\ since' = {target} /\ UNCHANGED phase /\ SGoto("verify")
  /\ UNCHANGED <<target, read, chain, snap, held, left, out, changes>>

\* _revalidate_target begins
FinishWriting ==
  /\ SAt("write") /\ Files \subseteq DOMAIN out.files
  /\ since' = {target} /\ phase' = "revalidate" /\ SGoto("head")
  /\ UNCHANGED <<target, read, chain, snap, held, left, out, changes>>

\* the named root, its exact inventory, every file's identity and bytes
VerifyOutput ==
  /\ SAt("verify")
  /\ Demand(out = [by |-> "us", files |-> [n \in Files |-> "us"]], "VERIFIED")
  /\ UNCHANGED <<target, command, out, changes, since>>

\* only the directory is removed, which fails when files are in it
CleanUpBug ==
  /\ SAt("cleanup") /\ SGoto("error")
  /\ out' = IF out.files = NoOutput.files THEN NoOutput ELSE out
  /\ UNCHANGED <<target, command, changes, since>>

\* _cleanup_created_bundle: each file that is still the one created, then the directory
\* if it is empty and still the one created; its errors are passed over
CleanUp ==
  /\ SAt("cleanup")
  /\ LET mine == {n \in DOMAIN out.files : out.files[n] = "us"} IN
     IF mine # {}
       THEN /\ \E n \in mine : out' = [out EXCEPT !.files = WithoutFile(@, n)]
            /\ UNCHANGED spc
       ELSE /\ SGoto("error")
            /\ out' = IF out = [NoOutput EXCEPT !.by = "us"] THEN NoOutput ELSE out
  /\ UNCHANGED <<target, command, changes, since>>

-----------------------------------------------------------------------------
(* Others.                                                                 *)

\* a commit or checkout, an edit, one the index hides, a file where one must not be, and
\* the way back
EditTarget ==
  /\ \/ \E c \in DOMAIN target.commits :
          target' = [target EXCEPT !.head = c, !.poms = target.commits[c], !.hidden = {}]
     \/ \E p \in DOMAIN target.poms, hide \in BOOLEAN :
          \E pom \in {[target.poms[p] EXCEPT !.v = 0], [target.poms[p] EXCEPT !.parent = "none"]} :
            target' = [target EXCEPT !.poms[p] = pom, !.hidden = IF hide THEN {p} ELSE @]
     \/ \E n \in Reserved : target' = [target EXCEPT !.taken = {n}]
  /\ since' = IF since = {} THEN {} ELSE since \cup {target'}
  /\ UNCHANGED out

\* the root is taken first; a file is added to it or put in the place of another
EditOutput ==
  /\ \/ out.by = "nobody" /\ out' = [out EXCEPT !.by = "other"]
     \/ /\ out.by = "us" /\ \E n \in Files \cup {"extra"} :
             out' = [out EXCEPT !.files = WithFile(@, n, "other")]
  /\ UNCHANGED <<target, since>>

StarterEdit ==
  /\ changes < StarterEdits /\ changes' = changes + 1 /\ spc \notin {"VERIFIED", "error"}
  /\ EditTarget \/ EditOutput
  /\ UNCHANGED <<spc, command>>

StarterNext ==
  \/ ReadPom \/ FollowParent \/ CheckText \/ TakeHead \/ TakeStatus \/ BindPom \/ CheckPaths
  \/ MakeRoot \/ WriteFile \/ FinishWriting \/ VerifyOutput \/ CleanUp \/ StarterEdit

-----------------------------------------------------------------------------
\* the POMs whose inheritance reaches the owning one, as the commit has them
ParentOf(p) ==
  LET poms == target.commits[Expected] IN IF p = Root THEN {} ELSE {poms[p].parent} \cap DOMAIN poms
Closed(S) == {Root, Owning} \subseteq S /\ \A p \in S : ParentOf(p) \subseteq S
Ancestors ==
  {p \in DOMAIN target.commits[Expected] :
     \A S \in SUBSET DOMAIN target.commits[Expected] : Closed(S) => p \in S}

\* A verified bundle was derived from the expected commit: the owning POM and every POM it
\* inherits from in that commit were read with that commit's bytes and passed the checks;
\* and since the bundle was complete the target was seen clean at that commit, with each
\* of these bytes, and with no pilot file in the way (_prepare, _revalidate_target).
BundleFitsTarget ==
  SAt("VERIFIED") =>
    /\ Bound = Ancestors
    /\ \A p \in Bound : Compared[p] = target.commits[Expected][p] /\ (p # Root => Compared[p].plain)
    /\ \E t \in since : t.head = Expected /\ Clean(t)
    /\ \A p \in Bound : \E t \in since : p \in DOMAIN t.poms /\ t.poms[p] = target.commits[Expected][p]
    /\ \E t \in since : t.taken = {}

\* A failed command leaves nothing it created behind, unless another process has put
\* something beside it: then only the directory stays (_cleanup_created_bundle).
FailureLeavesNothing ==
  SAt("error") =>
    /\ \A n \in DOMAIN out.files : out.files[n] # "us"
    /\ out.by = "us" => out.files # NoOutput.files
=============================================================================
