--------------------------- MODULE PublicRelease ----------------------------
(***************************************************************************)
(* build_public_release (release.py): copies an allowlist of files to a    *)
(* new directory and describes what it copied in a manifest.  Several      *)
(* builders may run for one destination, the source tree may be edited     *)
(* under them, and a builder may die half way.                             *)
(***************************************************************************)
EXTENDS Naturals, FiniteSets

CONSTANTS Builder,    \* executions of build_public_release.py
          Root,       \* PUBLIC_ROOT_FILES
          Found,      \* files below PUBLIC_DIRECTORIES
          Never,      \* those of them with a part that is never public
          MaxEdits    \* bound: changes of the source tree while builders run

(* Files are numbers: the order of their paths. *)
File == Root \union Found

ASSUME FileAssumption == File \subseteq Nat /\ Root \intersect Found = {} /\ Never \subseteq Found
ASSUME MaxEditsAssumption == MaxEdits \in Nat

VARIABLES
  source,     \* [File -> content]
  edits,      \* changes made so far
  tree,       \* the destination: [File -> content]
  exists,     \* whether there is one
  manifest,   \* what its RELEASE_MANIFEST.json says, [file -> digest]
  pc,         \* where the builder is
  unseen,     \* files it has still to look at
  todo,       \* files it has still to copy
  records,    \* [file -> digest] of those it has copied
  looked      \* history: the edits there had been when it looked at a file

vars == <<source, edits, tree, exists, manifest, pc, unseen, todo, records, looked>>

Nothing == [f \in {} |-> 0]

(* A manifest that is not there, and one that is half-written. *)
NoManifest == [state |-> "absent", files |-> Nothing]
TornManifest == [state |-> "torn", files |-> Nothing]

(* What is at a path, with the number of the edit that put it there, 0 if  *)
(* none did: a file, or a symbolic link to one.  In the destination, the   *)
(* latter is a copy of what that link leads to.  A link that leads nowhere *)
(* is as good as nothing.                                                  *)
PlainFile(n) == <<"file", n>>
Link(n) == <<"link", n>>
Missing == <<"missing", 0>>

IsLink(content) == content[1] = "link"

Init ==
  /\ source \in [File -> {PlainFile(0), Link(0), Missing}]
  /\ edits = 0
  /\ tree = [f \in File |-> Missing]
  /\ exists = FALSE
  /\ manifest = NoManifest
  /\ pc = [b \in Builder |-> "check"]
  /\ unseen = [b \in Builder |-> File]
  /\ todo = [b \in Builder |-> {}]
  /\ records = [b \in Builder |-> Nothing]
  /\ looked = [b \in Builder |-> [f \in File |-> 0]]

Move(b, from, to) == pc[b] = from /\ pc' = [pc EXCEPT ![b] = to]

UnchangedOutput == UNCHANGED <<tree, exists, manifest>>
UnchangedSource == UNCHANGED <<source, edits>>
UnchangedListing == UNCHANGED <<unseen, looked>>

(***************************************************************************)
(* iter_public_sources.                                                    *)
(***************************************************************************)

(* Mutant of Refused: symbolic links are let through. *)
RefusedMissing(f) == f \in Root /\ source[f] = Missing

Refused(f) ==
  \/ f \in Root /\ source[f] = Missing
  \/ f \notin Never /\ IsLink(source[f])

Wanted(f) == f \notin Never /\ source[f] # Missing

(* The walk comes to a file, to those below the directories last.          *)
ListFile(b, f) ==
  /\ pc[b] = "list"
  /\ f \in unseen[b]
  /\ f \in Found => Root \intersect unseen[b] = {}
  /\ unseen' = [unseen EXCEPT ![b] = @ \ {f}]
  /\ looked' = [looked EXCEPT ![b][f] = edits]
  /\ \/ Refused(f) /\ pc' = [pc EXCEPT ![b] = "failed"] /\ UNCHANGED todo
     \/ /\ ~Refused(f) /\ UNCHANGED pc
        /\ todo' = IF Wanted(f) THEN [todo EXCEPT ![b] = @ \union {f}] ELSE todo
  /\ UnchangedSource /\ UnchangedOutput /\ UNCHANGED records

(***************************************************************************)
(* build_public_release.                                                   *)
(***************************************************************************)

CheckDestination(b) ==
  /\ pc[b] = "check"
  /\ pc' = [pc EXCEPT ![b] = IF exists THEN "failed" ELSE "list"]
  /\ UnchangedSource /\ UnchangedOutput /\ UnchangedListing /\ UNCHANGED <<todo, records>>

(* Mutant of MakeDestination: mkdir(parents=True, exist_ok=True). *)
MakeDestinationAnyway(b) ==
  /\ Move(b, "list", "copy") /\ unseen[b] = {}
  /\ exists' = TRUE
  /\ UnchangedSource /\ UnchangedListing /\ UNCHANGED <<tree, manifest, todo, records>>

(* mkdir(parents=True) raises where the directory has appeared meanwhile. *)
MakeDestination(b) ==
  /\ pc[b] = "list" /\ unseen[b] = {}
  /\ pc' = [pc EXCEPT ![b] = IF exists THEN "failed" ELSE "copy"]
  /\ exists' = TRUE
  /\ UnchangedSource /\ UnchangedListing /\ UNCHANGED <<tree, manifest, todo, records>>

NextFile(b) == CHOOSE f \in todo[b] : \A g \in todo[b] : f <= g

(* A source that has gone since it was listed raises; one that has become  *)
(* a link is followed.                                                     *)
CopyFile(b) ==
  /\ pc[b] = "copy"
  /\ todo[b] # {}
  /\ LET f == NextFile(b)
     IN IF source[f] = Missing
          THEN pc' = [pc EXCEPT ![b] = "failed"] /\ UNCHANGED tree
          ELSE pc' = [pc EXCEPT ![b] = "record"] /\ tree' = [tree EXCEPT ![f] = source[f]]
  /\ UnchangedSource /\ UnchangedListing /\ UNCHANGED <<exists, manifest, todo, records>>

(* Mutant of RecordCopy: the digest is that of the source. *)
RecordSource(b) ==
  /\ Move(b, "record", "copy")
  /\ LET f == NextFile(b)
     IN /\ records' = [records EXCEPT ![b] =
             [g \in DOMAIN @ \union {f} |-> IF g = f THEN source[f] ELSE @[g]]]
        /\ todo' = [todo EXCEPT ![b] = @ \ {f}]
  /\ UnchangedSource /\ UnchangedOutput /\ UnchangedListing

(* The size and the digest are those of the destination. *)
RecordCopy(b) ==
  /\ Move(b, "record", "copy")
  /\ LET f == NextFile(b)
     IN /\ records' = [records EXCEPT ![b] =
             [g \in DOMAIN @ \union {f} |-> IF g = f THEN tree[f] ELSE @[g]]]
        /\ todo' = [todo EXCEPT ![b] = @ \ {f}]
  /\ UnchangedSource /\ UnchangedOutput /\ UnchangedListing

OpenManifest(b) ==
  /\ todo[b] = {}
  /\ Move(b, "copy", "manifest")
  /\ manifest' = TornManifest
  /\ UnchangedSource /\ UnchangedListing /\ UNCHANGED <<tree, exists, todo, records>>

FillManifest(b) ==
  /\ Move(b, "manifest", "done")
  /\ manifest' = [state |-> "written", files |-> records[b]]
  /\ UnchangedSource /\ UnchangedListing /\ UNCHANGED <<tree, exists, todo, records>>

(* The process dies, the disk is full. *)
Building == {"check", "list", "copy", "record", "manifest"}

Dies(b) ==
  /\ pc[b] \in Building
  /\ pc' = [pc EXCEPT ![b] = "failed"]
  /\ UnchangedSource /\ UnchangedOutput /\ UnchangedListing /\ UNCHANGED <<todo, records>>

(***************************************************************************)
(* The people who work on the tree.                                        *)
(***************************************************************************)

Edit(f) ==
  /\ edits < MaxEdits
  /\ edits' = edits + 1
  /\ \E content \in {PlainFile(edits'), Link(edits'), Missing} \ {source[f]} :
       source' = [source EXCEPT ![f] = content]
  /\ UnchangedOutput /\ UnchangedListing /\ UNCHANGED <<pc, todo, records>>

(* "remove it explicitly": nobody is building there. *)
RemoveDestination ==
  /\ exists
  /\ \A b \in Builder : pc[b] \notin {"copy", "record", "manifest"}
  /\ exists' = FALSE
  /\ tree' = [f \in File |-> Missing]
  /\ manifest' = NoManifest
  /\ UnchangedSource /\ UnchangedListing /\ UNCHANGED <<pc, todo, records>>

BuilderStep(b) ==
  \/ CheckDestination(b) \/ (\E f \in File : ListFile(b, f)) \/ MakeDestination(b)
  \/ CopyFile(b) \/ RecordCopy(b)
  \/ OpenManifest(b) \/ FillManifest(b)
  \/ Dies(b)

Next ==
  \/ \E b \in Builder : BuilderStep(b)
  \/ \E f \in File : Edit(f)
  \/ RemoveDestination

Spec == Init /\ [][Next]_vars

-----------------------------------------------------------------------------
(***************************************************************************)
(* Properties.                                                             *)
(***************************************************************************)

(* What lies behind a symbolic link was copied only where the link was     *)
(* made after the builder had looked at the file.                          *)
LinksCameLate(b) ==
  \A f \in DOMAIN records[b] : IsLink(records[b][f]) => records[b][f][2] > looked[b][f]

(* A written manifest lists exactly the files of the candidate, the        *)
(* required ones among them, with the digests they have, however many      *)
(* builders met there and whatever was edited meanwhile; it is the work of *)
(* one builder who finished, and who followed no link but one made between *)
(* his look at the file, which refuses links, and his copy, which follows  *)
(* them (release.py:68, 86 and 104-143).                                   *)
ManifestDescribesTree ==
  manifest.state = "written" =>
    /\ DOMAIN manifest.files = {f \in File : tree[f] # Missing}
    /\ \A f \in DOMAIN manifest.files : manifest.files[f] = tree[f]
    /\ Root \subseteq DOMAIN manifest.files
    /\ \E b \in Builder :
         pc[b] = "done" /\ manifest.files = records[b] /\ LinksCameLate(b)

(* A candidate that is complete is never touched again, short of being     *)
(* removed (release.py:104-108).                                           *)
FinishedIsFinal ==
  [][manifest.state = "written" /\ exists' => tree' = tree /\ manifest' = manifest]_vars
=============================================================================
