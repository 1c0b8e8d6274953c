------------------------ MODULE PublicRelease_proofs ------------------------
(***************************************************************************)
(* Proofs about PublicRelease, for any builders and any allowlist.         *)
(***************************************************************************)
EXTENDS PublicRelease, WellFoundedInduction, TLAPS

(* The order of paths.                                                     *)
Less == OpToRel(<, Nat)

(* Less is what its name says (release.py sorts by path).                  *)
LEMMA LessIsLess ==
  ASSUME NEW f \in Nat, NEW g \in Nat, g < f
  PROVE  <<g, f>> \in Less
<1>1. <<g, f>> \in Nat \X Nat /\ <<g, f>>[1] < <<g, f>>[2]
  OBVIOUS
<1> QED BY <1>1, Zenon DEF Less, OpToRel

(* A set of files that is not empty has a first one, so that NextFile is   *)
(* one of those left (sorted in iter_public_sources).                      *)
LEMMA FirstFile ==
  ASSUME NEW b \in Builder, todo[b] \subseteq File, todo[b] # {}
  PROVE  NextFile(b) \in todo[b]
<1>1. todo[b] \subseteq Nat
  BY FileAssumption
<1>2. PICK f \in todo[b] : \A g \in todo[b] : ~ (<<g, f>> \in Less)
  BY <1>1, NatLessThanWellFounded, WFMin, Zenon DEF Less
<1>3. \A g \in todo[b] : ~ (g < f)
  BY <1>1, <1>2, LessIsLess
<1>4. \A g \in todo[b] : f <= g
  BY <1>1, <1>3
<1> QED BY <1>4 DEF NextFile
-----------------------------------------------------------------------------
Before == {"check", "list"}
AtWork == {"copy", "record", "manifest"}

Present == {f \in File : tree[f] # Missing}

Typing ==
  /\ DOMAIN source = File
  /\ edits \in Nat
  /\ looked \in [Builder -> [File -> Nat]]
  /\ \A b \in Builder, f \in File : looked[b][f] <= edits
  /\ DOMAIN tree = File
  /\ pc \in [Builder -> Building \union {"done", "failed"}]
  /\ DOMAIN unseen = Builder
  /\ DOMAIN todo = Builder
  /\ DOMAIN records = Builder

(* What lies at a path was no link when a builder looked at it.            *)
Late(b, f, content) == IsLink(content) => content[2] > looked[b][f]

(* What a builder has looked at, and how far one is that is still looking. *)
Listed(b) ==
  /\ todo[b] \subseteq File \ unseen[b]
  /\ \A f \in todo[b] : Late(b, f, source[f])
  /\ pc[b] \in Before => records[b] = Nothing /\ Root \subseteq todo[b] \union unseen[b]

(* How far the one that has made it is.                                    *)
Copied(b) ==
  /\ Root \subseteq DOMAIN records[b] \union todo[b]
  /\ DOMAIN records[b] \subseteq File \ todo[b]
  /\ \A f \in DOMAIN records[b] : records[b][f] = tree[f]
  /\ pc[b] \in {"copy", "manifest"} => Present = DOMAIN records[b]
  /\ pc[b] = "record" => /\ todo[b] # {}
                         /\ Present = DOMAIN records[b] \union {NextFile(b)}
                         /\ Late(b, NextFile(b), tree[NextFile(b)])
  /\ pc[b] = "manifest" => todo[b] = {}

(* One builder at a time is past mkdir, and no manifest is written then.   *)
OneAtWork ==
  \A b \in Builder : pc[b] \in AtWork =>
    /\ exists /\ manifest.state # "written"
    /\ Copied(b)
    /\ \A c \in Builder : pc[c] \in AtWork => c = b

EmptyUnlessMade == ~exists => Present = {} /\ manifest = NoManifest

(* No builder has followed a link that was there when he looked.           *)
LinksLate == \A b \in Builder : LinksCameLate(b)

(* A written manifest says what is there.                                  *)
Described ==
  manifest.state = "written" =>
    /\ DOMAIN manifest.files = Present
    /\ \A f \in DOMAIN manifest.files : manifest.files[f] = tree[f]
    /\ Root \subseteq DOMAIN manifest.files

(* Its builder has finished, and has nothing more to record.               *)
Finished ==
  manifest.state = "written" =>
    \E b \in Builder : pc[b] = "done" /\ manifest.files = records[b]

IInv ==
  /\ Typing
  /\ \A b \in Builder : Listed(b)
  /\ OneAtWork
  /\ EmptyUnlessMade
  /\ LinksLate
  /\ Described

(* Every builder starts at the check and the destination is not there.     *)
LEMMA InvInit == Init => IInv
<1> SUFFICES ASSUME Init PROVE IInv
  OBVIOUS
<1> USE DEF Init
<1>1. Typing
  BY DEF Typing, Building
<1>2. \A b \in Builder : Listed(b)
  BY DEF Listed, File
<1>3. OneAtWork
  BY DEF OneAtWork, AtWork
<1>4. EmptyUnlessMade
  BY DEF EmptyUnlessMade, Present
<1>5. LinksLate
  BY DEF LinksLate, LinksCameLate, Nothing
<1>6. Described
  BY DEF Described, NoManifest
<1> QED BY <1>1, <1>2, <1>3, <1>4, <1>5, <1>6 DEF IInv

(* A look at a file leaves everything of the other builders and of the     *)
(* destination alone (release.py:64-90).                                   *)
LEMMA ListStep ==
  ASSUME IInv, NEW b \in Builder, NEW f \in File, ListFile(b, f)
  PROVE  IInv'
<1> USE DEF IInv
<1>a. /\ UNCHANGED <<source, edits, tree, exists, manifest, records>>
      /\ \A c \in Builder \ {b} : pc'[c] = pc[c] /\ todo'[c] = todo[c] /\ unseen'[c] = unseen[c]
      /\ pc[b] = "list" /\ pc'[b] \in {"failed", "list"}
      /\ pc' \in [Builder -> Building \union {"done", "failed"}]
      /\ f \in unseen[b] /\ unseen'[b] = unseen[b] \ {f}
      /\ DOMAIN unseen' = Builder /\ DOMAIN todo' = Builder
  BY DEF ListFile, UnchangedSource, UnchangedOutput, Typing, Building
<1>b. /\ looked' \in [Builder -> [File -> Nat]]
      /\ looked'[b][f] = edits
      /\ \A g \in File \ {f} : looked'[b][g] = looked[b][g]
      /\ \A c \in Builder \ {b} : looked'[c] = looked[c]
  BY DEF ListFile, Typing
<1>c. /\ pc'[b] = "failed" => todo'[b] = todo[b]
      /\ pc'[b] = "list" =>
           /\ ~Refused(f)
           /\ todo'[b] = IF Wanted(f) THEN todo[b] \union {f} ELSE todo[b]
  BY <1>a DEF ListFile, Typing
<1>1. Typing'
  <2>1. \A c \in Builder, g \in File : looked'[c][g] <= edits
    BY <1>b DEF Typing
  <2> QED BY <1>a, <1>b, <2>1 DEF Typing
<1>2. ASSUME NEW c \in Builder PROVE Listed(c)'
  <2>1. CASE c # b
    BY <1>a, <1>b, <2>1 DEF Listed, Late
  <2>2. CASE c = b
    <3>1. \A g \in todo[b] : g # f /\ g \in File /\ Late(b, g, source[g])'
      BY <1>a, <1>b DEF Listed, Late
    <3>2. ~Refused(f) /\ Wanted(f) => Late(b, f, source[f])'
      BY <1>a DEF Refused, Wanted, Late
    <3>3. f \in Root /\ ~Refused(f) => Wanted(f)
      BY FileAssumption DEF Refused, Wanted
    <3>4. todo'[b] \subseteq File \ unseen'[b]
      BY <1>a, <1>c DEF Listed
    <3>5. \A g \in todo'[b] : Late(b, g, source[g])'
      BY <1>a, <1>c, <3>1, <3>2
    <3>6. pc'[b] = "list" => Root \subseteq todo'[b] \union unseen'[b]
      BY <1>a, <1>c, <3>3 DEF Listed, Before
    <3>7. records'[b] = Nothing
      BY <1>a DEF Listed, Before
    <3> QED BY <1>a, <2>2, <3>4, <3>5, <3>6, <3>7 DEF Listed, Before
  <2> QED BY <2>1, <2>2
<1>3. OneAtWork'
  <2>1. \A c \in Builder : pc'[c] \in AtWork => c # b /\ pc[c] \in AtWork
    BY <1>a DEF AtWork
  <2>2. ASSUME NEW c \in Builder, pc'[c] \in AtWork PROVE Copied(c)'
    <3>1. /\ pc'[c] = pc[c] /\ todo'[c] = todo[c] /\ looked'[c] = looked[c]
          /\ UNCHANGED <<tree, records>>
      BY <1>a, <1>b, <2>1, <2>2
    <3>2. Copied(c)
      BY <2>1, <2>2 DEF OneAtWork
    <3>3. NextFile(c)' = NextFile(c) /\ Present' = Present
      BY <3>1 DEF NextFile, Present
    <3> QED BY <3>1, <3>2, <3>3 DEF Copied, Late
  <2> QED BY <1>a, <2>1, <2>2 DEF OneAtWork
<1>4. EmptyUnlessMade' /\ Described'
  BY <1>a DEF EmptyUnlessMade, Described, Present
<1>5. LinksLate'
  <2>1. records[b] = Nothing
    BY <1>a DEF Listed, Before
  <2>2. ASSUME NEW c \in Builder \ {b}, NEW g \in DOMAIN records[c], IsLink(records[c][g])
        PROVE  records[c][g][2] > looked'[c][g]
    BY <1>b, <2>2 DEF LinksLate, LinksCameLate
  <2> QED BY <1>a, <2>1, <2>2 DEF LinksLate, LinksCameLate, Nothing
<1> QED BY <1>1, <1>2, <1>3, <1>4, <1>5

(* So does the check of the destination, and a death (release.py:104-108). *)
LEMMA OutsideStep ==
  ASSUME IInv, NEW b \in Builder, CheckDestination(b) \/ Dies(b)
  PROVE  IInv'
<1> USE DEF IInv
<1>a. /\ UNCHANGED <<source, edits, tree, exists, manifest, records, unseen, todo, looked>>
      /\ \A c \in Builder \ {b} : pc'[c] = pc[c]
      /\ pc'[b] \in {"failed", "list"}
      /\ pc'[b] = "list" => pc[b] = "check"
      /\ pc' \in [Builder -> Building \union {"done", "failed"}]
  BY DEF CheckDestination, Dies, UnchangedSource, UnchangedOutput, UnchangedListing, Typing, Building
<1>1. Typing'
  BY <1>a DEF Typing
<1>2. \A c \in Builder : Listed(c)'
  BY <1>a DEF Listed, Late, Before
<1>3. OneAtWork'
  <2>1. \A c \in Builder : pc'[c] \in AtWork => c # b /\ pc[c] \in AtWork
    BY <1>a DEF AtWork
  <2>2. ASSUME NEW c \in Builder, pc'[c] \in AtWork PROVE Copied(c)'
    BY <1>a, <2>1, <2>2 DEF OneAtWork, Copied, Present, NextFile, Late
  <2> QED BY <1>a, <2>1, <2>2 DEF OneAtWork
<1>4. EmptyUnlessMade' /\ Described' /\ LinksLate'
  BY <1>a DEF EmptyUnlessMade, Described, Present, LinksLate, LinksCameLate
<1> QED BY <1>1, <1>2, <1>3, <1>4

(* Who makes the directory is the only one at work (release.py:110).       *)
LEMMA MakeStep ==
  ASSUME IInv, NEW b \in Builder, MakeDestination(b)
  PROVE  IInv'
<1> USE DEF IInv
<1>a. /\ UNCHANGED <<source, edits, tree, manifest, records, unseen, todo, looked>>
      /\ exists'
      /\ \A c \in Builder \ {b} : pc'[c] = pc[c]
      /\ pc[b] = "list" /\ unseen[b] = {}
      /\ pc'[b] = IF exists THEN "failed" ELSE "copy"
      /\ pc' \in [Builder -> Building \union {"done", "failed"}]
  BY DEF MakeDestination, UnchangedSource, UnchangedListing, Typing, Building
<1>1. Typing'
  BY <1>a DEF Typing
<1>2. \A c \in Builder : Listed(c)'
  BY <1>a DEF Listed, Before, Late
<1>3. OneAtWork'
  <2>1. CASE exists
    <3>1. \A c \in Builder : pc'[c] \in AtWork => pc[c] \in AtWork /\ pc'[c] = pc[c]
      BY <1>a, <2>1 DEF AtWork
    <3>2. ASSUME NEW c \in Builder, pc'[c] \in AtWork PROVE Copied(c)'
      BY <1>a, <3>1, <3>2 DEF OneAtWork, Copied, Present, NextFile, Late
    <3> QED BY <1>a, <3>1, <3>2 DEF OneAtWork
  <2>2. CASE ~exists
    <3>1. \A c \in Builder : pc[c] \notin AtWork
      BY <2>2 DEF OneAtWork
    <3>2. \A c \in Builder : pc'[c] \in AtWork => c = b
      BY <1>a, <3>1
    <3>3. Present' = {} /\ records'[b] = Nothing /\ manifest' = NoManifest
      BY <1>a, <2>2 DEF EmptyUnlessMade, Present, Listed, Before
    <3>4. Root \subseteq todo[b] /\ todo[b] \subseteq File
      BY <1>a DEF Listed, Before
    <3>5. DOMAIN records'[b] = {}
      BY <3>3 DEF Nothing
    <3>6. Copied(b)'
      BY <1>a, <2>2, <3>3, <3>4, <3>5 DEF Copied
    <3> QED BY <1>a, <3>2, <3>3, <3>6 DEF OneAtWork, NoManifest
  <2> QED BY <2>1, <2>2
<1>4. EmptyUnlessMade' /\ LinksLate' /\ Described'
  BY <1>a DEF EmptyUnlessMade, LinksLate, LinksCameLate, Described, Present
<1> QED BY <1>1, <1>2, <1>3, <1>4

(* A step of the builder at work that leaves what the others have seen     *)
(* alone keeps the invariant where it keeps his part of it.                *)
LEMMA WorkFrame ==
  ASSUME IInv, NEW b \in Builder, pc[b] \in AtWork,
         UNCHANGED <<source, edits, exists, unseen, looked>>,
         \A c \in Builder \ {b} : UNCHANGED <<pc[c], todo[c], records[c]>>,
         Typing', Listed(b)', LinksLate',
         pc'[b] \in AtWork => manifest'.state # "written" /\ Copied(b)',
         Described'
  PROVE  IInv'
<1> USE DEF IInv
<1>1. exists /\ \A c \in Builder \ {b} : pc[c] \notin AtWork
  BY DEF OneAtWork
<1>2. \A c \in Builder : pc'[c] \in AtWork => c = b
  BY <1>1
<1>3. OneAtWork'
  BY <1>1, <1>2 DEF OneAtWork
<1>4. \A c \in Builder : Listed(c)'
  BY DEF Listed, Late
<1>5. EmptyUnlessMade'
  BY <1>1 DEF EmptyUnlessMade
<1> QED BY <1>3, <1>4, <1>5

(* The copy: what is there now, behind a link if it came late, in the      *)
(* place that comes next (release.py:115-118).                             *)
LEMMA CopyStep ==
  ASSUME IInv, NEW b \in Builder, CopyFile(b)
  PROVE  IInv'
<1> USE DEF IInv
<1> DEFINE f == NextFile(b)
<1>a. /\ UNCHANGED <<source, edits, exists, manifest, unseen, todo, records, looked>>
      /\ pc[b] = "copy" /\ todo[b] # {}
      /\ \A c \in Builder \ {b} : pc'[c] = pc[c]
      /\ pc' \in [Builder -> Building \union {"done", "failed"}]
      /\ \/ pc'[b] = "failed" /\ UNCHANGED tree
         \/ /\ pc'[b] = "record" /\ source[f] # Missing
            /\ tree' = [tree EXCEPT ![f] = source[f]]
  BY DEF CopyFile, UnchangedSource, UnchangedListing, Typing, Building
<1>b. /\ f \in todo[b] /\ f \in File /\ f \notin DOMAIN records[b]
      /\ Late(b, f, source[f])
      /\ f' = f
  <2>1. todo[b] \subseteq File
    BY DEF Listed
  <2>2. f \in todo[b]
    BY <1>a, <2>1, FirstFile
  <2>3. f' = f
    BY <1>a DEF NextFile
  <2> QED BY <1>a, <2>1, <2>2, <2>3 DEF Listed, OneAtWork, AtWork, Copied
<1>c. pc[b] \in AtWork /\ manifest.state # "written" /\ Copied(b)
  BY <1>a DEF OneAtWork, AtWork
<1> HIDE DEF f
<1>1. Typing'
  BY <1>a DEF Typing
<1>2. Listed(b)'
  BY <1>a DEF Listed, Before, Late
<1>3. LinksLate'
  BY <1>a DEF LinksLate, LinksCameLate
<1>4. pc'[b] \in AtWork => Copied(b)'
  <2> SUFFICES ASSUME pc'[b] = "record", source[f] # Missing,
                      tree' = [tree EXCEPT ![f] = source[f]]
               PROVE  Copied(b)'
    BY <1>a DEF AtWork
  <2>1. Present' = Present \union {f}
    BY <1>b DEF Present, Typing
  <2>2. Present = DOMAIN records[b]
    BY <1>a, <1>c DEF Copied
  <2>3. \A g \in DOMAIN records[b] : tree'[g] = tree[g]
    BY <1>b, <1>c DEF Copied, Typing
  <2>4. Present' = DOMAIN records'[b] \union {NextFile(b)'}
    BY <1>a, <1>b, <2>1, <2>2 DEF f
  <2>5. Late(b, NextFile(b), tree[NextFile(b)])'
    BY <1>a, <1>b DEF Late, Typing, f
  <2> QED BY <1>a, <1>c, <2>3, <2>4, <2>5 DEF Copied
<1>5. Described'
  BY <1>a, <1>c DEF Described, Present
<1> QED BY <1>a, <1>c, <1>1, <1>2, <1>3, <1>4, <1>5, WorkFrame

(* The record: of what is at the destination (release.py:118-125).         *)
LEMMA RecordStep ==
  ASSUME IInv, NEW b \in Builder, RecordCopy(b)
  PROVE  IInv'
<1> USE DEF IInv
<1> DEFINE f == NextFile(b)
<1>a. /\ UNCHANGED <<source, edits, tree, exists, manifest, unseen, looked>>
      /\ pc[b] = "record" /\ pc'[b] = "copy"
      /\ \A c \in Builder \ {b} : pc'[c] = pc[c] /\ todo'[c] = todo[c] /\ records'[c] = records[c]
      /\ pc' \in [Builder -> Building \union {"done", "failed"}]
      /\ DOMAIN todo' = Builder /\ DOMAIN records' = Builder
      /\ todo'[b] = todo[b] \ {f}
      /\ records'[b] = [g \in DOMAIN records[b] \union {f} |->
                          IF g = f THEN tree[f] ELSE records[b][g]]
  BY DEF RecordCopy, Move, UnchangedSource, UnchangedOutput, UnchangedListing, Typing, Building
<1>c. pc[b] \in AtWork /\ manifest.state # "written" /\ Copied(b) /\ todo[b] # {}
  BY <1>a DEF OneAtWork, AtWork, Copied
<1>b. f \in todo[b] /\ f \in File
  <2>1. todo[b] \subseteq File
    BY DEF Listed
  <2> QED BY <1>c, <2>1, FirstFile
<1>d. Present = DOMAIN records[b] \union {f} /\ Late(b, f, tree[f])
  BY <1>a, <1>c DEF Copied
<1> HIDE DEF f
<1>1. Typing'
  BY <1>a DEF Typing
<1>2. Listed(b)'
  BY <1>a DEF Listed, Before, Late
<1>3. LinksLate'
  BY <1>a, <1>d DEF LinksLate, LinksCameLate, Late
<1>4. Copied(b)'
  <2>1. DOMAIN records'[b] = DOMAIN records[b] \union {f}
    BY <1>a
  <2>2. \A g \in DOMAIN records'[b] : records'[b][g] = tree'[g]
    BY <1>a, <1>c DEF Copied
  <2>3. Present' = DOMAIN records'[b]
    BY <1>a, <1>d, <2>1 DEF Present
  <2> QED BY <1>a, <1>b, <1>c, <2>1, <2>2, <2>3 DEF Copied
<1>5. Described'
  BY <1>a, <1>c DEF Described, Present
<1> QED BY <1>a, <1>c, <1>1, <1>2, <1>3, <1>4, <1>5, WorkFrame

(* The manifest is opened once there is nothing left to copy, and says     *)
(* what was recorded (release.py:127-143).                                 *)
LEMMA ManifestStep ==
  ASSUME IInv, NEW b \in Builder, OpenManifest(b) \/ FillManifest(b)
  PROVE  IInv'
<1> USE DEF IInv
<1>a. /\ UNCHANGED <<source, edits, tree, exists, unseen, todo, records, looked>>
      /\ \A c \in Builder \ {b} : pc'[c] = pc[c]
      /\ pc' \in [Builder -> Building \union {"done", "failed"}]
      /\ \/ /\ pc[b] = "copy" /\ pc'[b] = "manifest" /\ todo[b] = {}
            /\ manifest' = TornManifest
         \/ /\ pc[b] = "manifest" /\ pc'[b] = "done"
            /\ manifest' = [state |-> "written", files |-> records[b]]
  BY DEF OpenManifest, FillManifest, Move, UnchangedSource, UnchangedListing, Typing, Building
<1>c. pc[b] \in AtWork /\ Copied(b)
  BY <1>a DEF OneAtWork, AtWork
<1>1. Typing'
  BY <1>a DEF Typing
<1>2. Listed(b)'
  BY <1>a DEF Listed, Before, Late
<1>3. LinksLate'
  BY <1>a DEF LinksLate, LinksCameLate
<1>4. pc'[b] \in AtWork => manifest'.state # "written" /\ Copied(b)'
  BY <1>a, <1>c DEF Copied, Present, TornManifest, AtWork
<1>5. Described'
  <2>1. CASE manifest' = TornManifest
    BY <2>1 DEF Described, TornManifest
  <2>2. CASE pc[b] = "manifest" /\ manifest' = [state |-> "written", files |-> records[b]]
    <3>1. Present = DOMAIN records[b] /\ Root \subseteq DOMAIN records[b]
      BY <1>c, <2>2 DEF Copied
    <3>2. \A f \in DOMAIN records[b] : records[b][f] = tree[f]
      BY <1>c DEF Copied
    <3> QED BY <1>a, <2>2, <3>1, <3>2 DEF Described, Present
  <2> QED BY <1>a, <2>1, <2>2
<1> QED BY <1>a, <1>c, <1>1, <1>2, <1>3, <1>4, <1>5, WorkFrame

(* An edit of the source touches nothing a builder has written, and a link *)
(* that it makes is later than every look at the file (release.py:86).     *)
LEMMA EditStep ==
  ASSUME IInv, NEW f \in File, Edit(f)
  PROVE  IInv'
<1> USE DEF IInv
<1>a. /\ UNCHANGED <<tree, exists, manifest, pc, unseen, todo, records, looked>>
      /\ DOMAIN source' = File /\ edits' = edits + 1
      /\ source'[f] \in {PlainFile(edits'), Link(edits'), Missing}
      /\ \A g \in File \ {f} : source'[g] = source[g]
  BY DEF Edit, UnchangedOutput, UnchangedListing, Typing
<1>b. \A b \in Builder : Late(b, f, source'[f])
  <2>1. IsLink(source'[f]) => source'[f][2] = edits'
    BY <1>a DEF IsLink, PlainFile, Link, Missing
  <2> QED BY <1>a, <2>1 DEF Late, Typing
<1>1. Typing'
  BY <1>a DEF Typing
<1>2. ASSUME NEW b \in Builder PROVE Listed(b)'
  <2>1. \A g \in todo[b] : Late(b, g, source[g]) => Late(b, g, source'[g])
    BY <1>a, <1>b DEF Listed
  <2> QED BY <1>a, <2>1 DEF Listed, Late
<1>3. \A b \in Builder : Copied(b) => Copied(b)'
  BY <1>a DEF Copied, Present, NextFile, Late
<1>4. OneAtWork'
  BY <1>a, <1>3 DEF OneAtWork
<1>5. EmptyUnlessMade' /\ LinksLate' /\ Described'
  BY <1>a DEF EmptyUnlessMade, LinksLate, LinksCameLate, Described, Present
<1> QED BY <1>1, <1>2, <1>4, <1>5

(* Who removes a candidate removes all of it, while nobody is at work.     *)
LEMMA RemoveStep ==
  ASSUME IInv, RemoveDestination
  PROVE  IInv'
<1> USE DEF IInv, RemoveDestination, UnchangedSource, UnchangedListing
<1>1. Typing'
  BY DEF Typing
<1>2. \A b \in Builder : Listed(b)'
  BY DEF Listed, Late
<1>3. OneAtWork'
  BY DEF OneAtWork, AtWork
<1>4. EmptyUnlessMade' /\ LinksLate' /\ Described'
  BY DEF EmptyUnlessMade, LinksLate, LinksCameLate, Described, Present, NoManifest
<1> QED BY <1>1, <1>2, <1>3, <1>4

(* A step that changes nothing.                                            *)
LEMMA Stutter ==
  ASSUME IInv, UNCHANGED vars
  PROVE  IInv'
<1> USE DEF IInv, vars
<1>1. \A b \in Builder : Listed(b)' /\ (Copied(b) => Copied(b)')
  BY DEF Listed, Copied, Present, NextFile, Late
<1> QED BY <1>1 DEF Typing, OneAtWork, EmptyUnlessMade, LinksLate, LinksCameLate, Described, Present

(* Every step of the builders and of those who edit the tree keeps IInv.   *)
LEMMA InvStep == IInv /\ [Next]_vars => IInv'
BY ListStep, OutsideStep, MakeStep, CopyStep, RecordStep, ManifestStep, EditStep, RemoveStep, Stutter
   DEF Next, BuilderStep

(* IInv holds of every reachable state.                                    *)
LEMMA InvAlways == Spec => []IInv
BY InvInit, InvStep, PTL DEF Spec

(* The builder of a written manifest has finished: no step of his follows  *)
(* (release.py:138-143).                                                   *)
LEMMA FinishedStep ==
  ASSUME IInv, Finished, [Next]_vars
  PROVE  Finished'
<1> USE DEF Finished
<1>1. ASSUME NEW b \in Builder, BuilderStep(b) PROVE Finished'
  <2>1. \A c \in Builder : pc[c] = "done" => pc'[c] = "done" /\ records'[c] = records[c]
    BY <1>1 DEF BuilderStep, CheckDestination, ListFile, MakeDestination, CopyFile, RecordCopy,
                OpenManifest, FillManifest, Dies, Move, Building, IInv, Typing
  <2>2. CASE UNCHANGED manifest
    BY <2>1, <2>2
  <2>3. CASE OpenManifest(b)
    BY <2>3 DEF OpenManifest, TornManifest
  <2>4. CASE FillManifest(b)
    BY <2>4 DEF FillManifest, Move, IInv, Typing
  <2> QED BY <1>1, <2>2, <2>3, <2>4 DEF BuilderStep, CheckDestination, ListFile, MakeDestination,
                CopyFile, RecordCopy, Dies, UnchangedOutput
<1>2. CASE \E f \in File : Edit(f)
  BY <1>2 DEF Edit, UnchangedOutput
<1>3. CASE RemoveDestination
  BY <1>3 DEF RemoveDestination, NoManifest
<1>4. CASE UNCHANGED vars
  BY <1>4 DEF vars
<1> QED BY <1>1, <1>2, <1>3, <1>4 DEF Next

(* ManifestDescribesTree: what a written manifest says is what is there,   *)
(* and no link was followed but one made after the look, for any number of *)
(* builders and any edits (release.py:68, 86 and 104-143).                 *)
THEOREM ManifestIsTrue == Spec => []ManifestDescribesTree
<1>1. Init => Finished
  BY DEF Init, Finished, NoManifest
<1>2. IInv /\ Finished /\ [Next]_vars => Finished'
  BY FinishedStep
<1>3. IInv /\ Finished => ManifestDescribesTree
  BY DEF IInv, Described, Present, LinksLate, Finished, ManifestDescribesTree
<1> QED BY <1>1, <1>2, <1>3, InvAlways, PTL DEF Spec

(* FinishedIsFinal: nobody is at work on a finished candidate, and         *)
(* nobody can start (release.py:104-110).                                  *)
THEOREM CandidateIsFinal == Spec => FinishedIsFinal
<1>1. IInv /\ [Next]_vars =>
        [manifest.state = "written" /\ exists' => tree' = tree /\ manifest' = manifest]_vars
  <2> SUFFICES ASSUME IInv, [Next]_vars, manifest.state = "written", exists'
               PROVE  tree' = tree /\ manifest' = manifest
    OBVIOUS
  <2>1. \A b \in Builder : pc[b] \notin AtWork
    BY DEF IInv, OneAtWork
  <2>2. ASSUME NEW b \in Builder, BuilderStep(b)
        PROVE  tree' = tree /\ manifest' = manifest
    BY <2>1, <2>2 DEF BuilderStep, CheckDestination, ListFile, MakeDestination, CopyFile,
                      RecordCopy, OpenManifest, FillManifest, Dies, Move, UnchangedOutput, AtWork
  <2>3. CASE \E f \in File : Edit(f)
    BY <2>3 DEF Edit, UnchangedOutput
  <2>4. CASE RemoveDestination
    BY <2>4 DEF RemoveDestination
  <2>5. CASE UNCHANGED vars
    BY <2>5 DEF vars
  <2> QED BY <2>2, <2>3, <2>4, <2>5 DEF Next
<1> QED BY <1>1, InvAlways, PTL DEF Spec, FinishedIsFinal
=============================================================================
