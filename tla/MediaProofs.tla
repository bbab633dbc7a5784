----------------------------- MODULE MediaProofs ----------------------------
(* What a job is told of its media: the staged reference, the languages of   *)
(* its tracks, its dynamic HDR and the checks of what it made.  Each has its *)
(* own state and its own invariant.                                          *)
EXTENDS SourceStage, Languages, DynamicHdr, QualityGate, FiniteSetTheorems,
        SequenceTheorems, TLAPS

-----------------------------------------------------------------------------
(* For any titles, readers, and any number of changes, stops and jobs: a     *)
(* reference that its marker vouches for is of one version of the disc.      *)

-----------------------------------------------------------------------------
(* The inductive invariant.  Versions of a file only grow, so a version that *)
(* lies between the one the turn began with and the present one is the       *)
(* present one as soon as these two are equal.                               *)

Steps == {"idle", "stopped", "stage", "copy", "check", "rename", "remux", "remuxing", "remove"}
Maps  == {<<>>} \cup UNION {[S -> Nat] : S \in SUBSET DiscFiles}
Copies == [manifest : Maps, files : SUBSET (DiscFiles \X Readers \X Nat)]
Turns  == [title : SUBSET Clips, step : Steps, key : Maps, plan : Maps, root : {"disc", "copy"}]
Remuxes == [key : Maps, content : SUBSET (Clips \X Nat)]

Typed ==
    /\ clock \in Nat /\ source \in [DiscFiles -> Nat]
    /\ \A f \in DiscFiles : source[f] \in 1..clock
    /\ target \in Copies /\ partial \in Copies
    /\ turn \in Turns /\ remux \in Remuxes

\* A map of versions of these files that the disc had since the turn began.
SinceTheStart(m) ==
    \A f \in turn.title : f \in DOMAIN m /\ turn.key[f] <= m[f] /\ m[f] <= source[f]

\* The files of a copy are what its manifest says.
GoodCopy(c) == \A d \in c.files : d[1] \in DOMAIN c.manifest /\ d[3] = c.manifest[d[1]]

\* Of each of the files there is something.
Holds(c, files) == \A f \in files : \E d \in c.files : d[1] = f

TurnOK ==
    /\ turn.step # "idle" => turn.title \in Titles
    /\ turn.title # {} =>
         /\ DOMAIN turn.key = turn.title
         /\ \A f \in turn.title : turn.key[f] <= source[f]

CopyOK ==
    /\ GoodCopy(target)
    /\ turn.step \in {"copy", "check"} =>
         /\ DOMAIN turn.plan = turn.title \cup {"navigation"}
         /\ SinceTheStart(turn.plan)
         /\ \A f \in DOMAIN turn.plan : turn.plan[f] <= source[f]
         /\ \A d \in partial.files :
              d[1] \in DOMAIN turn.plan /\ turn.plan[d[1]] <= d[3] /\ d[3] <= source[d[1]]
    /\ turn.step = "check" => partial.manifest = turn.plan
    /\ turn.step \in {"check", "rename"} => Holds(partial, turn.title)
    /\ turn.step = "rename" => GoodCopy(partial) /\ SinceTheStart(partial.manifest)
    /\ turn.step \in {"remux", "remuxing", "remove"} /\ turn.root = "copy" =>
         Holds(target, turn.title) /\ SinceTheStart(target.manifest)

RemuxOK ==
    /\ turn.step = "remuxing" =>
         /\ remux.key = <<>>
         /\ \A f \in turn.title : \E p \in remux.content : p[1] = f
         /\ \A p \in remux.content : p[1] \in turn.title /\ turn.key[p[1]] <= p[2] /\ p[2] <= source[p[1]]
         /\ turn.root = "copy" => remux.content = {<<f, target.manifest[f]>> : f \in turn.title}
    /\ remux.key # <<>> =>
         /\ DOMAIN remux.key = turn.title
         /\ \A f \in turn.title : remux.key[f] <= source[f]
         /\ remux.key = ClipSnapshot => remux.content = {<<f, source[f]>> : f \in turn.title}

StageInv == Typed /\ TurnOK /\ CopyOK /\ RemuxOK

-----------------------------------------------------------------------------
(* Facts about the constants and the data                                    *)

\* What the assumption gives.
LEMMA DiscShape ==
    /\ Clips \subseteq DiscFiles /\ "navigation" \in DiscFiles /\ "navigation" \notin Clips
    /\ \A t \in Titles : t \subseteq Clips /\ t # {}
    /\ \E r : r \in Readers
BY SourceStageAssumption DEF Clips, DiscFiles

\* A map of versions gives a version for each file of its domain.
LEMMA MapsAreOfVersions ==
    /\ DOMAIN <<>> = {} /\ <<>> \in Maps
    /\ \A m \in Maps : \A f \in DOMAIN m : m[f] \in Nat
<1>1. DOMAIN <<>> = {}
  OBVIOUS
<1>2. ASSUME NEW m \in Maps, NEW f \in DOMAIN m PROVE m[f] \in Nat
  <2>1. CASE m = <<>>
    BY <1>1, <1>2, <2>1
  <2>2. CASE m # <<>>
    <3>1. PICK S \in SUBSET DiscFiles : m \in [S -> Nat]
      BY <1>2, <2>2 DEF Maps
    <3> QED BY <1>2, <3>1
  <2> QED BY <2>1, <2>2
<1> QED BY <1>1, <1>2 DEF Maps

\* A map over files of the disc is a map of versions.
LEMMA MapsOfFiles ==
    ASSUME NEW S \in SUBSET DiscFiles, NEW m \in [S -> Nat]
    PROVE  m \in Maps /\ DOMAIN m = S
BY DEF Maps

\* A step of the turn leaves its other fields.
LEMMA Stepped ==
    ASSUME turn \in Turns, NEW s \in Steps, StepTo(s)
    PROVE  /\ turn' \in Turns /\ turn'.step = s
           /\ turn'.title = turn.title /\ turn'.key = turn.key
           /\ turn'.plan = turn.plan /\ turn'.root = turn.root
BY DEF Turns, StepTo

\* So does a step that says where the remux reads.
LEMMA Rooted ==
    ASSUME turn \in Turns, NEW s \in Steps, NEW r \in {"disc", "copy"},
           turn' = [turn EXCEPT !.step = s, !.root = r]
    PROVE  /\ turn' \in Turns /\ turn'.step = s
           /\ turn'.title = turn.title /\ turn'.key = turn.key
           /\ turn'.plan = turn.plan /\ turn'.root = r
BY DEF Turns

\* No copy and no remux say nothing.
LEMMA Nothing ==
    /\ NoCopy \in Copies /\ NoCopy.files = {} /\ GoodCopy(NoCopy)
    /\ NoRemux \in Remuxes /\ NoRemux.key = <<>>
BY MapsAreOfVersions DEF NoCopy, NoRemux, Copies, Remuxes, GoodCopy

\* A copy by all readers holds something of each file.
LEMMA CopiedIsHeld ==
    ASSUME NEW c, NEW S, CopiedAll(c, S)
    PROVE  Holds(c, S)
<1>1. PICK r \in Readers : TRUE
  BY DiscShape
<1> SUFFICES ASSUME NEW f \in S PROVE \E d \in c.files : d[1] = f
  BY DEF Holds
<1>2. PICK v \in 1..clock : <<f, r, v>> \in c.files
  BY <1>1 DEF CopiedAll
<1> QED BY <1>2

\* The plan and the marker are maps of the files they speak of.
LEMMA Snapshots ==
    ASSUME Typed
    PROVE  /\ turn.title \in SUBSET Clips
           /\ \A t \in SUBSET DiscFiles : [f \in t |-> source[f]] \in Maps
           /\ Planned \in Maps /\ DOMAIN Planned = turn.title \cup {"navigation"}
           /\ \A f \in turn.title \cup {"navigation"} : Planned[f] = source[f] /\ source[f] \in Nat
           /\ ClipSnapshot \in Maps /\ DOMAIN ClipSnapshot = turn.title
           /\ \A f \in turn.title : ClipSnapshot[f] = source[f] /\ source[f] \in Nat
<1>1. turn.title \in SUBSET Clips
  BY DEF Typed, Turns
<1>2. \A t \in SUBSET DiscFiles : [f \in t |-> source[f]] \in [t -> Nat]
  BY DEF Typed
<1>3. \A t \in SUBSET DiscFiles : [f \in t |-> source[f]] \in Maps
  BY <1>2, MapsOfFiles
<1>4. turn.title \cup {"navigation"} \in SUBSET DiscFiles /\ turn.title \in SUBSET DiscFiles
  BY <1>1, DiscShape
<1> QED BY <1>1, <1>2, <1>3, <1>4 DEF Planned, ClipSnapshot, Typed

-----------------------------------------------------------------------------
(* The invariant holds at the beginning                                      *)

\* Nothing is copied or remuxed at the beginning.
LEMMA StageInit == SourceStageInit => StageInv
<1> SUFFICES ASSUME SourceStageInit PROVE StageInv
  OBVIOUS
<1> USE Nothing, MapsAreOfVersions
<1>1. turn \in Turns /\ turn.step = "idle" /\ turn.title = {}
  BY DEF SourceStageInit, AtHome, Turns, Steps
<1>2. Typed
  BY <1>1 DEF SourceStageInit, Typed
<1>3. TurnOK
  BY <1>1 DEF TurnOK
<1>4. CopyOK
  BY <1>1 DEF SourceStageInit, CopyOK
<1>5. RemuxOK
  BY <1>1 DEF SourceStageInit, RemuxOK
<1> QED BY <1>2, <1>3, <1>4, <1>5 DEF StageInv

-----------------------------------------------------------------------------
(* The turns                                                                 *)

LEMMA InvTurnStarts == StageInv /\ TurnStarts => StageInv'
<1> SUFFICES ASSUME StageInv, TurnStarts PROVE StageInv'
  OBVIOUS
<1> USE Nothing DEF StageInv
<1>0. UNCHANGED <<clock, source, target, partial>> /\ remux' = NoRemux
  BY DEF TurnStarts
<1>1. PICK t \in Titles, first \in FirstSteps :
         turn' = [AtHome EXCEPT !.title = t, !.key = [f \in t |-> source[f]], !.step = first]
  BY DEF TurnStarts
<1>2. t \subseteq Clips /\ t \in SUBSET DiscFiles /\ first \in {"stage", "remux"}
  BY DiscShape, <1>1 DEF FirstSteps
<1>3. [f \in t |-> source[f]] \in Maps
  BY <1>2, Snapshots
<1>4. turn' \in Turns /\ turn'.title = t /\ turn'.step = first /\ turn'.root = "disc"
      /\ turn'.key = [f \in t |-> source[f]]
  BY <1>1, <1>2, <1>3, MapsAreOfVersions DEF AtHome, Turns, Steps
<1>5. Typed'
  BY <1>0, <1>4 DEF Typed
<1>6. TurnOK'
  <2>1. \A f \in t : source[f] \in Nat
    BY <1>2 DEF Typed
  <2> QED BY <1>0, <1>1, <1>4, <2>1 DEF TurnOK
<1>7. CopyOK'
  BY <1>0, <1>2, <1>4 DEF CopyOK, GoodCopy
<1>8. RemuxOK'
  BY <1>0, <1>2, <1>4 DEF RemuxOK
<1> QED BY <1>5, <1>6, <1>7, <1>8

LEMMA InvTurnResumes == StageInv /\ TurnResumes => StageInv'
<1> SUFFICES ASSUME StageInv, TurnResumes PROVE StageInv'
  OBVIOUS
<1> USE DEF StageInv
<1>0. UNCHANGED <<clock, source, target, partial, remux>> /\ turn.step = "stopped"
  BY DEF TurnResumes
<1>1. PICK first \in FirstSteps :
         turn' = [turn EXCEPT !.key = ClipSnapshot, !.plan = <<>>, !.root = "disc",
                              !.step = IF remux.key = ClipSnapshot THEN "idle" ELSE first]
  BY DEF TurnResumes
<1>2. turn'.step \in {"idle", "stage", "remux"}
  BY <1>1 DEF FirstSteps, Typed, Turns
<1>3. turn' \in Turns /\ turn'.title = turn.title /\ turn'.root = "disc" /\ turn'.key = ClipSnapshot
  BY <1>1, Snapshots, MapsAreOfVersions DEF Typed, Turns, Steps, FirstSteps
<1>4. ClipSnapshot' = ClipSnapshot
  BY <1>0, <1>3 DEF ClipSnapshot
<1>5. Typed'
  BY <1>0, <1>3 DEF Typed
<1>6. TurnOK'
  BY <1>0, <1>2, <1>3, Snapshots DEF TurnOK
<1>7. CopyOK'
  BY <1>0, <1>2, <1>3 DEF CopyOK, GoodCopy
<1>8. RemuxOK'
  BY <1>0, <1>2, <1>3, <1>4 DEF RemuxOK
<1> QED BY <1>5, <1>6, <1>7, <1>8

-----------------------------------------------------------------------------
(* The copy                                                                  *)

\* A copy that matches is of the present disc.
LEMMA InvStageIsReused == StageInv /\ StageIsReused => StageInv'
<1> SUFFICES ASSUME StageInv, StageIsReused PROVE StageInv'
  OBVIOUS
<1> USE DEF StageInv
<1>0. UNCHANGED <<clock, source, target, partial, remux>> /\ turn.step = "stage" /\ ManifestMatches
  BY DEF StageIsReused
<1>1. /\ turn' \in Turns /\ turn'.step = "remux" /\ turn'.root = "copy"
      /\ turn'.title = turn.title /\ turn'.key = turn.key /\ turn'.plan = turn.plan
  BY Rooted DEF StageIsReused, Typed, Steps
<1>2. Holds(target, turn.title)
  BY <1>0, Snapshots, CopiedIsHeld DEF ManifestMatches, Holds
<1>3. SinceTheStart(target.manifest)
  BY <1>0, Snapshots DEF ManifestMatches, SinceTheStart, TurnOK
<1>4. Typed' /\ TurnOK'
  BY <1>0, <1>1 DEF Typed, TurnOK
<1>5. CopyOK'
  BY <1>0, <1>1, <1>2, <1>3 DEF CopyOK, GoodCopy, Holds, SinceTheStart
<1>6. RemuxOK'
  BY <1>0, <1>1 DEF RemuxOK, ClipSnapshot
<1> QED BY <1>4, <1>5, <1>6

LEMMA InvStageIsSkipped == StageInv /\ StageIsSkipped => StageInv'
<1> SUFFICES ASSUME StageInv, StageIsSkipped PROVE StageInv'
  OBVIOUS
<1> USE DEF StageInv
<1>0. UNCHANGED <<clock, source, target, partial, remux>> /\ turn.step = "stage"
  BY DEF StageIsSkipped
<1>1. /\ turn' \in Turns /\ turn'.step = "remux" /\ turn'.root = "disc"
      /\ turn'.title = turn.title /\ turn'.key = turn.key /\ turn'.plan = turn.plan
  BY Rooted DEF StageIsSkipped, Typed, Steps
<1>2. Typed' /\ TurnOK'
  BY <1>0, <1>1 DEF Typed, TurnOK
<1>3. CopyOK'
  BY <1>0, <1>1 DEF CopyOK, GoodCopy
<1>4. RemuxOK'
  BY <1>0, <1>1 DEF RemuxOK, ClipSnapshot
<1> QED BY <1>2, <1>3, <1>4

LEMMA InvStageStarts == StageInv /\ StageStarts => StageInv'
<1> SUFFICES ASSUME StageInv, StageStarts PROVE StageInv'
  OBVIOUS
<1> USE Nothing DEF StageInv
<1>0. UNCHANGED <<clock, source, remux>> /\ turn.step = "stage" /\ target' = NoCopy /\ partial' = NoCopy
  BY DEF StageStarts
<1>1. /\ turn' \in Turns /\ turn'.step = "copy" /\ turn'.plan = Planned
      /\ turn'.title = turn.title /\ turn'.key = turn.key
  BY Snapshots DEF StageStarts, Typed, Turns, Steps
<1>2. Typed' /\ TurnOK'
  BY <1>0, <1>1 DEF Typed, TurnOK
<1>3. /\ DOMAIN Planned = turn.title \cup {"navigation"} /\ SinceTheStart(Planned)
      /\ \A f \in DOMAIN Planned : Planned[f] <= source[f]
  BY <1>0, Snapshots DEF SinceTheStart, TurnOK
<1>4. CopyOK'
  BY <1>0, <1>1, <1>3 DEF CopyOK, SinceTheStart
<1>5. RemuxOK'
  BY <1>0, <1>1 DEF RemuxOK, ClipSnapshot
<1> QED BY <1>2, <1>4, <1>5

LEMMA InvCopyRange == StageInv /\ CopyRange => StageInv'
<1> SUFFICES ASSUME StageInv, CopyRange PROVE StageInv'
  OBVIOUS
<1> USE DEF StageInv
<1>0. UNCHANGED <<clock, source, target, turn, remux>> /\ turn.step = "copy"
  BY DEF CopyRange
<1>1. PICK f \in DOMAIN turn.plan, r \in Readers :
         partial' = [partial EXCEPT !.files = @ \cup {<<f, r, source[f]>>}]
  BY DEF CopyRange
<1>2. DOMAIN turn.plan = turn.title \cup {"navigation"}
  BY <1>0 DEF CopyOK
<1>3. f \in DiscFiles /\ source[f] \in Nat
  BY <1>2, Snapshots, DiscShape
<1>4. /\ partial' \in Copies
      /\ partial'.files = partial.files \cup {<<f, r, source[f]>>}
  BY <1>1, <1>3 DEF Typed, Copies
<1>5. turn.plan[f] <= source[f]
  BY <1>0, <1>1 DEF CopyOK
<1>6. Typed' /\ TurnOK' /\ RemuxOK'
  BY <1>0, <1>4 DEF Typed, TurnOK, RemuxOK, ClipSnapshot
<1>7. CopyOK'
  BY <1>0, <1>3, <1>4, <1>5 DEF CopyOK, GoodCopy, SinceTheStart
<1> QED BY <1>6, <1>7

\* Whatever ends the copy takes what it has written with it.
LEMMA InvCopyFails == StageInv /\ CopyFails => StageInv'
<1> SUFFICES ASSUME StageInv, CopyFails PROVE StageInv'
  OBVIOUS
<1> USE Nothing DEF StageInv
<1>0. UNCHANGED <<clock, source, target, remux>> /\ partial' = NoCopy /\ turn.step = "copy"
  BY DEF CopyFails
<1>1. /\ turn' \in Turns /\ turn'.title = turn.title /\ turn'.key = turn.key
      /\ \/ turn'.step = "remux" /\ turn'.root = "disc"
         \/ turn'.step = "stopped"
  <2>1. CASE turn' = [turn EXCEPT !.step = "remux", !.root = "disc"]
    BY <2>1, Rooted DEF Typed, Steps
  <2>2. CASE StepTo("stopped")
    BY <2>2, Stepped DEF Typed, Steps
  <2> QED BY <2>1, <2>2 DEF CopyFails
<1>2. Typed' /\ TurnOK'
  BY <1>0, <1>1 DEF Typed, TurnOK
<1>3. CopyOK'
  BY <1>0, <1>1 DEF CopyOK, GoodCopy
<1>4. RemuxOK'
  BY <1>0, <1>1 DEF RemuxOK, ClipSnapshot
<1> QED BY <1>2, <1>3, <1>4

LEMMA InvWriteManifest == StageInv /\ WriteManifest => StageInv'
<1> SUFFICES ASSUME StageInv, WriteManifest PROVE StageInv'
  OBVIOUS
<1> USE DEF StageInv
<1>0. /\ UNCHANGED <<clock, source, target, remux>> /\ turn.step = "copy"
      /\ CopiedAll(partial, DOMAIN turn.plan) /\ StepTo("check")
      /\ partial' = [partial EXCEPT !.manifest = turn.plan]
  BY DEF WriteManifest
<1>1. /\ turn' \in Turns /\ turn'.step = "check"
      /\ turn'.title = turn.title /\ turn'.key = turn.key /\ turn'.plan = turn.plan
  BY <1>0, Stepped DEF Typed, Steps
<1>2. partial' \in Copies /\ partial'.manifest = turn.plan /\ partial'.files = partial.files
  BY <1>0 DEF Typed, Copies, Turns
<1>3. Holds(partial', turn'.title)
  <2>1. Holds(partial, DOMAIN turn.plan)
    BY <1>0, CopiedIsHeld
  <2> QED BY <1>0, <1>1, <1>2, <2>1 DEF Holds, CopyOK
<1>4. Typed' /\ TurnOK'
  BY <1>0, <1>1, <1>2 DEF Typed, TurnOK
<1>5. CopyOK'
  BY <1>0, <1>1, <1>2, <1>3 DEF CopyOK, GoodCopy, SinceTheStart
<1>6. RemuxOK'
  BY <1>0, <1>1 DEF RemuxOK, ClipSnapshot
<1> QED BY <1>4, <1>5, <1>6

\* A disc that is still the planned one has only been read as planned.
LEMMA InvStageChecks == StageInv /\ StageChecks => StageInv'
<1> SUFFICES ASSUME StageInv, StageChecks PROVE StageInv'
  OBVIOUS
<1> USE Nothing DEF StageInv
<1>0. UNCHANGED <<clock, source, target, remux>> /\ turn.step = "check"
  BY DEF StageChecks
<1>1. CASE SourceUnchanged /\ StepTo("rename") /\ UNCHANGED partial
  <2>1. /\ turn' \in Turns /\ turn'.step = "rename"
        /\ turn'.title = turn.title /\ turn'.key = turn.key /\ turn'.plan = turn.plan
    BY <1>1, Stepped DEF Typed, Steps
  <2>2. partial.manifest = turn.plan /\ turn.plan = Planned
    BY <1>0, <1>1 DEF CopyOK, SourceUnchanged
  <2>3. GoodCopy(partial)
    <3> SUFFICES ASSUME NEW d \in partial.files
                 PROVE  d[1] \in DOMAIN partial.manifest /\ d[3] = partial.manifest[d[1]]
      BY DEF GoodCopy
    <3>1. d[1] \in DOMAIN turn.plan /\ turn.plan[d[1]] <= d[3] /\ d[3] <= source[d[1]]
      BY <1>0 DEF CopyOK
    <3>2. d[3] \in Nat
      BY DEF Typed, Copies
    <3>3. turn.plan[d[1]] = source[d[1]] /\ source[d[1]] \in Nat
      BY <2>2, <3>1, Snapshots
    <3> QED BY <2>2, <3>1, <3>2, <3>3
  <2>4. Typed' /\ TurnOK'
    BY <1>0, <1>1, <2>1 DEF Typed, TurnOK
  <2>5. CopyOK'
    BY <1>0, <1>1, <2>1, <2>2, <2>3 DEF CopyOK, GoodCopy, SinceTheStart, Holds
  <2>6. RemuxOK'
    BY <1>0, <2>1 DEF RemuxOK, ClipSnapshot
  <2> QED BY <2>4, <2>5, <2>6
<1>2. CASE turn' = [turn EXCEPT !.step = "remux", !.root = "disc"] /\ partial' = NoCopy
  <2>1. /\ turn' \in Turns /\ turn'.step = "remux" /\ turn'.root = "disc"
        /\ turn'.title = turn.title /\ turn'.key = turn.key /\ turn'.plan = turn.plan
    BY <1>2, Rooted DEF Typed, Steps
  <2>2. Typed' /\ TurnOK'
    BY <1>0, <1>2, <2>1 DEF Typed, TurnOK
  <2>3. CopyOK'
    BY <1>0, <1>2, <2>1 DEF CopyOK, GoodCopy
  <2>4. RemuxOK'
    BY <1>0, <2>1 DEF RemuxOK, ClipSnapshot
  <2> QED BY <2>2, <2>3, <2>4
<1> QED BY <1>1, <1>2 DEF StageChecks

LEMMA InvStageEnds == StageInv /\ StageEnds => StageInv'
<1> SUFFICES ASSUME StageInv, StageEnds PROVE StageInv'
  OBVIOUS
<1> USE Nothing DEF StageInv
<1>0. /\ UNCHANGED <<clock, source, remux>> /\ turn.step = "rename"
      /\ target' = partial /\ partial' = NoCopy
  BY DEF StageEnds
<1>1. /\ turn' \in Turns /\ turn'.step = "remux"
      /\ turn'.title = turn.title /\ turn'.key = turn.key /\ turn'.plan = turn.plan
  BY Rooted DEF StageEnds, Typed, Steps
<1>2. Typed' /\ TurnOK'
  BY <1>0, <1>1 DEF Typed, TurnOK
<1>3. GoodCopy(partial) /\ SinceTheStart(partial.manifest) /\ Holds(partial, turn.title)
  BY <1>0 DEF CopyOK
<1>4. CopyOK'
  BY <1>0, <1>1, <1>3 DEF CopyOK, GoodCopy, SinceTheStart, Holds
<1>5. RemuxOK'
  BY <1>0, <1>1 DEF RemuxOK, ClipSnapshot
<1> QED BY <1>2, <1>4, <1>5

-----------------------------------------------------------------------------
(* The remux                                                                 *)

\* What is read now is of the title, of versions since the turn began; of a
\* copy it is what the manifest says.
LEMMA ReadIsSinceTheStart ==
    ASSUME StageInv, turn.step \in {"remux", "remuxing"}
    PROVE  /\ ReadNow \in SUBSET (Clips \X Nat)
           /\ \A f \in turn.title : \E p \in ReadNow : p[1] = f
           /\ \A p \in ReadNow : p[1] \in turn.title /\ turn.key[p[1]] <= p[2] /\ p[2] <= source[p[1]]
           /\ turn.root = "copy" => ReadNow = {<<f, target.manifest[f]>> : f \in turn.title}
<1> USE DEF StageInv
<1>1. /\ turn.title \in SUBSET Clips /\ turn.title # {}
      /\ \A f \in turn.title : source[f] \in Nat /\ turn.key[f] <= source[f]
  BY DiscShape, Snapshots DEF TurnOK
<1>2. CASE turn.root = "copy"
  <2>1. Holds(target, turn.title) /\ SinceTheStart(target.manifest) /\ GoodCopy(target)
    BY <1>2 DEF CopyOK
  <2>2. \A f \in turn.title : target.manifest[f] \in Nat
    BY <2>1, MapsAreOfVersions DEF Typed, Copies, SinceTheStart
  <2>3. ReadNow = {<<f, target.manifest[f]>> : f \in turn.title}
    <3>1. ASSUME NEW p \in ReadNow PROVE p \in {<<f, target.manifest[f]>> : f \in turn.title}
      <4>1. PICK d \in target.files : d[1] \in turn.title /\ p = <<d[1], d[3]>>
        BY <1>2, <3>1 DEF ReadNow
      <4>2. d[3] = target.manifest[d[1]]
        BY <2>1, <4>1 DEF GoodCopy
      <4> QED BY <4>1, <4>2
    <3>2. ASSUME NEW f \in turn.title PROVE <<f, target.manifest[f]>> \in ReadNow
      <4>1. PICK d \in target.files : d[1] = f
        BY <2>1 DEF Holds
      <4>2. d[3] = target.manifest[f]
        BY <2>1, <4>1 DEF GoodCopy
      <4> QED BY <1>2, <4>1, <4>2 DEF ReadNow
    <3> QED BY <3>1, <3>2
  <2>4. /\ ReadNow \in SUBSET (Clips \X Nat)
        /\ \A f \in turn.title : \E p \in ReadNow : p[1] = f
        /\ \A p \in ReadNow : p[1] \in turn.title /\ p[2] = target.manifest[p[1]]
    <3>1. /\ \A p \in ReadNow : \E f \in turn.title : p = <<f, target.manifest[f]>>
          /\ \A f \in turn.title : <<f, target.manifest[f]>> \in ReadNow
      BY <2>3
    <3>2. \A p \in ReadNow : p \in Clips \X Nat /\ p[1] \in turn.title /\ p[2] = target.manifest[p[1]]
      BY <1>1, <2>2, <3>1
    <3>3. \A f \in turn.title : \E p \in ReadNow : p[1] = f
      BY <3>1
    <3> QED BY <3>2, <3>3
  <2> QED BY <2>1, <2>3, <2>4 DEF SinceTheStart
<1>3. CASE turn.root # "copy"
  <2>1. ReadNow = {<<f, source[f]>> : f \in turn.title}
    BY <1>3 DEF ReadNow
  <2>2. /\ ReadNow \in SUBSET (Clips \X Nat)
        /\ \A f \in turn.title : \E p \in ReadNow : p[1] = f
        /\ \A p \in ReadNow : p[1] \in turn.title /\ p[2] = source[p[1]]
    <3>1. /\ \A p \in ReadNow : \E f \in turn.title : p = <<f, source[f]>>
          /\ \A f \in turn.title : <<f, source[f]>> \in ReadNow
      BY <2>1
    <3>2. \A p \in ReadNow : p \in Clips \X Nat /\ p[1] \in turn.title /\ p[2] = source[p[1]]
      BY <1>1, <3>1
    <3>3. \A f \in turn.title : \E p \in ReadNow : p[1] = f
      BY <3>1
    <3> QED BY <3>2, <3>3
  <2> QED BY <1>1, <1>3, <2>2
<1> QED BY <1>2, <1>3

LEMMA InvRemuxStarts == StageInv /\ RemuxStarts => StageInv'
<1> SUFFICES ASSUME StageInv, RemuxStarts PROVE StageInv'
  OBVIOUS
<1> USE DEF StageInv
<1>0. /\ UNCHANGED <<clock, source, target, partial>> /\ turn.step = "remux"
      /\ remux' = [key |-> <<>>, content |-> ReadNow]
  BY DEF RemuxStarts
<1>1. /\ turn' \in Turns /\ turn'.step = "remuxing" /\ turn'.root = turn.root
      /\ turn'.title = turn.title /\ turn'.key = turn.key /\ turn'.plan = turn.plan
  BY Stepped DEF RemuxStarts, Typed, Steps
<1>2. remux'.key = <<>> /\ remux'.content = ReadNow /\ remux' \in Remuxes
  BY <1>0, ReadIsSinceTheStart, MapsAreOfVersions DEF Remuxes
<1>3. Typed' /\ TurnOK'
  BY <1>0, <1>1, <1>2 DEF Typed, TurnOK
<1>4. CopyOK'
  BY <1>0, <1>1 DEF CopyOK, GoodCopy, SinceTheStart, Holds
<1>5. RemuxOK'
  BY <1>0, <1>1, <1>2, ReadIsSinceTheStart DEF RemuxOK
<1> QED BY <1>3, <1>4, <1>5

\* If the disc is the one the turn began with, nothing in between was another.
LEMMA InvRemuxEnds == StageInv /\ RemuxEnds => StageInv'
<1> SUFFICES ASSUME StageInv, RemuxEnds PROVE StageInv'
  OBVIOUS
<1> USE DEF StageInv
<1>0. /\ UNCHANGED <<clock, source, target, partial>> /\ turn.step = "remuxing"
      /\ remux' = [key |-> turn.key, content |-> remux.content \cup ReadNow]
  BY DEF RemuxEnds
<1>1. /\ turn' \in Turns /\ turn'.step \in {"remove", "idle"} /\ turn'.root = turn.root
      /\ turn'.step = "remove" => turn.root = "copy"
      /\ turn'.title = turn.title /\ turn'.key = turn.key /\ turn'.plan = turn.plan
  BY Stepped DEF RemuxEnds, Typed, Steps
<1>2. /\ remux'.key = turn.key /\ remux'.content = remux.content \cup ReadNow
      /\ remux' \in Remuxes
  BY <1>0, ReadIsSinceTheStart DEF Remuxes, Typed, Turns
<1>3. Typed' /\ TurnOK'
  BY <1>0, <1>1, <1>2 DEF Typed, TurnOK
<1>4. CopyOK'
  BY <1>0, <1>1 DEF CopyOK, GoodCopy, SinceTheStart, Holds
<1>5. /\ \A f \in turn.title : \E p \in remux'.content : p[1] = f
      /\ \A p \in remux'.content : p[1] \in turn.title /\ turn.key[p[1]] <= p[2] /\ p[2] <= source[p[1]]
  BY <1>0, <1>2, ReadIsSinceTheStart DEF RemuxOK
<1>6. ClipSnapshot' = ClipSnapshot
  BY <1>0, <1>1 DEF ClipSnapshot
<1>7. DOMAIN turn.key = turn.title /\ \A f \in turn.title : turn.key[f] <= source[f]
  BY <1>0, DiscShape DEF TurnOK
<1>8. ASSUME turn.key = ClipSnapshot
      PROVE  remux'.content = {<<f, source[f]>> : f \in turn.title}
  <2>1. \A f \in turn.title : turn.key[f] = source[f] /\ source[f] \in Nat
    BY <1>8, Snapshots
  <2>2. ASSUME NEW p \in remux'.content
        PROVE  p[1] \in turn.title /\ p = <<p[1], source[p[1]]>>
    <3>1. p \in Clips \X Nat
      BY <1>2 DEF Remuxes
    <3>2. p[1] \in turn.title /\ source[p[1]] <= p[2] /\ p[2] <= source[p[1]] /\ source[p[1]] \in Nat
      BY <1>5, <2>1
    <3>3. p = <<p[1], p[2]>> /\ p[2] \in Nat
      BY <3>1
    <3>4. p[2] = source[p[1]]
      BY <3>2, <3>3
    <3> QED BY <3>2, <3>3, <3>4
  <2>3. ASSUME NEW f \in turn.title PROVE <<f, source[f]>> \in remux'.content
    <3>1. PICK p \in remux'.content : p[1] = f
      BY <1>5
    <3> QED BY <2>2, <3>1
  <2> QED BY <2>2, <2>3
<1>9. RemuxOK'
  BY <1>0, <1>1, <1>2, <1>6, <1>7, <1>8 DEF RemuxOK
<1> QED BY <1>3, <1>4, <1>9

LEMMA InvRemoveStage == StageInv /\ RemoveStage => StageInv'
<1> SUFFICES ASSUME StageInv, RemoveStage PROVE StageInv'
  OBVIOUS
<1> USE Nothing DEF StageInv
<1>0. UNCHANGED <<clock, source, partial, remux>> /\ target' = NoCopy /\ turn.step = "remove"
  BY DEF RemoveStage
<1>1. /\ turn' \in Turns /\ turn'.step = "idle"
      /\ turn'.title = turn.title /\ turn'.key = turn.key /\ turn'.plan = turn.plan
  BY Stepped DEF RemoveStage, Typed, Steps
<1>2. Typed' /\ TurnOK'
  BY <1>0, <1>1 DEF Typed, TurnOK
<1>3. CopyOK'
  BY <1>0, <1>1 DEF CopyOK
<1>4. RemuxOK'
  BY <1>0, <1>1 DEF RemuxOK, ClipSnapshot
<1> QED BY <1>2, <1>3, <1>4

-----------------------------------------------------------------------------
(* The disc and the worker                                                   *)

\* A changed file has a version it never had.
LEMMA InvDiscChanges == StageInv /\ DiscChanges => StageInv'
<1> SUFFICES ASSUME StageInv, DiscChanges PROVE StageInv'
  OBVIOUS
<1> USE DEF StageInv
<1>0. UNCHANGED <<target, partial, turn, remux>> /\ clock' = clock + 1
  BY DEF DiscChanges
<1>1. PICK fs \in SUBSET DiscFiles \ {{}} :
         source' = [f \in DiscFiles |-> IF f \in fs THEN clock + 1 ELSE source[f]]
  BY DEF DiscChanges
<1>2. clock \in Nat /\ \A f \in DiscFiles : source[f] \in 1..clock
  BY DEF Typed
<1>3. \A f \in DiscFiles :
         /\ source'[f] \in 1..(clock + 1) /\ source[f] <= source'[f]
         /\ source'[f] = clock + 1 \/ source'[f] = source[f]
  BY <1>1, <1>2
<1>4. turn.title \subseteq DiscFiles /\ turn.title \in SUBSET Clips
  BY DiscShape, Snapshots
<1>5. Typed'
  <2>1. source' \in [DiscFiles -> Nat]
    BY <1>1, <1>2
  <2> QED BY <1>0, <1>2, <1>3, <2>1 DEF Typed
<1>6. \A m \in Maps : \A f \in DiscFiles :
         f \in DOMAIN m /\ m[f] <= source[f] => m[f] <= source'[f]
  BY <1>2, <1>3, MapsAreOfVersions
<1>7. turn.key \in Maps /\ turn.plan \in Maps /\ target.manifest \in Maps
      /\ partial.manifest \in Maps /\ remux.key \in Maps
  BY DEF Typed, Turns, Copies, Remuxes
<1>8. TurnOK'
  BY <1>0, <1>4, <1>6, <1>7 DEF TurnOK
<1>9. \A m \in Maps : SinceTheStart(m) => SinceTheStart(m)'
  BY <1>0, <1>4, <1>6 DEF SinceTheStart
<1>10. CopyOK'
  <2>1. ASSUME turn.step \in {"copy", "check"}
        PROVE  /\ \A f \in DOMAIN turn.plan : turn.plan[f] <= source'[f]
               /\ \A d \in partial.files : d[3] <= source'[d[1]]
    <3>1. DOMAIN turn.plan \subseteq DiscFiles
      BY <1>4, <2>1, DiscShape DEF CopyOK
    <3>2. \A f \in DOMAIN turn.plan : turn.plan[f] <= source'[f]
      BY <1>6, <1>7, <2>1, <3>1 DEF CopyOK
    <3>3. ASSUME NEW d \in partial.files PROVE d[3] <= source'[d[1]]
      <4>1. d[1] \in DiscFiles /\ d[3] \in Nat /\ d[3] <= source[d[1]]
        BY <2>1 DEF Typed, Copies, CopyOK
      <4> QED BY <1>2, <1>3, <4>1
    <3> QED BY <3>2, <3>3
  <2> QED BY <1>0, <1>7, <1>9, <2>1 DEF CopyOK, GoodCopy, Holds
<1>11. RemuxOK'
  <2>1. ASSUME turn.step = "remuxing", NEW p \in remux.content PROVE p[2] <= source'[p[1]]
    <3>1. p[1] \in DiscFiles /\ p[2] \in Nat /\ p[2] <= source[p[1]]
      BY <1>4, <2>1 DEF Typed, Remuxes, RemuxOK
    <3> QED BY <1>2, <1>3, <3>1
  <2>2. ASSUME remux.key # <<>>
        PROVE  \A f \in turn.title : remux.key[f] <= source'[f]
    BY <1>4, <1>6, <1>7, <2>2 DEF RemuxOK
  <2>3. ASSUME remux.key # <<>>, remux.key = ClipSnapshot'
        PROVE  remux.content = {<<f, source'[f]>> : f \in turn.title}
    <3>1. \A f \in turn.title : remux.key[f] = source'[f] /\ remux.key[f] <= source[f]
      BY <1>0, <2>3 DEF ClipSnapshot, RemuxOK
    <3>2. \A f \in turn.title : source'[f] = source[f]
      BY <1>2, <1>3, <1>4, <3>1
    <3>3. ClipSnapshot' = ClipSnapshot
      BY <1>0, <3>2 DEF ClipSnapshot
    <3> QED BY <2>3, <3>2, <3>3 DEF RemuxOK
  <2> QED BY <1>0, <2>1, <2>2, <2>3 DEF RemuxOK
<1> QED BY <1>5, <1>8, <1>10, <1>11

LEMMA InvStageCrash == StageInv /\ StageCrash => StageInv'
<1> SUFFICES ASSUME StageInv, StageCrash PROVE StageInv'
  OBVIOUS
<1> USE DEF StageInv
<1>0. UNCHANGED <<clock, source, partial, remux>>
  BY DEF StageCrash
<1>1. /\ turn' \in Turns /\ turn'.step = "stopped" /\ turn.step # "idle"
      /\ turn'.title = turn.title /\ turn'.key = turn.key /\ turn'.plan = turn.plan
  BY Stepped DEF StageCrash, Typed, Steps
<1>2. target' \in Copies /\ GoodCopy(target')
  <2>1. CASE UNCHANGED target
    BY <2>1 DEF Typed, CopyOK
  <2>2. CASE \E gone \in SUBSET DOMAIN target.manifest :
               target' = [target EXCEPT !.files = {c \in @ : c[1] \notin gone}]
    <3>1. PICK gone : target' = [target EXCEPT !.files = {c \in @ : c[1] \notin gone}]
      BY <2>2
    <3>2. target' \in Copies /\ target'.manifest = target.manifest /\ target'.files \subseteq target.files
      BY <3>1 DEF Typed, Copies
    <3> QED BY <3>2 DEF CopyOK, GoodCopy
  <2> QED BY <2>1, <2>2 DEF StageCrash
<1>3. Typed' /\ TurnOK'
  BY <1>0, <1>1, <1>2 DEF Typed, TurnOK
<1>4. CopyOK'
  BY <1>1, <1>2 DEF CopyOK, GoodCopy
<1>5. RemuxOK'
  BY <1>0, <1>1 DEF RemuxOK, ClipSnapshot
<1> QED BY <1>3, <1>4, <1>5

LEMMA InvStaleStagesGo == StageInv /\ StaleStagesGo => StageInv'
<1> SUFFICES ASSUME StageInv, StaleStagesGo PROVE StageInv'
  OBVIOUS
<1> USE Nothing DEF StageInv
<1>0. UNCHANGED <<clock, source, turn, remux>> /\ turn.step = "idle"
  BY DEF StaleStagesGo
<1>1. (target' = NoCopy \/ target' = target) /\ (partial' = NoCopy \/ partial' = partial)
  BY DEF StaleStagesGo
<1>2. Typed' /\ TurnOK'
  BY <1>0, <1>1 DEF Typed, TurnOK
<1>3. CopyOK'
  BY <1>0, <1>1 DEF CopyOK, GoodCopy
<1>4. RemuxOK'
  BY <1>0, <1>1 DEF RemuxOK, ClipSnapshot
<1> QED BY <1>2, <1>3, <1>4

-----------------------------------------------------------------------------
(* The theorem                                                               *)

\* Every step keeps the invariant.
LEMMA StageStep == StageInv /\ [SourceStageNext]_stageVars => StageInv'
<1> SUFFICES ASSUME StageInv, [SourceStageNext]_stageVars PROVE StageInv'
  OBVIOUS
<1>1. CASE UNCHANGED stageVars
  BY <1>1 DEF stageVars, StageInv, Typed, TurnOK, CopyOK, RemuxOK, GoodCopy, Holds,
              SinceTheStart, ClipSnapshot
<1>2. CASE SourceStageNext
  BY <1>2, InvTurnStarts, InvTurnResumes, InvStageIsReused, InvStageIsSkipped, InvStageStarts,
     InvCopyRange, InvCopyFails, InvWriteManifest, InvStageChecks, InvStageEnds, InvRemuxStarts,
     InvRemuxEnds, InvRemoveStage, InvDiscChanges, InvStageCrash, InvStaleStagesGo
     DEF SourceStageNext
<1> QED BY <1>1, <1>2

\* The invariant says what the reference must be.
LEMMA StageInvSuffices == StageInv => ReferenceIsOfOneDisc
<1> SUFFICES ASSUME StageInv PROVE ReferenceIsOfOneDisc
  OBVIOUS
<1>1. ASSUME turn.title # {}, remux.key = ClipSnapshot PROVE remux.key # <<>>
  <2>1. DOMAIN remux.key = turn.title
    BY <1>1, Snapshots DEF StageInv
  <2> QED BY <1>1, <2>1, MapsAreOfVersions
<1> QED BY <1>1 DEF StageInv, RemuxOK, ReferenceIsOfOneDisc

(* For any titles, any number of readers, and however often the disc changes *)
(* and the worker stops: the remux of a staged copy reads the title as the   *)
(* disc had it at one moment (_stage_source, _source_unchanged), and a       *)
(* reference whose marker fits the disc is made of what is on the disc.      *)
THEOREM StagedReferenceIsTrue == SourceStageSpec => []ReferenceIsOfOneDisc
<1>1. SourceStageInit => StageInv
  BY StageInit
<1>2. StageInv /\ [SourceStageNext]_stageVars => StageInv'
  BY StageStep
<1>3. StageInv => ReferenceIsOfOneDisc
  BY StageInvSuffices
<1> QED BY <1>1, <1>2, <1>3, PTL DEF SourceStageSpec

-----------------------------------------------------------------------------
(* For any tracks, selections, samples, and sayings of the speech model, and *)
(* any number of references, revisions and crashes: the languages with which *)
(* a job goes on to the encode are earned.                                   *)

-----------------------------------------------------------------------------
(* The inductive invariant.  A reference has a number of its own, so that a  *)
(* sample that fits its marker was cut from the reference the marker names.  *)

PassFields == {"at", "track", "sample", "todo", "resolved", "open"}
Working    == {"sample", "tag", "listen", "decide"}
Active     == {"track"} \cup Working

Shape ==
    /\ title \in Nat \ {0} /\ DOMAIN pass = PassFields
    /\ DOMAIN wavs = Tracks /\ DOMAIN tags = Tracks /\ DOMAIN heard = Tracks
    /\ \A t \in Tracks : DOMAIN wavs[t] = Samples /\ DOMAIN tags[t] = Samples

\* A marker names the reference its file was cut from.
TagsOK == \A t \in Tracks, i \in Samples :
             tags[t][i].file # Broken => tags[t][i].source = tags[t][i].file

\* A result is of samples of one reference.
HeardOK == \A t \in Tracks :
              heard[t].source # 0 => \A i \in Samples : heard[t].samples[i] = heard[t].source

\* How far the samples of a track are of the present reference.
SamplesOK ==
    /\ pass.at \in Working => pass.track \in Tracks
    /\ pass.at \in {"sample", "tag"} =>
         pass.sample \in Samples
         /\ \A i \in Samples : i < pass.sample => wavs[pass.track][i] = title
    /\ pass.at = "tag" => wavs[pass.track][pass.sample] = title
    /\ pass.at \in {"listen", "decide"} => \A i \in Samples : wavs[pass.track][i] = title
    /\ pass.at = "decide" => heard[pass.track].source = title

\* A verdict rests on one reference and agrees with a confident hearing.
VerdictOK(v) == OfOneReference(v, v.heard.source) /\ (Strong(v.heard) => v.code = v.heard.code)

\* A track that needs nothing but what it declares.
Evident(t) == streams[t].kind # "audio" /\ Undisputed(streams[t]) # {}

ToldOK == \A t \in DOMAIN told.resolved : VerdictOK(told.resolved[t])

\* The pass has a place for each track, and no second verdict on one.
PassOK ==
    pass.at \in Active =>
      /\ \A t \in DOMAIN pass.resolved :
           /\ VerdictOK(pass.resolved[t])
           /\ ToldOf(t) => pass.resolved[t] = told.resolved[t]
           /\ ~ToldOf(t) => pass.resolved[t].heard.source = title
      /\ \A t \in pass.todo : t \in Tracks /\ ~ToldOf(t)
      /\ pass.at \in Working => ~ToldOf(pass.track)
      /\ \A t \in KeptTracks :
           wanted[t] = None =>
             \/ t \in pass.todo \/ t \in pass.open \/ t \in DOMAIN pass.resolved
             \/ pass.at \in Working /\ t = pass.track
             \/ Evident(t)

DoneOK ==
    pass.at = "done" =>
      /\ Told
      /\ \A t \in KeptTracks : wanted[t] = None => t \in DOMAIN told.resolved \/ Evident(t)

LanguagesInv == Shape /\ TagsOK /\ HeardOK /\ SamplesOK /\ ToldOK /\ PassOK /\ DoneOK

-----------------------------------------------------------------------------
(* Decisions                                                                 *)

\* The declarations that are believed are at most one.
LEMMA BelievedIsOne ==
    ASSUME NEW d, NEW c \in Accepted(d)
    PROVE  Accepted(d) = {c}
<1>1. CASE Paired(d)
  BY <1>1 DEF Accepted
<1>2. CASE ~Paired(d)
  <2>1. Accepted(d) = Declared(d) /\ Cardinality(Declared(d)) = 1
    BY <1>2 DEF Accepted
  <2>2. IsFiniteSet({d.mpls, d.clpi, d.pmt})
    <3>1. IsFiniteSet({d.mpls} \cup {d.clpi}) /\ IsFiniteSet({d.pmt})
      BY FS_Singleton, FS_Union
    <3>2. IsFiniteSet(({d.mpls} \cup {d.clpi}) \cup {d.pmt})
      BY <3>1, FS_Union
    <3>3. {d.mpls, d.clpi, d.pmt} = ({d.mpls} \cup {d.clpi}) \cup {d.pmt}
      OBVIOUS
    <3> QED BY <3>2, <3>3
  <2>3. IsFiniteSet(Declared(d))
    BY <2>2, FS_Subset DEF Declared
  <2>4. PICK x : Declared(d) = {x}
    BY <2>1, <2>3, FS_Singleton
  <2> QED BY <2>1, <2>4
<1> QED BY <1>1, <1>2

\* Where a hearing is confident, only its own code needs no review.
LEMMA StrongWins ==
    ASSUME NEW d, NEW c, Strong(c), Resolution(d, c) # {}
    PROVE  Resolution(d, c) = {c.code}
<1>1. Accepted(d) = {} \/ c.code \in Accepted(d)
  BY DEF Resolution
<1>2. CASE Paired(d)
  BY <1>1, <1>2 DEF Resolution, Accepted
<1>3. CASE ~Paired(d) /\ Declared(d) # {}
  <2>1. Resolution(d, c) = Accepted(d)
    BY <1>1, <1>3 DEF Resolution
  <2> QED BY <1>1, <2>1, BelievedIsOne
<1>4. CASE ~Paired(d) /\ Declared(d) = {}
  BY <1>1, <1>4 DEF Resolution
<1> QED BY <1>2, <1>3, <1>4

-----------------------------------------------------------------------------
(* What a step leaves alone                                                  *)

\* The report speaks for the same tracks as long as nobody writes it.
LEMMA SameReport ==
    ASSUME UNCHANGED <<streams, wanted, told>>
    PROVE  /\ Tracks' = Tracks /\ KeptTracks' = KeptTracks /\ Told' = Told
           /\ \A t : ToldOf(t)' = ToldOf(t) /\ Evident(t)' = Evident(t)
           /\ ToldOK' = ToldOK
BY DEF Tracks, KeptTracks, Told, ToldOf, Evident, ToldOK

\* A pass that has come back to the tracks or has ended asks nothing of the
\* samples.
LEMMA NoSamples ==
    ASSUME pass'.at \notin Working
    PROVE  SamplesOK'
BY DEF SamplesOK, Working

\* A cut touches the files alone.
LEMMA CutKeepsShape ==
    ASSUME Shape, CutsShort, pass.track \in Tracks, UNCHANGED streams
    PROVE  DOMAIN wavs' = Tracks /\ \A t \in Tracks : DOMAIN wavs'[t] = Samples
BY DEF Shape, CutsShort

\* A pass at its beginning or its end is only a place.
LEMMA WaitingIs ==
    ASSUME NEW at
    PROVE  /\ DOMAIN Waiting(at) = PassFields /\ Waiting(at).at = at
           /\ Waiting(at).todo = {} /\ Waiting(at).open = {}
BY DEF Waiting, PassFields

-----------------------------------------------------------------------------
(* The invariant holds at the beginning                                      *)

LEMMA LanguagesStart == LanguagesInit => LanguagesInv
<1> SUFFICES ASSUME LanguagesInit PROVE LanguagesInv
  OBVIOUS
<1>1. pass.at = "idle" /\ DOMAIN pass = PassFields
  BY WaitingIs DEF LanguagesInit
<1>2. Shape
  BY <1>1 DEF LanguagesInit, Shape
<1>3. TagsOK
  BY DEF LanguagesInit, TagsOK, NoTag, Broken
<1>4. HeardOK
  BY DEF LanguagesInit, HeardOK, Unheard
<1>5. ToldOK
  <2>1. DOMAIN told.resolved = {}
    BY DEF LanguagesInit, Untold
  <2> QED BY <2>1 DEF ToldOK
<1>6. SamplesOK /\ PassOK /\ DoneOK
  BY <1>1 DEF SamplesOK, PassOK, DoneOK, Active, Working
<1> QED BY <1>2, <1>3, <1>4, <1>5, <1>6 DEF LanguagesInv

-----------------------------------------------------------------------------
(* The speech model                                                          *)

LEMMA InvListenFails == LanguagesInv /\ ListenFails => LanguagesInv'
<1> SUFFICES ASSUME LanguagesInv, ListenFails PROVE LanguagesInv'
  OBVIOUS
<1> USE DEF LanguagesInv
<1>0. UNCHANGED <<streams, wanted, title, tags, heard, told>> /\ pass.at \in {"sample", "listen"}
  BY DEF ListenFails, Kept
<1>1. pass.track \in Tracks
  BY <1>0 DEF SamplesOK, Working
<1>2. /\ pass'.at = "track" /\ pass'.open = pass.open \cup {pass.track} /\ DOMAIN pass' = PassFields
      /\ pass'.todo = pass.todo /\ pass'.resolved = pass.resolved
  BY DEF ListenFails, Shape, PassFields
<1>3. DOMAIN wavs' = Tracks /\ \A t \in Tracks : DOMAIN wavs'[t] = Samples
  BY <1>0, <1>1, CutKeepsShape DEF ListenFails, Shape
<1>4. Shape' /\ TagsOK' /\ HeardOK' /\ ToldOK'
  BY <1>0, <1>2, <1>3, SameReport DEF Shape, TagsOK, HeardOK
<1>5. SamplesOK'
  BY <1>2, NoSamples DEF Working
<1>6. PassOK'
  BY <1>0, <1>2, SameReport DEF PassOK, Active, Working
<1>7. DoneOK'
  BY <1>2 DEF DoneOK
<1> QED BY <1>4, <1>5, <1>6, <1>7

LEMMA InvCutSample == LanguagesInv /\ CutSample => LanguagesInv'
<1> SUFFICES ASSUME LanguagesInv, CutSample PROVE LanguagesInv'
  OBVIOUS
<1> USE DEF LanguagesInv
<1>0. UNCHANGED <<streams, wanted, title, tags, heard, told>> /\ pass.at = "sample"
  BY DEF CutSample, Kept
<1>1. pass.track \in Tracks /\ pass.sample \in Samples
  BY <1>0 DEF SamplesOK, Working
<1>2. /\ pass'.at = "tag" /\ pass'.track = pass.track /\ pass'.sample = pass.sample
      /\ pass'.open = pass.open /\ DOMAIN pass' = PassFields
      /\ pass'.todo = pass.todo /\ pass'.resolved = pass.resolved
  BY DEF CutSample, Shape, PassFields
<1>3. /\ DOMAIN wavs' = Tracks /\ \A t \in Tracks : DOMAIN wavs'[t] = Samples
      /\ wavs'[pass.track][pass.sample] = title
      /\ \A i \in Samples : i # pass.sample => wavs'[pass.track][i] = wavs[pass.track][i]
  BY <1>1 DEF CutSample, Shape
<1>4. Shape' /\ TagsOK' /\ HeardOK' /\ ToldOK'
  BY <1>0, <1>2, <1>3, SameReport DEF Shape, TagsOK, HeardOK
<1>5. SamplesOK'
  <2>1. \A i \in Samples : i < pass.sample => wavs'[pass.track][i] = title
    BY <1>0, <1>1, <1>3 DEF SamplesOK, Samples
  <2> QED BY <1>0, <1>1, <1>2, <1>3, <2>1, SameReport DEF SamplesOK, Working
<1>6. PassOK'
  BY <1>0, <1>2, SameReport DEF PassOK, Active, Working
<1>7. DoneOK'
  BY <1>2 DEF DoneOK
<1> QED BY <1>4, <1>5, <1>6, <1>7

\* With a sample of the present reference, the next one or the listening.
LEMMA NextSampleOK ==
    ASSUME LanguagesInv, pass.at \in {"sample", "tag"}, wavs[pass.track][pass.sample] = title,
           pass' = NextSample, UNCHANGED <<streams, wanted, title, wavs, heard, told>>
    PROVE  SamplesOK' /\ PassOK' /\ DoneOK' /\ DOMAIN pass' = PassFields
<1> USE DEF LanguagesInv
<1>1. /\ pass.track \in Tracks /\ pass.sample \in Samples
      /\ \A i \in Samples : i < pass.sample => wavs[pass.track][i] = title
  BY DEF SamplesOK, Working
<1>2. SampleCount \in Nat \ {0}
  BY LanguagesAssumption
<1>3. /\ pass'.at \in {"sample", "listen"} /\ pass'.track = pass.track
      /\ pass'.open = pass.open /\ DOMAIN pass' = PassFields
      /\ pass'.todo = pass.todo /\ pass'.resolved = pass.resolved
      /\ pass'.at = "sample" => pass.sample < SampleCount /\ pass'.sample = pass.sample + 1
      /\ pass'.at = "listen" => ~(pass.sample < SampleCount)
  BY DEF NextSample, Shape, PassFields
<1>4. \A i \in Samples : i <= pass.sample => wavs[pass.track][i] = title
  BY <1>1 DEF Samples
<1>5. SamplesOK'
  <2>1. CASE pass'.at = "sample"
    <3>1. pass'.sample \in Samples /\ \A i \in Samples : i < pass'.sample => i <= pass.sample
      BY <1>1, <1>2, <1>3, <2>1 DEF Samples
    <3> QED BY <1>1, <1>3, <1>4, <2>1, <3>1, SameReport DEF SamplesOK, Working
  <2>2. CASE pass'.at = "listen"
    <3>1. \A i \in Samples : i <= pass.sample
      BY <1>1, <1>2, <1>3, <2>2 DEF Samples
    <3> QED BY <1>1, <1>3, <1>4, <2>2, <3>1, SameReport DEF SamplesOK, Working
  <2> QED BY <1>3, <2>1, <2>2
<1>6. PassOK' /\ DoneOK'
  BY <1>3, SameReport DEF PassOK, DoneOK, Active, Working
<1> QED BY <1>3, <1>5, <1>6

LEMMA InvTagSample == LanguagesInv /\ TagSample => LanguagesInv'
<1> SUFFICES ASSUME LanguagesInv, TagSample PROVE LanguagesInv'
  OBVIOUS
<1> USE DEF LanguagesInv
<1>0. /\ UNCHANGED <<streams, wanted, title, wavs, heard, told>> /\ pass.at = "tag"
      /\ pass' = NextSample
  BY DEF TagSample, Kept
<1>1. pass.track \in Tracks /\ pass.sample \in Samples /\ wavs[pass.track][pass.sample] = title
  BY <1>0 DEF SamplesOK, Working
<1>2. SamplesOK' /\ PassOK' /\ DoneOK' /\ DOMAIN pass' = PassFields
  BY <1>0, <1>1, NextSampleOK
<1>3. /\ DOMAIN tags' = Tracks /\ \A t \in Tracks : DOMAIN tags'[t] = Samples
      /\ \A t \in Tracks, i \in Samples :
           \/ tags'[t][i] = tags[t][i]
           \/ tags'[t][i] = [source |-> title, file |-> wavs[pass.track][pass.sample]]
  BY <1>1 DEF TagSample, Shape
<1>4. Shape' /\ HeardOK' /\ ToldOK'
  BY <1>0, <1>2, <1>3, SameReport DEF Shape, HeardOK
<1>5. TagsOK'
  <2> SUFFICES ASSUME NEW t \in Tracks, NEW i \in Samples, tags'[t][i].file # Broken
               PROVE  tags'[t][i].source = tags'[t][i].file
    BY <1>0, SameReport DEF TagsOK
  <2> QED BY <1>1, <1>3 DEF TagsOK
<1> QED BY <1>2, <1>4, <1>5

\* A sample that fits its marker, and its marker the reference, is of it.
LEMMA InvKeepSample == LanguagesInv /\ KeepSample => LanguagesInv'
<1> SUFFICES ASSUME LanguagesInv, KeepSample PROVE LanguagesInv'
  OBVIOUS
<1> USE DEF LanguagesInv
<1>0. /\ UNCHANGED <<streams, wanted, title, wavs, tags, heard, told>> /\ pass.at = "sample"
      /\ pass' = NextSample /\ SampleIsValid(pass.track, pass.sample)
  BY DEF KeepSample, Kept
<1>1. pass.track \in Tracks /\ pass.sample \in Samples
  BY <1>0 DEF SamplesOK, Working
<1>2. wavs[pass.track][pass.sample] = title
  <2>1. /\ wavs[pass.track][pass.sample] # Broken
        /\ tags[pass.track][pass.sample].source = title
        /\ tags[pass.track][pass.sample].file = wavs[pass.track][pass.sample]
    BY <1>0 DEF SampleIsValid
  <2> QED BY <1>1, <2>1 DEF TagsOK
<1>3. SamplesOK' /\ PassOK' /\ DoneOK' /\ DOMAIN pass' = PassFields
  BY <1>0, <1>2, NextSampleOK
<1>4. Shape' /\ TagsOK' /\ HeardOK' /\ ToldOK'
  BY <1>0, <1>3, SameReport DEF Shape, TagsOK, HeardOK
<1> QED BY <1>3, <1>4

\* What is heard is of the samples, which are all of the present reference.
LEMMA InvListen == LanguagesInv /\ Listen => LanguagesInv'
<1> SUFFICES ASSUME LanguagesInv, Listen PROVE LanguagesInv'
  OBVIOUS
<1> USE DEF LanguagesInv
<1>0. UNCHANGED <<streams, wanted, title, wavs, tags, told>> /\ pass.at = "listen"
  BY DEF Listen, Kept
<1>1. pass.track \in Tracks /\ \A i \in Samples : wavs[pass.track][i] = title
  BY <1>0 DEF SamplesOK, Working
<1>2. /\ pass'.at = "decide" /\ pass'.track = pass.track
      /\ pass'.open = pass.open /\ DOMAIN pass' = PassFields
      /\ pass'.todo = pass.todo /\ pass'.resolved = pass.resolved
  BY DEF Listen, Shape, PassFields
<1>3. /\ DOMAIN heard' = Tracks /\ HeardOK' /\ heard'[pass.track].source = title
  <2>1. CASE Cached(pass.track) /\ UNCHANGED heard
    BY <1>0, <2>1, SameReport DEF Cached, HeardOK, Shape
  <2>2. CASE \E said \in [Samples -> Detections] :
              heard' = [heard EXCEPT ![pass.track] =
                  [source |-> title, samples |-> wavs[pass.track],
                   code |-> Consensus(said).code, confidence |-> Consensus(said).confidence]]
    <3>1. PICK said :
              heard' = [heard EXCEPT ![pass.track] =
                  [source |-> title, samples |-> wavs[pass.track],
                   code |-> Consensus(said).code, confidence |-> Consensus(said).confidence]]
      BY <2>2
    <3>2. /\ DOMAIN heard' = Tracks
          /\ heard'[pass.track].source = title /\ heard'[pass.track].samples = wavs[pass.track]
          /\ \A t \in Tracks : t # pass.track => heard'[t] = heard[t]
      BY <1>1, <3>1 DEF Shape
    <3>3. HeardOK'
      <4> SUFFICES ASSUME NEW t \in Tracks, heard'[t].source # 0, NEW i \in Samples
                   PROVE  heard'[t].samples[i] = heard'[t].source
        BY <1>0, SameReport DEF HeardOK
      <4>1. CASE t = pass.track
        BY <1>1, <3>2, <4>1
      <4>2. CASE t # pass.track
        BY <3>2, <4>2 DEF HeardOK
      <4> QED BY <4>1, <4>2
    <3> QED BY <3>2, <3>3
  <2> QED BY <2>1, <2>2 DEF Listen
<1>4. Shape' /\ TagsOK' /\ ToldOK'
  BY <1>0, <1>2, <1>3, SameReport DEF Shape, TagsOK
<1>5. SamplesOK'
  BY <1>0, <1>1, <1>2, <1>3, SameReport DEF SamplesOK, Working
<1>6. PassOK' /\ DoneOK'
  BY <1>0, <1>2, SameReport DEF PassOK, DoneOK, Active, Working
<1> QED BY <1>3, <1>4, <1>5, <1>6

-----------------------------------------------------------------------------
(* The pass                                                                  *)

\* What the report does not speak for is to be done.
LEMMA InvLanguagesBegin == LanguagesInv /\ LanguagesBegin => LanguagesInv'
<1> SUFFICES ASSUME LanguagesInv, LanguagesBegin PROVE LanguagesInv'
  OBVIOUS
<1> USE DEF LanguagesInv
<1>0. UNCHANGED <<streams, wanted, title, wavs, tags, heard, told>>
  BY DEF LanguagesBegin, Kept
<1>1. /\ pass'.at = "track" /\ DOMAIN pass' = PassFields /\ pass'.todo = Open
      /\ pass'.resolved = IF Told THEN told.resolved ELSE <<>>
  BY DEF LanguagesBegin, Waiting, PassFields
<1>2. Shape' /\ TagsOK' /\ HeardOK' /\ ToldOK'
  BY <1>0, <1>1, SameReport DEF Shape, TagsOK, HeardOK
<1>3. SamplesOK' /\ DoneOK'
  BY <1>1, NoSamples DEF Working, DoneOK
<1>4. PassOK'
  <2>1. \A t \in DOMAIN pass'.resolved : ToldOf(t) /\ pass'.resolved[t] = told.resolved[t]
    <3>1. CASE Told
      BY <1>1, <3>1 DEF ToldOf
    <3>2. CASE ~Told
      <4>1. DOMAIN pass'.resolved = {}
        BY <1>1, <3>2
      <4> QED BY <4>1
    <3> QED BY <3>1, <3>2
  <2>2. \A t : ToldOf(t) => t \in DOMAIN pass'.resolved
    BY <1>1 DEF ToldOf
  <2>3. \A t \in Open : t \in Tracks /\ ~ToldOf(t)
    BY DEF Open, KeptTracks
  <2>4. \A t \in KeptTracks : wanted[t] = None => t \in Open \/ t \in DOMAIN pass'.resolved
    BY <2>2 DEF Open
  <2>5. \A t \in DOMAIN pass'.resolved : VerdictOK(pass'.resolved[t])
    BY <2>1 DEF ToldOK, ToldOf
  <2> QED BY <1>0, <1>1, <2>1, <2>3, <2>4, <2>5, SameReport DEF PassOK, Working
<1> QED BY <1>2, <1>3, <1>4

LEMMA InvNextTrack == LanguagesInv /\ NextTrack => LanguagesInv'
<1> SUFFICES ASSUME LanguagesInv, NextTrack PROVE LanguagesInv'
  OBVIOUS
<1> USE DEF LanguagesInv
<1>0. UNCHANGED <<streams, wanted, title, wavs, tags, heard, told>> /\ pass.at = "track"
  BY DEF NextTrack, Kept
<1>1. PICK t \in pass.todo :
        LET rest == [pass EXCEPT !.todo = @ \ {t}] IN
        pass' = IF streams[t].kind = "audio"
                  THEN [rest EXCEPT !.at = "sample", !.track = t, !.sample = 1]
                ELSE IF Undisputed(streams[t]) # {} THEN rest
                ELSE [rest EXCEPT !.open = @ \cup {t}]
  BY DEF NextTrack
<1>2. t \in Tracks /\ ~ToldOf(t)
  BY <1>0 DEF PassOK, Active
<1>3. /\ DOMAIN pass' = PassFields /\ pass'.resolved = pass.resolved /\ pass'.todo = pass.todo \ {t}
      /\ \/ pass'.at = "sample" /\ pass'.track = t /\ pass'.sample = 1 /\ pass'.open = pass.open
         \/ pass'.at = "track" /\ pass'.open = pass.open /\ Evident(t)
         \/ pass'.at = "track" /\ pass'.open = pass.open \cup {t}
  BY <1>0, <1>1 DEF Shape, PassFields, Evident
<1>4. Shape' /\ TagsOK' /\ HeardOK' /\ ToldOK' /\ DoneOK'
  BY <1>0, <1>3, SameReport DEF Shape, TagsOK, HeardOK, DoneOK
<1>5. SamplesOK'
  <2>1. CASE pass'.at = "track"
    BY <2>1, NoSamples DEF Working
  <2>2. CASE pass'.at = "sample"
    <3>1. pass'.track = t /\ pass'.sample = 1
      BY <1>3, <2>2
    <3>2. 1 \in Samples /\ \A i \in Samples : ~(i < 1)
      BY LanguagesAssumption DEF Samples
    <3> QED BY <1>0, <1>2, <2>2, <3>1, <3>2, SameReport DEF SamplesOK, Working
  <2> QED BY <1>3, <2>1, <2>2
<1>6. PassOK'
  BY <1>0, <1>2, <1>3, SameReport DEF PassOK, Active, Working
<1> QED BY <1>4, <1>5, <1>6

\* The verdict rests on what was heard of the present reference.
LEMMA InvDecideTrack == LanguagesInv /\ DecideTrack => LanguagesInv'
<1> SUFFICES ASSUME LanguagesInv, DecideTrack PROVE LanguagesInv'
  OBVIOUS
<1> USE DEF LanguagesInv
<1> DEFINE t == pass.track
           r == Resolution(streams[t], heard[t])
           Verdict == [code |-> CHOOSE c \in r : TRUE, heard |-> heard[t]]
<1>0. UNCHANGED <<streams, wanted, title, wavs, tags, heard, told>> /\ pass.at = "decide"
  BY DEF DecideTrack, Kept
<1>1. t \in Tracks /\ ~ToldOf(t) /\ heard[t].source = title
      /\ \A i \in Samples : heard[t].samples[i] = title
  BY <1>0 DEF SamplesOK, PassOK, HeardOK, Shape, Active, Working
<1>2. ASSUME r # {} PROVE VerdictOK(Verdict)
  <2>1. Verdict.heard = heard[t] /\ Verdict.code = CHOOSE c \in r : TRUE
    OBVIOUS
  <2>2. Strong(heard[t]) => Verdict.code = heard[t].code
    BY <1>2, <2>1, StrongWins
  <2>3. OfOneReference(Verdict, Verdict.heard.source)
    BY <1>1, <2>1 DEF OfOneReference
  <2> QED BY <2>1, <2>2, <2>3 DEF VerdictOK
<1>3. /\ pass'.at = "track" /\ DOMAIN pass' = PassFields /\ pass'.todo = pass.todo
      /\ \/ pass'.open = pass.open \cup {t} /\ pass'.resolved = pass.resolved
         \/ /\ r # {} /\ pass'.open = pass.open
            /\ DOMAIN pass'.resolved = DOMAIN pass.resolved \cup {t}
            /\ pass'.resolved[t] = Verdict
            /\ \A u \in DOMAIN pass.resolved : u # t => pass'.resolved[u] = pass.resolved[u]
  <2>1. CASE r = {}
    BY <2>1 DEF DecideTrack, Shape, PassFields
  <2>2. CASE r # {}
    <3>1. pass' = [pass EXCEPT !.at = "track",
                     !.resolved = [u \in DOMAIN @ \cup {t} |-> IF u = t THEN Verdict ELSE @[u]]]
      BY <2>2 DEF DecideTrack
    <3> HIDE DEF Verdict, r
    <3> QED BY <2>2, <3>1 DEF Shape, PassFields
  <2> QED BY <2>1, <2>2
<1>4. Shape' /\ TagsOK' /\ HeardOK' /\ ToldOK' /\ DoneOK'
  BY <1>0, <1>3, SameReport DEF Shape, TagsOK, HeardOK, DoneOK
<1>5. SamplesOK'
  BY <1>3, NoSamples DEF Working
<1>6. PassOK'
  <2>1. Verdict.heard.source = title
    BY <1>1
  <2> HIDE DEF Verdict, r
  <2>2. ASSUME NEW u \in DOMAIN pass'.resolved
        PROVE  /\ VerdictOK(pass'.resolved[u])
               /\ ToldOf(u) => pass'.resolved[u] = told.resolved[u]
               /\ ~ToldOf(u) => pass'.resolved[u].heard.source = title
    <3>1. CASE u \in DOMAIN pass.resolved /\ pass'.resolved[u] = pass.resolved[u]
      BY <1>0, <3>1 DEF PassOK, Active, Working
    <3>2. CASE r # {} /\ u = t /\ pass'.resolved[u] = Verdict
      BY <1>1, <1>2, <2>1, <3>2
    <3> QED BY <1>3, <3>1, <3>2
  <2>3. \A u \in pass'.todo : u \in Tracks /\ ~ToldOf(u)
    BY <1>0, <1>3 DEF PassOK, Active, Working
  <2>4. ASSUME NEW u \in KeptTracks, wanted[u] = None
        PROVE  u \in pass'.todo \/ u \in pass'.open \/ u \in DOMAIN pass'.resolved \/ Evident(u)
    BY <1>0, <1>3, <2>4 DEF PassOK, Active, Working
  <2> QED BY <1>0, <1>3, <2>2, <2>3, <2>4, SameReport DEF PassOK, Working
<1> QED BY <1>4, <1>5, <1>6

\* A pass that leaves nothing open has something for each track.
LEMMA InvReportLanguages == LanguagesInv /\ ReportLanguages => LanguagesInv'
<1> SUFFICES ASSUME LanguagesInv, ReportLanguages PROVE LanguagesInv'
  OBVIOUS
<1> USE DEF LanguagesInv
<1>0. /\ UNCHANGED <<streams, wanted, title, wavs, tags, heard>>
      /\ pass.at = "track" /\ pass.todo = {}
  BY DEF ReportLanguages, Kept
<1>1. /\ told'.wanted = wanted /\ told'.resolved = pass.resolved
      /\ pass.open = {} => told'.status = "completed"
      /\ DOMAIN pass' = PassFields /\ pass'.at \in {"done", "review"}
      /\ pass'.at = "done" => pass.open = {}
  BY WaitingIs DEF ReportLanguages
<1>2. Tracks' = Tracks /\ KeptTracks' = KeptTracks /\ \A t : Evident(t)' = Evident(t)
  BY <1>0 DEF Tracks, KeptTracks, Evident
<1>3. Shape' /\ TagsOK' /\ HeardOK'
  BY <1>0, <1>1, <1>2 DEF Shape, TagsOK, HeardOK
<1>4. ToldOK'
  BY <1>0, <1>1 DEF ToldOK, PassOK, Active
<1>5. SamplesOK' /\ PassOK'
  BY <1>1, NoSamples DEF PassOK, Active, Working
<1>6. DoneOK'
  BY <1>0, <1>1, <1>2 DEF DoneOK, PassOK, Active, Working, Told
<1> QED BY <1>3, <1>4, <1>5, <1>6

-----------------------------------------------------------------------------
(* Around it                                                                 *)

\* A pass that begins anew, whoever ended the last one.
LEMMA IdleAgain ==
    ASSUME LanguagesInv, pass' = Waiting("idle"), UNCHANGED <<streams, told, tags, heard>>,
           title' \in Nat \ {0}, DOMAIN wavs' = Tracks, \A t \in Tracks : DOMAIN wavs'[t] = Samples
    PROVE  LanguagesInv'
<1> USE DEF LanguagesInv
<1>0. DOMAIN pass' = PassFields /\ pass'.at = "idle"
  BY WaitingIs
<1>1. Tracks' = Tracks
  BY DEF Tracks
<1>2. Shape' /\ TagsOK' /\ HeardOK' /\ ToldOK'
  BY <1>0, <1>1 DEF Shape, TagsOK, HeardOK, ToldOK
<1>3. SamplesOK' /\ PassOK' /\ DoneOK'
  BY <1>0, NoSamples DEF PassOK, DoneOK, Active, Working
<1> QED BY <1>2, <1>3

LEMMA InvLanguagesAgain == LanguagesInv /\ LanguagesAgain => LanguagesInv'
<1> SUFFICES ASSUME LanguagesInv, LanguagesAgain PROVE LanguagesInv'
  OBVIOUS
<1>1. pass' = Waiting("idle") /\ UNCHANGED <<streams, title, wavs, tags, heard, told>>
  BY DEF LanguagesAgain, Kept
<1> QED BY <1>1, IdleAgain DEF LanguagesInv, Shape

LEMMA InvReviseLanguages == LanguagesInv /\ ReviseLanguages => LanguagesInv'
<1> SUFFICES ASSUME LanguagesInv, ReviseLanguages PROVE LanguagesInv'
  OBVIOUS
<1>1. pass' = Waiting("idle") /\ UNCHANGED <<streams, title, wavs, tags, heard, told>>
  BY DEF ReviseLanguages
<1> QED BY <1>1, IdleAgain DEF LanguagesInv, Shape

LEMMA InvLanguageCrash == LanguagesInv /\ LanguageCrash => LanguagesInv'
<1> SUFFICES ASSUME LanguagesInv, LanguageCrash PROVE LanguagesInv'
  OBVIOUS
<1>1. pass' = Waiting("idle") /\ UNCHANGED <<streams, title, tags, heard, told>>
  BY DEF LanguageCrash
<1>2. DOMAIN wavs' = Tracks /\ \A t \in Tracks : DOMAIN wavs'[t] = Samples
  <2>1. CASE pass.at = "sample" /\ CutsShort
    <3>1. pass.track \in Tracks
      BY <2>1 DEF LanguagesInv, SamplesOK, Working
    <3> QED BY <1>1, <2>1, <3>1, CutKeepsShape DEF LanguagesInv
  <2>2. CASE UNCHANGED wavs
    BY <2>2 DEF LanguagesInv, Shape
  <2> QED BY <2>1, <2>2 DEF LanguageCrash
<1> QED BY <1>1, <1>2, IdleAgain DEF LanguagesInv, Shape

\* What was heard stays of the reference it names.
LEMMA InvNewReference == LanguagesInv /\ NewReference => LanguagesInv'
<1> SUFFICES ASSUME LanguagesInv, NewReference PROVE LanguagesInv'
  OBVIOUS
<1> USE DEF LanguagesInv
<1>0. UNCHANGED <<streams, wanted, wavs, tags, heard, pass, told>> /\ pass.at = "idle" /\ title' = title + 1
  BY DEF NewReference
<1>1. Shape' /\ TagsOK' /\ HeardOK' /\ ToldOK'
  BY <1>0, SameReport DEF Shape, TagsOK, HeardOK
<1>2. SamplesOK' /\ PassOK' /\ DoneOK'
  BY <1>0, NoSamples DEF PassOK, DoneOK, Active, Working
<1> QED BY <1>1, <1>2

-----------------------------------------------------------------------------
(* The theorem                                                               *)

\* Every step keeps the invariant.
LEMMA LanguagesStep == LanguagesInv /\ [LanguagesNext]_languageVars => LanguagesInv'
<1> SUFFICES ASSUME LanguagesInv, [LanguagesNext]_languageVars PROVE LanguagesInv'
  OBVIOUS
<1>1. CASE UNCHANGED languageVars
  BY <1>1, SameReport DEF languageVars, LanguagesInv, Shape, TagsOK, HeardOK, SamplesOK, PassOK, DoneOK
<1>2. CASE LanguagesNext
  BY <1>2, InvLanguagesBegin, InvNextTrack, InvCutSample, InvTagSample, InvKeepSample,
     InvListenFails, InvListen, InvDecideTrack, InvReportLanguages, InvLanguagesAgain,
     InvReviseLanguages, InvNewReference, InvLanguageCrash DEF LanguagesNext
<1> QED BY <1>1, <1>2

\* The invariant says that the languages are earned.
LEMMA LanguagesInvSuffices == LanguagesInv => LanguagesAreEarned
<1> SUFFICES ASSUME LanguagesInv PROVE LanguagesAreEarned
  OBVIOUS
<1> USE DEF LanguagesInv
<1>1. ASSUME pass.at \in {"track", "sample", "tag", "listen", "decide"}, NEW t \in DOMAIN pass.resolved
      PROVE  OfOneReference(pass.resolved[t], IF ToldOf(t) THEN told.resolved[t].heard.source ELSE title)
  BY <1>1 DEF PassOK, Active, Working, VerdictOK
<1>2. ASSUME pass.at = "done", NEW t \in KeptTracks
      PROVE  /\ Written(t) # {}
             /\ wanted[t] = None /\ streams[t].kind = "audio" =>
                  /\ ToldOf(t)
                  /\ LET h == told.resolved[t].heard IN
                     /\ OfOneReference(told.resolved[t], h.source)
                     /\ Strong(h) => Written(t) = {h.code}
  <2>1. Told /\ (wanted[t] = None => ToldOf(t) \/ Evident(t))
    BY <1>2 DEF DoneOK, ToldOf
  <2>2. ToldOf(t) => VerdictOK(told.resolved[t])
    BY DEF ToldOK, ToldOf
  <2>3. Written(t) # {}
    BY <2>1 DEF Written, Evident
  <2>4. ASSUME wanted[t] = None, streams[t].kind = "audio"
        PROVE  ToldOf(t) /\ VerdictOK(told.resolved[t]) /\ Written(t) = {told.resolved[t].code}
    BY <2>1, <2>2, <2>4 DEF Evident, Written
  <2> QED BY <2>3, <2>4 DEF VerdictOK
<1> QED BY <1>1, <1>2 DEF LanguagesAreEarned

(* Whatever the disc declares and the speech model says, and however often   *)
(* the reference, the selection or the worker changes: a job goes on to the  *)
(* encode only with a language for each track, none of which a confident     *)
(* hearing speaks against, and each hearing is of one reference              *)
(* (_resolve_selected_languages, LanguageResolver.resolve).                  *)
THEOREM LanguagesHold == LanguagesSpec => []LanguagesAreEarned
<1>1. LanguagesInit => LanguagesInv
  BY LanguagesStart
<1>2. LanguagesInv /\ [LanguagesNext]_languageVars => LanguagesInv'
  BY LanguagesStep
<1>3. LanguagesInv => LanguagesAreEarned
  BY LanguagesInvSuffices
<1> QED BY <1>1, <1>2, <1>3, PTL DEF LanguagesSpec

-----------------------------------------------------------------------------
(* A title that passes the gate carries what was reviewed, for any discs,    *)
(* requests, changes of tools and files, and stops.                          *)

\* The stage the job is in, or comes back to.
InStage(s) == hdrJob.state = s \/ (hdrJob.state = "NEEDS_REVIEW" /\ hdrJob.resume = s)

\* What a plan says of the disc, and of the request it was made for.
PlanTrue(p) ==
    /\ p.mode = "hdr10plus" => disc.plus
    /\ p.mode = "dolby_vision" => p.profile = disc.dolby
PlanAnswers(p, r) ==
    /\ r.mode \in {"discard", "hdr10plus", "dolby_vision"} => p.mode = r.mode
    /\ p.mode = "dolby_vision" => p.crop = r.crop

\* The inputs a video was made from are in it.
FileFits(in, f) ==
    /\ f.title = in[1] /\ f.crop = in[2] /\ f.bounded = in[3]
    /\ f.layer = IF in[4] = <<>> THEN NoLayer ELSE in[4][2]

LayerOfReport == IF Retained(PlanOfReport) THEN hdrReport.layer ELSE NoLayer

VideoFields == {"title", "crop", "signal", "bounded", "layer"}
MadeAs(f, l) ==
    /\ f.title = reference /\ f.crop = request.crop /\ f.bounded = Bounded81(PlanOfReport)
    /\ f.layer = l

HdrTypes ==
    /\ disc \in Discs /\ DOMAIN hdrJob = {"state", "resume", "sel"}
    /\ DOMAIN marks = {"prepare", "extract", "encode"} /\ DOMAIN video = {"temporary", "encoded"}
    /\ hdrJob.state \notin {"SCANNING", "AWAITING_SELECTION"} => request \in Requests
    /\ hdrJob.state = "NEEDS_REVIEW" => hdrJob.resume \in {"READY", "ENCODING", "QC"}
    /\ pc # "idle" => hdrJob.state \in {"READY", "ENCODING"}

ScanTrue == (scan.plus => disc.plus) /\ (scan.dolby # 0 => scan.dolby = disc.dolby)

\* Once prepared, the reference is the title of the selection.
ReferenceFits == InStage("ENCODING") \/ InStage("QC") => reference = request.title

Preparing == pc \in {"support", "extract", "count", "report"}
PrepareTrue ==
    /\ Preparing => PlanTrue(plan) /\ PlanAnswers(plan, request)
    /\ Preparing \/ pc = "checkpoint" => reference = request.title
    /\ pc = "count" => metadata.made = plan
    /\ pc = "report" /\ Retained(plan) => metadata.made = plan /\ metadata.frames = reference

ExtractMarkTrue ==
    marks.extract # <<>> =>
        /\ marks.extract[2].made = marks.extract[1][2]
        /\ marks.extract[2].frames = marks.extract[1][1]

ReportTrue ==
    hdrReport # NoReport =>
        /\ PlanTrue(hdrReport.plan) /\ PlanAnswers(hdrReport.plan, hdrReport.sel)
        /\ Retained(hdrReport.plan) => /\ hdrReport.layer.made = hdrReport.plan
                                       /\ hdrReport.layer.frames = hdrReport.sel.title

EncodeTrue ==
    /\ pc \in {"encode", "inject", "promote", "mark"} =>
         hdrJob.state = "ENCODING" /\ ReportIsCurrent /\ plan = PlanOfReport
    /\ pc = "inject" => /\ Retained(plan) /\ DOMAIN video.temporary = VideoFields
                        /\ MadeAs(video.temporary, NoLayer)
    /\ pc = "promote" => MadeAs(video.temporary, LayerOfReport)
    /\ pc = "mark" => MadeAs(video.encoded, LayerOfReport)

EncodeMarkTrue == marks.encode # <<>> => FileFits(marks.encode[1], marks.encode[2])

\* What reaches the gate has a checkpoint, or something went missing since.
GateIsFed ==
    InStage("QC") =>
        \/ video.encoded = NoFile
        \/ request.mode # "discard" /\ hdrReport = NoReport
        \/ marks.encode = <<EncodeInputs, video.encoded>>

HdrInv ==
    /\ HdrTypes /\ ScanTrue /\ ReferenceFits /\ PrepareTrue /\ ExtractMarkTrue /\ ReportTrue
    /\ EncodeTrue /\ EncodeMarkTrue /\ GateIsFed
    /\ RetainedAsReviewed

LEMMA RequestFacts ==
    ASSUME NEW r \in Requests
    PROVE  r.mode \in {"discard", "auto", "hdr10plus", "dolby_vision"}
  BY DynamicHdrAssumption

\* What a plan that is not refused is worth.
LEMMA ResolvedIsTrue ==
    ASSUME ScanTrue, request \in Requests, Resolve # Refused
    PROVE  PlanTrue(Resolve) /\ PlanAnswers(Resolve, request)
<1>1. request.mode \in {"discard", "auto", "hdr10plus", "dolby_vision"}
  BY RequestFacts
<1>2. Discarded.mode = "discard" /\ Refused.mode = "refused"
  BY DEF Discarded, Refused
<1>3. PlusPlan = Refused \/ (PlusPlan.mode = "hdr10plus" /\ scan.plus)
  BY DEF PlusPlan, Refused, Discarded
<1>4. \/ DolbyPlan = Refused
      \/ DolbyPlan.mode = "dolby_vision" /\ DolbyPlan.profile = scan.dolby /\ scan.dolby # 0
         /\ DolbyPlan.crop = request.crop
  BY DEF DolbyPlan
<1>5. PlanTrue(Discarded) /\ (PlusPlan.mode = "hdr10plus" /\ scan.plus => PlanTrue(PlusPlan))
  BY <1>2 DEF PlanTrue, ScanTrue
<1>6. DolbyPlan # Refused => PlanTrue(DolbyPlan)
  BY <1>4 DEF PlanTrue, ScanTrue
<1>7. CASE request.mode = "discard"
  <2>1. Resolve = Discarded
    BY <1>7 DEF Resolve
  <2> QED BY <1>2, <1>5, <1>7, <2>1 DEF PlanAnswers
<1>8. CASE request.mode = "auto"
  <2>1. \/ Resolve = Discarded \/ (Resolve = PlusPlan /\ Retained(PlusPlan))
        \/ (Resolve = DolbyPlan /\ Retained(DolbyPlan))
    BY <1>8 DEF Resolve
  <2>2. Retained(PlusPlan) => PlusPlan # Refused
    BY <1>2 DEF Retained
  <2>3. Retained(DolbyPlan) => DolbyPlan # Refused
    BY <1>2 DEF Retained
  <2> QED BY <1>2, <1>3, <1>4, <1>5, <1>6, <1>8, <2>1, <2>2, <2>3 DEF PlanAnswers
<1>9. CASE request.mode = "hdr10plus"
  <2>1. Resolve = PlusPlan \/ Resolve = Refused
    BY <1>9 DEF Resolve
  <2>2. PlusPlan.mode = "hdr10plus" /\ PlanTrue(PlusPlan) /\ Resolve = PlusPlan
    BY <1>3, <1>5, <2>1
  <2> QED BY <1>9, <2>2 DEF PlanAnswers
<1>10. CASE request.mode = "dolby_vision"
  <2>1. Resolve = DolbyPlan \/ Resolve = Refused
    BY <1>10 DEF Resolve
  <2>2. Resolve = DolbyPlan /\ DolbyPlan # Refused
    BY <2>1
  <2> QED BY <1>4, <1>6, <1>10, <2>2 DEF PlanAnswers
<1> QED BY <1>1, <1>7, <1>8, <1>9, <1>10

LEMMA HdrInitHolds == DynamicHdrInit => HdrInv
<1> SUFFICES ASSUME DynamicHdrInit PROVE HdrInv
  OBVIOUS
<1>1. /\ hdrJob = [state |-> "SCANNING", resume |-> "", sel |-> CHOOSE r \in Requests : TRUE]
      /\ pc = "idle" /\ hdrReport = NoReport /\ scan = [plus |-> FALSE, dolby |-> 0, base |-> FALSE]
      /\ marks = [prepare |-> <<>>, extract |-> <<>>, encode |-> <<>>]
      /\ video = [temporary |-> NoFile, encoded |-> NoFile]
  BY DEF DynamicHdrInit
<1>0. disc \in Discs
  BY DEF DynamicHdrInit
<1>2. HdrTypes /\ ScanTrue
  BY <1>0, <1>1 DEF HdrTypes, ScanTrue
<1>3. ReferenceFits /\ GateIsFed /\ RetainedAsReviewed
  BY <1>1 DEF ReferenceFits, GateIsFed, RetainedAsReviewed, InStage
<1>4. PrepareTrue /\ EncodeTrue
  BY <1>1 DEF PrepareTrue, Preparing, EncodeTrue
<1>5. ExtractMarkTrue /\ EncodeMarkTrue /\ ReportTrue
  BY <1>1 DEF ExtractMarkTrue, EncodeMarkTrue, ReportTrue
<1> QED BY <1>2, <1>3, <1>4, <1>5 DEF HdrInv

-----------------------------------------------------------------------------
(* What the steps of a stage have in common                                  *)

\* The stage goes on, or asks for a review.
InHand == hdrJob' = hdrJob \/ HdrReview

LEMMA ReviewMeans ==
    ASSUME HdrTypes, HdrReview
    PROVE  /\ hdrJob'.state = "NEEDS_REVIEW" /\ hdrJob'.resume = hdrJob.state /\ hdrJob'.sel = request
           /\ DOMAIN hdrJob' = DOMAIN hdrJob /\ pc' = "idle"
  BY DEF HdrTypes, HdrReview, request

\* The gate is not near, and the selection stays.
LEMMA InWork ==
    ASSUME HdrTypes, InHand, hdrJob.state \in {"READY", "ENCODING"}
    PROVE  /\ GateIsFed' /\ RetainedAsReviewed' /\ request' = request /\ DOMAIN hdrJob' = DOMAIN hdrJob
           /\ hdrJob'.state \in {"READY", "ENCODING", "NEEDS_REVIEW"}
           /\ \A s : InStage(s)' => s \in {"READY", "ENCODING", "NEEDS_REVIEW"} /\ (s # "NEEDS_REVIEW" => InStage(s))
<1>1. CASE hdrJob' = hdrJob
  BY <1>1 DEF GateIsFed, RetainedAsReviewed, InStage, request
<1>2. CASE HdrReview
  <2>1. hdrJob'.state = "NEEDS_REVIEW" /\ hdrJob'.resume = hdrJob.state /\ hdrJob'.sel = request
        /\ DOMAIN hdrJob' = DOMAIN hdrJob
    BY <1>2, ReviewMeans
  <2>2. ASSUME NEW s PROVE InStage(s)' => s \in {"READY", "ENCODING", "NEEDS_REVIEW"}
                                        /\ (s # "NEEDS_REVIEW" => InStage(s))
    BY <2>1 DEF InStage
  <2>3. ~InStage("QC")'
    BY <2>2
  <2> QED BY <2>1, <2>2, <2>3 DEF GateIsFed, RetainedAsReviewed, request
<1> QED BY <1>1, <1>2 DEF InHand

\* The files a stage leaves alone.
LEMMA MarksStay ==
    ASSUME HdrInv, UNCHANGED <<disc, marks>>
    PROVE  ExtractMarkTrue' /\ EncodeMarkTrue'
  BY DEF HdrInv, ExtractMarkTrue, EncodeMarkTrue, FileFits, NoLayer, Discarded

LEMMA ReportStays ==
    ASSUME HdrInv, UNCHANGED <<disc, hdrReport>>
    PROVE  ReportTrue'
  BY DEF HdrInv, ReportTrue, PlanTrue, PlanAnswers, Retained

LEMMA ScanStays ==
    ASSUME HdrInv, UNCHANGED <<disc, scan>>
    PROVE  ScanTrue'
  BY DEF HdrInv, ScanTrue

\* The title of the reference stays that of the selection.
LEMMA ReferenceStays ==
    ASSUME HdrInv, InHand, hdrJob.state \in {"READY", "ENCODING"}, reference' = reference
    PROVE  ReferenceFits'
<1>1. request' = request /\ \A s : InStage(s)' => s # "QC" /\ (s # "NEEDS_REVIEW" => InStage(s))
  BY InWork DEF HdrInv
<1>2. InStage("ENCODING")' => InStage("ENCODING")
  BY <1>1
<1>3. ~InStage("QC")'
  BY <1>1
<1> QED BY <1>1, <1>2, <1>3 DEF HdrInv, ReferenceFits

\* Nothing is in hand after the step.
LEMMA NothingInHand ==
    ASSUME pc' = "idle"
    PROVE  PrepareTrue' /\ EncodeTrue'
  BY DEF PrepareTrue, Preparing, EncodeTrue

-----------------------------------------------------------------------------
(* Steps around the stages                                                   *)

LEMMA ScanStep ==
    ASSUME HdrInv, ScanDisc
    PROVE  HdrInv'
<1>1. /\ hdrJob.state = "SCANNING" /\ UNCHANGED <<disc, pc, plan, tool, reference, metadata, hdrReport, marks, video>>
      /\ pc = "idle" /\ disc \in Discs
  BY DEF ScanDisc, HdrFiles, HdrInv, HdrTypes
<1>2. PICK seen \in {disc, IF disc.dolby = 7 THEN [disc EXCEPT !.dolby = 0] ELSE disc} : scan' = seen
  BY DEF ScanDisc
<1>3. disc \in [plus : BOOLEAN, dolby : {0, 5, 7, 8}, base : BOOLEAN]
  BY <1>1, DynamicHdrAssumption
<1>4. seen.plus = disc.plus /\ (seen.dolby # 0 => seen.dolby = disc.dolby)
  BY <1>2, <1>3
<1>5. ScanTrue'
  BY <1>1, <1>2, <1>4 DEF ScanTrue
<1>6. hdrJob'.state = "AWAITING_SELECTION" /\ DOMAIN hdrJob' = DOMAIN hdrJob
  BY DEF ScanDisc, HdrInv, HdrTypes
<1>7. HdrTypes' /\ ReferenceFits' /\ GateIsFed' /\ RetainedAsReviewed'
  BY <1>1, <1>6 DEF HdrInv, HdrTypes, ReferenceFits, GateIsFed, RetainedAsReviewed, InStage
<1> QED BY <1>1, <1>5, <1>7, MarksStay, ReportStays, NothingInHand DEF HdrInv

LEMMA SelectStep ==
    ASSUME HdrInv, SelectHdr
    PROVE  HdrInv'
<1>1. UNCHANGED <<disc, scan, pc, plan, tool, reference, metadata, hdrReport, marks, video>> /\ pc = "idle"
  BY DEF SelectHdr, HdrFiles, HdrInv, HdrTypes
<1>2. PICK r \in Requests : hdrJob' = [state |-> "READY", resume |-> "", sel |-> r]
  BY DEF SelectHdr
<1>3. hdrJob'.state = "READY" /\ hdrJob'.sel = r /\ DOMAIN hdrJob' = {"state", "resume", "sel"}
  BY <1>2
<1>4. HdrTypes' /\ ReferenceFits' /\ GateIsFed' /\ RetainedAsReviewed'
  BY <1>1, <1>3 DEF HdrInv, HdrTypes, ReferenceFits, GateIsFed, RetainedAsReviewed, InStage, request
<1> QED BY <1>1, <1>4, MarksStay, ReportStays, ScanStays, NothingInHand DEF HdrInv

LEMMA ResumeStep ==
    ASSUME HdrInv, ResumeHdr
    PROVE  HdrInv'
<1>1. UNCHANGED <<disc, scan, pc, plan, tool, reference, metadata, hdrReport, marks, video>> /\ pc = "idle"
  BY DEF ResumeHdr, HdrFiles, HdrInv, HdrTypes
<1>2. /\ hdrJob.state = "NEEDS_REVIEW" /\ hdrJob.resume \in {"READY", "ENCODING", "QC"}
      /\ hdrJob'.state = hdrJob.resume /\ request' = request /\ DOMAIN hdrJob' = DOMAIN hdrJob
      /\ request \in Requests
  BY DEF ResumeHdr, HdrInv, HdrTypes, request
<1>3. HdrTypes' /\ RetainedAsReviewed'
  BY <1>1, <1>2 DEF HdrInv, HdrTypes, RetainedAsReviewed
<1>4. InStage("QC")' => InStage("QC")
  BY <1>2 DEF InStage
<1>5. InStage("ENCODING")' => InStage("ENCODING")
  BY <1>2 DEF InStage
<1>6. ReferenceFits'
  BY <1>1, <1>2, <1>4, <1>5 DEF HdrInv, ReferenceFits
<1>7. EncodeInputs' = EncodeInputs
  BY <1>1, <1>2 DEF EncodeInputs, PlanOfReport, DynamicInputs
<1>8. GateIsFed'
  BY <1>1, <1>2, <1>4, <1>7 DEF HdrInv, GateIsFed
<1> QED BY <1>1, <1>3, <1>6, <1>8, MarksStay, ReportStays, ScanStays, NothingInHand DEF HdrInv

LEMMA StopStep ==
    ASSUME HdrInv, StopHdr
    PROVE  HdrInv'
<1>1. UNCHANGED <<disc, scan, tool, reference, metadata, hdrReport, marks, video>> /\ pc' = "idle"
  BY DEF StopHdr, HdrFiles
<1>2. hdrJob.state \in {"READY", "ENCODING", "QC"} /\ request \in Requests
  BY DEF StopHdr, HdrInv, HdrTypes
<1>3. \/ hdrJob' = hdrJob /\ hdrJob.state \in {"READY", "ENCODING"}
      \/ hdrJob'.state = "READY" /\ request' = request /\ DOMAIN hdrJob' = DOMAIN hdrJob
  BY DEF StopHdr, HdrInv, HdrTypes, request
<1>4. /\ request' = request /\ DOMAIN hdrJob' = DOMAIN hdrJob /\ hdrJob'.state \in {"READY", "ENCODING"}
      /\ hdrJob'.state = "ENCODING" => hdrJob.state = "ENCODING"
  BY <1>3 DEF request
<1>5. HdrTypes' /\ RetainedAsReviewed' /\ GateIsFed'
  BY <1>1, <1>2, <1>4 DEF HdrInv, HdrTypes, RetainedAsReviewed, GateIsFed, InStage
<1>6. ReferenceFits'
  BY <1>1, <1>4 DEF HdrInv, ReferenceFits, InStage
<1> QED BY <1>1, <1>5, <1>6, MarksStay, ReportStays, ScanStays, NothingInHand DEF HdrInv

LEMMA ChangeSteps ==
    ASSUME HdrInv, ToolsChange \/ FilesChange
    PROVE  HdrInv'
<1>1. /\ UNCHANGED <<disc, scan, hdrJob, pc, plan, reference, marks>> /\ pc = "idle"
      /\ hdrJob.state # "DONE" /\ request' = request
  BY DEF ToolsChange, FilesChange, HdrFiles, request
<1>2. \/ UNCHANGED <<hdrReport, video>>
      \/ hdrReport' = NoReport /\ video' = video
      \/ video' = [video EXCEPT !.encoded = NoFile] /\ hdrReport' = hdrReport
  BY DEF ToolsChange, FilesChange, HdrFiles
<1>3. HdrTypes' /\ RetainedAsReviewed' /\ ReferenceFits'
  BY <1>1, <1>2 DEF HdrInv, HdrTypes, RetainedAsReviewed, ReferenceFits, InStage
<1>4. ReportTrue'
  BY <1>1, <1>2, ReportStays DEF ReportTrue
<1>5. InStage("QC")' <=> InStage("QC")
  BY <1>1 DEF InStage
<1>6. CASE hdrReport' = hdrReport
  <2>1. EncodeInputs' = EncodeInputs
    BY <1>1, <1>6 DEF EncodeInputs, PlanOfReport, DynamicInputs
  <2>2. video'.encoded = video.encoded \/ video'.encoded = NoFile
    BY <1>2, <1>6 DEF HdrInv, HdrTypes
  <2> QED BY <1>1, <1>3, <1>4, <1>5, <1>6, <2>1, <2>2, MarksStay, ScanStays, NothingInHand DEF HdrInv, GateIsFed
<1>7. CASE hdrReport' = NoReport /\ video' = video
  <2>1. request.mode = "discard" => EncodeInputs' = EncodeInputs
    BY <1>1 DEF EncodeInputs, PlanOfReport, DynamicInputs, Retained, Discarded, Bounded81
  <2>2. GateIsFed'
    BY <1>1, <1>5, <1>7, <2>1 DEF HdrInv, GateIsFed
  <2> QED BY <1>1, <1>3, <1>4, <2>2, MarksStay, ScanStays, NothingInHand DEF HdrInv
<1> QED BY <1>2, <1>6, <1>7

-----------------------------------------------------------------------------
(* Preparation                                                               *)

\* The types hold while a stage goes on or asks for a review.
LEMMA TypesInWork ==
    ASSUME HdrInv, InHand, hdrJob.state \in {"READY", "ENCODING"}, disc' = disc,
           DOMAIN marks' = DOMAIN marks, DOMAIN video' = DOMAIN video
    PROVE  HdrTypes'
<1>1. CASE hdrJob' = hdrJob
  BY <1>1 DEF HdrInv, HdrTypes, request
<1>2. CASE HdrReview
  <2>1. /\ hdrJob'.state = "NEEDS_REVIEW" /\ hdrJob'.resume = hdrJob.state /\ hdrJob'.sel = request
        /\ DOMAIN hdrJob' = DOMAIN hdrJob /\ pc' = "idle"
    BY <1>2, ReviewMeans DEF HdrInv
  <2> QED BY <2>1 DEF HdrInv, HdrTypes, request
<1> QED BY <1>1, <1>2 DEF InHand

LEMMA PrepareStartStep ==
    ASSUME HdrInv, PrepareStarts
    PROVE  HdrInv'
<1>1. /\ UNCHANGED <<disc, scan, tool, metadata, hdrReport, marks, video>> /\ InHand
      /\ hdrJob.state \in {"READY", "ENCODING"}
  BY DEF PrepareStarts, InHand
<1>2. HdrTypes' /\ GateIsFed' /\ RetainedAsReviewed'
  BY <1>1, TypesInWork, InWork DEF HdrInv
<1>3. request \in Requests /\ ScanTrue
  BY <1>1 DEF HdrInv, HdrTypes
<1>4. CASE Resolve = Refused
  <2>1. HdrReview /\ reference' = reference
    BY <1>4 DEF PrepareStarts
  <2>2. pc' = "idle"
    BY <2>1 DEF HdrReview
  <2> QED BY <1>1, <1>2, <2>1, <2>2, ReferenceStays, MarksStay, ReportStays, ScanStays, NothingInHand DEF HdrInv
<1>5. CASE Resolve # Refused
  <2>1. /\ reference' = request.title /\ plan' = Resolve /\ hdrJob' = hdrJob
        /\ pc' = IF request.mode = "discard" THEN "checkpoint" ELSE "support"
    BY <1>5 DEF PrepareStarts
  <2>2. PlanTrue(Resolve) /\ PlanAnswers(Resolve, request)
    BY <1>3, <1>5, ResolvedIsTrue
  <2>3. PlanTrue(plan)' /\ PlanAnswers(plan, request)' /\ request' = request
    BY <1>1, <2>1, <2>2 DEF PlanTrue, PlanAnswers, request
  <2>4. pc' \in {"checkpoint", "support"}
    BY <2>1
  <2>5. PrepareTrue' /\ EncodeTrue' /\ ReferenceFits'
    BY <2>1, <2>3, <2>4 DEF PrepareTrue, Preparing, EncodeTrue, ReferenceFits
  <2> QED BY <1>1, <1>2, <2>5, MarksStay, ReportStays, ScanStays DEF HdrInv
<1> QED BY <1>4, <1>5

LEMMA ToolStep ==
    ASSUME HdrInv, ToolIsThere
    PROVE  HdrInv'
<1>1. /\ UNCHANGED <<disc, scan, tool, reference, metadata, hdrReport, marks, video>>
      /\ pc = "support" /\ hdrJob.state \in {"READY", "ENCODING"}
  BY DEF ToolIsThere, HdrFiles, HdrInv, HdrTypes
<1>2. InHand
  BY DEF ToolIsThere, InHand
<1>3. HdrTypes' /\ GateIsFed' /\ RetainedAsReviewed' /\ ReferenceFits' /\ request' = request
  BY <1>1, <1>2, TypesInWork, InWork, ReferenceStays DEF HdrInv
<1>4. PlanTrue(plan) /\ PlanAnswers(plan, request) /\ reference = request.title
  BY <1>1 DEF HdrInv, PrepareTrue, Preparing
<1>5. CASE HdrReview
  <2>1. pc' = "idle"
    BY <1>5 DEF HdrReview
  <2> QED BY <1>1, <1>3, <2>1, MarksStay, ReportStays, ScanStays, NothingInHand DEF HdrInv
<1>6. CASE plan' = plan /\ pc' = "report" /\ ~Retained(plan)
  <2>1. PlanTrue(plan)' /\ PlanAnswers(plan, request)' /\ ~Retained(plan)'
    BY <1>1, <1>3, <1>4, <1>6 DEF PlanTrue, PlanAnswers, Retained
  <2>2. PrepareTrue' /\ EncodeTrue'
    BY <1>1, <1>3, <1>4, <1>6, <2>1 DEF PrepareTrue, Preparing, EncodeTrue
  <2> QED BY <1>1, <1>3, <2>2, MarksStay, ReportStays, ScanStays DEF HdrInv
<1>7. CASE plan' = plan /\ pc' = IF marks.extract = <<ExtractInputs, metadata>> THEN "report" ELSE "extract"
  <2>1. PlanTrue(plan)' /\ PlanAnswers(plan, request)'
    BY <1>1, <1>3, <1>4, <1>7 DEF PlanTrue, PlanAnswers
  <2>2. pc' = "report" => metadata.made = plan /\ metadata.frames = reference
    <3> SUFFICES ASSUME pc' = "report" PROVE metadata.made = plan /\ metadata.frames = reference
      OBVIOUS
    <3>1. marks.extract = <<ExtractInputs, metadata>>
      BY <1>7
    <3>2. /\ marks.extract # <<>> /\ marks.extract[1] = ExtractInputs /\ marks.extract[2] = metadata
          /\ ExtractInputs[1] = reference /\ ExtractInputs[2] = plan
      BY <3>1 DEF ExtractInputs
    <3> QED BY <3>2 DEF HdrInv, ExtractMarkTrue
  <2>3. pc' \in {"report", "extract"}
    BY <1>7
  <2>4. PrepareTrue' /\ EncodeTrue'
    BY <1>1, <1>3, <1>4, <1>7, <2>1, <2>2, <2>3 DEF PrepareTrue, Preparing, EncodeTrue
  <2> QED BY <1>1, <1>3, <2>4, MarksStay, ReportStays, ScanStays DEF HdrInv
<1>8. CASE pc' = "report" /\ plan' = Discarded /\ request.mode = "auto"
  <2>1. Discarded.mode = "discard"
    BY DEF Discarded
  <2>2. PlanTrue(plan)' /\ PlanAnswers(plan, request)' /\ ~Retained(plan)'
    BY <1>3, <1>8, <2>1 DEF PlanTrue, PlanAnswers, Retained
  <2>3. PrepareTrue' /\ EncodeTrue'
    BY <1>1, <1>3, <1>4, <1>8, <2>2 DEF PrepareTrue, Preparing, EncodeTrue
  <2> QED BY <1>1, <1>3, <2>3, MarksStay, ReportStays, ScanStays DEF HdrInv
<1> QED BY <1>5, <1>6, <1>7, <1>8 DEF ToolIsThere

LEMMA ExtractStep ==
    ASSUME HdrInv, Extract
    PROVE  HdrInv'
<1>1. /\ UNCHANGED <<disc, scan, hdrJob, plan, tool, reference, hdrReport, marks, video>>
      /\ pc = "extract" /\ pc' = "count" /\ hdrJob.state \in {"READY", "ENCODING"} /\ InHand
  BY DEF Extract, HdrInv, HdrTypes, InHand
<1>2. HdrTypes' /\ GateIsFed' /\ RetainedAsReviewed' /\ ReferenceFits' /\ request' = request
  BY <1>1, TypesInWork, InWork, ReferenceStays DEF HdrInv
<1>3. PICK n \in {0, reference} :
        metadata' = [made |-> plan, title |-> reference, frames |-> n, version |-> Support(plan)]
  BY DEF Extract
<1>4. metadata'.made = plan
  BY <1>3
<1>5. PlanTrue(plan)' /\ PlanAnswers(plan, request)' /\ reference' = request'.title
  BY <1>1, <1>2 DEF HdrInv, PrepareTrue, Preparing, PlanTrue, PlanAnswers
<1>6. PrepareTrue' /\ EncodeTrue'
  BY <1>1, <1>4, <1>5 DEF PrepareTrue, Preparing, EncodeTrue
<1> QED BY <1>1, <1>2, <1>6, MarksStay, ReportStays, ScanStays DEF HdrInv

LEMMA CountStep ==
    ASSUME HdrInv, CountFrames
    PROVE  HdrInv'
<1>1. /\ UNCHANGED <<disc, scan, tool, reference, metadata, hdrReport, video>>
      /\ pc = "count" /\ hdrJob.state \in {"READY", "ENCODING"} /\ InHand /\ DOMAIN marks' = DOMAIN marks
  BY DEF CountFrames, HdrInv, HdrTypes, InHand
<1>2. HdrTypes' /\ GateIsFed' /\ RetainedAsReviewed' /\ ReferenceFits' /\ request' = request
  BY <1>1, TypesInWork, InWork, ReferenceStays DEF HdrInv
<1>3. /\ PlanTrue(plan) /\ PlanAnswers(plan, request) /\ reference = request.title
      /\ metadata.made = plan
  BY <1>1 DEF HdrInv, PrepareTrue, Preparing
<1>4. CASE HasEveryFrame
  <2>1. /\ marks' = [marks EXCEPT !.extract = <<ExtractInputs, metadata>>]
        /\ pc' = "report" /\ plan' = plan /\ metadata.frames = reference
    BY <1>4 DEF CountFrames, HasEveryFrame
  <2>2. marks'.extract = <<ExtractInputs, metadata>> /\ marks'.encode = marks.encode
    BY <2>1 DEF HdrInv, HdrTypes
  <2>3. /\ marks'.extract[1] = ExtractInputs /\ marks'.extract[2] = metadata
        /\ ExtractInputs[1] = reference /\ ExtractInputs[2] = plan
    BY <2>2 DEF ExtractInputs
  <2>4. ExtractMarkTrue'
    BY <1>3, <2>1, <2>3 DEF ExtractMarkTrue
  <2>5. EncodeMarkTrue'
    BY <2>2 DEF HdrInv, EncodeMarkTrue, FileFits, NoLayer, Discarded
  <2>6. PlanTrue(plan)' /\ PlanAnswers(plan, request)'
    BY <1>1, <1>2, <1>3, <2>1 DEF PlanTrue, PlanAnswers
  <2>7. PrepareTrue' /\ EncodeTrue'
    BY <1>1, <1>2, <1>3, <2>1, <2>6 DEF PrepareTrue, Preparing, EncodeTrue
  <2> QED BY <1>1, <1>2, <2>4, <2>5, <2>7, ReportStays, ScanStays DEF HdrInv
<1>5. CASE ~HasEveryFrame
  <2>1. HdrReview /\ marks' = marks
    BY <1>5 DEF CountFrames
  <2>2. pc' = "idle"
    BY <2>1 DEF HdrReview
  <2> QED BY <1>1, <1>2, <2>1, <2>2, MarksStay, ReportStays, ScanStays, NothingInHand DEF HdrInv
<1> QED BY <1>4, <1>5

LEMMA ReportStep ==
    ASSUME HdrInv, WriteReport
    PROVE  HdrInv'
<1>1. /\ UNCHANGED <<disc, scan, hdrJob, plan, tool, reference, metadata, marks, video>>
      /\ pc = "report" /\ pc' = "checkpoint" /\ hdrJob.state \in {"READY", "ENCODING"} /\ InHand
  BY DEF WriteReport, HdrInv, HdrTypes, InHand
<1>2. HdrTypes' /\ GateIsFed' /\ RetainedAsReviewed' /\ ReferenceFits' /\ request' = request
  BY <1>1, TypesInWork, InWork, ReferenceStays DEF HdrInv
<1>3. /\ PlanTrue(plan) /\ PlanAnswers(plan, request) /\ reference = request.title
      /\ Retained(plan) => metadata.made = plan /\ metadata.frames = reference
  BY <1>1 DEF HdrInv, PrepareTrue, Preparing
<1>4. /\ hdrReport'.sel = request /\ hdrReport'.plan = plan
      /\ Retained(plan) => hdrReport'.layer = metadata
  BY DEF WriteReport
<1>5. PlanTrue(hdrReport.plan)' /\ PlanAnswers(hdrReport.plan, hdrReport.sel)'
  BY <1>1, <1>3, <1>4 DEF PlanTrue, PlanAnswers
<1>6. ReportTrue'
  BY <1>3, <1>4, <1>5 DEF ReportTrue, Retained
<1>7. PrepareTrue' /\ EncodeTrue'
  BY <1>1, <1>2, <1>3 DEF PrepareTrue, Preparing, EncodeTrue
<1> QED BY <1>1, <1>2, <1>6, <1>7, MarksStay, ScanStays DEF HdrInv

LEMMA PrepareEndStep ==
    ASSUME HdrInv, PrepareEnds
    PROVE  HdrInv'
<1>1. /\ UNCHANGED <<disc, scan, tool, reference, metadata, hdrReport, video>>
      /\ pc = "checkpoint" /\ hdrJob.state \in {"READY", "ENCODING"} /\ reference = request.title
      /\ pc' \in {"idle", "load"}
  BY DEF PrepareEnds, HdrInv, HdrTypes, PrepareTrue
<1>2. /\ hdrJob'.state = "ENCODING" /\ hdrJob'.sel = request /\ DOMAIN hdrJob' = DOMAIN hdrJob
      /\ marks'.extract = marks.extract /\ marks'.encode = marks.encode /\ DOMAIN marks' = DOMAIN marks
  BY DEF PrepareEnds, HdrInv, HdrTypes, request
<1>3. HdrTypes'
  BY <1>1, <1>2 DEF HdrInv, HdrTypes, request
<1>4. GateIsFed' /\ RetainedAsReviewed' /\ ReferenceFits'
  BY <1>1, <1>2 DEF GateIsFed, RetainedAsReviewed, ReferenceFits, InStage, request
<1>5. ExtractMarkTrue' /\ EncodeMarkTrue'
  BY <1>2 DEF HdrInv, ExtractMarkTrue, EncodeMarkTrue, FileFits, NoLayer, Discarded
<1>6. PrepareTrue' /\ EncodeTrue'
  BY <1>1 DEF PrepareTrue, Preparing, EncodeTrue
<1> QED BY <1>1, <1>3, <1>4, <1>5, <1>6, ReportStays, ScanStays DEF HdrInv

-----------------------------------------------------------------------------
(* The encode and the gate                                                   *)

\* What the encode goes by stays while it runs.
LEMMA EncodeGoesBy ==
    ASSUME HdrInv, InHand, hdrJob.state \in {"READY", "ENCODING"},
           UNCHANGED <<reference, metadata, hdrReport>>
    PROVE  /\ ReportIsCurrent' <=> ReportIsCurrent
           /\ PlanOfReport' = PlanOfReport /\ LayerOfReport' = LayerOfReport
           /\ EncodeInputs' = EncodeInputs /\ request' = request
<1>1. request' = request
  BY InWork DEF HdrInv
<1>2. PlanOfReport' = PlanOfReport /\ (ReportIsCurrent' <=> ReportIsCurrent)
  BY <1>1 DEF PlanOfReport, ReportIsCurrent
<1> QED BY <1>1, <1>2 DEF LayerOfReport, EncodeInputs, DynamicInputs, NoLayer, Discarded

LEMMA LoadStep ==
    ASSUME HdrInv, EncodeLoads
    PROVE  HdrInv'
<1>1. /\ UNCHANGED <<disc, scan, tool, reference, metadata, hdrReport, marks, video>>
      /\ hdrJob.state = "ENCODING" /\ request \in Requests
  BY DEF EncodeLoads, HdrFiles, HdrInv, HdrTypes
<1>2. CASE HdrReview
  <2>1. pc' = "idle" /\ InHand
    BY <1>2 DEF HdrReview, InHand
  <2>2. HdrTypes' /\ GateIsFed' /\ RetainedAsReviewed' /\ ReferenceFits'
    BY <1>1, <2>1, TypesInWork, InWork, ReferenceStays DEF HdrInv
  <2> QED BY <1>1, <2>1, <2>2, MarksStay, ReportStays, ScanStays, NothingInHand DEF HdrInv
<1>3. CASE /\ marks.encode = <<EncodeInputs, video.encoded>> /\ pc' = "idle"
           /\ hdrJob' = [hdrJob EXCEPT !.state = "QC"]
  <2>1. hdrJob'.state = "QC" /\ request' = request /\ DOMAIN hdrJob' = DOMAIN hdrJob
    BY <1>3 DEF HdrInv, HdrTypes, request
  <2>2. HdrTypes' /\ RetainedAsReviewed'
    BY <1>1, <1>3, <2>1 DEF HdrInv, HdrTypes, RetainedAsReviewed
  <2>3. ReferenceFits'
    BY <1>1, <2>1 DEF HdrInv, ReferenceFits, InStage
  <2>4. EncodeInputs' = EncodeInputs
    BY <1>1, <2>1 DEF EncodeInputs, PlanOfReport, DynamicInputs
  <2>5. GateIsFed'
    BY <1>1, <1>3, <2>4 DEF GateIsFed
  <2> QED BY <1>1, <1>3, <2>2, <2>3, <2>5, MarksStay, ReportStays, ScanStays, NothingInHand DEF HdrInv
<1>4. CASE ReportIsCurrent /\ pc' = "encode" /\ plan' = PlanOfReport /\ hdrJob' = hdrJob
  <2>1. InHand
    BY <1>4 DEF InHand
  <2>2. HdrTypes' /\ GateIsFed' /\ RetainedAsReviewed' /\ ReferenceFits'
    BY <1>1, <2>1, TypesInWork, InWork, ReferenceStays DEF HdrInv
  <2>3. ReportIsCurrent' /\ PlanOfReport' = PlanOfReport
    BY <1>1, <1>4, <2>1, EncodeGoesBy
  <2>4. EncodeTrue' /\ PrepareTrue'
    BY <1>1, <1>4, <2>3 DEF EncodeTrue, PrepareTrue, Preparing
  <2> QED BY <1>1, <2>2, <2>4, MarksStay, ReportStays, ScanStays DEF HdrInv
<1> QED BY <1>2, <1>3, <1>4 DEF EncodeLoads

\* The steps between the loading and the checkpoint.
LEMMA EncodeCommon ==
    ASSUME HdrInv, InHand, pc \in {"encode", "inject", "promote", "mark"}, DOMAIN video' = DOMAIN video,
           UNCHANGED <<disc, scan, reference, metadata, hdrReport, marks>>
    PROVE  /\ hdrJob.state = "ENCODING" /\ ReportIsCurrent' /\ plan = PlanOfReport
           /\ PlanOfReport' = PlanOfReport /\ LayerOfReport' = LayerOfReport /\ request' = request
           /\ HdrTypes' /\ ScanTrue' /\ ReferenceFits' /\ GateIsFed' /\ RetainedAsReviewed'
           /\ ExtractMarkTrue' /\ EncodeMarkTrue' /\ ReportTrue'
<1>1. hdrJob.state = "ENCODING" /\ ReportIsCurrent /\ plan = PlanOfReport
  BY DEF HdrInv, EncodeTrue
<1>2. HdrTypes' /\ GateIsFed' /\ RetainedAsReviewed' /\ ReferenceFits'
  BY <1>1, TypesInWork, InWork, ReferenceStays DEF HdrInv
<1>3. /\ ReportIsCurrent' /\ PlanOfReport' = PlanOfReport /\ LayerOfReport' = LayerOfReport
      /\ request' = request
  BY <1>1, EncodeGoesBy
<1> QED BY <1>1, <1>2, <1>3, MarksStay, ReportStays, ScanStays

LEMMA EncodeStep ==
    ASSUME HdrInv, Encode
    PROVE  HdrInv'
<1>1. /\ UNCHANGED <<disc, scan, hdrJob, plan, tool, reference, metadata, hdrReport, marks>> /\ InHand
      /\ pc = "encode" /\ DOMAIN video' = DOMAIN video
      /\ pc' = IF Retained(plan) THEN "inject" ELSE "promote"
  BY DEF Encode, InHand, HdrInv, HdrTypes
<1>2. /\ hdrJob.state = "ENCODING" /\ ReportIsCurrent' /\ plan = PlanOfReport
      /\ PlanOfReport' = PlanOfReport /\ LayerOfReport' = LayerOfReport /\ request' = request
      /\ HdrTypes' /\ ScanTrue' /\ ReferenceFits' /\ GateIsFed' /\ RetainedAsReviewed'
      /\ ExtractMarkTrue' /\ EncodeMarkTrue' /\ ReportTrue'
  BY <1>1, EncodeCommon
<1>3. PICK f : f = [title |-> reference, crop |-> request.crop,
                    signal |-> IF plan.mode = "dolby_vision" THEN plan.mode ELSE "discard",
                    bounded |-> Bounded81(plan), layer |-> NoLayer]
  OBVIOUS
<1>4. video'.temporary = f
  BY <1>3 DEF Encode, HdrInv, HdrTypes
<1>5. /\ DOMAIN f = VideoFields /\ f.title = reference /\ f.crop = request.crop
      /\ f.bounded = Bounded81(PlanOfReport) /\ f.layer = NoLayer
  BY <1>2, <1>3 DEF VideoFields
<1>6. MadeAs(video.temporary, NoLayer)'
  BY <1>1, <1>2, <1>4, <1>5 DEF MadeAs, Bounded81, NoLayer, Discarded
<1>7. ~Retained(plan) => LayerOfReport = NoLayer
  BY <1>2 DEF LayerOfReport
<1>8. pc' = "promote" => MadeAs(video.temporary, LayerOfReport)'
  BY <1>1, <1>2, <1>6, <1>7 DEF MadeAs, NoLayer, Discarded
<1>9. Retained(plan)' <=> Retained(plan)
  BY <1>1 DEF Retained
<1>10. EncodeTrue'
  BY <1>1, <1>2, <1>4, <1>5, <1>6, <1>8, <1>9 DEF EncodeTrue
<1>11. PrepareTrue'
  BY <1>1 DEF PrepareTrue, Preparing
<1> QED BY <1>2, <1>10, <1>11 DEF HdrInv

LEMMA InjectStep ==
    ASSUME HdrInv, Inject
    PROVE  HdrInv'
<1>1. /\ UNCHANGED <<disc, scan, tool, reference, metadata, hdrReport, marks>> /\ InHand
      /\ pc = "inject" /\ DOMAIN video' = DOMAIN video
  BY DEF Inject, InHand, HdrInv, HdrTypes
<1>2. /\ hdrJob.state = "ENCODING" /\ ReportIsCurrent' /\ plan = PlanOfReport
      /\ PlanOfReport' = PlanOfReport /\ LayerOfReport' = LayerOfReport /\ request' = request
      /\ HdrTypes' /\ ScanTrue' /\ ReferenceFits' /\ GateIsFed' /\ RetainedAsReviewed'
      /\ ExtractMarkTrue' /\ EncodeMarkTrue' /\ ReportTrue'
  BY <1>1, EncodeCommon
<1>3. CASE HdrReview
  <2>1. pc' = "idle"
    BY <1>3 DEF HdrReview
  <2> QED BY <1>2, <2>1, NothingInHand DEF HdrInv
<1>4. CASE video' = [video EXCEPT !.temporary.layer = metadata] /\ pc' = "promote" /\ UNCHANGED <<hdrJob, plan>>
  <2>1. Retained(plan) /\ DOMAIN video.temporary = VideoFields /\ MadeAs(video.temporary, NoLayer)
    BY <1>1 DEF HdrInv, EncodeTrue
  <2>2. PICK f : f = [video.temporary EXCEPT !.layer = metadata]
    OBVIOUS
  <2>3. video'.temporary = f
    BY <1>4, <2>2 DEF HdrInv, HdrTypes
  <2>4. /\ f.title = reference /\ f.crop = request.crop /\ f.bounded = Bounded81(PlanOfReport)
        /\ f.layer = metadata
    BY <2>1, <2>2 DEF MadeAs, VideoFields
  <2>5. metadata = hdrReport.layer /\ LayerOfReport = hdrReport.layer
    <3>1. request.mode # "discard"
      BY <1>2, <2>1 DEF PlanOfReport, Retained, Discarded
    <3>2. PlanOfReport = hdrReport.plan /\ ReportIsCurrent
      BY <1>1, <3>1 DEF PlanOfReport, HdrInv, EncodeTrue
    <3> QED BY <1>2, <2>1, <3>1, <3>2 DEF ReportIsCurrent, LayerOfReport
  <2>6. MadeAs(video.temporary, LayerOfReport)'
    BY <1>1, <1>2, <2>3, <2>4, <2>5 DEF MadeAs, Bounded81
  <2>7. EncodeTrue' /\ PrepareTrue'
    BY <1>2, <1>4, <2>6 DEF EncodeTrue, PrepareTrue, Preparing
  <2> QED BY <1>2, <2>7 DEF HdrInv
<1> QED BY <1>3, <1>4 DEF Inject

LEMMA PromoteStep ==
    ASSUME HdrInv, Promote
    PROVE  HdrInv'
<1>1. /\ UNCHANGED <<disc, scan, hdrJob, plan, tool, reference, metadata, hdrReport, marks>> /\ InHand
      /\ pc = "promote" /\ DOMAIN video' = DOMAIN video /\ pc' = "mark"
      /\ video'.encoded = video.temporary
  BY DEF Promote, InHand, HdrInv, HdrTypes
<1>2. /\ hdrJob.state = "ENCODING" /\ ReportIsCurrent' /\ plan = PlanOfReport
      /\ PlanOfReport' = PlanOfReport /\ LayerOfReport' = LayerOfReport /\ request' = request
      /\ HdrTypes' /\ ScanTrue' /\ ReferenceFits' /\ GateIsFed' /\ RetainedAsReviewed'
      /\ ExtractMarkTrue' /\ EncodeMarkTrue' /\ ReportTrue'
  BY <1>1, EncodeCommon
<1>3. MadeAs(video.temporary, LayerOfReport)
  BY <1>1 DEF HdrInv, EncodeTrue
<1>4. MadeAs(video.encoded, LayerOfReport)'
  BY <1>1, <1>2, <1>3 DEF MadeAs, Bounded81
<1>5. EncodeTrue' /\ PrepareTrue'
  BY <1>1, <1>2, <1>4 DEF EncodeTrue, PrepareTrue, Preparing
<1> QED BY <1>2, <1>5 DEF HdrInv

LEMMA EncodeEndStep ==
    ASSUME HdrInv, EncodeEnds
    PROVE  HdrInv'
<1>1. /\ UNCHANGED <<disc, scan, tool, reference, metadata, hdrReport, video>>
      /\ pc = "mark" /\ pc' = "idle"
  BY DEF EncodeEnds
<1>2. /\ hdrJob.state = "ENCODING" /\ MadeAs(video.encoded, LayerOfReport)
      /\ request \in Requests /\ reference = request.title
  BY <1>1 DEF HdrInv, HdrTypes, EncodeTrue, ReferenceFits, InStage
<1>3. /\ hdrJob'.state = "QC" /\ request' = request /\ DOMAIN hdrJob' = DOMAIN hdrJob
      /\ marks'.encode = <<EncodeInputs, video.encoded>> /\ marks'.extract = marks.extract
      /\ DOMAIN marks' = DOMAIN marks
  BY DEF EncodeEnds, HdrInv, HdrTypes, request
<1>4. HdrTypes' /\ RetainedAsReviewed' /\ ReferenceFits'
  BY <1>1, <1>2, <1>3 DEF HdrInv, HdrTypes, RetainedAsReviewed, ReferenceFits, InStage
<1>5. EncodeInputs' = EncodeInputs
  BY <1>1, <1>3 DEF EncodeInputs, PlanOfReport, DynamicInputs
<1>6. GateIsFed'
  BY <1>1, <1>3, <1>5 DEF GateIsFed
<1>7. marks'.encode[1] = EncodeInputs /\ marks'.encode[2] = video.encoded
  BY <1>3
<1>8. /\ EncodeInputs[1] = reference /\ EncodeInputs[2] = request.crop
      /\ EncodeInputs[3] = Bounded81(PlanOfReport) /\ EncodeInputs[4] = DynamicInputs
  BY DEF EncodeInputs
<1>9. LayerOfReport = IF DynamicInputs = <<>> THEN NoLayer ELSE DynamicInputs[2]
  BY DEF LayerOfReport, DynamicInputs
<1>10. FileFits(EncodeInputs, video.encoded)
  BY <1>2, <1>8, <1>9 DEF MadeAs, FileFits
<1>11. EncodeMarkTrue'
  BY <1>7, <1>10 DEF EncodeMarkTrue, FileFits, NoLayer, Discarded
<1>12. ExtractMarkTrue'
  BY <1>3 DEF HdrInv, ExtractMarkTrue
<1> QED BY <1>1, <1>4, <1>6, <1>11, <1>12, ReportStays, ScanStays, NothingInHand DEF HdrInv

\* What a checkpoint of the present inputs says of the file.
LEMMA FileIsAsReported ==
    ASSUME HdrInv, marks.encode = <<EncodeInputs, video.encoded>>
    PROVE  MadeAs(video.encoded, LayerOfReport)
<1>1. marks.encode # <<>> /\ marks.encode[1] = EncodeInputs /\ marks.encode[2] = video.encoded
  OBVIOUS
<1>2. FileFits(EncodeInputs, video.encoded)
  BY <1>1 DEF HdrInv, EncodeMarkTrue
<1>3. /\ EncodeInputs[1] = reference /\ EncodeInputs[2] = request.crop
      /\ EncodeInputs[3] = Bounded81(PlanOfReport) /\ EncodeInputs[4] = DynamicInputs
  BY DEF EncodeInputs
<1>4. LayerOfReport = IF DynamicInputs = <<>> THEN NoLayer ELSE DynamicInputs[2]
  BY DEF LayerOfReport, DynamicInputs
<1> QED BY <1>2, <1>3, <1>4 DEF FileFits, MadeAs

LEMMA GateLetsThrough ==
    ASSUME HdrInv, hdrJob.state = "QC", ReportIsCurrent, OutputFits
    PROVE  LET layer == video.encoded.layer IN
           /\ request.mode # "auto" => layer.made.mode = request.mode
           /\ layer.made.mode = "hdr10plus" => disc.plus
           /\ layer.made.mode = "dolby_vision" =>
                /\ disc.dolby = layer.made.profile
                /\ layer.made.crop = request.crop /\ video.encoded.bounded
           /\ layer # NoLayer => layer.frames = request.title /\ layer = hdrReport.layer
           /\ video.encoded.title = request.title /\ video.encoded.crop = request.crop
<1>1. request \in Requests /\ reference = request.title
  BY DEF HdrInv, HdrTypes, ReferenceFits, InStage
<1>2. request.mode \in {"discard", "auto", "hdr10plus", "dolby_vision"}
  BY <1>1, RequestFacts
<1>3. request.mode # "discard" => hdrReport # NoReport /\ hdrReport.sel = request
  <2>1. NoReport.sel.mode = "none"
    BY DEF NoReport
  <2> QED BY <1>2, <2>1 DEF ReportIsCurrent
<1>4. marks.encode = <<EncodeInputs, video.encoded>>
  BY <1>3 DEF HdrInv, GateIsFed, InStage, OutputFits
<1>5. MadeAs(video.encoded, LayerOfReport)
  BY <1>4, FileIsAsReported
<1>6. PICK layer : layer = video.encoded.layer
  OBVIOUS
<1>7. /\ layer = LayerOfReport /\ layer.made.mode = PlanOfReport.mode
      /\ video.encoded.title = request.title /\ video.encoded.crop = request.crop
      /\ video.encoded.bounded = Bounded81(PlanOfReport)
  BY <1>1, <1>5, <1>6 DEF MadeAs, OutputFits
<1>8. CASE Retained(PlanOfReport)
  <2>1. request.mode # "discard" /\ PlanOfReport = hdrReport.plan
    BY <1>8 DEF PlanOfReport, Retained, Discarded
  <2>2. /\ PlanTrue(hdrReport.plan) /\ PlanAnswers(hdrReport.plan, request)
        /\ hdrReport.layer.made = hdrReport.plan /\ hdrReport.layer.frames = request.title
    BY <1>3, <1>8, <2>1 DEF HdrInv, ReportTrue
  <2>3. layer = hdrReport.layer /\ layer.made = hdrReport.plan
    BY <1>7, <1>8, <2>2 DEF LayerOfReport
  <2>4. request.mode # "auto" => layer.made.mode = request.mode
    BY <1>2, <2>1, <2>2, <2>3 DEF PlanAnswers
  <2>5. layer.made.mode = "dolby_vision" =>
          disc.dolby = layer.made.profile /\ layer.made.crop = request.crop /\ video.encoded.bounded
    BY <1>7, <2>1, <2>2, <2>3 DEF PlanTrue, PlanAnswers, Bounded81
  <2>6. layer.made.mode = "hdr10plus" => disc.plus
    BY <2>2, <2>3 DEF PlanTrue
  <2> QED BY <1>6, <1>7, <2>2, <2>3, <2>4, <2>5, <2>6
<1>9. CASE ~Retained(PlanOfReport)
  <2>1. layer = NoLayer /\ layer.made.mode = "discard"
    BY <1>7, <1>9 DEF LayerOfReport, NoLayer, Discarded
  <2>2. request.mode # "auto" => layer.made.mode = request.mode
    <3>1. CASE request.mode = "discard"
      BY <2>1, <3>1
    <3>2. CASE request.mode \in {"hdr10plus", "dolby_vision"}
      <4>1. PlanOfReport = hdrReport.plan /\ PlanAnswers(hdrReport.plan, request)
        BY <1>3, <3>2 DEF HdrInv, ReportTrue, PlanOfReport
      <4> QED BY <1>7, <3>2, <4>1 DEF PlanAnswers
    <3> QED BY <1>2, <3>1, <3>2
  <2> QED BY <1>6, <1>7, <2>1, <2>2
<1> QED BY <1>8, <1>9

LEMMA GateStep ==
    ASSUME HdrInv, HdrGate
    PROVE  HdrInv'
<1>1. /\ UNCHANGED <<disc, scan, tool, reference, metadata, hdrReport, marks, video>>
      /\ hdrJob.state = "QC" /\ pc' = "idle" /\ request \in Requests
  BY DEF HdrGate, HdrFiles, HdrReview, HdrInv, HdrTypes
<1>2. CASE HdrReview
  <2>1. /\ hdrJob'.state = "NEEDS_REVIEW" /\ hdrJob'.resume = "QC" /\ request' = request
        /\ DOMAIN hdrJob' = DOMAIN hdrJob
    BY <1>1, <1>2, ReviewMeans DEF HdrInv, request
  <2>2. HdrTypes' /\ RetainedAsReviewed'
    BY <1>1, <2>1 DEF HdrInv, HdrTypes, RetainedAsReviewed
  <2>3. ReferenceFits'
    BY <1>1, <2>1 DEF HdrInv, ReferenceFits, InStage
  <2>4. EncodeInputs' = EncodeInputs
    BY <1>1, <2>1 DEF EncodeInputs, PlanOfReport, DynamicInputs
  <2>5. GateIsFed'
    BY <1>1, <2>1, <2>4 DEF HdrInv, GateIsFed, InStage
  <2> QED BY <1>1, <2>2, <2>3, <2>5, MarksStay, ReportStays, ScanStays, NothingInHand DEF HdrInv
<1>3. CASE ReportIsCurrent /\ OutputFits /\ hdrJob' = [hdrJob EXCEPT !.state = "DONE"]
  <2>1. hdrJob'.state = "DONE" /\ request' = request /\ DOMAIN hdrJob' = DOMAIN hdrJob
    BY <1>3 DEF HdrInv, HdrTypes, request
  <2>2. HdrTypes' /\ ReferenceFits' /\ GateIsFed'
    BY <1>1, <2>1 DEF HdrInv, HdrTypes, ReferenceFits, GateIsFed, InStage
  <2>3. RetainedAsReviewed'
    BY <1>1, <1>3, <2>1, GateLetsThrough DEF RetainedAsReviewed, NoLayer, Discarded
  <2> QED BY <1>1, <2>2, <2>3, MarksStay, ReportStays, ScanStays, NothingInHand DEF HdrInv
<1> QED BY <1>2, <1>3 DEF HdrGate

LEMMA HdrStepHolds == HdrInv /\ [DynamicHdrNext]_hdrVars => HdrInv'
<1> SUFFICES ASSUME HdrInv, [DynamicHdrNext]_hdrVars PROVE HdrInv'
  OBVIOUS
<1>1. CASE UNCHANGED hdrVars
  <2>1. UNCHANGED <<disc, scan, hdrJob, pc, plan, tool, reference, metadata, hdrReport, marks, video>>
    BY <1>1 DEF hdrVars
  <2>2. HdrTypes' /\ ReferenceFits' /\ RetainedAsReviewed'
    BY <2>1 DEF HdrInv, HdrTypes, ReferenceFits, RetainedAsReviewed, InStage, request
  <2>3. request' = request /\ PlanOfReport' = PlanOfReport /\ EncodeInputs' = EncodeInputs
    BY <2>1 DEF request, PlanOfReport, EncodeInputs, DynamicInputs
  <2>4. GateIsFed'
    BY <2>1, <2>3 DEF HdrInv, GateIsFed, InStage
  <2>5. PrepareTrue'
    BY <2>1, <2>3 DEF HdrInv, PrepareTrue, Preparing, PlanTrue, PlanAnswers, Retained
  <2>6. EncodeTrue'
    BY <2>1, <2>3 DEF HdrInv, EncodeTrue, MadeAs, LayerOfReport, ReportIsCurrent, Retained, NoLayer, Discarded
  <2> QED BY <2>1, <2>2, <2>4, <2>5, <2>6, MarksStay, ReportStays, ScanStays DEF HdrInv
<1> QED BY <1>1, ScanStep, SelectStep, ResumeStep, StopStep, ChangeSteps, PrepareStartStep, ToolStep,
           ExtractStep, CountStep, ReportStep, PrepareEndStep, LoadStep, EncodeStep, InjectStep,
           PromoteStep, EncodeEndStep, GateStep DEF DynamicHdrNext

(* What passes the gate carries the dynamic HDR the operator asked for and   *)
(* the disc has, of this title and crop, with every frame, for any discs and *)
(* requests and any number of revisions, stops and changes of tools and      *)
(* files (hdr_dynamic.py and the stages that use it).                        *)
THEOREM DynamicHdrIsAsReviewed == DynamicHdrSpec => []RetainedAsReviewed
<1>1. HdrInv => RetainedAsReviewed
  BY DEF HdrInv
<1> QED BY HdrInitHolds, HdrStepHolds, <1>1, PTL DEF DynamicHdrSpec

-----------------------------------------------------------------------------
(* What is accepted passes every check, for any number of pairs, any budget  *)
(* and any reviews, stops, revisions and damages.                            *)

\* Kinds that measure files, and the two that are made of what others measured.
Direct == {"efficiency", "videomux", "inspection", "trackmux", "subtitles", "audio", "spectra",
           "info", "origins", "probes", "images", "sdr", "planes"}
Derived == {"completeness", "metrics"}
OnlyRead == {"policy", "sound", "pairs", "thresholds"}

QcKinds  == {"efficiency", "videomux", "inspection", "trackmux", "policy", "subtitles", "audio",
             "spectra", "sound"}
ComparedKinds == {"info", "completeness", "origins", "probes", "pairs", "images", "sdr", "planes",
                  "metrics", "thresholds"}

LEMMA KindIs ==
    /\ DOMAIN Kind = QcKinds \cup ComparedKinds
    /\ Kind["efficiency"] = Efficiency /\ Kind["videomux"] = VideoMux
    /\ Kind["inspection"] = Inspection /\ Kind["trackmux"] = TrackMux
    /\ Kind["policy"] = Policy /\ Kind["subtitles"] = Subtitles
    /\ Kind["audio"] = Audio /\ Kind["sound"] = Sound /\ Kind["spectra"] = Spectra
    /\ Kind["info"] = ReferenceInfo /\ Kind["completeness"] = Completeness
    /\ Kind["origins"] = Origins /\ Kind["probes"] = Probes /\ Kind["pairs"] = FramePairs
    /\ Kind["images"] = Images /\ Kind["sdr"] = SdrImages /\ Kind["planes"] = Planes
    /\ Kind["metrics"] = Metrics /\ Kind["thresholds"] = Thresholds
<1>1. DOMAIN Kind = QcKinds \cup ComparedKinds
  BY DEF Kind, QcKinds, ComparedKinds
<1> QED BY <1>1 DEF Kind

\* The file that tells, for evidence, whether the files it was read from are
\* still there: every file is remade together with the output.
Pivot(k) == IF k = "info" THEN "reference" ELSE "output"

\* The files the evidence of a check speaks of.
Seen(k) == IF k = "metrics" THEN Planes.reads
           ELSE IF k = "completeness" THEN Efficiency.reads ELSE Kind[k].reads

LEMMA DirectIs ==
    ASSUME NEW k \in Direct
    PROVE  /\ Kind[k].from = {} /\ Kind[k].way \in {"first", "always", "last"}
           /\ Pivot(k) \in Kind[k].reads /\ Pivot(k) \in Kind[k].keys
           /\ Kind[k].reads \subseteq MediaFiles /\ Kind[k].keys \subseteq MediaFiles
           /\ About(k) \subseteq Kind[k].reads /\ Seen(k) = Kind[k].reads
<1>1. /\ Kind[k].from = {} /\ Kind[k].way \in {"first", "always", "last"}
      /\ Pivot(k) \in Kind[k].reads /\ Pivot(k) \in Kind[k].keys
      /\ Kind[k].reads \subseteq MediaFiles /\ Kind[k].keys \subseteq MediaFiles
  BY KindIs DEF Direct, Pivot, MediaFiles, Efficiency, VideoMux, Inspection, TrackMux, Subtitles,
     Audio, Spectra, ReferenceInfo, Origins, Probes, Images, SdrImages, Planes
<1>2. k # "thresholds" /\ k # "metrics" /\ k # "completeness"
  BY DEF Direct
<1> QED BY <1>1, <1>2 DEF About, Seen

\* Only a file of its own can be remade without the output.
LEMMA Remakes ==
    ASSUME NEW k \in Direct, NEW f \in MediaFiles, Pivot(k) \notin Remade(f)
    PROVE  Remade(f) \cap Kind[k].reads = {}
<1>1. "output" \in Remade(f) /\ (f = "reference" => "reference" \in Remade(f))
  BY DEF Remade, MediaFiles
<1>2. k = "info" /\ f # "reference"
  BY <1>1 DEF Pivot
<1>3. Remade(f) = {f, "output"}
  BY <1>2 DEF Remade, MediaFiles
<1>4. Kind[k].reads = {"reference"}
  BY <1>2, KindIs DEF ReferenceInfo
<1> QED BY <1>2, <1>3, <1>4

LEMMA DerivedIs ==
    /\ Kind["completeness"].from = {"info", "efficiency", "videomux"}
    /\ Kind["completeness"].way = "first" /\ Kind["metrics"].way = "always"
    /\ Kind["metrics"].from = {"planes"}
    /\ About("completeness") \subseteq Efficiency.reads /\ About("metrics") \subseteq Planes.reads
<1>1. /\ Kind["completeness"].from = {"info", "efficiency", "videomux"}
      /\ Kind["completeness"].reads = {} /\ Kind["metrics"].reads = {}
      /\ Kind["completeness"].way = "first" /\ Kind["metrics"].way = "always"
      /\ Kind["metrics"].from = {"planes"}
  BY KindIs DEF Completeness, Metrics
<1>2. /\ Kind["info"].reads \subseteq Efficiency.reads /\ Kind["efficiency"].reads \subseteq Efficiency.reads
      /\ Kind["videomux"].reads \subseteq Efficiency.reads /\ Kind["planes"].reads \subseteq Planes.reads
  BY KindIs DEF ReferenceInfo, Efficiency, VideoMux
<1> QED BY <1>1, <1>2 DEF About

LEMMA ReadingIs ==
    /\ \A k \in OnlyRead : Kind[k].way = "reading"
    /\ Kind["policy"].from = {"inspection"} /\ Kind["sound"].from = {"audio"}
    /\ Kind["pairs"].from = {"probes"} /\ Kind["thresholds"].from = {"metrics"}
    /\ About("policy") \subseteq Kind["inspection"].reads /\ About("sound") \subseteq Kind["audio"].reads
    /\ About("pairs") \subseteq Kind["probes"].reads /\ About("thresholds") \subseteq Planes.reads
<1>1. /\ \A k \in OnlyRead : Kind[k].way = "reading" /\ Kind[k].reads = {}
      /\ Kind["policy"].from = {"inspection"} /\ Kind["sound"].from = {"audio"}
      /\ Kind["pairs"].from = {"probes"} /\ Kind["thresholds"].from = {"metrics"}
      /\ Kind["metrics"].reads = {}
  BY KindIs DEF OnlyRead, Policy, Sound, FramePairs, Thresholds, Metrics
<1>2. About("policy") \subseteq Kind["inspection"].reads
  BY <1>1 DEF About, OnlyRead
<1>3. About("sound") \subseteq Kind["audio"].reads
  BY <1>1 DEF About, OnlyRead
<1>4. About("pairs") \subseteq Kind["probes"].reads
  BY <1>1 DEF About, OnlyRead
<1>5. About("thresholds") \subseteq Planes.reads
  BY <1>1 DEF About, OnlyRead
<1> QED BY <1>1, <1>2, <1>3, <1>4, <1>5

-----------------------------------------------------------------------------
(* The plans                                                                 *)

LEMMA QcPlan ==
    /\ Len(Plan("qc")) = 9
    /\ Plan("qc")[1] = <<"efficiency", 0>> /\ Plan("qc")[2] = <<"videomux", 0>>
    /\ Plan("qc")[3] = <<"inspection", 0>> /\ Plan("qc")[4] = <<"trackmux", 0>>
    /\ Plan("qc")[5] = <<"policy", 0>> /\ Plan("qc")[6] = <<"subtitles", 0>>
    /\ Plan("qc")[7] = <<"audio", 0>> /\ Plan("qc")[8] = <<"spectra", 0>>
    /\ Plan("qc")[9] = <<"sound", 0>>
<1> DEFINE ks == <<"efficiency", "videomux", "inspection", "trackmux", "policy", "subtitles",
                   "audio", "spectra", "sound">>
<1>1. Len(ks) = 9
  OBVIOUS
<1>2. Plan("qc") = [i \in 1..9 |-> <<ks[i], 0>>]
  BY <1>1 DEF Plan, Of
<1> QED BY <1>2

PlannedChecks == ComparedKinds \X Nat

\* The checks of the whole comparison that come before those of the pairs.
LEMMA FirstFive ==
    \E s \in Seq(PlannedChecks) :
        /\ s = Of(<<"info", "completeness", "origins", "probes", "pairs">>, 0) /\ Len(s) = 5
        /\ s[1] = <<"info", 0>> /\ s[2] = <<"completeness", 0>> /\ s[3] = <<"origins", 0>>
        /\ s[4] = <<"probes", 0>> /\ s[5] = <<"pairs", 0>>
<1> DEFINE ks == <<"info", "completeness", "origins", "probes", "pairs">>
<1>1. Len(ks) = 5
  OBVIOUS
<1>2. PICK s : s = [i \in 1..5 |-> <<ks[i], 0>>]
  OBVIOUS
<1>3. s = Of(ks, 0)
  BY <1>1, <1>2 DEF Of
<1>4. \A i \in 1..5 : s[i] \in PlannedChecks
  <2>1. \A i \in 1..5 : ks[i] \in ComparedKinds
    BY DEF ComparedKinds
  <2> QED BY <1>2, <2>1 DEF PlannedChecks
<1>5. s \in Seq(PlannedChecks) /\ Len(s) = 5
  BY <1>2, <1>4
<1>6. /\ s[1] = <<"info", 0>> /\ s[2] = <<"completeness", 0>> /\ s[3] = <<"origins", 0>>
      /\ s[4] = <<"probes", 0>> /\ s[5] = <<"pairs", 0>>
  BY <1>2
<1> HIDE DEF ks
<1>7. s = Of(<<"info", "completeness", "origins", "probes", "pairs">>, 0)
  BY <1>3 DEF ks
<1> QED BY <1>5, <1>6, <1>7

LEMMA PairChecksAre ==
    /\ PairChecks \in Seq({"images", "sdr", "planes", "metrics"} \X (1..Pairs))
    /\ Len(PairChecks) = 4 * Pairs
    /\ \A n \in 1..Pairs :
         /\ PairChecks[4 * n - 3] = <<"images", n>> /\ PairChecks[4 * n - 2] = <<"sdr", n>>
         /\ PairChecks[4 * n - 1] = <<"planes", n>> /\ PairChecks[4 * n] = <<"metrics", n>>
<1>1. Len(PerPair) = 4 /\ PerPair[1] = "images" /\ PerPair[2] = "sdr" /\ PerPair[3] = "planes"
      /\ PerPair[4] = "metrics"
  BY DEF PerPair
<1>2. Pairs \in Nat \ {0}
  BY GateAssumption
<1>3. PairChecks = [i \in 1..(4 * Pairs) |-> <<PerPair[((i - 1) % 4) + 1], ((i - 1) \div 4) + 1>>]
  BY <1>1 DEF PairChecks
<1>4. \A i \in 1..(4 * Pairs) : ((i - 1) % 4) + 1 \in 1..4 /\ ((i - 1) \div 4) + 1 \in 1..Pairs
  BY <1>2
<1>5. \A i \in 1..(4 * Pairs) : PairChecks[i] \in {"images", "sdr", "planes", "metrics"} \X (1..Pairs)
  BY <1>1, <1>3, <1>4
<1>6. PairChecks \in Seq({"images", "sdr", "planes", "metrics"} \X (1..Pairs)) /\ Len(PairChecks) = 4 * Pairs
  <2>1. PICK n \in Nat : n = 4 * Pairs
    BY <1>2
  <2>2. PICK S : S = {"images", "sdr", "planes", "metrics"} \X (1..Pairs)
    OBVIOUS
  <2>3. PICK t : t = PairChecks
    OBVIOUS
  <2>4. t = [i \in 1..n |-> t[i]]
    BY <1>3, <2>1, <2>3
  <2>5. \A i \in 1..n : t[i] \in S
    BY <1>5, <2>1, <2>2, <2>3
  <2>6. t \in [1..n -> S]
    BY <2>4, <2>5
  <2>7. t \in Seq(S) /\ Len(t) = n
    BY <2>1, <2>6
  <2> QED BY <2>1, <2>2, <2>3, <2>7
<1>7. ASSUME NEW n \in 1..Pairs
      PROVE /\ PairChecks[4 * n - 3] = <<"images", n>> /\ PairChecks[4 * n - 2] = <<"sdr", n>>
            /\ PairChecks[4 * n - 1] = <<"planes", n>> /\ PairChecks[4 * n] = <<"metrics", n>>
  <2>1. 4 * n - 3 \in 1..(4 * Pairs) /\ (4 * n - 3 - 1) % 4 = 0 /\ (4 * n - 3 - 1) \div 4 = n - 1
    BY <1>2
  <2>2. 4 * n - 2 \in 1..(4 * Pairs) /\ (4 * n - 2 - 1) % 4 = 1 /\ (4 * n - 2 - 1) \div 4 = n - 1
    BY <1>2
  <2>3. 4 * n - 1 \in 1..(4 * Pairs) /\ (4 * n - 1 - 1) % 4 = 2 /\ (4 * n - 1 - 1) \div 4 = n - 1
    BY <1>2
  <2>4. 4 * n \in 1..(4 * Pairs) /\ (4 * n - 1) % 4 = 3 /\ (4 * n - 1) \div 4 = n - 1
    BY <1>2
  <2>5. n - 1 + 1 = n
    OBVIOUS
  <2> QED BY <1>1, <1>3, <2>1, <2>2, <2>3, <2>4, <2>5
<1> QED BY <1>6, <1>7

LEMMA ComparisonPlan ==
    LET p == Plan("comparison") IN
    /\ Len(p) = 6 + 4 * Pairs
    /\ p[1] = <<"info", 0>> /\ p[2] = <<"completeness", 0>> /\ p[3] = <<"origins", 0>>
    /\ p[4] = <<"probes", 0>> /\ p[5] = <<"pairs", 0>> /\ p[6 + 4 * Pairs] = <<"thresholds", 0>>
    /\ \A n \in 1..Pairs :
         /\ p[4 * n + 2] = <<"images", n>> /\ p[4 * n + 3] = <<"sdr", n>>
         /\ p[4 * n + 4] = <<"planes", n>> /\ p[4 * n + 5] = <<"metrics", n>>
    /\ \A i \in 6..(5 + 4 * Pairs) : p[i] \in {"images", "sdr", "planes", "metrics"} \X (1..Pairs)
<1>1. PICK s \in Seq(PlannedChecks) :
        /\ s = Of(<<"info", "completeness", "origins", "probes", "pairs">>, 0) /\ Len(s) = 5
        /\ s[1] = <<"info", 0>> /\ s[2] = <<"completeness", 0>> /\ s[3] = <<"origins", 0>>
        /\ s[4] = <<"probes", 0>> /\ s[5] = <<"pairs", 0>>
  BY FirstFive
<1>2. PICK t : t = PairChecks
  OBVIOUS
<1>3. /\ t \in Seq({"images", "sdr", "planes", "metrics"} \X (1..Pairs)) /\ Len(t) = 4 * Pairs
      /\ \A n \in 1..Pairs :
           /\ t[4 * n - 3] = <<"images", n>> /\ t[4 * n - 2] = <<"sdr", n>>
           /\ t[4 * n - 1] = <<"planes", n>> /\ t[4 * n] = <<"metrics", n>>
  BY <1>2, PairChecksAre
<1>4. PICK u : u = Of(<<"thresholds">>, 0)
  OBVIOUS
<1>5. u = [i \in 1..1 |-> <<<<"thresholds">>[i], 0>>]
  BY <1>4 DEF Of
<1>6. u \in Seq(PlannedChecks) /\ Len(u) = 1 /\ u[1] = <<"thresholds", 0>>
  BY <1>5 DEF PlannedChecks, ComparedKinds
<1>7. PICK p : p = Plan("comparison")
  OBVIOUS
<1>8. p = (s \o t) \o u
  BY <1>1, <1>2, <1>4, <1>7 DEF Plan
<1>9. Pairs \in Nat \ {0}
  BY GateAssumption
<1>10. t \in Seq(PlannedChecks)
  <2>1. \A i \in 1..Len(t) : t[i] \in PlannedChecks
    BY <1>3 DEF PlannedChecks, ComparedKinds
  <2> QED BY <1>3, <2>1
<1>11. s \o t \in Seq(PlannedChecks) /\ Len(s \o t) = Len(s) + Len(t)
  BY <1>1, <1>10, ConcatProperties
<1>12. \A i \in 1..(Len(s) + Len(t)) : (s \o t)[i] = IF i <= Len(s) THEN s[i] ELSE t[i - Len(s)]
  BY <1>1, <1>10, ConcatProperties
<1>12a. Len(p) = Len(s \o t) + Len(u)
  BY <1>6, <1>8, <1>11, ConcatProperties
<1>12b. \A i \in 1..(Len(s \o t) + Len(u)) :
          p[i] = IF i <= Len(s \o t) THEN (s \o t)[i] ELSE u[i - Len(s \o t)]
  <2>1. PICK q : q = s \o t
    OBVIOUS
  <2>2. q \in Seq(PlannedChecks) /\ p = q \o u
    BY <1>8, <1>11, <2>1
  <2>3. \A i \in 1..(Len(q) + Len(u)) : (q \o u)[i] = IF i <= Len(q) THEN q[i] ELSE u[i - Len(q)]
    BY <1>6, <2>2, ConcatProperties
  <2> QED BY <2>1, <2>2, <2>3
<1>12c. Len(s \o t) = 5 + 4 * Pairs /\ Len(p) = 6 + 4 * Pairs
  <2>1. Len(s) = 5 /\ Len(t) = 4 * Pairs /\ Len(u) = 1
    BY <1>1, <1>3, <1>6
  <2>2. Len(s \o t) = 5 + 4 * Pairs
    BY <1>11, <2>1
  <2>3. Len(p) = 5 + 4 * Pairs + 1
    BY <1>12a, <2>1, <2>2
  <2> QED BY <1>9, <2>2, <2>3
<1>12e. \A i \in 1..(5 + 4 * Pairs) : p[i] = IF i <= 5 THEN s[i] ELSE t[i - 5]
  <2>1. Len(s) = 5 /\ Len(t) = 4 * Pairs /\ Len(u) = 1
    BY <1>1, <1>3, <1>6
  <2>2. \A i \in 1..(5 + 4 * Pairs) : (s \o t)[i] = IF i <= 5 THEN s[i] ELSE t[i - 5]
    BY <1>12, <2>1
  <2>3. \A i \in 1..(5 + 4 * Pairs + 1) :
           p[i] = IF i <= 5 + 4 * Pairs THEN (s \o t)[i] ELSE u[i - (5 + 4 * Pairs)]
    BY <1>12b, <1>12c, <2>1
  <2>4. PICK n : n = 5 + 4 * Pairs /\ n \in Nat
    BY <1>9
  <2>5. \A i \in 1..(n + 1) : p[i] = IF i <= n THEN (s \o t)[i] ELSE u[i - n]
    BY <2>3, <2>4
  <2>6. \A i \in 1..n : (s \o t)[i] = IF i <= 5 THEN s[i] ELSE t[i - 5]
    BY <2>2, <2>4
  <2>7. \A i \in 1..n : p[i] = IF i <= 5 THEN s[i] ELSE t[i - 5]
    <3> SUFFICES ASSUME NEW i \in 1..n PROVE p[i] = IF i <= 5 THEN s[i] ELSE t[i - 5]
      OBVIOUS
    <3>1. i \in 1..(n + 1) /\ i <= n
      BY <2>4
    <3>2. p[i] = (s \o t)[i]
      BY <2>5, <3>1
    <3> QED BY <2>6, <3>2
  <2> QED BY <2>4, <2>7
<1>12d. p[6 + 4 * Pairs] = u[1]
  BY <1>6, <1>9, <1>12b, <1>12c
<1>13. \A i \in 1..5 : p[i] = s[i]
  BY <1>9, <1>12e
<1>14. \A i \in 6..(5 + 4 * Pairs) : p[i] = t[i - 5] /\ i - 5 \in 1..(4 * Pairs)
  BY <1>9, <1>12e
<1>15. \A i \in 1..(4 * Pairs) : t[i] \in {"images", "sdr", "planes", "metrics"} \X (1..Pairs)
  BY <1>3
<1>16. ASSUME NEW n \in 1..Pairs
       PROVE /\ p[4 * n + 2] = t[4 * n - 3] /\ p[4 * n + 3] = t[4 * n - 2]
             /\ p[4 * n + 4] = t[4 * n - 1] /\ p[4 * n + 5] = t[4 * n]
  <2>1. /\ 4 * n + 2 \in 6..(5 + 4 * Pairs) /\ 4 * n + 3 \in 6..(5 + 4 * Pairs)
        /\ 4 * n + 4 \in 6..(5 + 4 * Pairs) /\ 4 * n + 5 \in 6..(5 + 4 * Pairs)
    BY <1>9
  <2>2. 4 * n + 2 - 5 = 4 * n - 3 /\ 4 * n + 3 - 5 = 4 * n - 2 /\ 4 * n + 4 - 5 = 4 * n - 1 /\ 4 * n + 5 - 5 = 4 * n
    BY <1>9
  <2> QED BY <1>14, <2>1, <2>2
<1>17. /\ p[1] = <<"info", 0>> /\ p[2] = <<"completeness", 0>> /\ p[3] = <<"origins", 0>>
       /\ p[4] = <<"probes", 0>> /\ p[5] = <<"pairs", 0>> /\ p[6 + 4 * Pairs] = <<"thresholds", 0>>
  BY <1>1, <1>6, <1>12d, <1>13
<1>18. \A i \in 6..(5 + 4 * Pairs) : p[i] \in {"images", "sdr", "planes", "metrics"} \X (1..Pairs)
  BY <1>14, <1>15
<1> QED BY <1>3, <1>7, <1>12c, <1>16, <1>17, <1>18

\* What the checks are, and what each is made of.
LEMMA ChecksAre ==
    /\ \A k \in QcKinds : <<k, 0>> \in Checks
    /\ \A k \in {"info", "completeness", "origins", "probes", "pairs", "thresholds"} : <<k, 0>> \in Checks
    /\ \A n \in 1..Pairs, k \in {"images", "sdr", "planes", "metrics"} : <<k, n>> \in Checks
    /\ \A c \in Checks :
         \/ c \in QcKinds \X {0}
         \/ c \in {"info", "completeness", "origins", "probes", "pairs", "thresholds"} \X {0}
         \/ c \in {"images", "sdr", "planes", "metrics"} \X (1..Pairs)
<1>0. Pairs \in Nat \ {0}
  BY GateAssumption
<1>1. InPlan("qc") = QcKinds \X {0}
  <2>1. \A i \in 1..9 : Plan("qc")[i] \in QcKinds \X {0}
    BY QcPlan DEF QcKinds
  <2>2. \A k \in QcKinds : \E i \in 1..9 : Plan("qc")[i] = <<k, 0>>
    BY QcPlan DEF QcKinds
  <2>3. InPlan("qc") = {Plan("qc")[i] : i \in 1..9}
    BY QcPlan DEF InPlan
  <2>4. \A c \in QcKinds \X {0} : c = <<c[1], 0>> /\ c[1] \in QcKinds
    OBVIOUS
  <2>5. ASSUME NEW c \in QcKinds \X {0} PROVE c \in InPlan("qc")
    BY <2>2, <2>3, <2>4
  <2> QED BY <2>1, <2>3, <2>5
<1> DEFINE whole == {"info", "completeness", "origins", "probes", "pairs", "thresholds"}
           pair == {"images", "sdr", "planes", "metrics"}
           p == Plan("comparison")
<1> HIDE DEF whole, pair, p
<1>2. Len(p) = 6 + 4 * Pairs /\ InPlan("comparison") = {p[i] : i \in 1..(6 + 4 * Pairs)}
  BY ComparisonPlan DEF InPlan, p
<1>3. \A k \in whole : \E i \in 1..(6 + 4 * Pairs) : p[i] = <<k, 0>>
  <2>1. /\ p[1] = <<"info", 0>> /\ p[2] = <<"completeness", 0>> /\ p[3] = <<"origins", 0>>
        /\ p[4] = <<"probes", 0>> /\ p[5] = <<"pairs", 0>> /\ p[6 + 4 * Pairs] = <<"thresholds", 0>>
    BY ComparisonPlan DEF p
  <2>2. {1, 2, 3, 4, 5, 6 + 4 * Pairs} \subseteq 1..(6 + 4 * Pairs)
    BY <1>0
  <2> QED BY <2>1, <2>2 DEF whole
<1>4. \A n \in 1..Pairs, k \in pair : \E i \in 1..(6 + 4 * Pairs) : p[i] = <<k, n>>
  <2> SUFFICES ASSUME NEW n \in 1..Pairs, NEW k \in pair PROVE \E i \in 1..(6 + 4 * Pairs) : p[i] = <<k, n>>
    OBVIOUS
  <2>1. /\ p[4 * n + 2] = <<"images", n>> /\ p[4 * n + 3] = <<"sdr", n>>
        /\ p[4 * n + 4] = <<"planes", n>> /\ p[4 * n + 5] = <<"metrics", n>>
    BY ComparisonPlan DEF p
  <2>2. {4 * n + 2, 4 * n + 3, 4 * n + 4, 4 * n + 5} \subseteq 1..(6 + 4 * Pairs)
    BY <1>0
  <2> QED BY <2>1, <2>2 DEF pair
<1>5. \A i \in 1..(6 + 4 * Pairs) : p[i] \in (whole \X {0}) \cup (pair \X (1..Pairs))
  <2>1. /\ p[1] = <<"info", 0>> /\ p[2] = <<"completeness", 0>> /\ p[3] = <<"origins", 0>>
        /\ p[4] = <<"probes", 0>> /\ p[5] = <<"pairs", 0>> /\ p[6 + 4 * Pairs] = <<"thresholds", 0>>
        /\ \A i \in 6..(5 + 4 * Pairs) : p[i] \in pair \X (1..Pairs)
    BY ComparisonPlan DEF p, pair
  <2>2. \A i \in 1..(6 + 4 * Pairs) :
           i \in {1, 2, 3, 4, 5, 6 + 4 * Pairs} \/ i \in 6..(5 + 4 * Pairs)
    BY <1>0
  <2>3. \A i \in {1, 2, 3, 4, 5, 6 + 4 * Pairs} : p[i] \in whole \X {0}
    BY <2>1 DEF whole
  <2> QED BY <2>1, <2>2, <2>3
<1>6. \A c \in InPlan("comparison") : c \in whole \X {0} \/ c \in pair \X (1..Pairs)
  BY <1>2, <1>5
<1>7. \A k \in whole : <<k, 0>> \in InPlan("comparison")
  BY <1>2, <1>3
<1>8. \A n \in 1..Pairs, k \in pair : <<k, n>> \in InPlan("comparison")
  BY <1>2, <1>4
<1>9. Checks = InPlan("qc") \cup InPlan("comparison")
  BY DEF Checks
<1> QED BY <1>1, <1>6, <1>7, <1>8, <1>9 DEF whole, pair

LEMMA CheckIs ==
    ASSUME NEW c \in Checks
    PROVE  /\ c = <<c[1], c[2]>> /\ c[1] \in QcKinds \cup ComparedKinds /\ c[2] \in Nat
           /\ c[1] \in Direct \cup Derived \cup OnlyRead
           /\ c[1] \in {"images", "sdr", "planes", "metrics"} => c[2] \in 1..Pairs
           /\ c[1] \notin {"images", "sdr", "planes", "metrics"} => c[2] = 0
<1>1. CASE c \in QcKinds \X {0}
  BY <1>1 DEF QcKinds, Direct, Derived, OnlyRead
<1>2. CASE c \in {"info", "completeness", "origins", "probes", "pairs", "thresholds"} \X {0}
  BY <1>2 DEF ComparedKinds, Direct, Derived, OnlyRead
<1>3. CASE c \in {"images", "sdr", "planes", "metrics"} \X (1..Pairs)
  BY <1>3, GateAssumption DEF ComparedKinds, Direct, Derived, OnlyRead
<1> QED BY <1>1, <1>2, <1>3, ChecksAre

LEMMA FromDirect ==
    ASSUME NEW c \in Checks, c[1] \in Direct
    PROVE  From(c) = {}
BY DirectIs DEF From

LEMMA FromIs ==
    /\ From(<<"policy", 0>>) = {<<"inspection", 0>>} /\ From(<<"sound", 0>>) = {<<"audio", 0>>}
    /\ From(<<"pairs", 0>>) = {<<"probes", 0>>}
    /\ From(<<"completeness", 0>>) = {<<"info", 0>>, <<"efficiency", 0>>, <<"videomux", 0>>}
    /\ From(<<"thresholds", 0>>) = {<<"metrics", n>> : n \in 1..Pairs}
    /\ \A n \in 1..Pairs : From(<<"metrics", n>>) = {<<"planes", n>>}
<1>1. \A c \in Checks : c[1] \in {"inspection", "audio", "probes", "info", "efficiency", "videomux"} => c = <<c[1], 0>>
  BY CheckIs
<1>2. /\ <<"inspection", 0>> \in Checks /\ <<"audio", 0>> \in Checks /\ <<"probes", 0>> \in Checks
      /\ <<"info", 0>> \in Checks /\ <<"efficiency", 0>> \in Checks /\ <<"videomux", 0>> \in Checks
  BY ChecksAre DEF QcKinds
<1>3. From(<<"policy", 0>>) = {<<"inspection", 0>>}
  BY <1>1, <1>2, ReadingIs DEF From
<1>4. From(<<"sound", 0>>) = {<<"audio", 0>>}
  BY <1>1, <1>2, ReadingIs DEF From
<1>5. From(<<"pairs", 0>>) = {<<"probes", 0>>}
  BY <1>1, <1>2, ReadingIs DEF From
<1>6. From(<<"completeness", 0>>) = {<<"info", 0>>, <<"efficiency", 0>>, <<"videomux", 0>>}
  BY <1>1, <1>2, DerivedIs DEF From
<1>7. \A c \in Checks : c[1] \in {"planes", "metrics"} => c = <<c[1], c[2]>> /\ c[2] \in 1..Pairs
  BY CheckIs
<1>8. \A n \in 1..Pairs : <<"metrics", n>> \in Checks /\ <<"planes", n>> \in Checks
  BY ChecksAre
<1>9. From(<<"thresholds", 0>>) = {<<"metrics", n>> : n \in 1..Pairs}
  <2>1. From(<<"thresholds", 0>>) = {d \in Checks : d[1] = "metrics"}
    BY ReadingIs DEF From
  <2>2. \A d \in Checks : d[1] = "metrics" => d \in {<<"metrics", n>> : n \in 1..Pairs}
    BY <1>7
  <2>3. \A n \in 1..Pairs : <<"metrics", n>>[1] = "metrics"
    OBVIOUS
  <2>4. {d \in Checks : d[1] = "metrics"} = {<<"metrics", n>> : n \in 1..Pairs}
    BY <2>2, <2>3, <1>8
  <2> QED BY <2>1, <2>4
<1>10. ASSUME NEW n \in 1..Pairs PROVE From(<<"metrics", n>>) = {<<"planes", n>>}
  <2>1. n # 0 /\ From(<<"metrics", n>>) = {d \in Checks : d[1] = "planes" /\ d[2] \in {0, n}}
    BY DerivedIs, GateAssumption DEF From
  <2>2. \A d \in Checks : d[1] = "planes" => d[2] # 0
    BY <1>7, GateAssumption
  <2>3. \A d \in Checks : d[1] = "planes" /\ d[2] \in {0, n} => d = <<"planes", n>>
    BY <1>7, <2>2
  <2> QED BY <2>1, <2>3, <1>8
<1> QED BY <1>3, <1>4, <1>5, <1>6, <1>9, <1>10

-----------------------------------------------------------------------------
(* The inductive invariant.  Evidence shows the flaws of the files it was    *)
(* read from, and those are the present files if its pivot is.               *)

InRun == gate.stage # "accepted" /\ gate.step \notin {"stopped", "review"}

Shows(c, e) == e.there /\ \A k \in flaws : About(k) \subseteq Seen(c[1]) => k \in e.flaws

MadeOf(in) == [media |-> <<>>, flaws |-> UNION {in[2][d].flaws : d \in DOMAIN in[2]},
               there |-> \A d \in DOMAIN in[2] : in[2][d].there]

GateSteps == {"stopped", "review", "look", "measure", "mark", "judge", "clean"}

GateTypes ==
    /\ DOMAIN media = MediaFiles /\ revisions \in Nat
    /\ \A f \in MediaFiles : media[f] \in 0..(revisions + 1)
    /\ media["encoded"] # 0 /\ media["sidecars"] # 0
    /\ flaws \subseteq DOMAIN Kind
    /\ DOMAIN evidence = Checks /\ DOMAIN mark = Checks
    /\ DOMAIN gate = {"stage", "at", "step", "clock"}
    /\ gate.stage \in {"qc", "comparison", "accepted"} /\ gate.at \in Nat \ {0}
    /\ gate.step \in GateSteps
    /\ gate.step \in {"stopped", "review"} => gate.at = 1
    /\ gate.step = "clean" => gate.stage = "comparison" /\ AtEnd

EvidenceRead ==
    \A c \in Checks : c[1] \in Direct /\ evidence[c].there =>
        /\ DOMAIN evidence[c].media = Kind[c[1]].reads
        /\ \A f \in Kind[c[1]].reads : evidence[c].media[f] \in 0..(revisions + 1)

EvidenceTrue ==
    \A c \in Checks :
        (/\ c[1] \in Direct /\ evidence[c].there /\ media[Pivot(c[1])] # 0
         /\ evidence[c].media[Pivot(c[1])] = media[Pivot(c[1])]) => Shows(c, evidence[c])

MarkOK(c, m) ==
    /\ c[1] \in Direct => m.evidence.media[Pivot(c[1])] = m.inputs[1][Pivot(c[1])]
    /\ c[1] \in Derived => m.evidence = MadeOf(m.inputs)
    /\ Kind[c[1]].way = "first" => Fits(c[1], m.evidence)

MarksTrue == \A c \in Checks : mark[c] = Unmarked \/ MarkOK(c, mark[c])

\* What a check knows of its evidence on the way to its verdict.
CheckOK ==
    InRun /\ ~AtEnd =>
        /\ gate.step \in {"measure", "mark"} => Way # "reading"
        /\ gate.step = "mark" =>
             /\ evidence[Checking] = Measured(Checking)
             /\ Way # "always" => Fits(Checking[1], evidence[Checking])
        /\ gate.step = "judge" /\ Way # "reading" =>
             evidence[Checking] = Measured(Checking) \/ (Way # "first" /\ StageValid(Checking))

\* The checks that are behind: their verdict holds, and their evidence shows.
Behind(c) ==
    /\ c[1] \notin flaws
    /\ gate.step # "clean" /\ c[1] \in Direct \cup {"metrics"} => Shows(c, evidence[c])

ChecksHold ==
    InRun => \A i \in 1..Len(Plan(gate.stage)) : i < gate.at => Behind(Plan(gate.stage)[i])

FilesTrusted ==
    (gate.stage = "comparison" /\ InRun) \/ gate.stage = "accepted" =>
        media["reference"] # 0 /\ media["output"] # 0

QcHolds ==
    gate.stage # "qc" =>
        /\ QcKinds \cap flaws = {}
        /\ evidence[<<"efficiency", 0>>].there /\ media["output"] # 0 =>
             Shows(<<"efficiency", 0>>, evidence[<<"efficiency", 0>>])

GateInv ==
    /\ GateTypes /\ EvidenceRead /\ EvidenceTrue /\ MarksTrue
    /\ CheckOK /\ ChecksHold /\ FilesTrusted /\ QcHolds
    /\ gate.stage = "accepted" => flaws = {} /\ gate.step = "stopped"

-----------------------------------------------------------------------------
(* Evidence                                                                  *)

LEMMA CheckingIs ==
    ASSUME GateInv, ~AtEnd
    PROVE  Checking \in Checks /\ gate.at \in 1..Len(Plan(gate.stage))
<1>1. Len(Plan(gate.stage)) \in Nat /\ (gate.stage # "qc" => Plan(gate.stage) = Plan("comparison"))
  <2>1. CASE gate.stage = "qc"
    BY <2>1, QcPlan
  <2>2. CASE gate.stage # "qc"
    <3>1. Plan(gate.stage) = Plan("comparison")
      BY <2>2 DEF Plan
    <3>2. Len(Plan("comparison")) = 6 + 4 * Pairs
      BY ComparisonPlan
    <3> QED BY <3>1, <3>2, GateAssumption
  <2> QED BY <2>1, <2>2
<1>2. gate.at \in 1..Len(Plan(gate.stage))
  BY <1>1 DEF GateInv, GateTypes, AtEnd
<1>3. Checking \in InPlan("qc") \cup InPlan("comparison")
  BY <1>1, <1>2 DEF Checking, InPlan
<1> QED BY <1>2, <1>3 DEF Checks

LEMMA DerivedMeasured ==
    ASSUME NEW c \in Checks, c[1] \in Derived
    PROVE  Measured(c) = MadeOf(CheckInputs(c))
<1>1. From(c) # {}
  <2>1. CASE c[1] = "completeness"
    <3>1. c = <<"completeness", 0>>
      BY <2>1, CheckIs
    <3> QED BY <3>1, FromIs
  <2>2. CASE c[1] = "metrics"
    <3>1. c = <<"metrics", c[2]>> /\ c[2] \in 1..Pairs
      BY <2>2, CheckIs
    <3>2. From(<<"metrics", c[2]>>) # {}
      BY <3>1, FromIs
    <3> QED BY <3>1, <3>2
  <2> QED BY <2>1, <2>2 DEF Derived
<1>2. PICK f : f = [d \in From(c) |-> evidence[d]]
  OBVIOUS
<1>3. CheckInputs(c)[2] = f
  BY <1>2 DEF CheckInputs
<1>4. DOMAIN f = From(c) /\ \A d \in From(c) : f[d] = evidence[d]
  BY <1>2
<1>5. {f[d].flaws : d \in From(c)} = {evidence[d].flaws : d \in From(c)}
  BY <1>4
<1> QED BY <1>1, <1>3, <1>4, <1>5 DEF Measured, MadeOf

LEMMA DirectMeasured ==
    ASSUME GateInv, NEW c \in Checks, c[1] \in Direct
    PROVE  /\ Measured(c).media = [f \in Kind[c[1]].reads |-> media[f]] /\ Measured(c).there
           /\ Measured(c).media[Pivot(c[1])] = media[Pivot(c[1])]
           /\ Shows(c, Measured(c))
<1>1. Measured(c) = [media |-> [f \in Kind[c[1]].reads |-> media[f]],
                     flaws |-> {k \in flaws : About(k) \subseteq Kind[c[1]].reads}, there |-> TRUE]
  BY FromDirect DEF Measured
<1>2. Pivot(c[1]) \in Kind[c[1]].reads /\ Seen(c[1]) = Kind[c[1]].reads
  BY DirectIs
<1> QED BY <1>1, <1>2 DEF Shows

LEMMA ValidMeans ==
    ASSUME GateInv, NEW c \in Checks, StageValid(c)
    PROVE  /\ c[1] \in Direct => evidence[c].media[Pivot(c[1])] = media[Pivot(c[1])]
           /\ c[1] \in Derived => evidence[c] = Measured(c)
           /\ Kind[c[1]].way = "first" => Fits(c[1], evidence[c])
<1>1. evidence[c].there /\ mark[c].inputs = CheckInputs(c) /\ mark[c].evidence = evidence[c]
  BY DEF StageValid
<1>2. mark[c] # Unmarked
  BY <1>1 DEF Unmarked, NoEvidence
<1>3. MarkOK(c, mark[c])
  BY <1>2 DEF GateInv, MarksTrue
<1>4. ASSUME c[1] \in Direct PROVE CheckInputs(c)[1][Pivot(c[1])] = media[Pivot(c[1])]
  <2>1. Pivot(c[1]) \in Kind[c[1]].keys
    BY <1>4, DirectIs
  <2>2. CheckInputs(c)[1] = [f \in Kind[c[1]].keys |-> media[f]]
    BY DEF CheckInputs
  <2> QED BY <2>1, <2>2
<1> QED BY <1>1, <1>3, <1>4, DerivedMeasured DEF MarkOK

\* A verdict on evidence of the present files holds.
LEMMA DirectHolds ==
    ASSUME GateInv, NEW c \in Checks, c[1] \in Direct, Fits(c[1], evidence[c]),
           evidence[c] = Measured(c) \/ StageValid(c)
    PROVE  Shows(c, evidence[c]) /\ c[1] \notin flaws
<1>1. Shows(c, evidence[c])
  <2>1. CASE evidence[c] = Measured(c)
    BY <2>1, DirectMeasured
  <2>2. CASE StageValid(c)
    <3>1. evidence[c].media[Pivot(c[1])] = media[Pivot(c[1])]
      BY <2>2, ValidMeans
    <3>2. Pivot(c[1]) \in DOMAIN evidence[c].media
      BY DirectIs DEF GateInv, EvidenceRead, Fits
    <3>3. evidence[c].media[Pivot(c[1])] # 0 /\ evidence[c].there
      BY <3>2 DEF Fits
    <3> QED BY <3>1, <3>3 DEF GateInv, EvidenceTrue
  <2> QED BY <2>1, <2>2
<1>2. About(c[1]) \subseteq Seen(c[1])
  BY DirectIs
<1> QED BY <1>1, <1>2 DEF Shows, Fits

LEMMA CompletenessHolds ==
    ASSUME GateInv, gate.stage = "comparison", InRun, <<"completeness", 0>> \in Checks,
           evidence[<<"completeness", 0>>] = Measured(<<"completeness", 0>>),
           Fits("completeness", evidence[<<"completeness", 0>>])
    PROVE  "completeness" \notin flaws
<1> DEFINE c == <<"completeness", 0>>
           e == <<"efficiency", 0>>
<1>1. e \in From(c) /\ From(c) # {}
  BY FromIs
<1>2. Measured(c).flaws = UNION {evidence[d].flaws : d \in From(c)} /\ Measured(c).there = (\A d \in From(c) : evidence[d].there)
  BY <1>1 DEF Measured
<1>3. evidence[e].there /\ evidence[e].flaws \subseteq evidence[c].flaws
  BY <1>1, <1>2 DEF Fits
<1>4. media["output"] # 0
  BY DEF GateInv, FilesTrusted
<1>5. Shows(e, evidence[e])
  BY <1>3, <1>4 DEF GateInv, QcHolds
<1>6. About("completeness") \subseteq Seen("efficiency")
  BY DerivedIs, KindIs DEF Seen
<1> QED BY <1>3, <1>5, <1>6 DEF Shows, Fits

LEMMA MetricsHold ==
    ASSUME GateInv, NEW n \in 1..Pairs, Shows(<<"planes", n>>, evidence[<<"planes", n>>]),
           evidence[<<"metrics", n>>] = Measured(<<"metrics", n>>),
           Fits("metrics", evidence[<<"metrics", n>>])
    PROVE  Shows(<<"metrics", n>>, evidence[<<"metrics", n>>]) /\ "metrics" \notin flaws
<1> DEFINE c == <<"metrics", n>>
           e == <<"planes", n>>
<1>1. From(c) = {e}
  BY FromIs
<1>2. Measured(c).flaws = evidence[e].flaws
  BY <1>1 DEF Measured
<1>3. Seen("metrics") = Planes.reads /\ Seen("planes") = Planes.reads
  BY KindIs DEF Seen
<1>4. Shows(c, evidence[c])
  BY <1>2, <1>3 DEF Shows, Fits
<1> QED BY <1>3, <1>4, DerivedIs DEF Shows, Fits

\* A verdict that is read off evidence comes after that evidence.
LEMMA QcSources ==
    ASSUME NEW i \in 1..9
    PROVE  /\ Plan("qc")[i][1] # "completeness" /\ Plan("qc")[i][1] # "metrics"
           /\ Plan("qc")[i][1] \in OnlyRead =>
                \E j \in 1..9 : j < i /\ Plan("qc")[j] \in From(Plan("qc")[i])
                                /\ Plan("qc")[j][1] \in Direct
<1> DEFINE q == Plan("qc")
<1>1. /\ q[1] = <<"efficiency", 0>> /\ q[2] = <<"videomux", 0>> /\ q[3] = <<"inspection", 0>>
      /\ q[4] = <<"trackmux", 0>> /\ q[5] = <<"policy", 0>> /\ q[6] = <<"subtitles", 0>>
      /\ q[7] = <<"audio", 0>> /\ q[8] = <<"spectra", 0>> /\ q[9] = <<"sound", 0>>
  BY QcPlan
<1> HIDE DEF q
<1>2. i \in {1, 2, 3, 4, 5, 6, 7, 8, 9}
  OBVIOUS
<1>3. q[i][1] # "completeness" /\ q[i][1] # "metrics"
  BY <1>1, <1>2
<1>4. q[i][1] \in OnlyRead => i = 5 \/ i = 9
  BY <1>1, <1>2 DEF OnlyRead
<1>5. q[3] \in From(q[5]) /\ q[7] \in From(q[9]) /\ q[3][1] \in Direct /\ q[7][1] \in Direct
  BY <1>1, FromIs DEF Direct
<1>6. CASE i = 5
  BY <1>3, <1>5, <1>6 DEF q
<1>7. CASE i = 9
  BY <1>3, <1>5, <1>7 DEF q
<1>8. CASE i # 5 /\ i # 9
  BY <1>3, <1>4, <1>8 DEF q
<1> QED BY <1>6, <1>7, <1>8

LEMMA ComparedSources ==
    ASSUME NEW i \in 1..Len(Plan("comparison")),
           Plan("comparison")[i][1] \in OnlyRead \cup {"metrics"}
    PROVE  \E j \in 1..Len(Plan("comparison")) :
              j < i /\ Plan("comparison")[j] \in From(Plan("comparison")[i])
              /\ Plan("comparison")[j][1] \in Direct \cup {"metrics"}
<1> DEFINE p == Plan("comparison")
<1>1. /\ p[1] = <<"info", 0>> /\ p[2] = <<"completeness", 0>> /\ p[3] = <<"origins", 0>>
      /\ p[4] = <<"probes", 0>> /\ p[5] = <<"pairs", 0>> /\ p[6 + 4 * Pairs] = <<"thresholds", 0>>
  BY ComparisonPlan
<1>2. Len(p) = 6 + 4 * Pairs
  BY ComparisonPlan
<1>3. \A n \in 1..Pairs :
         /\ p[4 * n + 2] = <<"images", n>> /\ p[4 * n + 3] = <<"sdr", n>>
         /\ p[4 * n + 4] = <<"planes", n>> /\ p[4 * n + 5] = <<"metrics", n>>
  BY ComparisonPlan
<1>4. p[i][1] \in OnlyRead \cup {"metrics"}
  OBVIOUS
<1> SUFFICES \E j \in 1..(6 + 4 * Pairs) : j < i /\ p[j] \in From(p[i]) /\ p[j][1] \in Direct \cup {"metrics"}
  BY <1>2
<1>5. i \in 1..(6 + 4 * Pairs)
  BY <1>2
<1> HIDE DEF p
<1>6. Pairs \in Nat \ {0}
  BY GateAssumption
<1>7. CASE i \in 1..5
  <2>1. i = 5
    BY <1>1, <1>4, <1>7 DEF OnlyRead
  <2>2. p[4] \in From(p[5]) /\ p[4][1] \in Direct
    BY <1>1, FromIs DEF Direct
  <2>3. 4 \in 1..(6 + 4 * Pairs) /\ 4 < i
    BY <1>6, <2>1
  <2> QED BY <2>1, <2>2, <2>3
<1>8. CASE i = 6 + 4 * Pairs
  <2>1. 1 \in 1..Pairs /\ 4 * 1 + 5 = 9
    BY <1>6
  <2>2. p[9] = <<"metrics", 1>>
    BY <1>3, <2>1
  <2>3. p[9] \in From(p[i]) /\ p[9][1] = "metrics"
    <3>1. <<"metrics", 1>> \in From(<<"thresholds", 0>>)
      BY <2>1, FromIs
    <3>2. p[i] = <<"thresholds", 0>>
      BY <1>1, <1>8
    <3> QED BY <2>2, <3>1, <3>2
  <2>4. 9 \in 1..(6 + 4 * Pairs) /\ 9 < i
    BY <1>6, <1>8
  <2> QED BY <2>3, <2>4
<1>9. CASE i \in 6..(5 + 4 * Pairs)
  <2>1. PICK n \in 1..Pairs : i \in {4 * n + 2, 4 * n + 3, 4 * n + 4, 4 * n + 5}
    <3>1. PICK n : n = (i - 2) \div 4
      OBVIOUS
    <3>2. n \in 1..Pairs /\ i \in {4 * n + 2, 4 * n + 3, 4 * n + 4, 4 * n + 5}
      BY <1>6, <1>9, <3>1
    <3> QED BY <3>2
  <2>2. i = 4 * n + 5
    <3>1. p[i][1] \notin {"images", "sdr", "planes"}
      BY <1>4 DEF OnlyRead
    <3>2. /\ p[4 * n + 2] = <<"images", n>> /\ p[4 * n + 3] = <<"sdr", n>>
          /\ p[4 * n + 4] = <<"planes", n>>
      BY <1>3
    <3>3. CASE i = 4 * n + 2
      BY <3>1, <3>2, <3>3
    <3>4. CASE i = 4 * n + 3
      BY <3>1, <3>2, <3>4
    <3>5. CASE i = 4 * n + 4
      BY <3>1, <3>2, <3>5
    <3> QED BY <2>1, <3>3, <3>4, <3>5
  <2>3. p[4 * n + 4] \in From(p[i]) /\ p[4 * n + 4][1] \in Direct
    <3>1. p[4 * n + 4] = <<"planes", n>> /\ p[i] = <<"metrics", n>>
      BY <1>3, <2>2
    <3>2. <<"planes", n>> \in From(<<"metrics", n>>)
      BY FromIs
    <3>3. p[4 * n + 4] \in From(p[i])
      BY <3>1, <3>2
    <3>4. <<"planes", n>>[1] \in Direct
      BY DEF Direct
    <3> QED BY <3>1, <3>3, <3>4
  <2>4. 4 * n + 4 \in 1..(6 + 4 * Pairs) /\ 4 * n + 4 < i
    BY <1>6, <2>2
  <2> QED BY <2>3, <2>4
<1>10. i \in 1..5 \/ i = 6 + 4 * Pairs \/ i \in 6..(5 + 4 * Pairs)
  BY <1>5, <1>6
<1> QED BY <1>7, <1>8, <1>9, <1>10

LEMMA ReadFrom ==
    ASSUME NEW c \in Checks, c[1] \in OnlyRead, NEW d \in From(c)
    PROVE  About(c[1]) \subseteq Seen(d[1])
<1>1. c = <<c[1], 0>>
  BY CheckIs DEF OnlyRead
<1>2. CASE c[1] = "policy"
  <2>1. d[1] = "inspection"
    BY <1>1, <1>2, FromIs
  <2> QED BY <1>2, <2>1, ReadingIs, DirectIs DEF Direct
<1>3. CASE c[1] = "sound"
  <2>1. d[1] = "audio"
    BY <1>1, <1>3, FromIs
  <2> QED BY <1>3, <2>1, ReadingIs, DirectIs DEF Direct
<1>4. CASE c[1] = "pairs"
  <2>1. d[1] = "probes"
    BY <1>1, <1>4, FromIs
  <2> QED BY <1>4, <2>1, ReadingIs, DirectIs DEF Direct
<1>5. CASE c[1] = "thresholds"
  <2>1. d[1] = "metrics"
    BY <1>1, <1>5, FromIs
  <2> QED BY <1>5, <2>1, ReadingIs DEF Seen
<1> QED BY <1>2, <1>3, <1>4, <1>5 DEF OnlyRead

\* The check that is judged has the evidence it reads behind it.
LEMMA SourceShows ==
    ASSUME GateInv, InRun, ~AtEnd, gate.step # "clean", Checking[1] \in OnlyRead \cup {"metrics"}
    PROVE  \E d \in From(Checking) : Shows(d, evidence[d])
<1>1. gate.at \in 1..Len(Plan(gate.stage))
  BY CheckingIs
<1>2. \E j \in 1..Len(Plan(gate.stage)) :
         j < gate.at /\ Plan(gate.stage)[j] \in From(Checking)
         /\ Plan(gate.stage)[j][1] \in Direct \cup {"metrics"}
  <2>1. CASE gate.stage = "qc"
    <3>1. gate.at \in 1..9 /\ Checking = Plan("qc")[gate.at] /\ Len(Plan(gate.stage)) = 9
      BY <1>1, <2>1, QcPlan DEF Checking
    <3> QED BY <2>1, <3>1, QcSources
  <2>2. CASE gate.stage = "comparison"
    BY <1>1, <2>2, ComparedSources DEF Checking
  <2> QED BY <2>1, <2>2 DEF InRun, GateInv, GateTypes
<1>3. PICK j \in 1..Len(Plan(gate.stage)) :
         j < gate.at /\ Plan(gate.stage)[j] \in From(Checking)
         /\ Plan(gate.stage)[j][1] \in Direct \cup {"metrics"}
  BY <1>2
<1>4. Behind(Plan(gate.stage)[j])
  BY <1>3 DEF GateInv, ChecksHold
<1> QED BY <1>3, <1>4 DEF Behind

Judged ==
    IF Way = "reading" THEN \A d \in From(Checking) : Fits(Checking[1], evidence[d])
    ELSE /\ Fits(Checking[1], evidence[Checking])
         /\ evidence[Checking] = Measured(Checking) \/ StageValid(Checking)

LEMMA VerdictHolds ==
    ASSUME GateInv, InRun, ~AtEnd, gate.step # "clean", Judged
    PROVE  Behind(Checking)
<1>1. Checking \in Checks /\ gate.at \in 1..Len(Plan(gate.stage))
  BY CheckingIs
<1>2. CASE Checking[1] \in OnlyRead
  <2>1. Way = "reading"
    BY <1>2, ReadingIs DEF Way
  <2>2. PICK d \in From(Checking) : Shows(d, evidence[d])
    BY <1>2, SourceShows
  <2>3. Fits(Checking[1], evidence[d])
    BY <2>1 DEF Judged
  <2>4. About(Checking[1]) \subseteq Seen(d[1])
    BY <1>1, <1>2, ReadFrom
  <2>5. Checking[1] \notin flaws
    BY <2>2, <2>3, <2>4 DEF Shows, Fits
  <2> QED BY <1>2, <2>5 DEF Behind, OnlyRead, Direct
<1>3. CASE Checking[1] \in Direct
  <2>1. Way # "reading"
    BY <1>3, DirectIs DEF Way
  <2> QED BY <1>1, <1>3, <2>1, DirectHolds DEF Judged, Behind
<1>4. CASE Checking[1] \in Derived
  <2>1. Way # "reading"
    BY <1>4, DerivedIs DEF Way, Derived
  <2>2. evidence[Checking] = Measured(Checking) /\ Fits(Checking[1], evidence[Checking])
    BY <1>1, <1>4, <2>1, ValidMeans DEF Judged
  <2>3. CASE Checking[1] = "completeness"
    <3>1. Checking = <<"completeness", 0>>
      BY <1>1, <2>3, CheckIs
    <3>2. gate.stage # "qc"
      BY <1>1, <2>3, QcPlan, QcSources DEF Checking
    <3>3. gate.stage = "comparison"
      BY <3>2 DEF InRun, GateInv, GateTypes
    <3>4. "completeness" \notin flaws
      BY <1>1, <2>2, <3>1, <3>3, CompletenessHolds
    <3> QED BY <2>3, <3>4 DEF Behind, Direct
  <2>4. CASE Checking[1] = "metrics"
    <3>1. Checking = <<"metrics", Checking[2]>> /\ Checking[2] \in 1..Pairs
      BY <1>1, <2>4, CheckIs
    <3>2. PICK n \in 1..Pairs : Checking = <<"metrics", n>>
      BY <3>1
    <3>3. PICK d \in From(Checking) : Shows(d, evidence[d])
      BY <2>4, SourceShows
    <3>4. d = <<"planes", n>>
      BY <3>2, <3>3, FromIs
    <3>5. Shows(Checking, evidence[Checking]) /\ "metrics" \notin flaws
      BY <2>2, <2>4, <3>2, <3>3, <3>4, MetricsHold
    <3> QED BY <2>4, <3>5 DEF Behind
  <2> QED BY <1>4, <2>3, <2>4 DEF Derived
<1> QED BY <1>1, <1>2, <1>3, <1>4, CheckIs

-----------------------------------------------------------------------------
(* Steps that leave the files, the evidence and the marks alone              *)

FilesSame == UNCHANGED <<media, flaws, evidence, mark, revisions>>

GateWellFormed ==
    /\ DOMAIN gate = {"stage", "at", "step", "clock"}
    /\ gate.stage \in {"qc", "comparison", "accepted"} /\ gate.at \in Nat \ {0}
    /\ gate.step \in GateSteps
    /\ gate.step \in {"stopped", "review"} => gate.at = 1
    /\ gate.step = "clean" => gate.stage = "comparison" /\ AtEnd

LEMMA SameEvidence ==
    ASSUME GateInv, FilesSame, GateWellFormed'
    PROVE  GateTypes' /\ EvidenceRead' /\ EvidenceTrue' /\ MarksTrue'
<1>1. /\ media' = media /\ flaws' = flaws /\ evidence' = evidence /\ mark' = mark
      /\ revisions' = revisions
  BY DEF FilesSame
<1>2. GateTypes'
  BY <1>1 DEF GateInv, GateTypes, GateWellFormed
<1>3. EvidenceRead'
  BY <1>1 DEF GateInv, EvidenceRead
<1>4. EvidenceTrue'
  BY <1>1 DEF GateInv, EvidenceTrue, Shows
<1>5. MarksTrue'
  BY <1>1 DEF GateInv, MarksTrue, MarkOK, Fits
<1> QED BY <1>2, <1>3, <1>4, <1>5

\* The stage ends: nothing is behind any more.
LEMMA Leaves ==
    ASSUME GateInv, FilesSame, GateWellFormed', gate.stage # "accepted",
           gate'.stage = gate.stage, gate'.step \in {"stopped", "review"}
    PROVE  GateInv'
<1>1. ~InRun'
  BY DEF InRun
<1>2. CheckOK' /\ ChecksHold'
  BY <1>1 DEF CheckOK, ChecksHold
<1>3. FilesTrusted'
  BY <1>1 DEF FilesTrusted
<1>4. QcHolds'
  BY DEF GateInv, QcHolds, FilesSame, Shows
<1> QED BY <1>2, <1>3, <1>4, SameEvidence DEF GateInv

\* The check goes on, ...
LEMMA Stays ==
    ASSUME GateInv, FilesSame, GateWellFormed', InRun, gate.step # "clean", ~AtEnd,
           gate'.stage = gate.stage, gate'.at = gate.at,
           gate'.step \in {"measure", "mark", "judge"}, CheckOK'
    PROVE  GateInv'
<1>1. ASSUME NEW c \in Checks, Behind(c) PROVE Behind(c)'
  BY <1>1 DEF Behind, FilesSame, Shows
<1>2. ChecksHold'
  <2>1. \A i \in 1..Len(Plan(gate.stage)) : i < gate.at => Plan(gate.stage)[i] \in Checks
    BY DEF Checks, InPlan, GateInv, GateTypes, InRun
  <2> QED BY <1>1, <2>1 DEF ChecksHold, GateInv
<1>3. FilesTrusted'
  BY DEF FilesTrusted, FilesSame, GateInv, InRun
<1>4. QcHolds'
  BY DEF GateInv, QcHolds, FilesSame, Shows
<1>5. gate'.stage # "accepted"
  BY DEF InRun
<1> QED BY <1>2, <1>3, <1>4, <1>5, SameEvidence DEF GateInv

\* ... or is left behind.
LEMMA Advances ==
    ASSUME GateInv, FilesSame, GateWellFormed', InRun, gate.step # "clean", ~AtEnd,
           gate'.stage = gate.stage, gate'.at = gate.at + 1, gate'.step = "look",
           Behind(Checking)
    PROVE  GateInv'
<1>1. ASSUME NEW c \in Checks, Behind(c) PROVE Behind(c)'
  BY <1>1 DEF Behind, FilesSame, Shows
<1>2. ChecksHold'
  <2>1. \A i \in 1..Len(Plan(gate.stage)) : i < gate.at => Plan(gate.stage)[i] \in Checks
    BY DEF Checks, InPlan, GateInv, GateTypes, InRun
  <2>2. \A i \in 1..Len(Plan(gate.stage)) : i < gate.at + 1 => i < gate.at \/ i = gate.at
    BY DEF GateInv, GateTypes
  <2>3. PICK c \in Checks : c = Plan(gate.stage)[gate.at] /\ Behind(c)
    BY CheckingIs DEF Checking
  <2>4. Behind(c)'
    BY <1>1, <2>3
  <2>5. \A i \in 1..Len(Plan(gate.stage)) : i < gate.at => Behind(Plan(gate.stage)[i])
    BY DEF GateInv, ChecksHold
  <2>6. ASSUME NEW i \in 1..Len(Plan(gate.stage)), i < gate.at + 1
        PROVE  Behind(Plan(gate.stage)[i])'
    <3>1. CASE i < gate.at
      <4>1. PICK b \in Checks : b = Plan(gate.stage)[i] /\ Behind(b)
        BY <2>1, <2>5, <3>1
      <4>2. Behind(b)'
        BY <1>1, <4>1
      <4> QED BY <4>1, <4>2
    <3>2. CASE i = gate.at
      BY <2>3, <2>4, <3>2
    <3> QED BY <2>2, <2>6, <3>1, <3>2
  <2> QED BY <2>6 DEF ChecksHold
<1>3. FilesTrusted'
  BY DEF FilesTrusted, FilesSame, GateInv, InRun
<1>4. QcHolds'
  BY DEF GateInv, QcHolds, FilesSame, Shows
<1>5. gate'.stage # "accepted"
  BY DEF InRun
<1>6. CheckOK'
  BY DEF CheckOK
<1> QED BY <1>2, <1>3, <1>4, <1>5, <1>6, SameEvidence DEF GateInv

-----------------------------------------------------------------------------
(* The steps                                                                 *)

LEMMA GateInitHolds == GateInit => GateInv
<1> SUFFICES ASSUME GateInit PROVE GateInv
  OBVIOUS
<1>1. /\ media = [f \in MediaFiles |-> 1] /\ revisions = 0
      /\ gate = [stage |-> "qc", at |-> 1, step |-> "stopped", clock |-> 0]
      /\ evidence = [c \in Checks |-> NoEvidence] /\ mark = [c \in Checks |-> Unmarked]
  BY DEF GateInit
<1>2. flaws \subseteq DOMAIN Kind
  BY DEF GateInit, Flaws
<1>3. GateTypes
  BY <1>1, <1>2 DEF GateTypes, MediaFiles, GateSteps
<1>4. ~InRun /\ gate.stage = "qc"
  BY <1>1 DEF InRun
<1>5. \A c \in Checks : ~evidence[c].there
  BY <1>1 DEF NoEvidence
<1>6. EvidenceRead /\ EvidenceTrue
  BY <1>5 DEF EvidenceRead, EvidenceTrue
<1>7. MarksTrue
  BY <1>1 DEF MarksTrue
<1>8. CheckOK /\ ChecksHold /\ FilesTrusted /\ QcHolds
  BY <1>4 DEF CheckOK, ChecksHold, FilesTrusted, QcHolds
<1> QED BY <1>3, <1>4, <1>6, <1>7, <1>8 DEF GateInv

LEMMA GateFields ==
    ASSUME GateInv
    PROVE  /\ GateWellFormed /\ DOMAIN gate = {"stage", "at", "step", "clock"}
           /\ \A s : GateTo(s) => /\ DOMAIN gate' = DOMAIN gate /\ gate'.stage = gate.stage
                                  /\ gate'.at = gate.at /\ gate'.step = s
           /\ NextCheck => /\ DOMAIN gate' = DOMAIN gate /\ gate'.stage = gate.stage
                           /\ gate'.at = gate.at + 1 /\ gate'.step = "look"
           /\ ToReview => /\ DOMAIN gate' = DOMAIN gate /\ gate'.stage = gate.stage
                          /\ gate'.at = 1 /\ gate'.step = "review"
<1>1. GateWellFormed /\ DOMAIN gate = {"stage", "at", "step", "clock"}
  BY DEF GateInv, GateTypes, GateWellFormed
<1> QED BY <1>1 DEF GateTo, NextCheck, ToReview

LEMMA GateAtMeans ==
    ASSUME GateInv, NEW s \in {"look", "measure", "mark", "judge"}, GateAt(s)
    PROVE  InRun /\ ~AtEnd /\ gate.step = s /\ gate.step # "clean" /\ gate.stage \in {"qc", "comparison"}
BY DEF GateAt, InRun, GateInv, GateTypes

\* A step that goes to review, or back from it.
LEMMA GoesToReview ==
    ASSUME GateInv, FilesSame, ToReview, gate.stage # "accepted"
    PROVE  GateInv'
<1>1. /\ DOMAIN gate' = DOMAIN gate /\ gate'.stage = gate.stage
      /\ gate'.at = 1 /\ gate'.step = "review"
  BY GateFields
<1>2. GateWellFormed'
  BY <1>1, GateFields DEF GateWellFormed, GateSteps
<1> QED BY <1>1, <1>2, Leaves

LEMMA GateMoves ==
    ASSUME GateInv, NEW s \in {"measure", "mark", "judge"}, GateTo(s), InRun, ~AtEnd
    PROVE  /\ GateWellFormed' /\ gate'.stage = gate.stage /\ gate'.at = gate.at /\ gate'.step = s
           /\ AtEnd' = AtEnd /\ Checking' = Checking /\ Way' = Way /\ InRun'
<1>1. /\ DOMAIN gate' = DOMAIN gate /\ gate'.stage = gate.stage
      /\ gate'.at = gate.at /\ gate'.step = s
  BY GateFields
<1>2. GateWellFormed'
  BY <1>1, GateFields DEF GateWellFormed, GateSteps
<1>3. AtEnd' = AtEnd /\ Checking' = Checking
  BY <1>1 DEF AtEnd, Checking
<1>4. Way' = Way
  BY <1>3 DEF Way
<1>5. InRun'
  BY <1>1 DEF InRun
<1> QED BY <1>1, <1>2, <1>3, <1>4, <1>5

LEMMA GateAdvances ==
    ASSUME GateInv, NextCheck, InRun, ~AtEnd
    PROVE  /\ GateWellFormed' /\ gate'.stage = gate.stage /\ gate'.at = gate.at + 1
           /\ gate'.step = "look"
<1>1. /\ DOMAIN gate' = DOMAIN gate /\ gate'.stage = gate.stage
      /\ gate'.at = gate.at + 1 /\ gate'.step = "look"
  BY GateFields
<1>2. gate'.at \in Nat \ {0}
  BY <1>1, GateFields DEF GateWellFormed
<1> QED BY <1>1, <1>2, GateFields DEF GateWellFormed, GateSteps

LEMMA LookHolds == ASSUME GateInv, Look PROVE GateInv'
<1>1. FilesSame
  BY DEF Look, FilesSame, gateBounds
<1>2. GateAt("look")
  BY DEF Look
<1>3. InRun /\ ~AtEnd /\ gate.step = "look" /\ gate.step # "clean"
  BY <1>2, GateAtMeans
<1>4. /\ media' = media /\ flaws' = flaws /\ evidence' = evidence /\ mark' = mark
  BY <1>1 DEF FilesSame
<1>5. CASE Way = "reading" /\ GateTo("judge")
  <2>1. Way' = "reading" /\ gate'.step = "judge"
    BY <1>3, <1>5, GateMoves
  <2>2. CheckOK'
    BY <2>1 DEF CheckOK
  <2> QED BY <1>1, <1>3, <1>5, <2>1, <2>2, GateMoves, Stays
<1>6. CASE Way # "reading" /\ GateTo("measure")
  <2>1. Way' # "reading" /\ gate'.step = "measure"
    BY <1>3, <1>6, GateMoves
  <2>2. CheckOK'
    BY <2>1 DEF CheckOK
  <2> QED BY <1>1, <1>3, <1>6, <2>1, <2>2, GateMoves, Stays
<1>7. CASE Way = "first" /\ StageValid(Checking) /\ NextCheck
  <2>1. Checking \in Checks
    BY <1>3, CheckingIs
  <2>2. Fits(Checking[1], evidence[Checking])
    BY <1>7, <2>1, ValidMeans DEF Way
  <2>3. Behind(Checking)
    BY <1>3, <1>7, <2>2, VerdictHolds DEF Judged
  <2> QED BY <1>1, <1>3, <1>7, <2>3, GateAdvances, Advances
<1>8. CASE Way # "reading" /\ Way # "first" /\ StageValid(Checking) /\ GateTo("judge")
  <2>1. Way' = Way /\ Checking' = Checking /\ gate'.step = "judge"
    BY <1>3, <1>8, GateMoves
  <2>2. StageValid(Checking)'
    <3>1. PICK c : c = Checking
      OBVIOUS
    <3>2. StageValid(c)'
      BY <1>4, <1>8, <3>1 DEF StageValid, CheckInputs
    <3> QED BY <2>1, <3>1, <3>2
  <2>3. CheckOK'
    BY <1>8, <2>1, <2>2 DEF CheckOK
  <2> QED BY <1>1, <1>3, <1>8, <2>1, <2>3, GateMoves, Stays
<1> QED BY <1>5, <1>6, <1>7, <1>8 DEF Look

LEMMA RunsOutHolds == ASSUME GateInv, RunsOut PROVE GateInv'
<1>1. FilesSame /\ ToReview /\ gate.stage = "comparison"
  BY DEF RunsOut, FilesSame, gateBounds, OutOfTime
<1> QED BY <1>1, GoesToReview

LEMMA CutShortHolds == ASSUME GateInv, CutShort PROVE GateInv'
<1>1. FilesSame /\ ToReview /\ gate.stage = "comparison"
  BY DEF CutShort, FilesSame, gateBounds
<1> QED BY <1>1, GoesToReview

LEMMA StageRefusedHolds == ASSUME GateInv, StageRefused PROVE GateInv'
<1>1. FilesSame /\ ToReview /\ gate.stage = "comparison"
  BY DEF StageRefused, FilesSame, gateBounds
<1> QED BY <1>1, GoesToReview

LEMMA ResumesHolds == ASSUME GateInv, Resumes PROVE GateInv'
<1>1. FilesSame /\ GateTo("stopped") /\ gate.step = "review"
  BY DEF Resumes, FilesSame, gateBounds
<1>2. /\ DOMAIN gate' = DOMAIN gate /\ gate'.stage = gate.stage
      /\ gate'.at = gate.at /\ gate'.step = "stopped"
  BY <1>1, GateFields
<1>3. GateWellFormed' /\ gate.stage # "accepted"
  BY <1>1, <1>2, GateFields DEF GateWellFormed, GateSteps, GateInv
<1> QED BY <1>1, <1>2, <1>3, Leaves

LEMMA GateStopsHolds == ASSUME GateInv, GateStops PROVE GateInv'
<1>1. FilesSame /\ gate' = [gate EXCEPT !.at = 1, !.step = "stopped", !.clock = 0]
      /\ gate.step \notin {"stopped", "review"}
  BY DEF GateStops, FilesSame
<1>2. /\ DOMAIN gate' = DOMAIN gate /\ gate'.stage = gate.stage
      /\ gate'.at = 1 /\ gate'.step = "stopped"
  BY <1>1, GateFields
<1>3. GateWellFormed' /\ gate.stage # "accepted"
  BY <1>1, <1>2, GateFields DEF GateWellFormed, GateSteps, GateInv
<1> QED BY <1>1, <1>2, <1>3, Leaves

LEMMA JudgeHolds == ASSUME GateInv, Judge PROVE GateInv'
<1>1. FilesSame
  BY DEF Judge, FilesSame, gateBounds
<1>2. GateAt("judge")
  BY DEF Judge
<1>3. InRun /\ ~AtEnd /\ gate.step = "judge" /\ gate.step # "clean" /\ gate.stage # "accepted"
  BY <1>2, GateAtMeans
<1>4. /\ media' = media /\ flaws' = flaws /\ evidence' = evidence /\ mark' = mark
  BY <1>1 DEF FilesSame
<1>5. Way # "reading" => evidence[Checking] = Measured(Checking) \/ (Way # "first" /\ StageValid(Checking))
  BY <1>3 DEF GateInv, CheckOK
<1>6. CASE ToReview
  BY <1>1, <1>3, <1>6, GoesToReview
<1>7. CASE Passes(Checking) /\ NextCheck
  <2>1. Judged
    BY <1>5, <1>7 DEF Judged, Passes
  <2> QED BY <1>1, <1>3, <1>7, <2>1, VerdictHolds, GateAdvances, Advances
<1>8. CASE Passes(Checking) /\ GateTo("mark") /\ (Way = "first" \/ (Way = "last" /\ ~StageValid(Checking)))
  <2>1. Way' = Way /\ Checking' = Checking /\ gate'.step = "mark"
    BY <1>3, <1>8, GateMoves
  <2>2. evidence[Checking] = Measured(Checking) /\ Fits(Checking[1], evidence[Checking])
    BY <1>5, <1>8 DEF Passes
  <2>3. (evidence[Checking] = Measured(Checking) /\ Fits(Checking[1], evidence[Checking]))'
    <3>1. PICK c : c = Checking
      OBVIOUS
    <3>2. (evidence[c] = Measured(c) /\ Fits(c[1], evidence[c]))'
      BY <1>4, <2>2, <3>1 DEF Measured, Fits
    <3> QED BY <2>1, <3>1, <3>2
  <2>4. CheckOK'
    BY <1>8, <2>1, <2>3 DEF CheckOK
  <2> QED BY <1>1, <1>3, <1>8, <2>1, <2>4, GateMoves, Stays
<1> QED BY <1>6, <1>7, <1>8 DEF Judge

LEMMA StageBeginsHolds == ASSUME GateInv, StageBegins PROVE GateInv'
<1>1. FilesSame /\ gate.stage # "accepted" /\ (gate.stage = "comparison" => EvidenceTrusted)
      /\ gate' = [gate EXCEPT !.at = 1, !.step = "look", !.clock = 0]
  BY DEF StageBegins, FilesSame, gateBounds
<1>2. DOMAIN gate' = DOMAIN gate /\ gate'.stage = gate.stage /\ gate'.at = 1 /\ gate'.step = "look"
  BY <1>1, GateFields
<1>3. GateWellFormed'
  BY <1>2, GateFields DEF GateWellFormed, GateSteps
<1>4. CheckOK'
  BY <1>2 DEF CheckOK
<1>5. ChecksHold'
  <2>1. \A i \in 1..Len(Plan(gate.stage)) : ~(i < 1)
    OBVIOUS
  <2> QED BY <1>2, <2>1 DEF ChecksHold
<1>6. FilesTrusted'
  BY <1>1, <1>2 DEF FilesTrusted, EvidenceTrusted, FilesSame
<1>7. QcHolds'
  BY <1>1, <1>2 DEF GateInv, QcHolds, FilesSame, Shows
<1> QED BY <1>1, <1>2, <1>3, <1>4, <1>5, <1>6, <1>7, SameEvidence DEF GateInv

LEMMA QcPassesHolds == ASSUME GateInv, QcPasses PROVE GateInv'
<1>1. FilesSame /\ gate.stage = "qc" /\ AtEnd
      /\ gate' = [stage |-> "comparison", at |-> 1, step |-> "stopped", clock |-> 0]
  BY DEF QcPasses, FilesSame, gateBounds
<1>2. DOMAIN gate' = DOMAIN gate /\ gate'.stage = "comparison" /\ gate'.at = 1 /\ gate'.step = "stopped"
  BY <1>1, GateFields
<1>3. GateWellFormed'
  BY <1>2, GateFields DEF GateWellFormed, GateSteps
<1>4. \A i \in 1..9 : i < gate.at
  BY <1>1, QcPlan DEF AtEnd, GateInv, GateTypes
<1>5. InRun /\ gate.step # "clean"
  <2>1. gate.at # 1
    BY <1>4
  <2> QED BY <1>1, <2>1 DEF InRun, GateInv, GateTypes
<1>6. \A i \in 1..9 : Behind(Plan("qc")[i])
  BY <1>1, <1>4, <1>5, QcPlan DEF GateInv, ChecksHold
<1>7. QcKinds \cap flaws = {}
  <2>1. \A k \in QcKinds : \E i \in 1..9 : Plan("qc")[i][1] = k
    BY QcPlan DEF QcKinds
  <2> QED BY <1>6, <2>1 DEF Behind
<1>8. Shows(<<"efficiency", 0>>, evidence[<<"efficiency", 0>>])
  BY <1>5, <1>6, QcPlan DEF Behind, Direct
<1>9. QcHolds'
  BY <1>1, <1>7, <1>8 DEF QcHolds, FilesSame, Shows
<1>10. CheckOK' /\ ChecksHold' /\ FilesTrusted'
  BY <1>2 DEF CheckOK, ChecksHold, FilesTrusted, InRun
<1> QED BY <1>1, <1>2, <1>3, <1>9, <1>10, SameEvidence DEF GateInv

LEMMA EveryKindCompared ==
    ASSUME NEW k \in ComparedKinds
    PROVE  \E i \in 1..Len(Plan("comparison")) : Plan("comparison")[i][1] = k
<1> DEFINE p == Plan("comparison")
<1>1. /\ p[1] = <<"info", 0>> /\ p[2] = <<"completeness", 0>> /\ p[3] = <<"origins", 0>>
      /\ p[4] = <<"probes", 0>> /\ p[5] = <<"pairs", 0>> /\ p[6 + 4 * Pairs] = <<"thresholds", 0>>
      /\ Len(p) = 6 + 4 * Pairs
  BY ComparisonPlan
<1>2. /\ p[6] = <<"images", 1>> /\ p[7] = <<"sdr", 1>> /\ p[8] = <<"planes", 1>> /\ p[9] = <<"metrics", 1>>
  <2>1. 1 \in 1..Pairs /\ 4 * 1 + 2 = 6 /\ 4 * 1 + 3 = 7 /\ 4 * 1 + 4 = 8 /\ 4 * 1 + 5 = 9
    BY GateAssumption
  <2> QED BY <2>1, ComparisonPlan
<1> HIDE DEF p
<1>3. {1, 2, 3, 4, 5, 6, 7, 8, 9, 6 + 4 * Pairs} \subseteq 1..Len(p)
  BY <1>1, GateAssumption
<1>4. \E i \in {1, 2, 3, 4, 5, 6, 7, 8, 9, 6 + 4 * Pairs} : p[i][1] = k
  BY <1>1, <1>2 DEF ComparedKinds
<1> QED BY <1>3, <1>4 DEF p

LEMMA ComparisonPassesHolds == ASSUME GateInv, ComparisonPasses PROVE GateInv'
<1>1. FilesSame /\ gate.stage = "comparison" /\ AtEnd /\ gate.step = "clean"
      /\ gate' = [gate EXCEPT !.stage = "accepted", !.at = 1, !.step = "stopped", !.clock = 0]
  BY DEF ComparisonPasses, FilesSame, gateBounds
<1>2. DOMAIN gate' = DOMAIN gate /\ gate'.stage = "accepted" /\ gate'.at = 1 /\ gate'.step = "stopped"
  BY <1>1, GateFields
<1>3. GateWellFormed'
  BY <1>2, GateFields DEF GateWellFormed, GateSteps
<1>4. InRun
  BY <1>1 DEF InRun
<1>5. \A i \in 1..Len(Plan("comparison")) : i < gate.at
  BY <1>1, ComparisonPlan, GateAssumption DEF AtEnd, GateInv, GateTypes
<1>6. \A i \in 1..Len(Plan("comparison")) : Plan("comparison")[i][1] \notin flaws
  BY <1>1, <1>4, <1>5 DEF GateInv, ChecksHold, Behind
<1>7. ComparedKinds \cap flaws = {}
  BY <1>6, EveryKindCompared
<1>8. QcKinds \cap flaws = {}
  BY <1>1 DEF GateInv, QcHolds
<1>9. flaws = {}
  BY <1>7, <1>8, KindIs DEF GateInv, GateTypes
<1>10. CheckOK' /\ ChecksHold'
  BY <1>2 DEF CheckOK, ChecksHold, InRun
<1>11. FilesTrusted'
  BY <1>1, <1>4 DEF FilesTrusted, FilesSame, GateInv
<1>12. QcHolds'
  BY <1>1, <1>2 DEF GateInv, QcHolds, FilesSame, Shows
<1> QED BY <1>1, <1>2, <1>3, <1>9, <1>10, <1>11, <1>12, SameEvidence DEF GateInv, FilesSame

LEMMA CleansUpHolds == ASSUME GateInv, CleansUp PROVE GateInv'
<1>1. /\ gate.stage = "comparison" /\ AtEnd /\ gate.step = "look"
      /\ evidence' = [c \in Checks |-> IF c \in Scratch THEN NoEvidence ELSE evidence[c]]
      /\ media' = media /\ flaws' = flaws /\ mark' = mark /\ revisions' = revisions
  BY DEF CleansUp, gateBounds
<1>2. PICK long \in {0, 1} : gate' = [gate EXCEPT !.step = "clean", !.clock = @ + long]
  BY DEF CleansUp
<1>3. DOMAIN gate' = DOMAIN gate /\ gate'.stage = gate.stage /\ gate'.at = gate.at /\ gate'.step = "clean"
  BY <1>2, GateFields
<1>4. AtEnd'
  BY <1>1, <1>3 DEF AtEnd
<1>5. GateTypes'
  <2>1. GateWellFormed'
    BY <1>1, <1>3, <1>4, GateFields DEF GateWellFormed, GateSteps
  <2> QED BY <1>1, <2>1 DEF GateTypes, GateWellFormed, GateInv
<1>6. \A c \in Checks : evidence'[c].there => evidence'[c] = evidence[c]
  BY <1>1 DEF NoEvidence
<1>7. EvidenceRead'
  BY <1>1, <1>6 DEF GateInv, EvidenceRead
<1>8. EvidenceTrue'
  BY <1>1, <1>6 DEF GateInv, EvidenceTrue, Shows
<1>9. MarksTrue'
  BY <1>1 DEF GateInv, MarksTrue, MarkOK, Fits
<1>10. InRun
  BY <1>1 DEF InRun
<1>11. CheckOK'
  BY <1>4 DEF CheckOK
<1>12. ChecksHold'
  <2>1. \A i \in 1..Len(Plan(gate.stage)) : i < gate.at => Plan(gate.stage)[i][1] \notin flaws
    BY <1>10 DEF GateInv, ChecksHold, Behind
  <2>2. \A c : Behind(c)' <=> c[1] \notin flaws
    BY <1>1, <1>3 DEF Behind
  <2> QED BY <1>3, <2>1, <2>2 DEF ChecksHold
<1>13. FilesTrusted'
  BY <1>1, <1>3, <1>10 DEF FilesTrusted, GateInv
<1>14. QcHolds'
  <2>1. <<"efficiency", 0>> \in Checks
    BY ChecksAre DEF QcKinds
  <2>2. QcHolds
    BY DEF GateInv
  <2> QED BY <1>1, <1>3, <1>6, <2>1, <2>2 DEF QcHolds, Shows
<1> QED BY <1>1, <1>3, <1>5, <1>7, <1>8, <1>9, <1>11, <1>12, <1>13, <1>14 DEF GateInv

LEMMA NotOfItself == ASSUME NEW c \in Checks PROVE c \notin From(c)
<1>1. CASE c[1] \in Direct
  BY <1>1, FromDirect
<1>2. CASE c[1] \in Derived
  BY <1>2, DerivedIs DEF From, Derived
<1>3. CASE c[1] \in OnlyRead
  BY <1>3, ReadingIs DEF From, OnlyRead
<1> QED BY <1>1, <1>2, <1>3, CheckIs

\* A measurement that is made shows what its files do not pass.
LEMMA MeasurementShows ==
    ASSUME GateInv, InRun, ~AtEnd, gate.step # "clean", Checking[1] \in Direct \cup {"metrics"}
    PROVE  Shows(Checking, Measured(Checking))
<1>1. Checking \in Checks
  BY CheckingIs
<1>2. CASE Checking[1] \in Direct
  BY <1>1, <1>2, DirectMeasured
<1>3. CASE Checking[1] = "metrics"
  <2>1. Checking = <<"metrics", Checking[2]>> /\ Checking[2] \in 1..Pairs
    BY <1>1, <1>3, CheckIs
  <2>2. PICK n \in 1..Pairs : Checking = <<"metrics", n>>
    BY <2>1
  <2>3. PICK d \in From(Checking) : Shows(d, evidence[d])
    BY <1>3, SourceShows
  <2>4. From(Checking) = {<<"planes", n>>} /\ d = <<"planes", n>>
    BY <2>2, <2>3, FromIs
  <2>5. Measured(Checking).flaws = evidence[d].flaws /\ (evidence[d].there => Measured(Checking).there)
    <3>1. From(Checking) = {d} /\ From(Checking) # {}
      BY <2>4
    <3>2. Measured(Checking) = [media |-> <<>>, flaws |-> UNION {evidence[x].flaws : x \in From(Checking)},
                                there |-> \A x \in From(Checking) : evidence[x].there]
      BY <3>1 DEF Measured
    <3>3. UNION {evidence[x].flaws : x \in From(Checking)} = evidence[d].flaws
      BY <3>1
    <3>4. Measured(Checking).flaws = evidence[d].flaws
      BY <3>2, <3>3
    <3>5. Measured(Checking).there <=> \A x \in From(Checking) : evidence[x].there
      BY <3>2
    <3> QED BY <3>1, <3>4, <3>5
  <2>6. Seen(Checking[1]) = Planes.reads /\ Seen(d[1]) = Planes.reads
    BY <1>3, <2>4, KindIs DEF Seen
  <2> QED BY <2>3, <2>5, <2>6 DEF Shows
<1> QED BY <1>2, <1>3

LEMMA MeasureHolds == ASSUME GateInv, Measure PROVE GateInv'
<1>1. GateAt("measure")
  BY DEF Measure
<1>2. InRun /\ ~AtEnd /\ gate.step = "measure" /\ gate.step # "clean" /\ gate.stage \in {"qc", "comparison"}
  BY <1>1, GateAtMeans
<1>3. PICK c \in Checks : c = Checking
  BY <1>2, CheckingIs
<1>4. evidence' = [evidence EXCEPT ![c] = Measured(c)]
  BY <1>3 DEF Measure
<1>5. PICK s, long : s \in {"mark", "judge"} /\ (s = "mark" <=> Way = "always")
                     /\ gate' = [gate EXCEPT !.step = s, !.clock = @ + long]
  BY DEF Measure
<1>6. DOMAIN gate' = DOMAIN gate /\ gate'.stage = gate.stage /\ gate'.at = gate.at /\ gate'.step = s
  BY <1>5, GateFields
<1>7. media' = media /\ flaws' = flaws /\ mark' = mark /\ revisions' = revisions
  BY DEF Measure, gateBounds
<1>8. AtEnd' = AtEnd /\ Checking' = c /\ Way' = Way
  BY <1>3, <1>6 DEF AtEnd, Checking, Way
<1>9. DOMAIN evidence = Checks /\ DOMAIN evidence' = Checks /\ evidence'[c] = Measured(c)
      /\ \A d \in Checks : d # c => evidence'[d] = evidence[d]
  BY <1>4 DEF GateInv, GateTypes
<1>10. GateTypes'
  <2>1. GateWellFormed'
    BY <1>2, <1>5, <1>6, GateFields DEF GateWellFormed, GateSteps
  <2> QED BY <1>7, <1>9, <2>1 DEF GateTypes, GateWellFormed, GateInv
<1>11. EvidenceRead'
  <2> SUFFICES ASSUME NEW d \in Checks, d[1] \in Direct, evidence'[d].there
               PROVE  /\ DOMAIN evidence'[d].media = Kind[d[1]].reads
                      /\ \A f \in Kind[d[1]].reads : evidence'[d].media[f] \in 0..(revisions + 1)
    BY <1>7 DEF EvidenceRead
  <2>1. CASE d = c
    <3>1. evidence'[d].media = [f \in Kind[d[1]].reads |-> media[f]]
      BY <1>9, <2>1, DirectMeasured
    <3>2. Kind[d[1]].reads \subseteq MediaFiles
      BY DirectIs
    <3> QED BY <3>1, <3>2 DEF GateInv, GateTypes
  <2>2. CASE d # c
    BY <1>9, <2>2 DEF GateInv, EvidenceRead
  <2> QED BY <2>1, <2>2
<1>12. EvidenceTrue'
  <2> SUFFICES ASSUME NEW d \in Checks, d[1] \in Direct, evidence'[d].there, media[Pivot(d[1])] # 0,
                      evidence'[d].media[Pivot(d[1])] = media[Pivot(d[1])]
               PROVE  Shows(d, evidence'[d])
    BY <1>7 DEF EvidenceTrue, Shows
  <2>1. CASE d = c
    BY <1>9, <2>1, DirectMeasured
  <2>2. CASE d # c
    BY <1>9, <2>2 DEF GateInv, EvidenceTrue
  <2> QED BY <2>1, <2>2
<1>13. MarksTrue'
  BY <1>7 DEF GateInv, MarksTrue, MarkOK, Fits
<1>14. CheckOK'
  <2>1. c \notin From(c)
    BY NotOfItself
  <2>2. \A d \in From(c) : evidence'[d] = evidence[d]
    BY <1>9, <2>1 DEF From
  <2>3. {evidence'[d].flaws : d \in From(c)} = {evidence[d].flaws : d \in From(c)}
    BY <2>2
  <2>4. (\A d \in From(c) : evidence'[d].there) <=> (\A d \in From(c) : evidence[d].there)
    BY <2>2
  <2>5. Measured(c)' = Measured(c)
    <3>1. CASE From(c) = {}
      BY <1>7, <3>1 DEF Measured
    <3>2. CASE From(c) # {}
      BY <2>3, <2>4, <3>2 DEF Measured
    <3> QED BY <3>1, <3>2
  <2>6. evidence'[Checking'] = Measured(Checking)'
    BY <1>8, <1>9, <2>5
  <2>7. Way # "reading"
    BY <1>2 DEF GateInv, CheckOK
  <2> QED BY <1>5, <1>6, <1>8, <2>6, <2>7 DEF CheckOK
<1>15. ASSUME NEW b \in Checks, Behind(b) PROVE Behind(b)'
  <2>1. b[1] \in Direct \cup {"metrics"} => Shows(b, evidence'[b])
    <3>1. CASE b = c
      BY <1>2, <1>3, <1>9, <3>1, MeasurementShows
    <3>2. CASE b # c
      BY <1>2, <1>9, <1>15, <3>2 DEF Behind
    <3> QED BY <3>1, <3>2
  <2> QED BY <1>7, <1>15, <2>1 DEF Behind, Shows
<1>16. ChecksHold'
  <2>1. \A i \in 1..Len(Plan(gate.stage)) : Plan(gate.stage)[i] \in Checks
    BY <1>2 DEF Checks, InPlan
  <2>2. ASSUME NEW i \in 1..Len(Plan(gate.stage)), i < gate.at
        PROVE  Behind(Plan(gate.stage)[i])'
    <3>1. PICK b \in Checks : b = Plan(gate.stage)[i] /\ Behind(b)
      BY <1>2, <2>1, <2>2 DEF GateInv, ChecksHold
    <3>2. Behind(b)'
      BY <1>15, <3>1
    <3> QED BY <1>6, <3>1, <3>2
  <2> QED BY <1>6, <2>2 DEF ChecksHold
<1>17. FilesTrusted'
  BY <1>2, <1>6, <1>7 DEF FilesTrusted, GateInv
<1>18. QcHolds'
  <2> DEFINE e == <<"efficiency", 0>>
  <2>1. e \in Checks /\ e[1] \in Direct
    BY ChecksAre DEF QcKinds, Direct
  <2>2. e = c => Shows(e, evidence'[e])
    BY <1>9, <2>1, DirectMeasured
  <2>3. e # c => evidence'[e] = evidence[e]
    BY <1>9, <2>1
  <2>4. QcHolds
    BY DEF GateInv
  <2> HIDE DEF e
  <2>5. gate.stage # "qc" => QcKinds \cap flaws = {}
    BY <2>4 DEF QcHolds
  <2>6. gate.stage # "qc" /\ evidence[e].there /\ media["output"] # 0 => Shows(e, evidence[e])
    BY <2>4 DEF QcHolds, e
  <2>7. gate.stage # "qc" /\ evidence'[e].there /\ media["output"] # 0 => Shows(e, evidence'[e])
    BY <2>2, <2>3, <2>6
  <2> QED BY <1>6, <1>7, <2>5, <2>7 DEF QcHolds, Shows, e
<1> QED BY <1>2, <1>6, <1>10, <1>11, <1>12, <1>13, <1>14, <1>16, <1>17, <1>18 DEF GateInv

\* What is left to show of a step that writes the checkpoint of a check.
LEMMA MarkWritten ==
    ASSUME GateInv, InRun, ~AtEnd, gate.step = "mark", GateWellFormed', gate'.stage = gate.stage,
           media' = media, flaws' = flaws, evidence' = evidence, revisions' = revisions,
           NEW c \in Checks, c = Checking,
           mark' = [mark EXCEPT ![c] = [inputs |-> CheckInputs(c), evidence |-> evidence[c]]],
           CheckOK', ChecksHold'
    PROVE  GateInv'
<1>1. PICK m : m = [inputs |-> CheckInputs(c), evidence |-> evidence[c]]
  OBVIOUS
<1>2. DOMAIN mark' = Checks /\ mark'[c] = m /\ \A d \in Checks : d # c => mark'[d] = mark[d]
  BY <1>1 DEF GateInv, GateTypes
<1>3. Way # "reading" /\ evidence[c] = Measured(c) /\ (Way # "always" => Fits(c[1], evidence[c]))
  BY DEF GateInv, CheckOK
<1>4. GateTypes'
  BY <1>2 DEF GateInv, GateTypes, GateWellFormed
<1>5. EvidenceRead'
  BY DEF GateInv, EvidenceRead
<1>6. EvidenceTrue'
  BY DEF GateInv, EvidenceTrue, Shows
<1>7. MarkOK(c, m)
  <2>1. ASSUME c[1] \in Direct PROVE m.evidence.media[Pivot(c[1])] = m.inputs[1][Pivot(c[1])]
    <3>1. evidence[c].media[Pivot(c[1])] = media[Pivot(c[1])]
      BY <1>3, <2>1, DirectMeasured
    <3>2. CheckInputs(c)[1] = [f \in Kind[c[1]].keys |-> media[f]]
      BY DEF CheckInputs
    <3>3. CheckInputs(c)[1][Pivot(c[1])] = media[Pivot(c[1])]
      BY <2>1, <3>2, DirectIs
    <3> QED BY <1>1, <3>1, <3>3
  <2>2. c[1] \in Derived => m.evidence = MadeOf(m.inputs)
    BY <1>1, <1>3, DerivedMeasured
  <2>3. Kind[c[1]].way = "first" => Fits(c[1], m.evidence)
    BY <1>1, <1>3 DEF Way
  <2> QED BY <2>1, <2>2, <2>3 DEF MarkOK
<1>8. MarksTrue'
  BY <1>2, <1>7 DEF GateInv, MarksTrue, MarkOK, Fits
<1>9. FilesTrusted'
  BY DEF FilesTrusted, GateInv, InRun
<1>10. QcHolds'
  BY DEF GateInv, QcHolds, Shows
<1>11. gate'.stage # "accepted"
  BY DEF InRun
<1> QED BY <1>4, <1>5, <1>6, <1>8, <1>9, <1>10, <1>11 DEF GateInv

LEMMA WriteMarkHolds == ASSUME GateInv, WriteMark PROVE GateInv'
<1>1. GateAt("mark")
  BY DEF WriteMark
<1>2. InRun /\ ~AtEnd /\ gate.step = "mark" /\ gate.step # "clean" /\ gate.stage \in {"qc", "comparison"}
  BY <1>1, GateAtMeans
<1>3. PICK c \in Checks : c = Checking
  BY <1>2, CheckingIs
<1>4. PICK m : m = [inputs |-> CheckInputs(c), evidence |-> evidence[c]]
  OBVIOUS
<1>5. /\ media' = media /\ flaws' = flaws /\ evidence' = evidence /\ revisions' = revisions
      /\ mark' = [mark EXCEPT ![c] = m]
  BY <1>3, <1>4 DEF WriteMark, gateBounds
<1>6. Way # "reading" /\ evidence[c] = Measured(c) /\ (Way # "always" => Fits(c[1], evidence[c]))
  BY <1>2, <1>3 DEF GateInv, CheckOK
<1>7. Behind(Checking) \/ Way = "always"
  <2>1. Way # "always" => Judged
    BY <1>3, <1>6 DEF Judged
  <2> QED BY <1>2, <2>1, VerdictHolds
<1>8. CASE Way = "always" /\ GateTo("judge")
  <2>1. /\ GateWellFormed' /\ gate'.stage = gate.stage /\ gate'.at = gate.at /\ gate'.step = "judge"
        /\ Checking' = c /\ Way' = Way
    BY <1>2, <1>3, <1>8, GateMoves
  <2>2. CheckOK'
    <3>1. evidence'[c] = Measured(c)'
      BY <1>5, <1>6 DEF Measured
    <3> QED BY <1>6, <2>1, <3>1 DEF CheckOK
  <2>3. ASSUME NEW b, Behind(b) PROVE Behind(b)'
    BY <1>2, <1>5, <2>3 DEF Behind, Shows
  <2>4. ChecksHold'
    <3>1. ASSUME NEW i \in 1..Len(Plan(gate.stage)), i < gate.at
          PROVE  Behind(Plan(gate.stage)[i])'
      <4>1. PICK b : b = Plan(gate.stage)[i] /\ Behind(b)
        BY <1>2, <3>1 DEF GateInv, ChecksHold
      <4> QED BY <2>1, <2>3, <4>1
    <3> QED BY <2>1, <3>1 DEF ChecksHold
  <2> QED BY <2>1, <2>2, <2>4, <1>2, <1>3, <1>4, <1>5, MarkWritten
<1>9. CASE Way # "always" /\ NextCheck
  <2>1. /\ GateWellFormed' /\ gate'.stage = gate.stage /\ gate'.at = gate.at + 1
        /\ gate'.step = "look"
    BY <1>2, <1>9, GateAdvances
  <2>2. CheckOK'
    BY <2>1 DEF CheckOK
  <2>3. ASSUME NEW b, Behind(b) PROVE Behind(b)'
    BY <1>2, <1>5, <2>3 DEF Behind, Shows
  <2>4. ChecksHold'
    <3>1. ASSUME NEW i \in 1..Len(Plan(gate.stage)), i < gate.at + 1
          PROVE  Behind(Plan(gate.stage)[i])'
      <4>1. i < gate.at \/ i = gate.at
        BY <3>1 DEF GateInv, GateTypes
      <4>2. PICK b : b = Plan(gate.stage)[i] /\ Behind(b)
        <5>1. i < gate.at => Behind(Plan(gate.stage)[i])
          BY <1>2 DEF GateInv, ChecksHold
        <5>2. i = gate.at => Behind(Plan(gate.stage)[i])
          BY <1>7, <1>9 DEF Checking
        <5> QED BY <4>1, <5>1, <5>2
      <4> QED BY <2>1, <2>3, <4>2
    <3> QED BY <2>1, <3>1 DEF ChecksHold
  <2> QED BY <2>1, <2>2, <2>4, <1>2, <1>3, <1>4, <1>5, MarkWritten
<1> QED BY <1>8, <1>9 DEF WriteMark

LEMMA RevisesHolds == ASSUME GateInv, Revises PROVE GateInv'
<1>1. PICK f \in MediaFiles \cup {"none"} :
        /\ media' = [g \in MediaFiles |-> IF g \in Remade(f) THEN revisions + 2 ELSE media[g]]
        /\ \E found \in Flaws({k \in DOMAIN Kind : About(k) \cap Remade(f) # {}}) :
             flaws' = (flaws \ {k \in DOMAIN Kind : About(k) \cap Remade(f) # {}}) \cup found
  BY DEF Revises
<1>2. PICK new : new = {k \in DOMAIN Kind : About(k) \cap Remade(f) # {}}
  OBVIOUS
<1>3. PICK found \in Flaws(new) : flaws' = (flaws \ new) \cup found
  BY <1>1, <1>2
<1>4. found \subseteq new /\ new \subseteq DOMAIN Kind
  BY <1>2, <1>3 DEF Flaws
<1>5. /\ revisions' = revisions + 1 /\ evidence' = evidence /\ mark' = mark
      /\ gate' = [stage |-> "qc", at |-> 1, step |-> "stopped", clock |-> 0]
      /\ \A g \in MediaFiles : media'[g] # 0
  BY DEF Revises
<1>6. DOMAIN gate' = {"stage", "at", "step", "clock"} /\ gate'.stage = "qc" /\ gate'.at = 1
      /\ gate'.step = "stopped"
  BY <1>5
<1>7. revisions \in Nat /\ \A g \in MediaFiles : media[g] \in 0..(revisions + 1)
  BY DEF GateInv, GateTypes
<1>8. DOMAIN media' = MediaFiles
      /\ \A g \in MediaFiles : media'[g] = IF g \in Remade(f) THEN revisions + 2 ELSE media[g]
  BY <1>1
<1>9. GateTypes'
  <2>1. \A g \in MediaFiles : media'[g] \in 0..(revisions' + 1)
    BY <1>5, <1>7, <1>8
  <2>2. media'["encoded"] # 0 /\ media'["sidecars"] # 0 /\ revisions' \in Nat
    BY <1>5, <1>7 DEF MediaFiles
  <2>3. flaws' \subseteq DOMAIN Kind
    BY <1>3, <1>4 DEF GateInv, GateTypes
  <2>4. DOMAIN evidence' = Checks /\ DOMAIN mark' = Checks
    BY <1>5 DEF GateInv, GateTypes
  <2> QED BY <1>6, <1>8, <2>1, <2>2, <2>3, <2>4 DEF GateTypes, GateSteps
<1>10. EvidenceRead'
  <2> SUFFICES ASSUME NEW c \in Checks, c[1] \in Direct, evidence[c].there
               PROVE  /\ DOMAIN evidence[c].media = Kind[c[1]].reads
                      /\ \A g \in Kind[c[1]].reads : evidence[c].media[g] \in 0..(revisions + 1 + 1)
    BY <1>5 DEF EvidenceRead
  <2>1. /\ DOMAIN evidence[c].media = Kind[c[1]].reads
        /\ \A g \in Kind[c[1]].reads : evidence[c].media[g] \in 0..(revisions + 1)
    BY DEF GateInv, EvidenceRead
  <2> QED BY <1>7, <2>1
<1>11. EvidenceTrue'
  <2> SUFFICES ASSUME NEW c \in Checks, c[1] \in Direct, evidence[c].there, media'[Pivot(c[1])] # 0,
                      evidence[c].media[Pivot(c[1])] = media'[Pivot(c[1])]
               PROVE  Shows(c, evidence[c])'
    BY <1>5 DEF EvidenceTrue
  <2>1. Pivot(c[1]) \in Kind[c[1]].reads /\ Kind[c[1]].reads \subseteq MediaFiles
        /\ Seen(c[1]) = Kind[c[1]].reads
    BY DirectIs
  <2>2. evidence[c].media[Pivot(c[1])] \in 0..(revisions + 1)
    BY <2>1 DEF GateInv, EvidenceRead
  <2>3. Pivot(c[1]) \notin Remade(f)
    BY <1>7, <1>8, <2>1, <2>2
  <2>4. media'[Pivot(c[1])] = media[Pivot(c[1])]
    BY <1>8, <2>1, <2>3
  <2>5. Shows(c, evidence[c])
    BY <2>4 DEF GateInv, EvidenceTrue
  <2>6. Remade(f) \cap Kind[c[1]].reads = {}
    <3>1. CASE f = "none"
      BY <3>1 DEF Remade
    <3>2. CASE f \in MediaFiles
      BY <2>3, <3>2, Remakes
    <3> QED BY <3>1, <3>2
  <2>7. ASSUME NEW k \in flaws', About(k) \subseteq Seen(c[1]) PROVE k \in evidence[c].flaws
    <3>1. k \notin new
      BY <1>2, <2>1, <2>6, <2>7
    <3>2. k \in flaws
      BY <1>3, <1>4, <3>1
    <3> QED BY <2>5, <2>7, <3>2 DEF Shows
  <2> QED BY <1>5, <2>7 DEF Shows
<1>12. MarksTrue'
  BY <1>5 DEF GateInv, MarksTrue, MarkOK, Fits
<1>13. CheckOK' /\ ChecksHold' /\ FilesTrusted' /\ QcHolds'
  BY <1>6 DEF CheckOK, ChecksHold, FilesTrusted, QcHolds, InRun
<1> QED BY <1>6, <1>9, <1>10, <1>11, <1>12, <1>13 DEF GateInv

LEMMA DamageHolds == ASSUME GateInv, Damage PROVE GateInv'
<1>1. /\ gate' = gate /\ flaws' = flaws /\ mark' = mark /\ revisions' = revisions
      /\ gate.stage # "accepted" /\ ~InRun /\ ~InRun'
  BY DEF Damage, InRun
<1>2. CheckOK' /\ ChecksHold' /\ FilesTrusted'
  BY <1>1 DEF CheckOK, ChecksHold, FilesTrusted
<1>3. MarksTrue'
  BY <1>1 DEF GateInv, MarksTrue, MarkOK, Fits
<1>4. CASE \E f \in {"reference", "output"} : media' = [media EXCEPT ![f] = 0] /\ UNCHANGED evidence
  <2>1. PICK f \in {"reference", "output"} : media' = [media EXCEPT ![f] = 0] /\ evidence' = evidence
    BY <1>4
  <2>2. DOMAIN media' = MediaFiles /\ media'[f] = 0 /\ \A g \in MediaFiles : g # f => media'[g] = media[g]
    BY <2>1 DEF GateInv, GateTypes, MediaFiles
  <2>3. GateTypes'
    <3>1. \A g \in MediaFiles : media'[g] \in 0..(revisions + 1)
      BY <2>2 DEF GateInv, GateTypes
    <3>2. media'["encoded"] # 0 /\ media'["sidecars"] # 0
      BY <2>2 DEF GateInv, GateTypes, MediaFiles
    <3> QED BY <1>1, <2>1, <2>2, <3>1, <3>2 DEF GateInv, GateTypes, AtEnd
  <2>4. EvidenceRead'
    BY <1>1, <2>1 DEF GateInv, EvidenceRead
  <2>5. \A g \in MediaFiles : media'[g] # 0 => media'[g] = media[g]
    BY <2>2
  <2>6. EvidenceTrue'
    <3> SUFFICES ASSUME NEW c \in Checks, c[1] \in Direct, evidence[c].there, media'[Pivot(c[1])] # 0,
                        evidence[c].media[Pivot(c[1])] = media'[Pivot(c[1])]
                 PROVE  Shows(c, evidence[c])
      BY <1>1, <2>1 DEF EvidenceTrue, Shows
    <3>1. media'[Pivot(c[1])] = media[Pivot(c[1])]
      BY <2>5, DirectIs
    <3> QED BY <3>1 DEF GateInv, EvidenceTrue
  <2>7. QcHolds'
    <3>1. media'["output"] # 0 => media["output"] # 0
      BY <2>5 DEF MediaFiles
    <3> QED BY <1>1, <2>1, <3>1 DEF GateInv, QcHolds, Shows
  <2> QED BY <1>1, <1>2, <1>3, <2>3, <2>4, <2>6, <2>7 DEF GateInv
<1>5. CASE \E c \in Checks : evidence' = [evidence EXCEPT ![c] = NoEvidence] /\ UNCHANGED media
  <2>1. PICK c \in Checks : evidence' = [evidence EXCEPT ![c] = NoEvidence] /\ media' = media
    BY <1>5
  <2>2. DOMAIN evidence' = Checks /\ \A d \in Checks : evidence'[d].there => evidence'[d] = evidence[d]
    BY <2>1 DEF GateInv, GateTypes, NoEvidence
  <2>3. GateTypes'
    BY <1>1, <2>1, <2>2 DEF GateInv, GateTypes, AtEnd
  <2>4. EvidenceRead'
    BY <1>1, <2>2 DEF GateInv, EvidenceRead
  <2>5. EvidenceTrue'
    BY <1>1, <2>1, <2>2 DEF GateInv, EvidenceTrue, Shows
  <2>6. QcHolds'
    <3>1. <<"efficiency", 0>> \in Checks
      BY ChecksAre DEF QcKinds
    <3>2. QcHolds
      BY DEF GateInv
    <3> QED BY <1>1, <2>1, <2>2, <3>1, <3>2 DEF QcHolds, Shows
  <2> QED BY <1>1, <1>2, <1>3, <2>3, <2>4, <2>5, <2>6 DEF GateInv
<1> QED BY <1>4, <1>5 DEF Damage

LEMMA GateInvHolds == GateSpec => []GateInv
<1>1. ASSUME GateInv, [GateNext]_gateVars PROVE GateInv'
  <2>1. CASE UNCHANGED gateVars
    <3>1. /\ media' = media /\ flaws' = flaws /\ evidence' = evidence /\ mark' = mark
          /\ gate' = gate /\ revisions' = revisions
      BY <2>1 DEF gateVars
    <3>2. AtEnd' = AtEnd /\ InRun' = InRun
      BY <3>1 DEF AtEnd, InRun
    <3>3. GateWellFormed'
      BY <1>1, <3>1, <3>2, GateFields DEF GateWellFormed
    <3>4. FilesSame
      BY <3>1 DEF FilesSame
    <3>5. GateTypes' /\ EvidenceRead' /\ EvidenceTrue' /\ MarksTrue'
      BY <1>1, <3>3, <3>4, SameEvidence
    <3>6. CheckOK'
      <4>1. PICK c : c = Checking /\ c = Checking'
        BY <3>1 DEF Checking
      <4>2. (evidence[c] = Measured(c))' <=> evidence[c] = Measured(c)
        BY <3>1 DEF Measured
      <4>3. StageValid(c)' <=> StageValid(c)
        BY <3>1 DEF StageValid, CheckInputs
      <4>4. Fits(c[1], evidence[c])' <=> Fits(c[1], evidence[c])
        BY <3>1 DEF Fits
      <4>5. Way' = Way
        BY <4>1 DEF Way
      <4>6. CheckOK
        BY <1>1 DEF GateInv
      <4> QED BY <3>1, <3>2, <4>1, <4>2, <4>3, <4>4, <4>5, <4>6 DEF CheckOK
    <3>7. ChecksHold'
      <4>1. \A b : Behind(b)' <=> Behind(b)
        BY <3>1 DEF Behind, Shows
      <4>2. ASSUME NEW i \in 1..Len(Plan(gate.stage)), i < gate.at, InRun
            PROVE  Behind(Plan(gate.stage)[i])'
        <5>1. PICK b : b = Plan(gate.stage)[i] /\ Behind(b)
          BY <1>1, <4>2 DEF GateInv, ChecksHold
        <5> QED BY <3>1, <4>1, <5>1
      <4> QED BY <3>1, <3>2, <4>2 DEF ChecksHold
    <3>8. FilesTrusted' /\ QcHolds'
      BY <1>1, <3>1, <3>2 DEF FilesTrusted, QcHolds, GateInv, Shows
    <3> QED BY <1>1, <3>1, <3>5, <3>6, <3>7, <3>8 DEF GateInv
  <2>2. CASE GateNext
    BY <1>1, <2>2, LookHolds, MeasureHolds, CutShortHolds, RunsOutHolds, WriteMarkHolds, JudgeHolds,
       StageBeginsHolds, StageRefusedHolds, QcPassesHolds, CleansUpHolds, ComparisonPassesHolds,
       ResumesHolds, RevisesHolds, GateStopsHolds, DamageHolds DEF GateNext
  <2> QED BY <1>1, <2>1, <2>2
<1> QED BY <1>1, GateInitHolds, PTL DEF GateSpec

(* AcceptedIsSound of QualityGate: what _qc and _comparison let through has  *)
(* no flaw and no file that was changed behind the worker's back.            *)
THEOREM AcceptedPassesEveryCheck == GateSpec => []AcceptedIsSound
<1>1. GateInv => AcceptedIsSound
  BY DEF GateInv, AcceptedIsSound, FilesTrusted, GateTypes, MediaFiles
<1> QED BY <1>1, GateInvHolds, PTL

-----------------------------------------------------------------------------
(* Time that is not lost: a measurement that takes its time is of a check    *)
(* that had no valid checkpoint, and leaves it one.  So the time used, and   *)
(* the checks whose measurement is still owed, are together never more than  *)
(* all of them and what a clean-up or a stop has thrown away.                *)

\* The checks of the comparison that run a long command.
Long == ({"info", "origins", "probes"} \X {0}) \cup ({"images", "sdr", "planes", "metrics"} \X (1..Pairs))

\* The checkpoint of a check that was just measured is as good as written.
Repaying == gate.stage = "comparison" /\ gate.step = "mark"
Owed == {c \in Long : ~StageValid(c) /\ ~(Repaying /\ c = Checking)}

Counters ==
    /\ timeouts \in Nat /\ cleanups \in Nat /\ gateStops \in Nat
    /\ revisions \in Nat /\ damages \in Nat /\ gate.clock \in Nat

MeasuresOnce == GateAt("measure") => ~StageValid(Checking)

Quiet == revisions = 0 /\ damages = 0

\* As long as the files stay the same, measuring once more shows the same.
PlanesTrue == \A n \in 1..Pairs :
    /\ evidence[<<"planes", n>>].there => evidence[<<"planes", n>>] = Measured(<<"planes", n>>)
    /\ evidence[<<"metrics", n>>].there => evidence[<<"planes", n>>].there

TimeCounted ==
    timeouts * (Budget - 1) + gate.clock + Cardinality(Owed)
      <= 3 + 4 * Pairs + 3 * cleanups + gateStops

TimeInv == Counters /\ MeasuresOnce /\ (Quiet => PlanesTrue /\ TimeCounted)

LEMMA LongAreChecks ==
    /\ Long \subseteq Checks
    /\ \A n \in 1..Pairs : <<"planes", n>> \in Checks /\ <<"metrics", n>> \in Checks
    /\ \A c \in Long : c[1] \in Direct \/ \E n \in 1..Pairs : c = <<"metrics", n>>
<1>1. \A n \in 1..Pairs : <<"planes", n>> \in Checks /\ <<"metrics", n>> \in Checks
  BY ChecksAre
<1>2. ASSUME NEW c \in Long PROVE c \in Checks /\ (c[1] \in Direct \/ \E n \in 1..Pairs : c = <<"metrics", n>>)
  <2>1. CASE c \in {"info", "origins", "probes"} \X {0}
    <3>1. c = <<c[1], 0>> /\ c[1] \in {"info", "origins", "probes"}
      BY <2>1
    <3> QED BY <3>1, ChecksAre DEF Direct
  <2>2. CASE c \in {"images", "sdr", "planes", "metrics"} \X (1..Pairs)
    <3>1. c = <<c[1], c[2]>> /\ c[1] \in {"images", "sdr", "planes", "metrics"} /\ c[2] \in 1..Pairs
      BY <2>2
    <3>2. c \in Checks
      BY <3>1, ChecksAre
    <3>3. c[1] # "metrics" => c[1] \in Direct
      BY <3>1 DEF Direct
    <3> QED BY <3>1, <3>2, <3>3
  <2> QED BY <2>1, <2>2 DEF Long
<1> QED BY <1>1, <1>2

LEMMA LongAreFew == IsFiniteSet(Long) /\ Cardinality(Long) <= 3 + 4 * Pairs
<1> DEFINE whole == {"info", "origins", "probes"}
           paired == {"images", "sdr", "planes", "metrics"}
<1>1. IsFiniteSet(whole) /\ Cardinality(whole) = 3
  <2>1. IsFiniteSet({"info"}) /\ Cardinality({"info"}) = 1
    BY FS_Singleton
  <2>2. IsFiniteSet({"info"} \cup {"origins"}) /\ Cardinality({"info"} \cup {"origins"}) = 2
    BY <2>1, FS_AddElement
  <2>3. /\ IsFiniteSet(({"info"} \cup {"origins"}) \cup {"probes"})
        /\ Cardinality(({"info"} \cup {"origins"}) \cup {"probes"}) = 3
    BY <2>2, FS_AddElement
  <2>4. whole = ({"info"} \cup {"origins"}) \cup {"probes"}
    OBVIOUS
  <2> QED BY <2>3, <2>4
<1>2. IsFiniteSet(paired) /\ Cardinality(paired) = 4
  <2>1. IsFiniteSet({"images"}) /\ Cardinality({"images"}) = 1
    BY FS_Singleton
  <2>2. IsFiniteSet({"images"} \cup {"sdr"}) /\ Cardinality({"images"} \cup {"sdr"}) = 2
    BY <2>1, FS_AddElement
  <2>3. /\ IsFiniteSet(({"images"} \cup {"sdr"}) \cup {"planes"})
        /\ Cardinality(({"images"} \cup {"sdr"}) \cup {"planes"}) = 3
    BY <2>2, FS_AddElement
  <2>4. /\ IsFiniteSet((({"images"} \cup {"sdr"}) \cup {"planes"}) \cup {"metrics"})
        /\ Cardinality((({"images"} \cup {"sdr"}) \cup {"planes"}) \cup {"metrics"}) = 4
    BY <2>3, FS_AddElement
  <2>5. paired = (({"images"} \cup {"sdr"}) \cup {"planes"}) \cup {"metrics"}
    OBVIOUS
  <2> QED BY <2>4, <2>5
<1>3. Long = (whole \X {0}) \cup (paired \X (1..Pairs))
  BY DEF Long
<1> HIDE DEF whole, paired
<1>4. IsFiniteSet({0}) /\ Cardinality({0}) = 1
  BY FS_Singleton
<1>5. IsFiniteSet(1..Pairs) /\ Cardinality(1..Pairs) = Pairs /\ Pairs \in Nat
  <2>1. 1 \in Int /\ Pairs \in Int /\ Pairs > 0
    BY GateAssumption
  <2>2. IsFiniteSet(1..Pairs) /\ Cardinality(1..Pairs) = IF 1 > Pairs THEN 0 ELSE Pairs - 1 + 1
    BY <2>1, FS_Interval
  <2> QED BY <2>1, <2>2
<1>6. IsFiniteSet(whole \X {0}) /\ Cardinality(whole \X {0}) = 3
  BY <1>1, <1>4, FS_Product
<1>7. IsFiniteSet(paired \X (1..Pairs)) /\ Cardinality(paired \X (1..Pairs)) = 4 * Pairs
  BY <1>2, <1>5, FS_Product
<1> DEFINE w == whole \X {0}
           p == paired \X (1..Pairs)
<1>8. IsFiniteSet(w) /\ IsFiniteSet(p) /\ Cardinality(w) = 3 /\ Cardinality(p) = 4 * Pairs /\ Long = w \cup p
  BY <1>3, <1>6, <1>7
<1> HIDE DEF w, p
<1>9. /\ IsFiniteSet(w \cup p)
      /\ Cardinality(w \cup p) = Cardinality(w) + Cardinality(p) - Cardinality(w \cap p)
  BY <1>8, FS_Union
<1>10. Cardinality(w \cap p) \in Nat
  <2>1. IsFiniteSet(w \cap p)
    BY <1>8, FS_Subset
  <2> QED BY <2>1, FS_CardinalityType
<1> QED BY <1>5, <1>8, <1>9, <1>10

\* Fewer checks owed, and at most so many more.
LEMMA OwedCount ==
    ASSUME NEW S \in SUBSET Long, NEW T \in SUBSET Long
    PROVE  /\ Cardinality(S) \in Nat /\ Cardinality(T) \in Nat
           /\ T \subseteq S => Cardinality(T) <= Cardinality(S)
           /\ \A c : T \subseteq S \ {c} /\ c \in S => Cardinality(T) <= Cardinality(S) - 1
           /\ \A c : T \subseteq S \cup {c} => Cardinality(T) <= Cardinality(S) + 1
           /\ \A c, d : T \subseteq S \cup {c, d} => Cardinality(T) <= Cardinality(S) + 2
<1>1. IsFiniteSet(S) /\ IsFiniteSet(T)
  BY LongAreFew, FS_Subset
<1>2. Cardinality(S) \in Nat /\ Cardinality(T) \in Nat
  BY <1>1, FS_CardinalityType
<1>3. T \subseteq S => Cardinality(T) <= Cardinality(S)
  BY <1>1, FS_Subset
<1>4. ASSUME NEW c, T \subseteq S \ {c}, c \in S PROVE Cardinality(T) <= Cardinality(S) - 1
  <2>1. IsFiniteSet(S \ {c}) /\ Cardinality(S \ {c}) = Cardinality(S) - 1
    BY <1>1, <1>4, FS_RemoveElement
  <2>2. Cardinality(T) <= Cardinality(S \ {c})
    BY <1>4, <2>1, FS_Subset
  <2> QED BY <2>1, <2>2
<1>5. ASSUME NEW c, T \subseteq S \cup {c} PROVE Cardinality(T) <= Cardinality(S) + 1
  <2>1. IsFiniteSet(S \cup {c}) /\ Cardinality(S \cup {c}) <= Cardinality(S) + 1
    <3>1. /\ IsFiniteSet(S \cup {c})
          /\ Cardinality(S \cup {c}) = IF c \in S THEN Cardinality(S) ELSE Cardinality(S) + 1
      BY <1>1, FS_AddElement
    <3> QED BY <1>2, <3>1
  <2>2. Cardinality(T) <= Cardinality(S \cup {c}) /\ Cardinality(S \cup {c}) \in Nat
    BY <1>5, <2>1, FS_Subset, FS_CardinalityType
  <2> QED BY <1>2, <2>1, <2>2
<1>6. ASSUME NEW c, NEW d, T \subseteq S \cup {c, d} PROVE Cardinality(T) <= Cardinality(S) + 2
  <2>1. /\ IsFiniteSet(S \cup {c})
        /\ Cardinality(S \cup {c}) = IF c \in S THEN Cardinality(S) ELSE Cardinality(S) + 1
    BY <1>1, FS_AddElement
  <2>2. /\ IsFiniteSet((S \cup {c}) \cup {d})
        /\ Cardinality((S \cup {c}) \cup {d}) =
             IF d \in S \cup {c} THEN Cardinality(S \cup {c}) ELSE Cardinality(S \cup {c}) + 1
    BY <2>1, FS_AddElement
  <2>3. T \subseteq (S \cup {c}) \cup {d}
    BY <1>6
  <2>4. Cardinality(T) <= Cardinality((S \cup {c}) \cup {d})
    BY <2>2, <2>3, FS_Subset
  <2> QED BY <1>2, <2>1, <2>2, <2>4
<1> QED BY <1>2, <1>3, <1>4, <1>5, <1>6

LEMMA OwedOfLong == Owed \in SUBSET Long /\ Owed' \in SUBSET Long
BY DEF Owed

\* A checkpoint is valid or not by the files, itself and the evidence it names.
LEMMA ValidAsBefore ==
    ASSUME NEW c \in Checks, media' = media, evidence'[c] = evidence[c], mark'[c] = mark[c],
           \A d \in From(c) : evidence'[d] = evidence[d]
    PROVE  StageValid(c)' <=> StageValid(c)
<1>1. [d \in From(c) |-> evidence'[d]] = [d \in From(c) |-> evidence[d]]
  OBVIOUS
<1>2. CheckInputs(c)' = CheckInputs(c)
  BY <1>1 DEF CheckInputs
<1> QED BY <1>2 DEF StageValid

LEMMA PlanesAsBefore ==
    ASSUME PlanesTrue, UNCHANGED <<media, flaws, evidence>>
    PROVE  PlanesTrue'
<1>1. /\ media' = media /\ flaws' = flaws /\ evidence' = evidence
  OBVIOUS
<1>2. \A c : Measured(c)' = Measured(c)
  BY <1>1 DEF Measured
<1> QED BY <1>1, <1>2 DEF PlanesTrue

\* A step that neither measures nor repays leaves no more owed.
LEMMA OwedAsBefore ==
    ASSUME FilesSame
    PROVE  /\ \A c \in Checks : StageValid(c)' <=> StageValid(c)
           /\ Owed' \subseteq Owed \cup {Checking}
           /\ ~Repaying => Owed' \subseteq Owed
<1>1. /\ media' = media /\ evidence' = evidence /\ mark' = mark
  BY DEF FilesSame
<1>2. \A c \in Checks : StageValid(c)' <=> StageValid(c)
  BY <1>1, ValidAsBefore
<1>3. \A c \in Long : StageValid(c)' <=> StageValid(c)
  BY <1>2, LongAreChecks
<1>4. \A c \in Owed' : c \in Long /\ ~StageValid(c)
  BY <1>3 DEF Owed
<1> QED BY <1>2, <1>4 DEF Owed

\* The time goes on as it was counted, or is not counted any more, ...
LEMMA NoTimeSpent ==
    ASSUME TimeInv, FilesSame, ~Repaying, UNCHANGED <<timeouts, cleanups, revisions, gateStops, damages>>,
           gate'.clock \in {0, gate.clock}, MeasuresOnce'
    PROVE  TimeInv'
<1>1. Counters' /\ (Quiet' => Quiet)
  BY DEF TimeInv, Counters, Quiet
<1>2. ASSUME Quiet PROVE PlanesTrue' /\ TimeCounted'
  <2>1. PlanesTrue /\ TimeCounted
    BY <1>2 DEF TimeInv
  <2>2. Owed' \subseteq Owed
    BY OwedAsBefore
  <2>3. Cardinality(Owed') <= Cardinality(Owed) /\ Cardinality(Owed') \in Nat /\ Cardinality(Owed) \in Nat
    BY <2>2, OwedOfLong, OwedCount
  <2>4. gate'.clock <= gate.clock /\ gate'.clock \in Nat /\ gate.clock \in Nat
    BY DEF TimeInv, Counters
  <2>5. PICK used \in Int : used = timeouts * (Budget - 1)
    BY GateAssumption DEF TimeInv, Counters
  <2>6. used + gate'.clock + Cardinality(Owed') <= 3 + 4 * Pairs + 3 * cleanups + gateStops
    BY <2>1, <2>3, <2>4, <2>5, GateAssumption DEF TimeCounted, TimeInv, Counters
  <2> QED BY <2>1, <2>5, <2>6, PlanesAsBefore DEF TimeCounted, FilesSame
<1> QED BY <1>1, <1>2 DEF TimeInv

LEMMA ReviewForgetsTime ==
    ASSUME GateInv, ToReview
    PROVE  gate'.clock = 0 /\ MeasuresOnce'
<1>1. gate'.clock = 0 /\ gate'.step = "review"
  BY DEF ToReview, GateInv, GateTypes
<1> QED BY <1>1 DEF MeasuresOnce, GateAt

\* ... or the budget is spent, by what was measured and no longer owed.
LEMMA TimeIsSpent ==
    ASSUME GateInv, TimeInv, FilesSame, ~Repaying, timeouts' = timeouts + 1,
           UNCHANGED <<cleanups, revisions, gateStops, damages>>, ToReview, gate.clock >= Budget - 1
    PROVE  TimeInv'
<1>1. gate'.clock = 0 /\ MeasuresOnce'
  BY ReviewForgetsTime
<1>2. Counters' /\ (Quiet' => Quiet)
  BY <1>1 DEF TimeInv, Counters, Quiet
<1>3. ASSUME Quiet PROVE PlanesTrue' /\ TimeCounted'
  <2>1. PlanesTrue /\ TimeCounted
    BY <1>3 DEF TimeInv
  <2>2. Owed' \subseteq Owed
    BY OwedAsBefore
  <2>3. Cardinality(Owed') <= Cardinality(Owed) /\ Cardinality(Owed') \in Nat /\ Cardinality(Owed) \in Nat
    BY <2>2, OwedOfLong, OwedCount
  <2>4. PICK b \in Nat : b = Budget - 1
    BY GateAssumption
  <2>5. timeouts \in Nat /\ gate.clock \in Nat /\ cleanups \in Nat /\ gateStops \in Nat /\ Pairs \in Nat
    BY GateAssumption DEF TimeInv, Counters
  <2>6. (timeouts + 1) * b = timeouts * b + b
    BY <2>4, <2>5
  <2>7. PICK used \in Int : used = timeouts * b
    BY <2>4, <2>5
  <2>8. used + gate.clock + Cardinality(Owed) <= 3 + 4 * Pairs + 3 * cleanups + gateStops
    BY <2>1, <2>4, <2>7 DEF TimeCounted
  <2>9. (used + b) + 0 + Cardinality(Owed') <= 3 + 4 * Pairs + 3 * cleanups + gateStops
    BY <2>3, <2>4, <2>5, <2>8
  <2> QED BY <1>1, <2>1, <2>4, <2>6, <2>7, <2>9, PlanesAsBefore DEF TimeCounted, FilesSame
<1> QED BY <1>1, <1>2, <1>3 DEF TimeInv

LEMMA LookKeepsTime == ASSUME GateInv, TimeInv, Look PROVE TimeInv'
<1>1. /\ FilesSame /\ ~Repaying /\ UNCHANGED <<timeouts, cleanups, revisions, gateStops, damages>>
  BY DEF Look, FilesSame, gateBounds, Repaying, GateAt
<1>2. InRun /\ ~AtEnd
  BY GateAtMeans DEF Look
<1>3. gate'.clock = gate.clock
  BY DEF Look, GateTo, NextCheck, GateInv, GateTypes
<1>4. MeasuresOnce'
  <2>1. CASE Way # "reading" /\ ~StageValid(Checking) /\ GateTo("measure")
    <3>1. Checking' = Checking
      BY <1>2, <2>1, GateMoves
    <3>2. PICK c \in Checks : c = Checking
      BY <1>2, CheckingIs
    <3>3. ~StageValid(c)'
      BY <1>1, <2>1, <3>2, OwedAsBefore
    <3> QED BY <3>1, <3>2, <3>3 DEF MeasuresOnce
  <2>2. CASE GateTo("judge") \/ NextCheck
    <3>1. gate'.step # "measure"
      BY <2>2, GateFields
    <3> QED BY <3>1 DEF MeasuresOnce, GateAt
  <2> QED BY <2>1, <2>2 DEF Look
<1> QED BY <1>1, <1>3, <1>4, NoTimeSpent

LEMMA JudgeKeepsTime == ASSUME GateInv, TimeInv, Judge PROVE TimeInv'
<1>1. /\ FilesSame /\ ~Repaying /\ UNCHANGED <<timeouts, cleanups, revisions, gateStops, damages>>
  BY DEF Judge, FilesSame, gateBounds, Repaying, GateAt
<1>2. CASE GateTo("mark") \/ NextCheck
  <2>1. gate'.clock = gate.clock /\ gate'.step # "measure"
    BY <1>2 DEF GateTo, NextCheck, GateInv, GateTypes
  <2>2. MeasuresOnce'
    BY <2>1 DEF MeasuresOnce, GateAt
  <2> QED BY <1>1, <2>1, <2>2, NoTimeSpent
<1>3. CASE ToReview
  BY <1>1, <1>3, ReviewForgetsTime, NoTimeSpent
<1> QED BY <1>2, <1>3 DEF Judge

\* A stage begins, is refused, passes or is let run again.
LEMMA StagesKeepTime ==
    ASSUME GateInv, TimeInv, StageBegins \/ StageRefused \/ QcPasses \/ ComparisonPasses \/ Resumes
    PROVE  TimeInv'
<1>1. FilesSame /\ UNCHANGED <<timeouts, cleanups, revisions, gateStops, damages>>
  BY DEF StageBegins, StageRefused, QcPasses, ComparisonPasses, Resumes, FilesSame, gateBounds
<1>2. ~Repaying
  BY DEF StageBegins, StageRefused, QcPasses, ComparisonPasses, Resumes, Repaying
<1>3. gate'.clock \in {0, gate.clock} /\ gate'.step # "measure"
  <2>1. DOMAIN gate = {"stage", "at", "step", "clock"}
    BY GateFields
  <2>2. CASE StageBegins \/ ComparisonPasses
    BY <2>1, <2>2 DEF StageBegins, ComparisonPasses
  <2>3. CASE StageRefused \/ Resumes
    BY <2>1, <2>3 DEF StageRefused, Resumes, ToReview, GateTo
  <2>4. CASE QcPasses
    BY <2>4 DEF QcPasses
  <2> QED BY <2>2, <2>3, <2>4
<1>4. MeasuresOnce'
  BY <1>3 DEF MeasuresOnce, GateAt
<1> QED BY <1>1, <1>2, <1>3, <1>4, NoTimeSpent

LEMMA TimeoutsAreCounted == ASSUME GateInv, TimeInv, RunsOut \/ CutShort PROVE TimeInv'
<1>1. /\ FilesSame /\ ToReview /\ timeouts' = timeouts + 1
      /\ UNCHANGED <<cleanups, revisions, gateStops, damages>>
  BY DEF RunsOut, CutShort, FilesSame, gateBounds
<1>2. ~Repaying
  BY DEF RunsOut, CutShort, ClockIsRead, GateAt, Repaying
<1>3. gate.clock >= Budget - 1
  BY GateAssumption DEF RunsOut, CutShort, OutOfTime, TimeInv, Counters
<1> QED BY <1>1, <1>2, <1>3, TimeIsSpent

LEMMA StopsAreCounted == ASSUME GateInv, TimeInv, GateStops PROVE TimeInv'
<1>1. /\ FilesSame /\ gateStops' = gateStops + 1
      /\ UNCHANGED <<timeouts, cleanups, revisions, damages>>
  BY DEF GateStops, FilesSame
<1>2. gate'.clock = 0 /\ gate'.step = "stopped"
  BY DEF GateStops, GateInv, GateTypes
<1>3. Counters' /\ MeasuresOnce' /\ (Quiet' => Quiet)
  BY <1>1, <1>2 DEF TimeInv, Counters, Quiet, MeasuresOnce, GateAt
<1>4. ASSUME Quiet PROVE PlanesTrue' /\ TimeCounted'
  <2>1. PlanesTrue /\ TimeCounted
    BY <1>4 DEF TimeInv
  <2>2. PICK c : Owed' \subseteq Owed \cup {c}
    BY <1>1, OwedAsBefore
  <2>3. Cardinality(Owed') <= Cardinality(Owed) + 1 /\ Cardinality(Owed') \in Nat /\ Cardinality(Owed) \in Nat
    BY <2>2, OwedOfLong, OwedCount
  <2>4. gate.clock \in Nat /\ cleanups \in Nat /\ gateStops \in Nat /\ timeouts \in Nat /\ Pairs \in Nat
    BY GateAssumption DEF TimeInv, Counters
  <2>5. PICK used \in Int : used = timeouts * (Budget - 1)
    BY <2>4, GateAssumption
  <2>6. used + gate'.clock + Cardinality(Owed') <= 3 + 4 * Pairs + 3 * cleanups + (gateStops + 1)
    BY <1>2, <2>1, <2>3, <2>4, <2>5 DEF TimeCounted
  <2> QED BY <1>1, <2>1, <2>5, <2>6, PlanesAsBefore DEF TimeCounted, FilesSame
<1> QED BY <1>3, <1>4 DEF TimeInv

LEMMA CleanUpsAreCounted == ASSUME GateInv, TimeInv, CleansUp PROVE TimeInv'
<1>1. /\ gate.step = "look" /\ cleanups' = cleanups + 1
      /\ evidence' = [c \in Checks |-> IF c \in Scratch THEN NoEvidence ELSE evidence[c]]
      /\ media' = media /\ flaws' = flaws /\ mark' = mark
      /\ UNCHANGED <<timeouts, revisions, gateStops, damages>>
  BY DEF CleansUp, gateBounds
<1>2. gate'.clock \in {gate.clock, gate.clock + 1} /\ gate'.clock \in Nat /\ gate'.step = "clean"
  <2>1. PICK long \in {0, 1} : gate' = [gate EXCEPT !.step = "clean", !.clock = @ + long]
    BY DEF CleansUp
  <2> QED BY <2>1, GateFields DEF TimeInv, Counters
<1>3. Counters' /\ MeasuresOnce' /\ (Quiet' => Quiet)
  BY <1>1, <1>2 DEF TimeInv, Counters, Quiet, MeasuresOnce, GateAt
<1>4. \A c \in Checks : c \notin Scratch => evidence'[c] = evidence[c]
  BY <1>1
<1>5. \A n \in 1..Pairs : /\ <<"planes", n>> \notin Scratch /\ <<"metrics", n>> \notin Scratch
                          /\ evidence'[<<"planes", n>>] = evidence[<<"planes", n>>]
                          /\ evidence'[<<"metrics", n>>] = evidence[<<"metrics", n>>]
  BY <1>4, LongAreChecks DEF Scratch
<1>6. \A n \in 1..Pairs : Measured(<<"planes", n>>)' = Measured(<<"planes", n>>)
  <2>1. \A n \in 1..Pairs : From(<<"planes", n>>) = {}
    BY LongAreChecks, FromDirect DEF Direct
  <2> QED BY <1>1, <2>1 DEF Measured
<1>7. Owed' \subseteq Owed \cup {<<"origins", 0>>, <<"probes", 0>>}
  <2> SUFFICES ASSUME NEW c \in Long, c \notin Scratch, ~StageValid(c)' PROVE ~StageValid(c)
    <3>1. ~Repaying
      BY <1>1 DEF Repaying
    <3> QED BY <3>1 DEF Owed, Scratch
  <2>1. c \in Checks
    BY LongAreChecks
  <2>2. \A d \in From(c) : evidence'[d] = evidence[d]
    <3>1. CASE c[1] \in Direct
      BY <2>1, <3>1, FromDirect
    <3>2. CASE \E n \in 1..Pairs : c = <<"metrics", n>>
      BY <1>5, <3>2, FromIs
    <3> QED BY <3>1, <3>2, LongAreChecks
  <2> QED BY <1>1, <1>4, <2>1, <2>2, ValidAsBefore
<1>8. ASSUME Quiet PROVE PlanesTrue' /\ TimeCounted'
  <2>1. PlanesTrue /\ TimeCounted
    BY <1>8 DEF TimeInv
  <2>2. Cardinality(Owed') <= Cardinality(Owed) + 2 /\ Cardinality(Owed') \in Nat /\ Cardinality(Owed) \in Nat
    BY <1>7, OwedOfLong, OwedCount
  <2>3. gate.clock \in Nat /\ cleanups \in Nat /\ gateStops \in Nat /\ timeouts \in Nat /\ Pairs \in Nat
    BY GateAssumption DEF TimeInv, Counters
  <2>4. PICK used \in Int : used = timeouts * (Budget - 1)
    BY <2>3, GateAssumption
  <2>5. used + gate'.clock + Cardinality(Owed') <= 3 + 4 * Pairs + 3 * (cleanups + 1) + gateStops
    BY <1>2, <2>1, <2>2, <2>3, <2>4 DEF TimeCounted
  <2>6. TimeCounted'
    BY <1>1, <2>4, <2>5 DEF TimeCounted
  <2>7. PlanesTrue'
    BY <1>5, <1>6, <2>1 DEF PlanesTrue
  <2> QED BY <2>6, <2>7
<1> QED BY <1>3, <1>8 DEF TimeInv

\* What a check of the comparison is, and whether its command is long.
LEMMA LongIs ==
    ASSUME GateInv, ~AtEnd, gate.stage = "comparison", Way \notin {"first", "reading"}
    PROVE  Checking \in Long
<1>1. PICK c \in Checks : c = Checking
  BY CheckingIs
<1>2. c[1] \notin {"completeness"} \cup OnlyRead
  BY <1>1, DerivedIs, ReadingIs DEF Way
<1>3. c[1] \in ComparedKinds
  <2>1. gate.at \in 1..Len(Plan("comparison")) /\ c = Plan("comparison")[gate.at]
    BY <1>1, CheckingIs DEF Checking
  <2>2. \A i \in 1..Len(Plan("comparison")) : Plan("comparison")[i][1] \in ComparedKinds
    <3>1. PICK p : p = Plan("comparison")
      OBVIOUS
    <3>2. /\ Len(p) = 6 + 4 * Pairs
          /\ p[1] = <<"info", 0>> /\ p[2] = <<"completeness", 0>> /\ p[3] = <<"origins", 0>>
          /\ p[4] = <<"probes", 0>> /\ p[5] = <<"pairs", 0>> /\ p[6 + 4 * Pairs] = <<"thresholds", 0>>
          /\ \A i \in 6..(5 + 4 * Pairs) : p[i] \in {"images", "sdr", "planes", "metrics"} \X (1..Pairs)
      BY <3>1, ComparisonPlan
    <3>3. \A i \in 1..Len(p) : i \in {1, 2, 3, 4, 5, 6 + 4 * Pairs} \/ i \in 6..(5 + 4 * Pairs)
      BY <3>2, GateAssumption
    <3>4. \A i \in 6..(5 + 4 * Pairs) : p[i][1] \in ComparedKinds
      BY <3>2 DEF ComparedKinds
    <3>5. \A i \in {1, 2, 3, 4, 5, 6 + 4 * Pairs} : p[i][1] \in ComparedKinds
      BY <3>2 DEF ComparedKinds
    <3> QED BY <3>1, <3>3, <3>4, <3>5
  <2> QED BY <2>1, <2>2
<1>4. c[1] \in {"info", "origins", "probes", "images", "sdr", "planes", "metrics"}
  BY <1>2, <1>3 DEF ComparedKinds, OnlyRead
<1> QED BY <1>1, <1>4, CheckIs DEF Long

LEMMA QcChecksAreShort ==
    ASSUME GateInv, ~AtEnd, gate.stage = "qc"
    PROVE  Checking \notin Long
<1>1. gate.at \in 1..9 /\ Checking = Plan("qc")[gate.at]
  BY QcPlan, CheckingIs DEF Checking
<1>2. gate.at \in {1, 2, 3, 4, 5, 6, 7, 8, 9}
  BY <1>1
<1>3. Plan("qc")[gate.at][1] \in QcKinds
  BY <1>2, QcPlan DEF QcKinds
<1> QED BY <1>1, <1>3 DEF Long, QcKinds

LEMMA LongAlways == \A c \in Long : Kind[c[1]].way = "always"
<1>1. \A k \in {"info", "origins", "probes", "images", "sdr", "planes", "metrics"} : Kind[k].way = "always"
  BY KindIs DEF ReferenceInfo, Origins, Probes, Images, SdrImages, Planes, Metrics
<1>2. \A c \in Long : c[1] \in {"info", "origins", "probes", "images", "sdr", "planes", "metrics"}
  BY DEF Long
<1> QED BY <1>1, <1>2

LEMMA MeasureKeepsTime == ASSUME GateInv, TimeInv, Measure PROVE TimeInv'
<1>1. GateAt("measure") /\ InRun /\ ~AtEnd /\ gate.step = "measure" /\ gate.stage \in {"qc", "comparison"}
  BY GateAtMeans DEF Measure
<1>2. PICK c \in Checks : c = Checking
  BY <1>1, CheckingIs
<1>3. Way # "reading" /\ ~StageValid(c)
  BY <1>1, <1>2 DEF GateInv, CheckOK, TimeInv, MeasuresOnce
<1>4. /\ evidence'[c] = Measured(c) /\ \A d \in Checks : d # c => evidence'[d] = evidence[d]
      /\ media' = media /\ flaws' = flaws /\ mark' = mark
      /\ UNCHANGED <<timeouts, cleanups, revisions, gateStops, damages>>
  BY <1>2 DEF Measure, gateBounds, GateInv, GateTypes
<1>5. PICK long \in {0, 1} :
        /\ long = 1 => gate.stage = "comparison" /\ Way # "first"
        /\ gate' = [gate EXCEPT !.step = IF Way = "always" THEN "mark" ELSE "judge", !.clock = @ + long]
  BY DEF Measure
<1>6. /\ gate'.stage = gate.stage /\ gate'.at = gate.at /\ gate'.clock = gate.clock + long
      /\ gate'.step = IF Way = "always" THEN "mark" ELSE "judge"
  BY <1>5, GateFields
<1>7. Checking' = c
  BY <1>2, <1>6 DEF Checking
<1>8. Counters' /\ MeasuresOnce' /\ (Quiet' => Quiet)
  BY <1>4, <1>6 DEF TimeInv, Counters, Quiet, MeasuresOnce, GateAt
<1>9. ASSUME Quiet PROVE PlanesTrue' /\ TimeCounted'
  <2>1. PlanesTrue /\ TimeCounted
    BY <1>9 DEF TimeInv
  <2>2. PlanesTrue'
    <3> SUFFICES ASSUME NEW n \in 1..Pairs
                 PROVE  /\ evidence'[<<"planes", n>>].there =>
                             evidence'[<<"planes", n>>] = Measured(<<"planes", n>>)'
                        /\ evidence'[<<"metrics", n>>].there => evidence'[<<"planes", n>>].there
      BY DEF PlanesTrue
    <3>1. PICK p \in Checks, m \in Checks : p = <<"planes", n>> /\ m = <<"metrics", n>>
      BY LongAreChecks
    <3>2. p # m /\ p[1] \in Direct /\ From(p) = {} /\ From(m) = {p}
      BY <3>1, FromDirect, FromIs DEF Direct
    <3>3. Measured(p)' = Measured(p)
      BY <1>4, <3>2 DEF Measured
    <3>4. /\ evidence[p].there => evidence[p] = Measured(p)
          /\ evidence[m].there => evidence[p].there
      BY <2>1, <3>1 DEF PlanesTrue
    <3>5. CASE c = p
      BY <1>4, <3>1, <3>2, <3>3, <3>5, DirectMeasured
    <3>6. CASE c = m
      <4>1. Measured(m).there => evidence[p].there
        BY <3>2 DEF Measured
      <4> QED BY <1>4, <3>1, <3>2, <3>3, <3>4, <3>6, <4>1
    <3>7. CASE c # p /\ c # m
      BY <1>4, <3>1, <3>3, <3>4, <3>7
    <3> QED BY <3>5, <3>6, <3>7
  <2>3. ASSUME NEW d \in Long, d # c, StageValid(d) PROVE StageValid(d)'
    <3>1. d \in Checks
      BY LongAreChecks
    <3>2. \A e \in From(d) : evidence'[e] = evidence[e]
      <4>1. CASE d[1] \in Direct
        BY <3>1, <4>1, FromDirect
      <4>2. CASE \E n \in 1..Pairs : d = <<"metrics", n>>
        <5>1. PICK n \in 1..Pairs : d = <<"metrics", n>>
          BY <4>2
        <5>2. PICK p \in Checks : p = <<"planes", n>> /\ From(d) = {p}
          BY <5>1, FromIs, LongAreChecks
        <5>3. evidence[p] = Measured(p)
          BY <2>1, <2>3, <5>1, <5>2 DEF PlanesTrue, StageValid
        <5> QED BY <1>4, <5>2, <5>3
      <4> QED BY <4>1, <4>2, LongAreChecks
    <3> QED BY <1>4, <2>3, <3>1, <3>2, ValidAsBefore
  <2>4. ~Repaying
    BY <1>1 DEF Repaying
  <2>5. \A d \in Owed' : d # c => d \in Owed
    BY <2>3, <2>4 DEF Owed
  <2>6. gate.clock \in Nat /\ cleanups \in Nat /\ gateStops \in Nat /\ timeouts \in Nat /\ Pairs \in Nat
    BY GateAssumption DEF TimeInv, Counters
  <2>7. PICK used \in Int : used = timeouts * (Budget - 1)
    BY <2>6, GateAssumption
  <2>8. Cardinality(Owed') <= Cardinality(Owed) - long /\ Cardinality(Owed') \in Nat /\ Cardinality(Owed) \in Nat
    <3>1. CASE c \in Long
      <4>1. Way = "always"
        BY <1>2, <3>1, LongAlways DEF Way
      <4>2. gate.stage = "comparison"
        BY <1>1, <1>2, <3>1, QcChecksAreShort
      <4>3. c \notin Owed'
        BY <1>6, <1>7, <4>1, <4>2 DEF Owed, Repaying
      <4>4. c \in Owed
        BY <1>3, <2>4, <3>1 DEF Owed
      <4>5. Owed' \subseteq Owed \ {c}
        BY <2>5, <4>3
      <4> QED BY <4>4, <4>5, OwedOfLong, OwedCount
    <3>2. CASE c \notin Long
      <4>1. long = 0
        BY <1>1, <1>2, <1>3, <1>5, <3>2, LongIs
      <4>2. Owed' \subseteq Owed
        BY <2>5, <3>2 DEF Owed
      <4> QED BY <4>1, <4>2, OwedOfLong, OwedCount
    <3> QED BY <3>1, <3>2
  <2>9. used + (gate.clock + long) + Cardinality(Owed') <= 3 + 4 * Pairs + 3 * cleanups + gateStops
    BY <2>1, <2>6, <2>7, <2>8 DEF TimeCounted
  <2> QED BY <1>4, <1>6, <2>2, <2>7, <2>9 DEF TimeCounted
<1> QED BY <1>8, <1>9 DEF TimeInv

LEMMA WriteMarkKeepsTime == ASSUME GateInv, TimeInv, WriteMark PROVE TimeInv'
<1>1. InRun /\ ~AtEnd /\ gate.step = "mark" /\ gate.step # "clean" /\ gate.stage \in {"qc", "comparison"}
  BY GateAtMeans DEF WriteMark
<1>2. PICK c \in Checks : c = Checking
  BY <1>1, CheckingIs
<1>3. evidence[c] = Measured(c)
  BY <1>1, <1>2 DEF GateInv, CheckOK
<1>4. /\ mark'[c] = [inputs |-> CheckInputs(c), evidence |-> evidence[c]]
      /\ \A d \in Checks : d # c => mark'[d] = mark[d]
      /\ evidence' = evidence /\ media' = media /\ flaws' = flaws
      /\ UNCHANGED <<timeouts, cleanups, revisions, gateStops, damages>>
  BY <1>2 DEF WriteMark, gateBounds, GateInv, GateTypes
<1>5. gate'.clock = gate.clock /\ gate'.step # "measure"
  BY GateFields DEF WriteMark, GateTo, NextCheck
<1>6. Counters' /\ MeasuresOnce' /\ (Quiet' => Quiet)
  BY <1>4, <1>5 DEF TimeInv, Counters, Quiet, MeasuresOnce, GateAt
<1>7. ASSUME c \in Long PROVE StageValid(c)'
  <2>1. evidence[c].there
    BY <1>1, <1>2, <1>3, <1>7, LongAreChecks, MeasurementShows DEF Shows
  <2>2. CheckInputs(c)' = CheckInputs(c)
    BY <1>4 DEF CheckInputs
  <2> QED BY <1>4, <2>1, <2>2 DEF StageValid
<1>8. ASSUME NEW d \in Long, d # c, StageValid(d) PROVE StageValid(d)'
  BY <1>4, <1>8, LongAreChecks, ValidAsBefore
<1>9. Owed' \subseteq Owed
  BY <1>2, <1>7, <1>8 DEF Owed
<1>10. ASSUME Quiet PROVE PlanesTrue' /\ TimeCounted'
  <2>1. PlanesTrue /\ TimeCounted
    BY <1>10 DEF TimeInv
  <2>2. Cardinality(Owed') <= Cardinality(Owed) /\ Cardinality(Owed') \in Nat /\ Cardinality(Owed) \in Nat
    BY <1>9, OwedOfLong, OwedCount
  <2>3. gate.clock \in Nat /\ cleanups \in Nat /\ gateStops \in Nat /\ timeouts \in Nat /\ Pairs \in Nat
    BY GateAssumption DEF TimeInv, Counters
  <2>4. PICK used \in Int : used = timeouts * (Budget - 1)
    BY <2>3, GateAssumption
  <2>5. used + gate.clock + Cardinality(Owed') <= 3 + 4 * Pairs + 3 * cleanups + gateStops
    BY <2>1, <2>2, <2>3, <2>4 DEF TimeCounted
  <2> QED BY <1>4, <1>5, <2>1, <2>4, <2>5, PlanesAsBefore DEF TimeCounted
<1> QED BY <1>6, <1>10 DEF TimeInv

LEMMA TimeInvStarts == GateInit => TimeInv
<1> SUFFICES ASSUME GateInit PROVE TimeInv
  OBVIOUS
<1>1. /\ gate = [stage |-> "qc", at |-> 1, step |-> "stopped", clock |-> 0]
      /\ evidence = [c \in Checks |-> NoEvidence]
      /\ timeouts = 0 /\ cleanups = 0 /\ gateStops = 0 /\ revisions = 0 /\ damages = 0
  BY DEF GateInit
<1>2. Counters /\ MeasuresOnce
  BY <1>1 DEF Counters, MeasuresOnce, GateAt
<1>3. PlanesTrue
  BY <1>1, LongAreChecks DEF PlanesTrue, NoEvidence
<1>4. TimeCounted
  <2>1. IsFiniteSet(Owed) /\ Cardinality(Owed) <= Cardinality(Long)
    BY LongAreFew, OwedOfLong, FS_Subset
  <2>2. Cardinality(Owed) \in Nat /\ Cardinality(Long) \in Nat
    BY <2>1, LongAreFew, FS_CardinalityType
  <2>3. 0 * (Budget - 1) = 0 /\ Pairs \in Nat
    BY GateAssumption
  <2>4. 0 + 0 + Cardinality(Owed) <= 3 + 4 * Pairs + 3 * 0 + 0
    BY <2>1, <2>2, <2>3, LongAreFew
  <2> QED BY <1>1, <2>3, <2>4 DEF TimeCounted
<1> QED BY <1>2, <1>3, <1>4 DEF TimeInv

\* Where files change the time is not counted any more.
LEMMA NoLongerQuiet == ASSUME GateInv, TimeInv, Revises \/ Damage PROVE TimeInv'
<1>1. /\ UNCHANGED <<timeouts, cleanups, gateStops>> /\ revisions' \in Nat /\ damages' \in Nat
      /\ revisions' = revisions + 1 \/ damages' = damages + 1
  BY DEF Revises, Damage, TimeInv, Counters
<1>2. gate'.clock \in Nat /\ gate'.step # "measure"
  BY DEF Revises, Damage, TimeInv, Counters
<1>3. Counters' /\ MeasuresOnce'
  BY <1>1, <1>2 DEF TimeInv, Counters, MeasuresOnce, GateAt
<1>4. ~Quiet'
  BY <1>1 DEF Quiet, TimeInv, Counters
<1> QED BY <1>3, <1>4 DEF TimeInv

LEMMA TimeInvHolds == GateSpec => []TimeInv
<1>1. ASSUME GateInv, TimeInv, [GateNext]_gateVars PROVE TimeInv'
  <2>1. CASE UNCHANGED gateVars
    <3>1. /\ FilesSame /\ UNCHANGED <<timeouts, cleanups, revisions, gateStops, damages, gate>>
      BY <2>1 DEF gateVars, FilesSame
    <3>2. PICK c : c = Checking /\ c = Checking'
      BY <3>1 DEF Checking
    <3>3. StageValid(c)' <=> StageValid(c)
      BY <3>1 DEF FilesSame, StageValid, CheckInputs
    <3>4. Counters' /\ MeasuresOnce' /\ (Quiet' => Quiet)
      BY <1>1, <3>1, <3>2, <3>3 DEF TimeInv, Counters, Quiet, MeasuresOnce, GateAt, AtEnd
    <3>5. Owed' = Owed
      <4>1. \A d : StageValid(d)' <=> StageValid(d)
        BY <3>1 DEF FilesSame, StageValid, CheckInputs
      <4> QED BY <3>1, <3>2, <4>1 DEF Owed, Repaying
    <3>6. PlanesTrue => PlanesTrue'
      BY <3>1, PlanesAsBefore DEF FilesSame
    <3>7. TimeCounted => TimeCounted'
      BY <3>1, <3>5 DEF TimeCounted
    <3> QED BY <1>1, <3>4, <3>6, <3>7 DEF TimeInv
  <2>2. CASE GateNext
    BY <1>1, <2>2, LookKeepsTime, MeasureKeepsTime, TimeoutsAreCounted, WriteMarkKeepsTime, JudgeKeepsTime,
       StagesKeepTime, CleanUpsAreCounted, NoLongerQuiet, StopsAreCounted DEF GateNext
  <2> QED BY <1>1, <2>1, <2>2
<1> QED BY <1>1, GateInvHolds, TimeInvStarts, PTL DEF GateSpec

(* TimeIsNotLost of QualityGate: as long as nobody changes the files, a      *)
(* comparison that runs out of time has brought the release further.         *)
THEOREM EveryTimeoutMakesProgress == GateSpec => []TimeIsNotLost
<1>1. Len(PerPair) = 4 /\ Cardinality(Scratch) = 2
  <2>1. PICK o, p : o = <<"origins", 0>> /\ p = <<"probes", 0>>
    OBVIOUS
  <2>2. o # p /\ Scratch = {o} \cup {p}
    BY <2>1 DEF Scratch
  <2>3. IsFiniteSet({o}) /\ Cardinality({o}) = 1 /\ p \notin {o}
    BY <2>2, FS_Singleton
  <2>4. Cardinality({o} \cup {p}) = 2
    BY <2>3, FS_AddElement
  <2>5. Cardinality(Scratch) = 2
    BY <2>2, <2>4
  <2> QED BY <2>5 DEF PerPair
<1>2. TimeInv => TimeIsNotLost
  <2> SUFFICES ASSUME TimeInv, Quiet
               PROVE  timeouts * (Budget - 1) <= 3 + Len(PerPair) * Pairs + (Cardinality(Scratch) + 1) * cleanups + gateStops
    BY DEF TimeIsNotLost, Quiet
  <2>1. TimeCounted
    BY DEF TimeInv
  <2>2. Cardinality(Owed) \in Nat
    BY OwedOfLong, OwedCount
  <2>3. gate.clock \in Nat /\ cleanups \in Nat /\ gateStops \in Nat /\ timeouts \in Nat /\ Pairs \in Nat
    BY GateAssumption DEF TimeInv, Counters
  <2>4. PICK used \in Int : used = timeouts * (Budget - 1)
    BY <2>3, GateAssumption
  <2>5. used <= 3 + 4 * Pairs + (2 + 1) * cleanups + gateStops
    BY <2>1, <2>2, <2>3, <2>4 DEF TimeCounted
  <2> QED BY <1>1, <2>4, <2>5
<1> QED BY <1>2, TimeInvHolds, PTL
=============================================================================
