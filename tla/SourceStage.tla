---------------------------- MODULE SourceStage ----------------------------
(* The local copy of a disc on a slow mount (src/bdencode/source_stage.py)   *)
(* and the reference remux that reads it (worker.py, _stage_source and the   *)
(* head of _prepare).  Jobs of one disc take turns and share the place of    *)
(* the copy, each wants the clips of its own title, and a large clip is      *)
(* copied by several readers.  The disc may change and the worker may stop   *)
(* between any two steps.                                                    *)
EXTENDS Naturals, FiniteSets

CONSTANTS
    Titles,        \* the titles of the disc: the sets of clips they play
    Readers,       \* readers of one file
    MaxChanges,    \* bound on the changes of the disc
    MaxStageStops, \* bound on stops of the worker
    MaxTurns       \* bound on the jobs

ASSUME SourceStageAssumption ==
    /\ Titles # {} /\ {} \notin Titles /\ "navigation" \notin UNION Titles
    /\ Readers # {} /\ IsFiniteSet(Readers)
    /\ {MaxChanges, MaxStageStops, MaxTurns} \subseteq Nat

VARIABLES
    clock,      \* version of the disc
    source,     \* file -> its version: size and time of the last change
    target,     \* the copy: manifest and, per file and reader, the version read
    partial,    \* the copy in the making
    turn,       \* the job: title, step, what its remux is keyed by and reads from
    remux,      \* the reference: its marker, its content
    stageStops, turns

stageVars == <<clock, source, target, partial, turn, remux, stageStops, turns>>

Clips     == UNION Titles
DiscFiles == Clips \cup {"navigation"}
NoCopy    == [manifest |-> <<>>, files |-> {}]
NoRemux   == [key |-> <<>>, content |-> {}]
AtHome      == [title |-> {}, step |-> "idle", key |-> <<>>, plan |-> <<>>, root |-> "disc"]

SourceStageInit ==
    /\ clock = 1 /\ source = [f \in DiscFiles |-> 1]
    /\ target = NoCopy /\ partial = NoCopy
    /\ turn = AtHome /\ remux = NoRemux
    /\ stageStops = 0 /\ turns = 0

-----------------------------------------------------------------------------
(* The plan and the copy                                                     *)

\* The clips of the title and all that is no clip.
Planned == [f \in turn.title \cup {"navigation"} |-> source[f]]

\* The marker of the remux names the clips as they are on the disc.
ClipSnapshot == [f \in turn.title |-> source[f]]

CopiedAll(copy, files) == \A f \in files, r \in Readers : \E v \in 1..clock : <<f, r, v>> \in copy.files

\* The manifest is of these files, and each of them is there.
ManifestMatches == target.manifest = Planned /\ CopiedAll(target, DOMAIN Planned)

\* The mount is slow, or it is not.
FirstSteps == {"stage", "remux"}

StepTo(step) == turn' = [turn EXCEPT !.step = step]

TurnStarts ==
    /\ turn.step = "idle" /\ turns < MaxTurns
    /\ turns' = turns + 1
    /\ \E t \in Titles, first \in FirstSteps :
         turn' = [AtHome EXCEPT !.title = t, !.key = [f \in t |-> source[f]], !.step = first]
    /\ remux' = NoRemux
    /\ UNCHANGED <<clock, source, target, partial, stageStops>>

\* A worker that stopped begins the stage again, and keeps a remux whose
\* marker fits.
TurnResumes ==
    /\ turn.step = "stopped"
    /\ \E first \in FirstSteps :
         turn' = [turn EXCEPT !.key = ClipSnapshot, !.plan = <<>>, !.root = "disc",
                              !.step = IF remux.key = ClipSnapshot THEN "idle" ELSE first]
    /\ UNCHANGED <<clock, source, target, partial, remux, stageStops, turns>>

\* A copy that matches is used again, ...
StageIsReused ==
    /\ turn.step = "stage" /\ ManifestMatches
    /\ turn' = [turn EXCEPT !.step = "remux", !.root = "copy"]
    /\ UNCHANGED <<clock, source, target, partial, remux, stageStops, turns>>

\* ... and without the space for a new one the disc is read where it is.
StageIsSkipped ==
    /\ turn.step = "stage" /\ ~ManifestMatches
    /\ turn' = [turn EXCEPT !.step = "remux", !.root = "disc"]
    /\ UNCHANGED <<clock, source, target, partial, remux, stageStops, turns>>

StageStarts ==
    /\ turn.step = "stage" /\ ~ManifestMatches
    /\ partial' = NoCopy /\ target' = NoCopy
    /\ turn' = [turn EXCEPT !.step = "copy", !.plan = Planned]
    /\ UNCHANGED <<clock, source, remux, stageStops, turns>>

\* One reader has its range of one file.
CopyRange ==
    /\ turn.step = "copy"
    /\ \E f \in DOMAIN turn.plan, r \in Readers :
         /\ \A v \in 1..clock : <<f, r, v>> \notin partial.files
         /\ partial' = [partial EXCEPT !.files = @ \cup {<<f, r, source[f]>>}]
    /\ UNCHANGED <<clock, source, target, turn, remux, stageStops, turns>>

\* A file that ends early or cannot be read, or a request to stop: the readers
\* end, and what they have written goes.
CopyFails ==
    /\ turn.step = "copy"
    /\ partial' = NoCopy
    /\ \/ turn' = [turn EXCEPT !.step = "remux", !.root = "disc"] /\ UNCHANGED stageStops
       \/ stageStops < MaxStageStops /\ stageStops' = stageStops + 1 /\ StepTo("stopped")
    /\ UNCHANGED <<clock, source, target, remux, turns>>

WriteManifest ==
    /\ turn.step = "copy" /\ CopiedAll(partial, DOMAIN turn.plan)
    /\ partial' = [partial EXCEPT !.manifest = turn.plan]
    /\ StepTo("check")
    /\ UNCHANGED <<clock, source, target, remux, stageStops, turns>>

\* Variant: the clips are the wanted ones.
SourceUnchangedAnyway == turn.title \subseteq DOMAIN turn.plan

\* The disc must be the one that was planned.
SourceUnchanged == Planned = turn.plan

StageChecks ==
    /\ turn.step = "check"
    /\ IF SourceUnchanged
       THEN StepTo("rename") /\ UNCHANGED partial
       ELSE turn' = [turn EXCEPT !.step = "remux", !.root = "disc"] /\ partial' = NoCopy
    /\ UNCHANGED <<clock, source, target, remux, stageStops, turns>>

StageEnds ==
    /\ turn.step = "rename"
    /\ target' = partial /\ partial' = NoCopy
    /\ turn' = [turn EXCEPT !.step = "remux", !.root = "copy"]
    /\ UNCHANGED <<clock, source, remux, stageStops, turns>>

-----------------------------------------------------------------------------
(* The remux                                                                 *)

\* What is read now, of the disc or of the copy.
ReadNow ==
    IF turn.root = "copy"
    THEN {<<c[1], c[3]>> : c \in {d \in target.files : d[1] \in turn.title}}
    ELSE {<<f, source[f]>> : f \in turn.title}

RemuxStarts ==
    /\ turn.step = "remux"
    /\ remux' = [key |-> <<>>, content |-> ReadNow]
    /\ StepTo("remuxing")
    /\ UNCHANGED <<clock, source, target, partial, stageStops, turns>>

RemuxEnds ==
    /\ turn.step = "remuxing"
    /\ remux' = [key |-> turn.key, content |-> remux.content \cup ReadNow]
    /\ StepTo(IF turn.root = "copy" THEN "remove" ELSE "idle")
    /\ UNCHANGED <<clock, source, target, partial, stageStops, turns>>

\* The copy is no longer needed.
RemoveStage ==
    /\ turn.step = "remove"
    /\ target' = NoCopy
    /\ StepTo("idle")
    /\ UNCHANGED <<clock, source, partial, remux, stageStops, turns>>

-----------------------------------------------------------------------------
(* The disc and the worker                                                   *)

DiscChanges ==
    /\ clock <= MaxChanges
    /\ clock' = clock + 1
    /\ \E fs \in SUBSET DiscFiles \ {{}} :
         source' = [f \in DiscFiles |-> IF f \in fs THEN clock + 1 ELSE source[f]]
    /\ UNCHANGED <<target, partial, turn, remux, stageStops, turns>>

\* A killed worker leaves what it has written: of a copy that was being
\* removed, any part.
StageCrash ==
    /\ turn.step \notin {"idle", "stopped"} /\ stageStops < MaxStageStops
    /\ stageStops' = stageStops + 1
    /\ StepTo("stopped")
    /\ IF turn.step = "remove"
       THEN \E gone \in SUBSET DOMAIN target.manifest :
              target' = [target EXCEPT !.files = {c \in @ : c[1] \notin gone}]
       ELSE UNCHANGED target
    /\ UNCHANGED <<clock, source, partial, remux, turns>>

\* A day later another job clears away what was left.
StaleStagesGo ==
    /\ turn.step = "idle" /\ (target # NoCopy \/ partial # NoCopy)
    /\ \/ target' = NoCopy /\ UNCHANGED partial
       \/ partial' = NoCopy /\ UNCHANGED target
    /\ UNCHANGED <<clock, source, turn, remux, stageStops, turns>>

SourceStageNext ==
    \/ TurnStarts \/ TurnResumes \/ StageIsReused \/ StageIsSkipped \/ StageStarts \/ CopyRange
    \/ CopyFails \/ WriteManifest \/ StageChecks \/ StageEnds \/ RemuxStarts \/ RemuxEnds
    \/ RemoveStage \/ DiscChanges \/ StageCrash \/ StaleStagesGo

SourceStageSpec == SourceStageInit /\ [][SourceStageNext]_stageVars

-----------------------------------------------------------------------------
(* The remux of a copy reads the whole title as the disc had it at one       *)
(* moment, whatever the readers, a stop or an earlier job left in its place; *)
(* and a reference that its marker vouches for is made of the clips that are *)
(* on the disc, copied or not.                                               *)
ReferenceIsOfOneDisc ==
    /\ turn.step = "remuxing" /\ turn.root = "copy" =>
         remux.content = {<<f, target.manifest[f]>> : f \in turn.title}
    /\ turn.title # {} /\ remux.key = ClipSnapshot =>
         remux.content = {<<f, source[f]>> : f \in turn.title}
=============================================================================
