----------------------------- MODULE DynamicHdr -----------------------------
(* HDR10+ and Dolby Vision of one job, from the disc to the QC gate          *)
(* (src/bdencode/hdr_dynamic.py, dolby_vision_scan.py and the worker stages  *)
(* that use them): the scan finds what the disc carries, the plan says what  *)
(* to retain, preparation extracts the metadata and counts its frames, the   *)
(* encode injects it into the finished stream, and QC looks at the file.     *)
(* The selection may be revised, a stage may stop between any two steps, the *)
(* tools come and go, and files change behind the worker's back.             *)
EXTENDS Naturals

CONSTANTS
    Discs,        \* what a disc may carry
    Requests,     \* what the operator may select
    MaxTroubles   \* bound on revisions, stops, changes of the tools and of files

\* plus: HDR10+; dolby: 0 for none, or the profile; base: it has an HDR10 base.
\* exact: an x265 HDR10 output of a progressive title; crop: its borders go.
ASSUME DynamicHdrAssumption ==
    /\ Discs \subseteq [plus : BOOLEAN, dolby : {0, 5, 7, 8}, base : BOOLEAN]
    /\ \A r \in Requests : /\ r.mode \in {"discard", "auto", "hdr10plus", "dolby_vision"}
                           /\ r.exact \in BOOLEAN /\ r.crop \in BOOLEAN /\ r.title \in Nat \ {0}
    /\ MaxTroubles \in Nat

VARIABLES
    disc,       \* what the disc carries
    scan,       \* what the scan says it carries
    hdrJob,     \* state, resume state, selection
    pc,         \* where the stage stands
    plan,       \* the plan in the hands of the stage
    tool,       \* versions of the tools, 0 for one that is not there; does x265 know Dolby Vision
    reference,  \* the title that was remuxed
    metadata,   \* what was extracted
    hdrReport,  \* dynamic-hdr.json
    marks,      \* the checkpoints of preparation, extraction and encode
    video,      \* the encode in the making, and the encode
    troubles

hdrVars == <<disc, scan, hdrJob, pc, plan, tool, reference, metadata, hdrReport, marks, video, troubles>>

request == hdrJob.sel

-----------------------------------------------------------------------------
(* The plan                                                                  *)

Discarded == [mode |-> "discard", profile |-> 0, crop |-> FALSE]
Refused   == [Discarded EXCEPT !.mode = "refused"]
NoLayer   == [made |-> Discarded, title |-> 0, frames |-> 0, version |-> 0]
NoFile    == [title |-> 0, crop |-> FALSE, signal |-> "discard", bounded |-> FALSE, layer |-> NoLayer]
NoReport  == [sel |-> [mode |-> "none"], plan |-> Discarded, layer |-> NoLayer]

Retained(p) == p.mode \in {"hdr10plus", "dolby_vision"}

PlusPlan == [Discarded EXCEPT !.mode = IF scan.plus THEN "hdr10plus" ELSE "refused"]

\* Profile 7 is converted, and a crop sets the active area to zero.
DolbyPlan ==
    IF scan.dolby \in {7, 8} /\ scan.base
    THEN [mode |-> "dolby_vision", profile |-> scan.dolby, crop |-> request.crop] ELSE Refused

\* With "auto" nothing is refused.
Resolve ==
    CASE request.mode = "discard" -> Discarded
      [] request.mode = "auto" ->
           (IF ~request.exact THEN Discarded
            ELSE IF Retained(PlusPlan) THEN PlusPlan
            ELSE IF Retained(DolbyPlan) THEN DolbyPlan ELSE Discarded)
      [] request.mode = "hdr10plus" -> IF request.exact THEN PlusPlan ELSE Refused
      [] request.mode = "dolby_vision" -> IF request.exact THEN DolbyPlan ELSE Refused

\* The version of the tool a plan needs, 0 if this host cannot do it.
Support(p) ==
    CASE p.mode = "hdr10plus" -> tool.plus
      [] p.mode = "dolby_vision" -> IF tool.x265 THEN tool.dolby ELSE 0
      [] OTHER -> 0

\* Dolby Vision bounds the bit rate, which x265 does not do by itself.
Bounded81(p) == p.mode = "dolby_vision"

-----------------------------------------------------------------------------
(* The scan, and where the job goes                                          *)

DynamicHdrInit ==
    /\ disc \in Discs /\ scan = [plus |-> FALSE, dolby |-> 0, base |-> FALSE]
    /\ hdrJob = [state |-> "SCANNING", resume |-> "", sel |-> CHOOSE r \in Requests : TRUE]
    /\ pc = "idle" /\ plan = Discarded
    /\ tool = [plus |-> 1, dolby |-> 1, x265 |-> TRUE]
    /\ reference = 0 /\ metadata = NoLayer /\ hdrReport = NoReport
    /\ marks = [prepare |-> <<>>, extract |-> <<>>, encode |-> <<>>]
    /\ video = [temporary |-> NoFile, encoded |-> NoFile]
    /\ troubles = 0

Trouble == troubles < MaxTroubles /\ troubles' = troubles + 1
HdrFiles == <<reference, metadata, hdrReport, marks, video>>

\* Only a probe with the tool finds profile 7, and a probe that fails or is
\* interrupted leaves the scan as it is.
LayerFound == disc.dolby = 7 => tool.dolby # 0

ScanDisc ==
    /\ hdrJob.state = "SCANNING"
    /\ \E seen \in {disc, IF disc.dolby = 7 THEN [disc EXCEPT !.dolby = 0] ELSE disc} :
         (seen = disc => LayerFound) /\ scan' = seen
    /\ hdrJob' = [hdrJob EXCEPT !.state = "AWAITING_SELECTION"]
    /\ UNCHANGED <<disc, pc, plan, tool, HdrFiles, troubles>>

\* A review or an unanswered scan: the selection is checked by the worker.
SelectHdr ==
    /\ \/ hdrJob.state = "AWAITING_SELECTION" /\ UNCHANGED troubles
       \/ hdrJob.state = "NEEDS_REVIEW" /\ Trouble
    /\ \E r \in Requests : hdrJob' = [state |-> "READY", resume |-> "", sel |-> r]
    /\ UNCHANGED <<disc, scan, pc, plan, tool, HdrFiles>>

ResumeHdr ==
    /\ hdrJob.state = "NEEDS_REVIEW"
    /\ hdrJob' = [hdrJob EXCEPT !.state = hdrJob.resume, !.resume = ""]
    /\ UNCHANGED <<disc, scan, pc, plan, tool, HdrFiles, troubles>>

\* A crash, a stop, a failed command; the job goes on, or starts again.
StopHdr ==
    /\ hdrJob.state \in {"READY", "ENCODING", "QC"}
    /\ Trouble
    /\ pc' = "idle" /\ plan' = Discarded
    /\ \/ pc # "idle" /\ UNCHANGED hdrJob
       \/ hdrJob' = [hdrJob EXCEPT !.state = "READY"]
    /\ UNCHANGED <<disc, scan, tool, HdrFiles>>

\* The tools are updated or removed while no job is in hand.
ToolsChange ==
    /\ pc = "idle" /\ hdrJob.state # "DONE" /\ Trouble
    /\ \/ \E v \in 0..2 : tool' = [tool EXCEPT !.plus = v, !.dolby = v]
       \/ tool' = [tool EXCEPT !.x265 = ~@]
    /\ UNCHANGED <<disc, scan, hdrJob, pc, plan, HdrFiles>>

FilesChange ==
    /\ pc = "idle" /\ hdrJob.state # "DONE" /\ Trouble
    /\ \/ metadata' = NoLayer /\ UNCHANGED <<hdrReport, video>>
       \/ hdrReport' = NoReport /\ UNCHANGED <<metadata, video>>
       \/ video' = [video EXCEPT !.encoded = NoFile] /\ UNCHANGED <<metadata, hdrReport>>
    /\ UNCHANGED <<disc, scan, hdrJob, pc, plan, tool, reference, marks>>

HdrReview ==
    /\ hdrJob' = [hdrJob EXCEPT !.state = "NEEDS_REVIEW", !.resume = hdrJob.state]
    /\ pc' = "idle" /\ plan' = Discarded

-----------------------------------------------------------------------------
(* Preparation                                                               *)

\* The checkpoint names the selection, the reference and the report, not the
\* metadata the report is about.
PreparationInputs == <<request, reference, IF request.mode = "discard" THEN NoReport ELSE hdrReport>>

PrepareStarts ==
    /\ pc = "idle"
    /\ \/ hdrJob.state = "READY"
       \/ hdrJob.state = "ENCODING" /\ marks.prepare # PreparationInputs
    /\ IF Resolve = Refused
       THEN HdrReview /\ UNCHANGED reference
       ELSE /\ reference' = request.title
            /\ plan' = Resolve
            /\ pc' = IF request.mode = "discard" THEN "checkpoint" ELSE "support"
            /\ UNCHANGED hdrJob
    /\ UNCHANGED <<disc, scan, tool, metadata, hdrReport, marks, video, troubles>>

\* The metadata is keyed by the reference, the plan and the tool.
ExtractInputs == <<reference, plan, Support(plan)>>

ToolIsThere ==
    /\ pc = "support"
    /\ CASE ~Retained(plan) -> pc' = "report" /\ UNCHANGED <<hdrJob, plan>>
         [] Retained(plan) /\ Support(plan) # 0 ->
              /\ pc' = IF marks.extract = <<ExtractInputs, metadata>> THEN "report" ELSE "extract"
              /\ UNCHANGED <<hdrJob, plan>>
         [] OTHER -> IF request.mode = "auto"
                     THEN pc' = "report" /\ plan' = Discarded /\ UNCHANGED hdrJob
                     ELSE HdrReview
    /\ UNCHANGED <<disc, scan, tool, HdrFiles, troubles>>

\* The frames of a title have its number; a damaged stream has not all of them.
Extract ==
    /\ pc = "extract"
    /\ \E n \in {0, reference} :
         metadata' = [made |-> plan, title |-> reference, frames |-> n, version |-> Support(plan)]
    /\ pc' = "count"
    /\ UNCHANGED <<disc, scan, hdrJob, plan, tool, reference, hdrReport, marks, video, troubles>>

\* Frame for frame, and for Dolby Vision profile 8.
HasEveryFrame == metadata.frames = reference

CountFrames ==
    /\ pc = "count"
    /\ IF HasEveryFrame
       THEN /\ marks' = [marks EXCEPT !.extract = <<ExtractInputs, metadata>>]
            /\ pc' = "report" /\ UNCHANGED <<hdrJob, plan>>
       ELSE HdrReview /\ UNCHANGED marks
    /\ UNCHANGED <<disc, scan, tool, reference, metadata, hdrReport, video, troubles>>

WriteReport ==
    /\ pc = "report"
    /\ hdrReport' = [sel |-> request, plan |-> plan, layer |-> IF Retained(plan) THEN metadata ELSE NoLayer]
    /\ pc' = "checkpoint"
    /\ UNCHANGED <<disc, scan, hdrJob, plan, tool, reference, metadata, marks, video, troubles>>

\* The preparation may be part of the encode stage.
PrepareEnds ==
    /\ pc = "checkpoint"
    /\ marks' = [marks EXCEPT !.prepare = PreparationInputs]
    /\ hdrJob' = [hdrJob EXCEPT !.state = "ENCODING"]
    /\ pc' = IF hdrJob.state = "READY" THEN "idle" ELSE "load"
    /\ plan' = Discarded
    /\ UNCHANGED <<disc, scan, tool, reference, metadata, hdrReport, video, troubles>>

-----------------------------------------------------------------------------
(* The encode                                                                *)

\* The report is of this selection, and the metadata is what it names.
ReportIsCurrent ==
    request.mode = "discard" \/
        /\ hdrReport.sel = request
        /\ Retained(hdrReport.plan) => metadata # NoLayer /\ metadata = hdrReport.layer

PlanOfReport == IF request.mode = "discard" THEN Discarded ELSE hdrReport.plan

\* Variant: the encode is keyed by the plan alone.
DynamicInputsOfPlan == <<PlanOfReport>>

DynamicInputs ==
    IF Retained(PlanOfReport) THEN <<PlanOfReport, hdrReport.layer>> ELSE <<>>

EncodeInputs == <<reference, request.crop, Bounded81(PlanOfReport), DynamicInputs>>

EncodeLoads ==
    /\ hdrJob.state = "ENCODING"
    /\ pc = "load" \/ (pc = "idle" /\ marks.prepare = PreparationInputs)
    /\ CASE ~ReportIsCurrent -> HdrReview
         [] ReportIsCurrent /\ marks.encode = <<EncodeInputs, video.encoded>> /\ video.encoded # NoFile ->
              hdrJob' = [hdrJob EXCEPT !.state = "QC"] /\ pc' = "idle" /\ UNCHANGED plan
         [] OTHER -> pc' = "encode" /\ plan' = PlanOfReport /\ UNCHANGED hdrJob
    /\ UNCHANGED <<disc, scan, tool, HdrFiles, troubles>>

\* The encoder gets the signalling, and ignores what it does not know.
Encode ==
    /\ pc = "encode"
    /\ video' = [video EXCEPT !.temporary =
                   [title |-> reference, crop |-> request.crop,
                    signal |-> IF plan.mode = "dolby_vision" THEN plan.mode ELSE "discard",
                    bounded |-> Bounded81(plan), layer |-> NoLayer]]
    /\ pc' = IF Retained(plan) THEN "inject" ELSE "promote"
    /\ UNCHANGED <<disc, scan, hdrJob, plan, tool, reference, metadata, hdrReport, marks, troubles>>

\* The metadata is injected into a copy and read back from it; the copy
\* replaces the encode if it has every frame, and is thrown away if not.
Inject ==
    /\ pc = "inject"
    /\ \/ /\ video' = [video EXCEPT !.temporary.layer = metadata]
          /\ pc' = "promote" /\ UNCHANGED <<hdrJob, plan>>
       \/ HdrReview /\ video' = [video EXCEPT !.temporary = NoFile]
    /\ UNCHANGED <<disc, scan, tool, reference, metadata, hdrReport, marks, troubles>>

Promote ==
    /\ pc = "promote"
    /\ video' = [temporary |-> NoFile, encoded |-> video.temporary]
    /\ pc' = "mark"
    /\ UNCHANGED <<disc, scan, hdrJob, plan, tool, reference, metadata, hdrReport, marks, troubles>>

EncodeEnds ==
    /\ pc = "mark"
    /\ marks' = [marks EXCEPT !.encode = <<EncodeInputs, video.encoded>>]
    /\ hdrJob' = [hdrJob EXCEPT !.state = "QC"]
    /\ pc' = "idle" /\ plan' = Discarded
    /\ UNCHANGED <<disc, scan, tool, reference, metadata, hdrReport, video, troubles>>

-----------------------------------------------------------------------------
(* The gate: the file carries the layer of the plan, Dolby Vision with its   *)
(* signalling, and no other layer.                                           *)

OutputFits ==
    /\ video.encoded # NoFile
    /\ video.encoded.layer.made.mode = PlanOfReport.mode
    /\ PlanOfReport.mode = "dolby_vision" <=> video.encoded.signal = "dolby_vision"

HdrGate ==
    /\ hdrJob.state = "QC" /\ pc = "idle"
    /\ IF ReportIsCurrent /\ OutputFits
       THEN hdrJob' = [hdrJob EXCEPT !.state = "DONE"] /\ UNCHANGED <<pc, plan>>
       ELSE HdrReview
    /\ UNCHANGED <<disc, scan, tool, HdrFiles, troubles>>

DynamicHdrNext ==
    \/ ScanDisc \/ SelectHdr \/ ResumeHdr \/ StopHdr \/ ToolsChange \/ FilesChange
    \/ PrepareStarts \/ ToolIsThere \/ Extract \/ CountFrames \/ WriteReport \/ PrepareEnds
    \/ EncodeLoads \/ Encode \/ Inject \/ Promote \/ EncodeEnds \/ HdrGate

DynamicHdrSpec == DynamicHdrInit /\ [][DynamicHdrNext]_hdrVars

-----------------------------------------------------------------------------
(* A file that passes carries exactly what the operator asked for and the    *)
(* disc has: an explicit request is never met by a silent downgrade, only    *)
(* "auto" may discard; the layer is the one the published report names, made *)
(* for this title and this crop, with every frame, and Dolby Vision has a    *)
(* bounded bit rate.                                                         *)
RetainedAsReviewed ==
    hdrJob.state = "DONE" =>
        LET layer == video.encoded.layer IN
        /\ request.mode # "auto" => layer.made.mode = request.mode
        /\ layer.made.mode = "hdr10plus" => disc.plus
        /\ layer.made.mode = "dolby_vision" =>
             /\ disc.dolby = layer.made.profile
             /\ layer.made.crop = request.crop /\ video.encoded.bounded
        /\ layer # NoLayer => layer.frames = request.title /\ layer = hdrReport.layer
        /\ video.encoded.title = request.title /\ video.encoded.crop = request.crop
=============================================================================
