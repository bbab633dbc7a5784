------------------------------ MODULE Pipeline ------------------------------
(***************************************************************************)
(* The stage bodies of the worker for one job (src/bdencode/worker.py):    *)
(* prepare, encode with the source check beside it, mux, QC, comparison,   *)
(* upload and publication, over the files of the job's workspace.  Every   *)
(* stage trusts its checkpoints: a marker records the inputs an artifact   *)
(* was made from and its digest, and is written after the artifact.  The   *)
(* worker may stop between any two steps, and a review may end in a        *)
(* revised selection, with which the job runs again over the same files.   *)
(*                                                                         *)
(* A digest is a number: equal digests are equal contents, and made[n]     *)
(* says from what content n was made.  0 is a file that is missing, torn   *)
(* or changed, so that it has the digest of nothing.                       *)
(***************************************************************************)
EXTENDS Naturals, Sequences, FiniteSets

CONSTANTS
    Selections,    \* what the operator may select
    Initial,       \* what the operator selects first
    Images,        \* the images of one comparison
    Hosts,         \* the configured image hosts, in their order
    Taken,         \* the output names another release already has
    MaxMade,       \* bound on the contents made
    MaxStops,      \* bound on the times a stage is stopped and begun again
    MaxRevisions,  \* bound on revised selections
    MaxDamages     \* bound on the artifacts changed behind the worker's back

Artifact == {"reference", "crop", "script", "crf", "video", "tracks", "output",
             "sound", "frames"}

HostSet == {Hosts[i] : i \in 1..Len(Hosts)}

NoHost == "no host"

\* disc: playlist and angle; crop: margins, or "auto"; picture: filter and
\* encoder settings; tracks: what to retain; auto: search the CRF; host: the
\* image host, "auto" or "none"; name: the name of the release.
SelectionOK(s) ==
    /\ DOMAIN s = {"disc", "crop", "picture", "tracks", "auto", "host", "name"}
    /\ s.auto \in BOOLEAN
    /\ s.host \in HostSet \cup {"auto", "none"}

ASSUME SelectionAssumption ==
    Initial \subseteq Selections /\ \A s \in Selections : SelectionOK(s)
ASSUME HostAssumption ==
    Hosts \in Seq(HostSet) /\ Hosts # <<>> /\ {"auto", "none", NoHost} \cap HostSet = {}
\* The comparison does not end without a frame of every type.
ASSUME ImageAssumption == Images # {}
ASSUME BoundAssumption == {MaxMade, MaxStops, MaxRevisions, MaxDamages} \subseteq Nat

VARIABLES
    job,       \* state, resume state, selection, reason of the last review
    todo,      \* what the running stage still has to do
    step,      \* where the stage stands with the first of these
    disk,      \* artifact -> digest of the file
    mark,      \* artifact -> the marker: inputs and digest, or Unmarked
    made,      \* digest -> artifact and inputs
    check,     \* the source check beside the encode
    logs,      \* the source logs: the disc they are of, do they tell corruption
    uploads,   \* uploads.json
    hand,      \* what the upload stage holds in memory
    posted,    \* <<host, image, picture>> the image hosts may hold
    releases,  \* name -> what the completed directory holds
    spent      \* stops, revisions and damages so far

vars == <<job, todo, step, disk, mark, made, check, logs, uploads, hand, posted,
          releases, spent>>

files == <<disk, mark, made>>
remote == <<uploads, hand, posted, releases>>

Stages == <<"ENCODING", "MUXING", "QC", "COMPARISON", "UPLOADING", "COMPLETED">>

Working == {"ENCODING", "MUXING", "QC", "COMPARISON", "UPLOADING"}

Index(state) == CHOOSE i \in 1..Len(Stages) : Stages[i] = state

Unmarked == [inputs |-> <<>>, out |-> 0]

NoUploads == [kind |-> "none", host |-> NoHost, images |-> {}, picture |-> <<>>]

NoHand == [lock |-> NoHost, hosts |-> <<>>, image |-> NoHost, pins |-> <<>>]

NoRelease == [owner |-> 0, output |-> 0, sound |-> 0, frames |-> 0]

sel == job.sel

-----------------------------------------------------------------------------
(* Checkpoints                                                             *)

\* What the tool that makes an artifact reads.
Reads(a) ==
    CASE a = "reference" -> <<sel.disc>>
      [] a \in {"crop", "script"} -> <<disk["reference"], sel.crop>>
      [] a = "crf" -> <<disk["reference"], disk["script"], sel>>
      [] a = "video" -> <<disk["reference"], disk["script"], sel.picture,
                          IF sel.auto THEN <<disk["crf"]>> ELSE <<>> >>
      [] a = "tracks" -> <<disk["reference"], sel.tracks>>
      [] a = "output" -> <<disk["video"], disk["tracks"], sel.name>>
      [] a = "sound" -> <<disk["reference"], disk["output"], disk["tracks"]>>
      [] a = "frames" -> <<disk["reference"], disk["output"], disk["script"]>>

\* The digest an earlier marker has for a file: none for a file that was
\* written after its marker.
RecordedOutput(a) == IF mark[a].out = disk[a] THEN disk[a] ELSE 0

\* What the marker of an artifact records of its making.
PrepareInputs(a) == Reads(a)

\* Variant: the encode is not keyed by the encoder settings.
VideoInputsNoSettings == <<RecordedOutput("reference"), disk["script"]>>

VideoInputs ==
    <<RecordedOutput("reference"), disk["script"], sel.picture,
      IF sel.auto THEN <<disk["crf"]>> ELSE <<>> >>

MuxInputs(a) == Reads(a)

\* Variant: the audio QC is keyed by the tracks, not by the final file.
AudioInputsTracks == <<disk["reference"], disk["tracks"]>>

AudioInputs == <<disk["reference"], disk["output"], disk["tracks"]>>

ComparisonInputs ==
    <<RecordedOutput("reference"), RecordedOutput("output"), disk["script"]>>

Inputs(a) ==
    CASE a \in {"reference", "crop", "script", "crf"} -> PrepareInputs(a)
      [] a = "video" -> VideoInputs
      [] a \in {"tracks", "output"} -> MuxInputs(a)
      [] a = "sound" -> AudioInputs
      [] a = "frames" -> ComparisonInputs

ValidStage(a) ==
    /\ disk[a] # 0
    /\ mark[a] = [inputs |-> Inputs(a), out |-> disk[a]]

WriteStage(a) == mark' = [mark EXCEPT ![a] = [inputs |-> Inputs(a), out |-> disk[a]]]

\* A Matroska file gets a new random identifier each time it is written; the
\* scripts, reports and images are functions of what they are made from.
Volatile == {"reference", "video", "tracks", "output"}

NewContent(a) ==
    LET content == [of |-> a, from |-> Reads(a)]
        same == {n \in 1..Len(made) : made[n] = content}
    IN IF a \in Volatile \/ same = {}
       THEN /\ Len(made) < MaxMade
            /\ made' = Append(made, content)
            /\ disk' = [disk EXCEPT ![a] = Len(made) + 1]
       ELSE /\ disk' = [disk EXCEPT ![a] = CHOOSE n \in same : TRUE]
            /\ UNCHANGED made

\* The files an artifact is made of.
Needs(a) ==
    CASE a = "reference" -> {}
      [] a \in {"crop", "tracks"} -> {"reference"}
      [] a = "script" -> {"reference", "crop"}
      [] a \in {"crf", "video"} -> {"reference", "script"}
      [] a = "output" -> {"video", "tracks"}
      [] a = "sound" -> {"reference", "output", "tracks"}
      [] a = "frames" -> {"reference", "output", "script"}

\* The preparation is current if pipeline-prepare records this selection and
\* the files that are there.
Prepared ==
    <<sel, disk["reference"], disk["script"],
      IF sel.auto THEN <<disk["crf"]>> ELSE <<>> >>

PreparationIsCurrent == mark["prepare"].inputs = Prepared

\* _load_prepared_scan_and_selection: an automatic crop must be the one of
\* this reference, and the CRF report must name this selection.
LoadPrepared ==
    /\ sel.crop = "auto" => ValidStage("crop")
    /\ sel.auto => disk["crf"] # 0 /\ made[disk["crf"]].from[3] = sel

\* The full decode of this reference has passed.
SourceIntegrityCurrent ==
    /\ RecordedOutput("reference") # 0
    /\ mark["integrity"].inputs = <<RecordedOutput("reference")>>

-----------------------------------------------------------------------------
(* Where a job goes                                                        *)

Rest == todo' = <<>> /\ step' = "idle" /\ check' = "off" /\ hand' = NoHand

Goto(state) == job' = [job EXCEPT !.state = state]

Review(why) ==
    /\ job' = [job EXCEPT !.state = "NEEDS_REVIEW", !.resume = job.state, !.why = why]
    /\ Rest

\* The encode lane claims the job.
ClaimJob ==
    /\ job.state = "READY"
    /\ Goto("ENCODING")
    /\ UNCHANGED <<todo, step, files, check, logs, remote, spent>>

\* The operator looks at the review and lets the stage run again.
ResumeReview ==
    /\ job.state = "NEEDS_REVIEW"
    /\ spent.stops < MaxStops
    /\ spent' = [spent EXCEPT !.stops = @ + 1]
    /\ job' = [job EXCEPT !.state = job.resume, !.resume = "", !.why = ""]
    /\ UNCHANGED <<todo, step, files, check, logs, remote>>

\* The operator revises the selection: the job runs again from READY.
SetSelection ==
    /\ job.state = "NEEDS_REVIEW"
    /\ spent.revisions < MaxRevisions
    /\ spent' = [spent EXCEPT !.revisions = @ + 1]
    /\ \E s \in Selections :
         job' = [state |-> "READY", resume |-> "", sel |-> s, why |-> ""]
    /\ UNCHANGED <<todo, step, files, check, logs, remote>>

\* A failed upload is tried again.
RetryUpload ==
    /\ job.state = "UPLOAD_FAILED"
    /\ Goto("UPLOADING")
    /\ UNCHANGED <<todo, step, files, check, logs, remote, spent>>

\* A crash, a stop of the service, a pause that is continued, a command that
\* fails and is retried: the stage begins again, or the job is cancelled and
\* restarted and all stages do.  Files and markers stay as they are.
Stop ==
    /\ job.state \in Working \cup {"UPLOAD_FAILED"}
    /\ spent.stops < MaxStops
    /\ spent' = [spent EXCEPT !.stops = @ + 1]
    /\ \/ step # "idle" /\ UNCHANGED job
       \/ Goto("READY")
    /\ Rest
    /\ UNCHANGED <<files, logs, uploads, posted, releases>>

-----------------------------------------------------------------------------
(* One stage: reuse what its marker vouches for, make the rest             *)

Body ==
    CASE job.state = "ENCODING" ->
           IF PreparationIsCurrent THEN <<"video", "check">>
           ELSE IF sel.auto
           THEN <<"reference", "crop", "script", "crf", "prepare", "video", "check">>
           ELSE <<"reference", "crop", "script", "prepare", "video", "check">>
      [] job.state = "MUXING" -> <<"tracks", "output">>
      [] job.state = "QC" -> <<"sound">>
      [] job.state = "COMPARISON" -> <<"frames">>

Begin ==
    /\ job.state \in Working \ {"UPLOADING"}
    /\ step = "idle"
    /\ IF job.state = "ENCODING" \/ LoadPrepared
       THEN todo' = Body /\ step' = "look" /\ UNCHANGED <<job, check, hand>>
       ELSE Review("stale")
    /\ UNCHANGED <<files, logs, uploads, posted, releases, spent>>

At(a) == todo # <<>> /\ Head(todo) = a

\* Preparation keeps the logs of one remux input at a time, and stops on the
\* corruption they tell of.  The encode reads the prepared selection.
SourceLogs ==
    IF At("reference") /\ logs.disc # sel.disc
    THEN logs' = [disc |-> sel.disc, corrupt |-> FALSE]
    ELSE UNCHANGED logs

Obstacle ==
    \/ At("crop") /\ logs.corrupt
    \/ At("video") /\ ~LoadPrepared

Refuse ==
    /\ step = "look"
    /\ Obstacle
    /\ Review(IF At("crop") THEN "source" ELSE "stale")
    /\ UNCHANGED <<files, logs, uploads, posted, releases, spent>>

Reuse ==
    /\ step = "look" /\ todo # <<>>
    /\ ~Obstacle
    /\ Head(todo) \in Artifact /\ ValidStage(Head(todo))
    /\ todo' = Tail(todo)
    /\ SourceLogs
    /\ UNCHANGED <<job, step, files, check, remote, spent>>

\* A tool writes its file in place, except where the code writes beside it
\* and renames.  The source check starts beside the encode.
InPlace == {"reference", "tracks", "output", "sound", "frames"}

RunTool ==
    /\ step = "look" /\ todo # <<>>
    /\ ~Obstacle
    /\ Head(todo) \in Artifact /\ ~ValidStage(Head(todo))
    /\ \A b \in Needs(Head(todo)) : disk[b] # 0
    /\ step' = "tool"
    /\ disk' = IF Head(todo) \in InPlace THEN [disk EXCEPT ![Head(todo)] = 0] ELSE disk
    /\ check' = IF At("video") /\ ~SourceIntegrityCurrent THEN "running" ELSE check
    /\ SourceLogs
    /\ UNCHANGED <<job, todo, mark, made, remote, spent>>

CheckFailed == check \in {"review", "error"}

ToolEnds ==
    /\ step = "tool"
    /\ ~(At("video") /\ CheckFailed)
    /\ NewContent(Head(todo))
    /\ step' = "made"
    /\ \/ UNCHANGED logs
       \/ At("reference") /\ logs' = [logs EXCEPT !.corrupt = TRUE]
    /\ UNCHANGED <<job, todo, mark, check, remote, spent>>

\* The output fails its gate: the marker is not written.
GateFails ==
    /\ step = "made"
    /\ Head(todo) \in {"crop", "crf", "tracks", "output", "sound", "frames"}
    /\ Review("gate")
    /\ UNCHANGED <<files, logs, uploads, posted, releases, spent>>

Checkpoint ==
    /\ step = "made"
    /\ WriteStage(Head(todo))
    /\ todo' = Tail(todo) /\ step' = "look"
    /\ UNCHANGED <<job, disk, made, check, logs, remote, spent>>

CheckpointPreparation ==
    /\ step = "look" /\ At("prepare")
    /\ mark' = [mark EXCEPT !["prepare"].inputs = Prepared]
    /\ todo' = Tail(todo)
    /\ UNCHANGED <<job, step, disk, made, check, logs, remote, spent>>

Advance ==
    /\ step = "look" /\ todo = <<>>
    /\ Goto(Stages[Index(job.state) + 1])
    /\ Rest
    /\ UNCHANGED <<files, logs, uploads, posted, releases, spent>>

-----------------------------------------------------------------------------
(* The source check, a thread beside the encode                            *)

\* Variant: the check is not asked what it found.
WaitForCheckBlind ==
    /\ step = "look" /\ At("check")
    /\ check # "off"
    /\ todo' = Tail(todo)
    /\ UNCHANGED <<job, step, files, check, logs, remote, spent>>

\* The encode is done: wait for the thread.
WaitForCheck ==
    /\ step = "look" /\ At("check")
    /\ check = "passed"
    /\ todo' = Tail(todo)
    /\ UNCHANGED <<job, step, files, check, logs, remote, spent>>

\* There is no thread: check here, unless the marker vouches for it.
CheckInline ==
    /\ step = "look" /\ At("check")
    /\ check = "off"
    /\ check' = IF ~SourceIntegrityCurrent THEN "running"
                ELSE IF logs.corrupt THEN "review" ELSE "passed"
    /\ UNCHANGED <<job, todo, step, files, logs, remote, spent>>

\* The decode ends: clean, with diagnostics that may be sticky, or the check
\* itself breaks.  What earlier attempts have logged counts too.
CheckEnds ==
    /\ check = "running"
    /\ \/ /\ ~logs.corrupt
          /\ check' = "passed"
          /\ mark' = [mark EXCEPT !["integrity"].inputs = <<disk["reference"]>>]
          /\ UNCHANGED logs
       \/ /\ check' = "review"
          /\ \E found \in BOOLEAN : logs' = [logs EXCEPT !.corrupt = @ \/ found]
          /\ UNCHANGED mark
       \/ check' = "error" /\ UNCHANGED <<mark, logs>>
    /\ UNCHANGED <<job, todo, step, disk, made, remote, spent>>

\* A failed check stops the encode.  Only a review replaces the interruption;
\* another error leaves the job in ENCODING, and it is taken up again.
CheckStopsEncode ==
    /\ \/ step = "tool" /\ At("video")
       \/ step = "look" /\ At("check")
    /\ CheckFailed
    /\ IF check = "review" THEN Review("source") ELSE Rest /\ UNCHANGED job
    /\ UNCHANGED <<files, logs, uploads, posted, releases, spent>>

-----------------------------------------------------------------------------
(* Upload and publication                                                  *)

Pins == <<disk["output"], disk["sound"], disk["frames"]>>

EvidenceCurrent ==
    \A a \in {"output", "sound", "frames"} : RecordedOutput(a) # 0

\* What the images of a comparison show: the selected title and its encode.
Picture(frames) ==
    LET reference == made[frames].from[1]
        video == made[made[frames].from[2]].from[1]
    IN <<made[reference].from, made[made[video].from[2]].from[2],
         made[video].from[3], made[video].from[4] # <<>> >>

\* The loaded uploads.json must fit the selection and the images at hand.
CheckpointFits ==
    /\ uploads.kind = "skipped" => sel.host = "none"
    /\ uploads.images # {} => uploads.picture = Picture(disk["frames"])

UploadFails ==
    /\ Goto("UPLOAD_FAILED")
    /\ Rest

LoadedLock == IF uploads.kind = "open" THEN uploads.host ELSE NoHost

BeginUpload ==
    /\ job.state = "UPLOADING" /\ step = "idle"
    /\ IF ~LoadPrepared \/ ~EvidenceCurrent THEN Review("changed")
       ELSE IF ~CheckpointFits THEN Review("uploads")
       ELSE /\ hand' = [NoHand EXCEPT !.pins = Pins, !.lock = LoadedLock]
            /\ step' = "host"
            /\ UNCHANGED <<job, todo, check>>
    /\ UNCHANGED <<files, logs, uploads, posted, releases, spent>>

\* upload_images = false: the checkpoint is replaced.
SkipUpload ==
    /\ step = "host"
    /\ sel.host = "none"
    /\ uploads' = [NoUploads EXCEPT !.kind = "skipped"]
    /\ step' = "publish"
    /\ UNCHANGED <<job, todo, files, check, logs, hand, posted, releases, spent>>

\* The candidates: the host the package is bound to, the selected one, or
\* all in their order.  A selected host that conflicts with the bound one is
\* a review in the code, but surfaces as a failed upload.
ChooseHosts ==
    /\ step = "host"
    /\ sel.host # "none"
    /\ IF uploads.images = Images
       THEN step' = "publish" /\ UNCHANGED <<job, todo, check, hand>>
       ELSE IF hand.lock # NoHost /\ sel.host \notin {"auto", hand.lock}
       THEN UploadFails
       ELSE /\ hand' = [hand EXCEPT !.hosts =
                          IF hand.lock # NoHost THEN <<hand.lock>>
                          ELSE IF sel.host # "auto" THEN <<sel.host>> ELSE Hosts]
            /\ step' = "pin"
            /\ UNCHANGED <<job, todo, check>>
    /\ UNCHANGED <<files, logs, uploads, posted, releases, spent>>

\* The candidate is written down before the first request.
PinHost ==
    /\ step = "pin"
    /\ uploads' = IF hand.lock # NoHost THEN uploads
                  ELSE [uploads EXCEPT !.kind = "open", !.host = Head(hand.hosts)]
    /\ step' = "send"
    /\ UNCHANGED <<job, todo, files, check, logs, hand, posted, releases, spent>>

Pending == Images \ uploads.images

\* The request reaches the host.
PostImage ==
    /\ step = "send"
    /\ \E i \in Pending :
         /\ posted' = posted \cup {<<Head(hand.hosts), i, Picture(hand.pins[3])>>}
         /\ hand' = [hand EXCEPT !.image = i]
    /\ step' = "sent"
    /\ UNCHANGED <<job, todo, files, check, logs, uploads, releases, spent>>

\* Its answer is verified and recorded; the package is bound to the host.
RecordImage ==
    /\ step = "sent"
    /\ uploads' = [kind |-> "open", host |-> Head(hand.hosts),
                   images |-> uploads.images \cup {hand.image},
                   picture |-> Picture(hand.pins[3])]
    /\ hand' = [hand EXCEPT !.lock = Head(hand.hosts), !.image = NoHost]
    /\ step' = IF uploads'.images = Images THEN "publish" ELSE "send"
    /\ UNCHANGED <<job, todo, files, check, logs, posted, releases, spent>>

\* Variant: an answer that is lost leaves the host open.
PostUnclearOpen ==
    /\ step = "sent"
    /\ uploads' = [uploads EXCEPT !.host = hand.lock]
    /\ UploadFails
    /\ UNCHANGED <<files, logs, posted, releases, spent>>

\* The answer is lost or does not verify: the host may hold the image.
PostUnclear ==
    /\ step = "sent"
    /\ uploads' = [uploads EXCEPT !.host = Head(hand.hosts)]
    /\ UploadFails
    /\ UNCHANGED <<files, logs, posted, releases, spent>>

\* The host refuses the request for another reason: no other host is asked.
PostRefused ==
    /\ step = "send" /\ Pending # {}
    /\ UploadFails
    /\ UNCHANGED <<files, logs, uploads, posted, releases, spent>>

\* The host certainly holds nothing of this request and asks for another
\* host.  A bound host is kept; a selected one is the only one.
PostDeferred ==
    /\ step = "send" /\ Pending # {}
    /\ IF hand.lock # NoHost
       THEN UploadFails /\ UNCHANGED uploads
       ELSE IF sel.host = "auto" /\ Len(hand.hosts) > 1
       THEN /\ hand' = [hand EXCEPT !.hosts = Tail(@)]
            /\ step' = "pin"
            /\ UNCHANGED <<job, todo, check, uploads>>
       ELSE uploads' = [uploads EXCEPT !.host = NoHost] /\ UploadFails
    /\ UNCHANGED <<files, logs, posted, releases, spent>>

\* The evidence is looked at again, and the completed directory must be
\* empty or of this very file.
ClaimRelease ==
    /\ step = "publish"
    /\ IF ~EvidenceCurrent \/ Pins # hand.pins
       THEN Review("changed") /\ UNCHANGED releases
       ELSE IF releases[sel.name].owner \notin {0, hand.pins[1]}
       THEN Review("taken") /\ UNCHANGED releases
       ELSE /\ releases' = [releases EXCEPT ![sel.name].owner = hand.pins[1]]
            /\ step' = "copy"
            /\ UNCHANGED <<job, todo, check, hand>>
    /\ UNCHANGED <<files, logs, uploads, posted, spent>>

\* The file is copied beside its place, compared and renamed.  A copy that
\* differs is an error: the job fails and is retried.
CopyOutput ==
    /\ step = "copy"
    /\ IF releases[sel.name].output \notin {0, hand.pins[1]}
       THEN Review("taken") /\ UNCHANGED releases
       ELSE IF disk["output"] # hand.pins[1]
       THEN Rest /\ UNCHANGED <<job, releases>>
       ELSE /\ releases' = [releases EXCEPT ![sel.name].output = hand.pins[1]]
            /\ step' = "sidecars"
            /\ UNCHANGED <<job, todo, check, hand>>
    /\ UNCHANGED <<files, logs, uploads, posted, spent>>

\* The public evidence is copied with its pins, or not at all.
ReplaceSidecars ==
    /\ step = "sidecars"
    /\ IF Tail(Pins) # Tail(hand.pins)
       THEN Review("changed") /\ UNCHANGED releases
       ELSE /\ releases' = [releases EXCEPT ![sel.name].sound = hand.pins[2],
                                            ![sel.name].frames = hand.pins[3]]
            /\ step' = "complete"
            /\ UNCHANGED <<job, todo, check, hand>>
    /\ UNCHANGED <<files, logs, uploads, posted, spent>>

\* The job is done.  The rest of its workspace is then removed by an operation of
\* the journal that Maintenance models; no stage reads it again.
Complete ==
    /\ step = "complete"
    /\ Goto("COMPLETED")
    /\ Rest
    /\ UNCHANGED <<files, logs, uploads, posted, releases, spent>>

\* Something else changes an artifact while the upload runs.
Damage ==
    /\ job.state = "UPLOADING"
    /\ spent.damages < MaxDamages
    /\ spent' = [spent EXCEPT !.damages = @ + 1]
    /\ \E a \in {"output", "sound", "frames"} : disk' = [disk EXCEPT ![a] = 0]
    /\ UNCHANGED <<job, todo, step, mark, made, check, logs, remote>>

-----------------------------------------------------------------------------
Init ==
    /\ \E s \in Initial :
         job = [state |-> "READY", resume |-> "", sel |-> s, why |-> ""]
    /\ todo = <<>> /\ step = "idle" /\ check = "off"
    /\ disk = [a \in Artifact |-> 0]
    /\ mark = [a \in Artifact \cup {"prepare", "integrity"} |-> Unmarked]
    /\ made = <<>>
    /\ logs = [disc |-> sel.disc, corrupt |-> FALSE]
    /\ uploads = NoUploads /\ hand = NoHand /\ posted = {}
    /\ releases = [n \in {s.name : s \in Selections} |->
                     IF n \in Taken THEN [NoRelease EXCEPT !.owner = MaxMade + 1,
                                                           !.output = MaxMade + 1]
                     ELSE NoRelease]
    /\ spent = [stops |-> 0, revisions |-> 0, damages |-> 0]

Stage == Begin \/ Refuse \/ Reuse \/ RunTool \/ ToolEnds \/ GateFails \/ Checkpoint
         \/ CheckpointPreparation \/ Advance

Check == WaitForCheck \/ CheckInline \/ CheckEnds \/ CheckStopsEncode

Upload == BeginUpload \/ SkipUpload \/ ChooseHosts \/ PinHost \/ PostImage
          \/ RecordImage \/ PostUnclear \/ PostRefused \/ PostDeferred

Publish == ClaimRelease \/ CopyOutput \/ ReplaceSidecars \/ Complete

Operate == ClaimJob \/ ResumeReview \/ SetSelection \/ RetryUpload \/ Stop \/ Damage

Next == Stage \/ Check \/ Upload \/ Publish \/ Operate

Spec == Init /\ [][Next]_vars

-----------------------------------------------------------------------------
(* What the stages promise                                                 *)

Digest == 0..MaxMade

\* What was released is what the present selection asks for: film and tracks
\* come from one and the same remux of the selected title, and crop, settings
\* and CRF are the selected ones, however often the job was reviewed, revised,
\* stopped or restarted over the same files.
ReleaseIsCurrent ==
    job.state = "COMPLETED" =>
      LET output == releases[sel.name].output
          video == made[output].from[1]
          tracks == made[output].from[2]
          reference == made[video].from[1]
          script == made[video].from[2]
      IN /\ made[reference].from = <<sel.disc>>
         /\ made[script].from = <<reference, sel.crop>>
         /\ made[video].from[3] = sel.picture
         /\ sel.auto => made[made[video].from[4][1]].from[3] = sel
         /\ made[tracks].from = <<reference, sel.tracks>>
         /\ made[output].from[3] = sel.name

\* The published evidence is about the published file, and so are the images
\* the release links to.
EvidenceIsOfTheRelease ==
    job.state = "COMPLETED" =>
      LET r == releases[sel.name]
      IN /\ made[r.sound].from[2] = r.output
         /\ made[r.frames].from[2] = r.output
         /\ sel.host # "none" => /\ uploads.images = Images
                                 /\ uploads.picture = Picture(r.frames)

\* Nothing is muxed, and nothing after it, from a video whose reference has
\* not passed the full decode, or while the source logs tell of corruption.
SourceChecked ==
    job.state \in Working \ {"ENCODING"} =>
      /\ disk["video"] # 0
      /\ mark["integrity"].inputs = <<made[disk["video"]].from[1]>>
      /\ ~logs.corrupt

\* All the images a job has put anywhere are on one host, whatever the answers,
\* the crashes and the selections in between, and an image that uploads.json
\* records is there and shows what the record says.
ImagesAreTrue ==
    /\ \A p, q \in posted : p[1] = q[1]
    /\ \A i \in uploads.images : <<uploads.host, i, uploads.picture>> \in posted

\* What the preparation certified is not refused by a later stage.
PreparationHolds == job.why # "stale"
=============================================================================
