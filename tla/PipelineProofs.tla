--------------------------- MODULE PipelineProofs ---------------------------
(* For any selections, hosts and images, with the work stopped, reviewed,    *)
(* revised and damaged at any point: what is published is what the selection *)
(* in force asks for, the evidence is about it, its source has passed the    *)
(* check, and the images of a job are on one host.                           *)
EXTENDS Pipeline, TLAPS

States == Working \cup {"READY", "NEEDS_REVIEW", "UPLOAD_FAILED", "COMPLETED"}

StageSteps == {"look", "tool", "made"}
SendSteps == {"pin", "send", "sent"}
PublishSteps == {"publish", "copy", "sidecars", "complete"}
UploadSteps == {"host"} \cup SendSteps \cup PublishSteps

\* What is left to do in a stage.
Left(state) ==
    CASE state = "ENCODING" ->
           {<<>>, <<"check">>, <<"video", "check">>, <<"prepare", "video", "check">>,
            <<"crf", "prepare", "video", "check">>,
            <<"script", "crf", "prepare", "video", "check">>,
            <<"script", "prepare", "video", "check">>,
            <<"crop", "script", "crf", "prepare", "video", "check">>,
            <<"crop", "script", "prepare", "video", "check">>,
            <<"reference", "crop", "script", "crf", "prepare", "video", "check">>,
            <<"reference", "crop", "script", "prepare", "video", "check">>}
      [] state = "MUXING" -> {<<>>, <<"output">>, <<"tracks", "output">>}
      [] state = "QC" -> {<<>>, <<"sound">>}
      [] state = "COMPARISON" -> {<<>>, <<"frames">>}

Ahead(list) == IF list = <<>> THEN "end" ELSE Head(list)

Items(state) ==
    CASE state = "ENCODING" -> {"reference", "crop", "script", "crf", "prepare", "video", "check"}
      [] state = "MUXING" -> {"tracks", "output"}
      [] state = "QC" -> {"sound"}
      [] state = "COMPARISON" -> {"frames"}

\* What may come after an item.
Follow(item) ==
    CASE item = "reference" -> {"crop"}
      [] item = "crop" -> {"script"}
      [] item = "script" -> {"crf", "prepare"}
      [] item = "crf" -> {"prepare"}
      [] item = "prepare" -> {"video"}
      [] item = "video" -> {"check"}
      [] item = "tracks" -> {"output"}
      [] item \in {"check", "output", "sound", "frames"} -> {"end"}

StageStates == Working \ {"UPLOADING"}

Goes(state, list) ==
    /\ list = <<>> => Ahead(list) = "end"
    /\ list # <<>> => /\ Ahead(list) = Head(list) /\ Head(list) \in Items(state)
                      /\ Tail(list) \in Left(state) /\ Ahead(Tail(list)) \in Follow(Head(list))

LEMMA Lists ==
    ASSUME NEW state \in StageStates, NEW list \in Left(state)
    PROVE  Goes(state, list)
<1>1. CASE list = <<>>
  BY <1>1 DEF Goes, Ahead
<1>2. CASE state = "ENCODING"
  <2>1. ASSUME list = <<"check">> PROVE Goes("ENCODING", list)
    BY <2>1 DEF Left, Ahead, Items, Follow, Goes
  <2>2. ASSUME list = <<"video", "check">> PROVE Goes("ENCODING", list)
    BY <2>2 DEF Left, Ahead, Items, Follow, Goes
  <2>3. ASSUME list = <<"prepare", "video", "check">> PROVE Goes("ENCODING", list)
    BY <2>3 DEF Left, Ahead, Items, Follow, Goes
  <2>4. ASSUME list = <<"crf", "prepare", "video", "check">> PROVE Goes("ENCODING", list)
    BY <2>4 DEF Left, Ahead, Items, Follow, Goes
  <2>5. ASSUME list = <<"script", "crf", "prepare", "video", "check">> PROVE Goes("ENCODING", list)
    BY <2>5 DEF Left, Ahead, Items, Follow, Goes
  <2>6. ASSUME list = <<"script", "prepare", "video", "check">> PROVE Goes("ENCODING", list)
    BY <2>6 DEF Left, Ahead, Items, Follow, Goes
  <2>7. ASSUME list = <<"crop", "script", "crf", "prepare", "video", "check">> PROVE Goes("ENCODING", list)
    BY <2>7 DEF Left, Ahead, Items, Follow, Goes
  <2>8. ASSUME list = <<"crop", "script", "prepare", "video", "check">> PROVE Goes("ENCODING", list)
    BY <2>8 DEF Left, Ahead, Items, Follow, Goes
  <2>9. ASSUME list = <<"reference", "crop", "script", "crf", "prepare", "video", "check">> PROVE Goes("ENCODING", list)
    BY <2>9 DEF Left, Ahead, Items, Follow, Goes
  <2>10. ASSUME list = <<"reference", "crop", "script", "prepare", "video", "check">> PROVE Goes("ENCODING", list)
    BY <2>10 DEF Left, Ahead, Items, Follow, Goes
  <2> QED BY <1>1, <1>2, <2>1, <2>2, <2>3, <2>4, <2>5, <2>6, <2>7, <2>8, <2>9, <2>10 DEF Left
<1>3. CASE state = "MUXING"
  <2>1. ASSUME list = <<"tracks", "output">> PROVE Goes("MUXING", list)
    BY <2>1 DEF Left, Ahead, Items, Follow, Goes
  <2>2. ASSUME list = <<"output">> PROVE Goes("MUXING", list)
    BY <2>2 DEF Left, Ahead, Items, Follow, Goes
  <2> QED BY <1>1, <1>3, <2>1, <2>2 DEF Left
<1>4. CASE state \in {"QC", "COMPARISON"}
  BY <1>4 DEF Left, Ahead, Items, Follow, Goes
<1> QED BY <1>2, <1>3, <1>4 DEF StageStates, Working

LEMMA Bodies ==
    ASSUME job.state \in StageStates
    PROVE  /\ Body \in Left(job.state)
           /\ job.state = "ENCODING" => Ahead(Body) \in {"reference", "video"} /\ (Ahead(Body) = "video" => PreparationIsCurrent)
           /\ job.state = "MUXING" => Ahead(Body) = "tracks"
           /\ job.state = "QC" => Ahead(Body) = "sound"
           /\ job.state = "COMPARISON" => Ahead(Body) = "frames"
<1>1. CASE job.state = "ENCODING"
  BY <1>1 DEF Left, Body, Ahead
<1>2. CASE job.state = "MUXING"
  BY <1>2 DEF Left, Body, Ahead
<1>3. CASE job.state \in {"QC", "COMPARISON"}
  BY <1>3 DEF Left, Body, Ahead
<1> QED BY <1>1, <1>2, <1>3 DEF StageStates, Working

LEMMA NextStage ==
    /\ Stages[Index("ENCODING") + 1] = "MUXING" /\ Stages[Index("MUXING") + 1] = "QC"
    /\ Stages[Index("QC") + 1] = "COMPARISON" /\ Stages[Index("COMPARISON") + 1] = "UPLOADING"
  BY DEF Index, Stages

-----------------------------------------------------------------------------
(* The inductive invariant                                                   *)

Marked == Artifact \cup {"prepare", "integrity"}

TypedJob ==
    /\ job \in [state : States, resume : Working \cup {""}, sel : Selections,
               why : {"", "stale", "source", "gate", "changed", "uploads", "taken"}]
    /\ job.state = "NEEDS_REVIEW" => job.resume \in Working

TypedFiles ==
    /\ \E S : made \in Seq(S)
    /\ disk \in [Artifact -> 0..Len(made)]
    /\ DOMAIN mark = Marked
    /\ \A a \in Marked : DOMAIN mark[a] = {"inputs", "out"} /\ mark[a].out \in 0..Len(made)
    /\ DOMAIN logs = {"disc", "corrupt"} /\ logs.corrupt \in BOOLEAN

TypedRemote ==
    /\ DOMAIN uploads = {"kind", "host", "images", "picture"}
    /\ DOMAIN hand = {"lock", "hosts", "image", "pins"}
    /\ DOMAIN releases = {s.name : s \in Selections}
    /\ \A n \in DOMAIN releases : DOMAIN releases[n] = {"owner", "output", "sound", "frames"}

Typed == TypedJob /\ TypedFiles /\ TypedRemote

Doing(state) == job.state = state /\ step \in StageSteps

\* Where steps are taken, and when the source check runs.
Placed ==
    /\ step \in {"idle"} \cup StageSteps \cup UploadSteps
    /\ step \in StageSteps => job.state \in StageStates /\ todo \in Left(job.state)
    /\ step \in {"tool", "made"} => Ahead(todo) \in Artifact
    /\ step \in UploadSteps => job.state = "UPLOADING"
    /\ check \in {"off", "running", "passed", "review", "error"}
    /\ check # "off" => /\ Doing("ENCODING")
                        /\ Ahead(todo) \in {"check", "end"} \/ (Ahead(todo) = "video" /\ step # "look")

Made(d) == made[d].from

\* What a marker says of the content it is of; a content that was written after
\* its own marker is only said to be none.
MarksAreTrue ==
    /\ \A a \in {"reference", "script", "tracks", "output", "sound"} :
         mark[a].out # 0 => Made(mark[a].out) = mark[a].inputs
    /\ mark["video"].out # 0 =>
         /\ Made(mark["video"].out) = <<Made(mark["video"].out)[1], mark["video"].inputs[2],
                                        mark["video"].inputs[3], mark["video"].inputs[4]>>
         /\ mark["video"].inputs[1] \in {0, Made(mark["video"].out)[1]}
    /\ mark["frames"].out # 0 => mark["frames"].inputs[2] \in {0, Made(mark["frames"].out)[2]}

\* What the preparation certified was made that way, and a reference that comes
\* back is the one that was checkpointed.
PrepIsTrue ==
    mark["prepare"].inputs # <<>> =>
      /\ mark["prepare"].inputs[2] \in 1..Len(made)
      /\ Made(mark["prepare"].inputs[2]) = <<mark["prepare"].inputs[1].disc>>
      /\ mark["prepare"].inputs[3] \in 1..Len(made)
      /\ Made(mark["prepare"].inputs[3]) = <<mark["prepare"].inputs[2], mark["prepare"].inputs[1].crop>>
      /\ disk["reference"] = mark["prepare"].inputs[2] => mark["reference"].out = disk["reference"]

ReferenceReady ==
    /\ disk["reference"] # 0 /\ mark["reference"].out = disk["reference"]
    /\ Made(disk["reference"]) = <<job.sel.disc>>

ScriptReady == disk["script"] # 0 /\ Made(disk["script"]) = <<disk["reference"], job.sel.crop>>

SearchReady == job.sel.auto => disk["crf"] # 0 /\ Made(disk["crf"])[3] = job.sel

VideoReady ==
    /\ disk["video"] # 0
    /\ Made(disk["video"]) = <<disk["reference"], disk["script"], job.sel.picture,
                               IF job.sel.auto THEN <<disk["crf"]>> ELSE <<>> >>

SourceSound == mark["integrity"].inputs = <<disk["reference"]>> /\ ~logs.corrupt

TracksReady == disk["tracks"] # 0 /\ Made(disk["tracks"]) = <<disk["reference"], job.sel.tracks>>

OutputReady ==
    /\ mark["output"].out # 0 /\ disk["output"] \in {0, mark["output"].out}
    /\ Made(mark["output"].out) = <<disk["video"], disk["tracks"], job.sel.name>>

EvidenceReady(a) ==
    /\ mark[a].out # 0 /\ disk[a] \in {0, mark[a].out}
    /\ Made(mark[a].out)[2] = mark["output"].out

\* The stage a job is in, or goes on with.
StageOf(j) == IF j.state = "NEEDS_REVIEW" THEN j.resume
              ELSE IF j.state = "UPLOAD_FAILED" THEN "UPLOADING" ELSE j.state

\* What holds from a stage on.
Certified(stage) ==
    /\ stage \in {"MUXING", "QC", "COMPARISON", "UPLOADING", "COMPLETED"} =>
         ReferenceReady /\ ScriptReady /\ SearchReady /\ VideoReady /\ SourceSound
    /\ stage \in {"QC", "COMPARISON", "UPLOADING", "COMPLETED"} => TracksReady /\ OutputReady
    /\ stage \in {"QC", "COMPARISON"} => disk["output"] # 0
    /\ stage \in {"COMPARISON", "UPLOADING", "COMPLETED"} => EvidenceReady("sound")
    /\ stage \in {"UPLOADING", "COMPLETED"} => EvidenceReady("frames")

\* What a stage has done so far.
BodyIsTrue ==
    /\ Doing("ENCODING") =>
         /\ Ahead(todo) # "reference" => ReferenceReady
         /\ Ahead(todo) \notin {"reference", "crop", "script"} => ScriptReady
         /\ Ahead(todo) = "video" /\ step # "look" => SearchReady
         /\ Ahead(todo) \in {"check", "end"} => SearchReady /\ VideoReady
         /\ Ahead(todo) = "end" => check = "passed"
    /\ check = "passed" => SourceSound
    /\ Doing("MUXING") => /\ Ahead(todo) # "tracks" => TracksReady
                          /\ Ahead(todo) = "end" => OutputReady /\ disk["output"] # 0
    /\ Doing("QC") /\ Ahead(todo) = "end" => EvidenceReady("sound")
    /\ Doing("COMPARISON") /\ Ahead(todo) = "end" => EvidenceReady("frames")
    /\ step = "made" => disk[Ahead(todo)] # 0 /\ Made(disk[Ahead(todo)]) = Reads(Ahead(todo))

Work == Typed /\ Placed /\ MarksAreTrue /\ PrepIsTrue /\ Certified(StageOf(job)) /\ BodyIsTrue

PublicationIsTrue ==
    /\ step \in UploadSteps => hand.pins = <<mark["output"].out, mark["sound"].out, mark["frames"].out>>
    /\ step \in {"sidecars", "complete"} => releases[job.sel.name].output = hand.pins[1]
    /\ step = "complete" => /\ releases[job.sel.name].sound = hand.pins[2]
                            /\ releases[job.sel.name].frames = hand.pins[3]
    /\ step \in PublishSteps /\ job.sel.host # "none" =>
         uploads.images = Images /\ uploads.picture = Picture(hand.pins[3])
    /\ job.state = "COMPLETED" =>
         /\ releases[job.sel.name].output = mark["output"].out
         /\ releases[job.sel.name].sound = mark["sound"].out
         /\ releases[job.sel.name].frames = mark["frames"].out
         /\ job.sel.host # "none" => uploads.images = Images /\ uploads.picture = Picture(mark["frames"].out)

\* One host for all images, and uploads.json tells which.
OneHost ==
    /\ uploads.kind \in {"none", "open", "skipped"} /\ uploads.images \subseteq Images
    /\ uploads.host \in HostSet \cup {NoHost}
    /\ uploads.kind # "open" => uploads.images = {}
    /\ \A p, q \in posted : p[1] = q[1]
    /\ uploads.kind # "skipped" /\ posted # {} =>
         uploads.kind = "open" /\ uploads.host # NoHost /\ \A p \in posted : p[1] = uploads.host
    /\ \A i \in uploads.images : <<uploads.host, i, uploads.picture>> \in posted

\* What the upload stage holds in memory.
UploadIsTrue ==
    /\ step \in {"host"} \cup SendSteps /\ uploads.images # {} => uploads.picture = Picture(hand.pins[3])
    /\ step = "host" /\ uploads.kind = "skipped" => job.sel.host = "none"
    /\ step \in SendSteps => uploads.kind # "skipped" /\ job.sel.host # "none"
    /\ step \in {"host", "pin", "send"} =>
         /\ hand.lock = NoHost => posted = {} \/ uploads.kind = "skipped"
         /\ hand.lock # NoHost => uploads.kind = "open" /\ uploads.host = hand.lock
    /\ step \in SendSteps => /\ hand.hosts \in Seq(HostSet) /\ hand.hosts # <<>>
                             /\ hand.lock # NoHost => Head(hand.hosts) = hand.lock
    /\ step \in {"send", "sent"} => uploads.kind = "open" /\ uploads.host = Head(hand.hosts)
    /\ step = "sent" => hand.image \in Images /\ <<Head(hand.hosts), hand.image, Picture(hand.pins[3])>> \in posted

PipelineInv == Work /\ PublicationIsTrue /\ OneHost /\ UploadIsTrue
-----------------------------------------------------------------------------
(* What steps of one kind keep                                               *)

\* Facts about files hold as long as the files and the selection do.
LEMMA FactsKept ==
    ASSUME UNCHANGED files, job'.sel = job.sel
    PROVE  /\ ReferenceReady' <=> ReferenceReady
           /\ ScriptReady' <=> ScriptReady
           /\ SearchReady' <=> SearchReady
           /\ VideoReady' <=> VideoReady
           /\ TracksReady' <=> TracksReady
           /\ OutputReady' <=> OutputReady
           /\ EvidenceReady("sound")' <=> EvidenceReady("sound")
           /\ EvidenceReady("frames")' <=> EvidenceReady("frames")
           /\ logs' = logs => (SourceSound' <=> SourceSound)
  BY DEF files, ReferenceReady, ScriptReady, SearchReady, VideoReady, TracksReady,
         OutputReady, EvidenceReady, SourceSound, Made

LEMMA MarksKept ==
    ASSUME UNCHANGED files, MarksAreTrue, PrepIsTrue
    PROVE  MarksAreTrue' /\ PrepIsTrue'
  BY DEF files, MarksAreTrue, PrepIsTrue, Made

LEMMA CertifiedKept ==
    ASSUME UNCHANGED <<files, logs>>, job'.sel = job.sel, StageOf(job') = StageOf(job),
           Certified(StageOf(job))
    PROVE  Certified(StageOf(job))'
  BY FactsKept DEF Certified, StageOf, files

LEMMA TypesKept ==
    ASSUME UNCHANGED files, logs' = logs
    PROVE  TypedFiles => TypedFiles'
  BY DEF TypedFiles, files

LEMMA HostKept ==
    ASSUME UNCHANGED <<uploads, posted>>, OneHost
    PROVE  OneHost'
  BY DEF OneHost

\* A step after which no stage runs.
LEMMA Idle ==
    ASSUME step' = "idle", check' = "off", job'.state # "COMPLETED",
           Typed', MarksAreTrue', PrepIsTrue', Certified(StageOf(job))', OneHost'
    PROVE  PipelineInv'
<1>1. Placed'
  BY DEF Placed, StageSteps, UploadSteps, SendSteps, PublishSteps
<1>2. BodyIsTrue'
  BY DEF BodyIsTrue, Doing, StageSteps
<1>3. PublicationIsTrue' /\ UploadIsTrue'
  BY DEF PublicationIsTrue, UploadIsTrue, UploadSteps, SendSteps, PublishSteps
<1> QED BY <1>1, <1>2, <1>3 DEF PipelineInv, Work

\* A step of a stage that produces, not of the upload.
LEMMA Within ==
    ASSUME step' \in StageSteps, job'.state # "COMPLETED", Work', OneHost'
    PROVE  PipelineInv'
<1>1. PublicationIsTrue' /\ UploadIsTrue'
  BY DEF PublicationIsTrue, UploadIsTrue, StageSteps, UploadSteps, SendSteps, PublishSteps
<1> QED BY <1>1 DEF PipelineInv

\* The fields of a job that goes elsewhere.
LEMMA JobMoves ==
    ASSUME Typed, NEW t \in States, Goto(t)
    PROVE  /\ t # "NEEDS_REVIEW" => TypedJob'
           /\ job'.state = t /\ job'.sel = job.sel /\ job'.resume = job.resume
  BY DEF Typed, TypedJob, Goto

LEMMA JobReviewed ==
    ASSUME Typed, job.state \in Working,
           NEW w \in {"stale", "source", "gate", "changed", "uploads", "taken"}, Review(w)
    PROVE  /\ TypedJob'
           /\ job'.state = "NEEDS_REVIEW" /\ job'.sel = job.sel /\ job'.resume = job.state
           /\ StageOf(job') = StageOf(job)
           /\ step' = "idle" /\ check' = "off" /\ hand' = NoHand
<1>1. "NEEDS_REVIEW" \in States /\ "NEEDS_REVIEW" \notin Working
  BY DEF States, Working
<1>2. step' = "idle" /\ check' = "off" /\ hand' = NoHand
  BY DEF Review, Rest
<1>3. job.state # "NEEDS_REVIEW" /\ job.state # "UPLOAD_FAILED"
  BY DEF Working
<1> QED BY <1>1, <1>2, <1>3 DEF Typed, TypedJob, Review, StageOf

LEMMA EmptyHand ==
    ASSUME TypedRemote, hand' = NoHand, UNCHANGED <<uploads, releases>>
    PROVE  TypedRemote'
  BY DEF TypedRemote, NoHand

\* The stage is reviewed, and its files stay as they are.
LEMMA Reviewed ==
    ASSUME PipelineInv, job.state \in Working,
           NEW w \in {"stale", "source", "gate", "changed", "uploads", "taken"}, Review(w),
           UNCHANGED <<files, logs, uploads, posted, releases>>
    PROVE  PipelineInv'
<1>1. /\ Typed /\ MarksAreTrue /\ PrepIsTrue /\ Certified(StageOf(job)) /\ OneHost
  BY DEF PipelineInv, Work
<1>2. Typed'
  BY <1>1, JobReviewed, TypesKept, EmptyHand DEF Typed
<1>3. MarksAreTrue' /\ PrepIsTrue'
  BY <1>1, MarksKept
<1>4. Certified(StageOf(job))'
  BY <1>1, JobReviewed, CertifiedKept
<1>5. OneHost'
  BY <1>1, HostKept
<1> QED BY <1>1, <1>2, <1>3, <1>4, <1>5, JobReviewed, Idle

-----------------------------------------------------------------------------
(* A stage begins, or does not                                               *)

LEMMA BeginGoes ==
    ASSUME PipelineInv, job.state \in StageStates, step = "idle",
           todo' = Body, step' = "look",
           UNCHANGED <<job, check, hand, files, logs, uploads, posted, releases>>
    PROVE  PipelineInv'
<1>1. /\ Typed /\ Placed /\ MarksAreTrue /\ PrepIsTrue /\ Certified(StageOf(job)) /\ OneHost
  BY DEF PipelineInv, Work
<1>2. check = "off"
  BY <1>1 DEF Placed, Doing, StageSteps
<1>3. Typed'
  BY <1>1, TypesKept DEF Typed, TypedJob, TypedRemote
<1>4. Placed'
  BY <1>2, Bodies DEF Placed, StageSteps, UploadSteps, SendSteps, PublishSteps
<1>5. MarksAreTrue' /\ PrepIsTrue' /\ OneHost'
  BY <1>1, MarksKept, HostKept
<1>6. Certified(StageOf(job))'
  BY <1>1, CertifiedKept
<1>7. ASSUME PreparationIsCurrent PROVE ReferenceReady /\ ScriptReady
  <2>1. /\ mark["prepare"].inputs = <<sel, disk["reference"], disk["script"],
                                      IF sel.auto THEN <<disk["crf"]>> ELSE <<>> >>
        /\ mark["prepare"].inputs # <<>>
    BY <1>7 DEF PreparationIsCurrent, Prepared
  <2>2. /\ disk["reference"] \in 1..Len(made)
        /\ Made(disk["reference"]) = <<sel.disc>>
        /\ disk["script"] \in 1..Len(made)
        /\ Made(disk["script"]) = <<disk["reference"], sel.crop>>
        /\ mark["reference"].out = disk["reference"]
    BY <1>1, <2>1 DEF PrepIsTrue
  <2> QED BY <2>2 DEF ReferenceReady, ScriptReady, sel
<1>8. BodyIsTrue'
  <2>1. Ahead(todo)' = Ahead(Body)
    BY DEF Ahead
  <2>2. job.state = "ENCODING" =>
          /\ Ahead(todo)' \in {"reference", "video"}
          /\ Ahead(todo)' = "video" => ReferenceReady' /\ ScriptReady'
    BY <1>7, <2>1, Bodies, FactsKept
  <2> QED BY <1>2, <2>1, <2>2, Bodies DEF BodyIsTrue, Doing
<1>9. Work'
  BY <1>3, <1>4, <1>5, <1>6, <1>8 DEF Work
<1>10. job'.state # "COMPLETED" /\ step' \in StageSteps
  BY DEF StageStates, Working, StageSteps
<1> QED BY <1>5, <1>9, <1>10, Within

LEMMA BeginHolds == ASSUME PipelineInv, Begin PROVE PipelineInv'
<1>1. job.state \in StageStates /\ step = "idle" /\ job.state \in Working
  BY DEF Begin, StageStates
<1>2. CASE job.state = "ENCODING" \/ LoadPrepared
  BY <1>1, <1>2, BeginGoes DEF Begin
<1>3. CASE ~(job.state = "ENCODING" \/ LoadPrepared)
  <2>1. Review("stale")
    BY <1>3 DEF Begin
  <2> QED BY <1>1, <2>1, Reviewed DEF Begin
<1> QED BY <1>2, <1>3

LEMMA RefuseHolds == ASSUME PipelineInv, Refuse PROVE PipelineInv'
<1>1. job.state \in Working
  BY DEF PipelineInv, Work, Placed, Refuse, StageSteps, StageStates
<1>2. Review("source") \/ Review("stale")
  BY DEF Refuse
<1> QED BY <1>1, <1>2, Reviewed DEF Refuse

LEMMA GateFailsHolds == ASSUME PipelineInv, GateFails PROVE PipelineInv'
<1>1. job.state \in Working
  BY DEF PipelineInv, Work, Placed, GateFails, StageSteps, StageStates
<1> QED BY <1>1, Reviewed DEF GateFails

LEMMA AdvanceHolds == ASSUME PipelineInv, Advance PROVE PipelineInv'
<1> DEFINE next == Stages[Index(job.state) + 1]
<1>1. /\ Typed /\ Placed /\ MarksAreTrue /\ PrepIsTrue /\ Certified(StageOf(job)) /\ OneHost /\ BodyIsTrue
  BY DEF PipelineInv, Work
<1>2. job.state \in StageStates /\ step = "look" /\ Ahead(todo) = "end" /\ Doing(job.state)
  BY <1>1 DEF Advance, Placed, StageSteps, Ahead, Doing
<1>3. /\ Goto(next)
      /\ step' = "idle" /\ check' = "off" /\ hand' = NoHand
      /\ UNCHANGED <<files, logs, uploads, posted, releases>>
  BY DEF Advance, Rest
<1>4. /\ job.state = "ENCODING" => next = "MUXING"
      /\ job.state = "MUXING" => next = "QC"
      /\ job.state = "QC" => next = "COMPARISON"
      /\ job.state = "COMPARISON" => next = "UPLOADING"
  BY NextStage
<1> HIDE DEF next
<1>5. next \in Working /\ next \in States /\ next \notin {"NEEDS_REVIEW", "UPLOAD_FAILED", "COMPLETED"}
  BY <1>2, <1>4 DEF StageStates, Working, States
<1>6. TypedJob' /\ job'.state = next /\ job'.sel = job.sel
  BY <1>1, <1>3, <1>5, JobMoves
<1>7. Typed'
  BY <1>1, <1>3, <1>6, TypesKept, EmptyHand DEF Typed
<1>8. MarksAreTrue' /\ PrepIsTrue' /\ OneHost'
  BY <1>1, <1>3, MarksKept, HostKept
<1>9. Certified(next)
  <2>1. StageOf(job) = job.state
    BY <1>2 DEF StageOf, StageStates, Working
  <2>2. CASE job.state = "ENCODING"
    <3>1. ReferenceReady /\ ScriptReady /\ SearchReady /\ VideoReady /\ SourceSound
      BY <1>1, <1>2, <2>2 DEF BodyIsTrue
    <3> QED BY <1>4, <2>2, <3>1 DEF Certified
  <2>3. CASE job.state = "MUXING"
    <3>1. TracksReady /\ OutputReady /\ disk["output"] # 0
      BY <1>1, <1>2, <2>3 DEF BodyIsTrue
    <3> QED BY <1>1, <1>4, <2>1, <2>3, <3>1 DEF Certified
  <2>4. CASE job.state = "QC"
    <3>1. EvidenceReady("sound")
      BY <1>1, <1>2, <2>4 DEF BodyIsTrue
    <3> QED BY <1>1, <1>4, <2>1, <2>4, <3>1 DEF Certified
  <2>5. CASE job.state = "COMPARISON"
    <3>1. EvidenceReady("frames")
      BY <1>1, <1>2, <2>5 DEF BodyIsTrue
    <3> QED BY <1>1, <1>4, <2>1, <2>5, <3>1 DEF Certified
  <2> QED BY <1>2, <2>2, <2>3, <2>4, <2>5 DEF StageStates, Working
<1>10. Certified(StageOf(job))'
  <2>1. StageOf(job)' = next
    BY <1>5, <1>6 DEF StageOf
  <2> QED BY <1>3, <1>6, <1>9, <2>1, FactsKept DEF Certified, files
<1> QED BY <1>3, <1>5, <1>6, <1>7, <1>8, <1>10, Idle

-----------------------------------------------------------------------------
(* What a stage has made so far                                              *)

\* What holds once an artifact is reused or checkpointed.
Gained(a) ==
    /\ a = "reference" => ReferenceReady
    /\ a = "script" => ScriptReady
    /\ a = "video" => SearchReady /\ VideoReady
    /\ a = "tracks" => TracksReady
    /\ a = "output" => OutputReady /\ disk["output"] # 0
    /\ a \in {"sound", "frames"} => EvidenceReady(a)

\* The stage is at an artifact.
AtArtifact(a) == step \in StageSteps /\ todo # <<>> /\ Head(todo) = a /\ a \in Artifact

\* Where the stage goes from there.
LEMMA Whereabouts ==
    ASSUME Placed, NEW a, AtArtifact(a)
    PROVE  /\ job.state \in StageStates /\ Doing(job.state) /\ Ahead(todo) = a
           /\ a \in Items(job.state)
           /\ Tail(todo) \in Left(job.state) /\ Ahead(Tail(todo)) \in Follow(a)
<1>1. job.state \in StageStates /\ todo \in Left(job.state)
  BY DEF Placed, AtArtifact
<1>2. Goes(job.state, todo)
  BY <1>1, Lists
<1> QED BY <1>1, <1>2 DEF Goes, AtArtifact, Doing

LEMMA Passes ==
    ASSUME Placed, BodyIsTrue, NEW a, AtArtifact(a), step' = "look", todo' = Tail(todo),
           UNCHANGED <<job, disk, made, check>>,
           step = "look" \/ step = "made",
           Gained(a)',
           ReferenceReady => ReferenceReady', ScriptReady => ScriptReady',
           TracksReady => TracksReady', SourceSound => SourceSound' \/ check = "off"
    PROVE  Placed' /\ BodyIsTrue'
<1>1. /\ job.state \in StageStates /\ Doing(job.state) /\ Ahead(todo) = a
      /\ a \in Items(job.state)
      /\ Tail(todo) \in Left(job.state) /\ Ahead(Tail(todo)) \in Follow(a)
  BY Whereabouts
<1>2. Ahead(todo)' = Ahead(Tail(todo))
  BY DEF Ahead
<1>3. a \in Artifact /\ a \notin {"check", "prepare", "end"}
  BY DEF AtArtifact, Artifact
<1>4. check # "off" => job.state = "ENCODING" /\ a = "video"
  BY <1>1, <1>3 DEF Placed, Doing
<1>5. Placed'
  <2>1. check # "off" => Ahead(todo)' = "check"
    BY <1>1, <1>2, <1>4 DEF Follow
  <2> QED BY <1>1, <1>2, <1>4, <2>1 DEF Placed, Doing, StageSteps, UploadSteps, SendSteps, PublishSteps
<1>6. BodyIsTrue'
  <2>1. CASE job.state = "ENCODING"
    <3>1. Ahead(todo)' # "reference" => ReferenceReady'
      BY <1>1, <2>1 DEF BodyIsTrue, Gained
    <3>2. Ahead(todo)' \notin {"reference", "crop", "script"} => ScriptReady'
      <4>1. a \notin {"reference", "crop"} \/ Ahead(todo)' \in {"crop", "script"}
        BY <1>1, <1>2 DEF Follow
      <4> QED BY <1>1, <2>1, <4>1 DEF BodyIsTrue, Gained
    <3>3. Ahead(todo)' # "end" /\ (Ahead(todo)' = "check" => a = "video")
      BY <1>1, <1>2, <1>3, <2>1 DEF Follow, Items
    <3>4. check = "passed" => SourceSound'
      BY DEF BodyIsTrue
    <3>5. ~Doing("MUXING")' /\ ~Doing("QC")' /\ ~Doing("COMPARISON")' /\ step' # "made"
      BY <2>1 DEF Doing
    <3> HIDE DEF Doing
    <3> QED BY <3>1, <3>2, <3>3, <3>4, <3>5 DEF BodyIsTrue, Gained
  <2>2. CASE job.state = "MUXING"
    <3>1. Ahead(todo)' # "tracks" => TracksReady'
      BY <1>1, <2>2 DEF BodyIsTrue, Gained
    <3>2. Ahead(todo)' = "end" => OutputReady' /\ (disk["output"] # 0)'
      BY <1>1, <1>2, <1>3, <2>2 DEF Gained, Follow, Items
    <3>3. ~Doing("ENCODING")' /\ ~Doing("QC")' /\ ~Doing("COMPARISON")' /\ step' # "made"
      BY <2>2 DEF Doing
    <3>4. check' = "off"
      BY <1>4, <2>2 DEF Placed
    <3> QED BY <3>1, <3>2, <3>3, <3>4 DEF BodyIsTrue
  <2>3. CASE job.state = "QC"
    <3>1. EvidenceReady("sound")'
      BY <1>1, <2>3 DEF Items, Gained
    <3>2. ~Doing("ENCODING")' /\ ~Doing("MUXING")' /\ ~Doing("COMPARISON")' /\ step' # "made"
      BY <2>3 DEF Doing
    <3>3. check' = "off"
      BY <1>4, <2>3 DEF Placed
    <3> QED BY <3>1, <3>2, <3>3 DEF BodyIsTrue
  <2>4. CASE job.state = "COMPARISON"
    <3>1. EvidenceReady("frames")'
      BY <1>1, <2>4 DEF Items, Gained
    <3>2. ~Doing("ENCODING")' /\ ~Doing("MUXING")' /\ ~Doing("QC")' /\ step' # "made"
      BY <2>4 DEF Doing
    <3>3. check' = "off"
      BY <1>4, <2>4 DEF Placed
    <3> QED BY <3>1, <3>2, <3>3 DEF BodyIsTrue
  <2> QED BY <1>1, <2>1, <2>2, <2>3, <2>4 DEF StageStates, Working
<1> QED BY <1>5, <1>6

\* An artifact whose marker vouches for it is what it should be.
LEMMA MarkerVouches ==
    ASSUME Work, NEW a, AtArtifact(a), step = "look", ~Obstacle, ValidStage(a)
    PROVE  Gained(a)
<1>1. /\ job.state \in StageStates /\ Doing(job.state) /\ Ahead(todo) = a /\ a \in Items(job.state)
  BY Whereabouts DEF Work
<1>2. disk[a] # 0 /\ mark[a].inputs = Inputs(a) /\ mark[a].out = disk[a]
  BY DEF ValidStage
<1>3. StageOf(job) = job.state
  BY <1>1 DEF StageOf, StageStates, Working
<1>4. CASE a \in {"reference", "script", "tracks", "output"}
  <2>1. Made(disk[a]) = Inputs(a)
    BY <1>2, <1>4 DEF Work, MarksAreTrue
  <2>2. CASE a = "reference"
    BY <1>2, <2>1, <2>2 DEF Inputs, PrepareInputs, Reads, Gained, ReferenceReady, sel
  <2>3. CASE a = "script"
    BY <1>2, <2>1, <2>3 DEF Inputs, PrepareInputs, Reads, Gained, ScriptReady, sel
  <2>4. CASE a = "tracks"
    BY <1>2, <2>1, <2>4 DEF Inputs, MuxInputs, Reads, Gained, TracksReady, sel
  <2>5. CASE a = "output"
    BY <1>2, <2>1, <2>5 DEF Inputs, MuxInputs, Reads, Gained, OutputReady, sel
  <2> QED BY <1>4, <2>2, <2>3, <2>4, <2>5
<1>5. CASE a = "video"
  <2>1. job.state = "ENCODING"
    BY <1>1, <1>5 DEF Items, StageStates, Working
  <2>2. ReferenceReady /\ ScriptReady
    BY <1>1, <1>5, <2>1 DEF Work, BodyIsTrue
  <2>3. LoadPrepared
    BY <1>5 DEF Obstacle, At, AtArtifact
  <2>4. SearchReady
    BY <2>3 DEF LoadPrepared, SearchReady, Made, sel
  <2>5. Inputs(a) = VideoInputs
    BY <1>5 DEF Inputs
  <2>6. RecordedOutput("reference") = disk["reference"] /\ disk["reference"] # 0
    BY <2>2 DEF ReferenceReady, RecordedOutput
  <2>7. /\ mark["video"].inputs[1] = disk["reference"] /\ mark["video"].inputs[2] = disk["script"]
        /\ mark["video"].inputs[3] = job.sel.picture
        /\ mark["video"].inputs[4] = IF job.sel.auto THEN <<disk["crf"]>> ELSE <<>>
    BY <1>2, <1>5, <2>5, <2>6 DEF VideoInputs, sel
  <2>8. VideoReady
    BY <1>2, <1>5, <2>6, <2>7 DEF Work, MarksAreTrue, VideoReady
  <2> QED BY <1>5, <2>4, <2>8 DEF Gained
<1>6. CASE a = "sound"
  <2>1. job.state = "QC"
    BY <1>1, <1>6 DEF Items, StageStates, Working
  <2>2. OutputReady /\ disk["output"] # 0
    BY <1>3, <2>1 DEF Work, Certified
  <2>3. Made(mark["sound"].out) = mark["sound"].inputs /\ mark["sound"].inputs = AudioInputs
    BY <1>2, <1>6 DEF Work, MarksAreTrue, Inputs
  <2>4. Made(mark["sound"].out)[2] = mark["output"].out
    BY <2>2, <2>3 DEF AudioInputs, OutputReady
  <2> QED BY <1>2, <1>6, <2>4 DEF Gained, EvidenceReady
<1>7. CASE a = "frames"
  <2>1. job.state = "COMPARISON"
    BY <1>1, <1>7 DEF Items, StageStates, Working
  <2>2. OutputReady /\ disk["output"] # 0
    BY <1>3, <2>1 DEF Work, Certified
  <2>3. mark["frames"].inputs[2] \in {0, Made(mark["frames"].out)[2]} /\ mark["frames"].inputs = ComparisonInputs
    BY <1>2, <1>7 DEF Work, MarksAreTrue, Inputs
  <2>4. Made(mark["frames"].out)[2] = mark["output"].out
    BY <2>2, <2>3 DEF ComparisonInputs, OutputReady, RecordedOutput
  <2> QED BY <1>2, <1>7, <2>4 DEF Gained, EvidenceReady
<1>8. CASE a \in {"crop", "crf"}
  BY <1>8 DEF Gained
<1> QED BY <1>4, <1>5, <1>6, <1>7, <1>8 DEF AtArtifact, Artifact

\* The logs change only where no fact is about them.
LEMMA LogsOfStage ==
    ASSUME Placed, TypedFiles, SourceLogs, step \in StageSteps
    PROVE  /\ DOMAIN logs' = {"disc", "corrupt"} /\ logs'.corrupt \in BOOLEAN
           /\ logs' = logs \/ (At("reference") /\ job.state = "ENCODING")
<1>1. ASSUME At("reference") PROVE job.state = "ENCODING"
  <2>1. AtArtifact("reference")
    BY <1>1 DEF At, AtArtifact, Artifact
  <2>2. job.state \in StageStates /\ "reference" \in Items(job.state)
    BY <2>1, Whereabouts
  <2> QED BY <2>2 DEF Items, StageStates, Working
<1>2. CASE At("reference") /\ logs.disc # sel.disc
  <2>1. logs' = [disc |-> sel.disc, corrupt |-> FALSE]
    BY <1>2 DEF SourceLogs
  <2>2. DOMAIN logs' = {"disc", "corrupt"} /\ logs'.corrupt = FALSE
    BY <2>1
  <2> QED BY <1>1, <1>2, <2>2
<1>3. CASE ~(At("reference") /\ logs.disc # sel.disc)
  BY <1>3 DEF SourceLogs, TypedFiles
<1> QED BY <1>2, <1>3

LEMMA ReuseHolds == ASSUME PipelineInv, Reuse PROVE PipelineInv'
<1> PICK a : a = Head(todo)
  OBVIOUS
<1>1. /\ Work /\ Typed /\ Placed /\ MarksAreTrue /\ PrepIsTrue /\ Certified(StageOf(job))
      /\ OneHost /\ BodyIsTrue /\ TypedFiles
  BY DEF PipelineInv, Work, Typed
<1>2. AtArtifact(a) /\ step = "look" /\ step \in StageSteps /\ ~Obstacle /\ ValidStage(a)
  BY DEF Reuse, AtArtifact, StageSteps
<1>3. /\ todo' = Tail(todo) /\ SourceLogs /\ step' = "look"
      /\ UNCHANGED <<job, files, check, remote>>
      /\ UNCHANGED <<disk, mark, made, uploads, posted, hand, releases>>
  BY DEF Reuse, files, remote
<1>4. /\ DOMAIN logs' = {"disc", "corrupt"} /\ logs'.corrupt \in BOOLEAN
      /\ logs' = logs \/ (a = "reference" /\ job.state = "ENCODING")
  BY <1>1, <1>2, <1>3, LogsOfStage DEF At
<1>5. Gained(a)'
  <2>1. Gained(a)
    BY <1>1, <1>2, MarkerVouches
  <2> QED BY <1>3, <2>1, FactsKept DEF Gained, EvidenceReady, Made
<1>6. Typed'
  BY <1>1, <1>3, <1>4 DEF Typed, TypedJob, TypedFiles, TypedRemote
<1>7. MarksAreTrue' /\ PrepIsTrue' /\ OneHost'
  BY <1>1, <1>3, MarksKept, HostKept
<1>8. Certified(StageOf(job))'
  <2>1. CASE logs' = logs
    BY <1>1, <1>3, <2>1, CertifiedKept
  <2>2. CASE job.state = "ENCODING"
    BY <1>3, <2>2 DEF Certified, StageOf
  <2> QED BY <1>4, <2>1, <2>2
<1>9. Placed' /\ BodyIsTrue'
  <2>1. /\ ReferenceReady => ReferenceReady'
        /\ ScriptReady => ScriptReady'
        /\ TracksReady => TracksReady'
    BY <1>3, FactsKept
  <2>2. check # "off" => a # "reference"
    <3>1. Ahead(todo) = a
      BY <1>1, <1>2, Whereabouts
    <3> QED BY <1>1, <3>1 DEF Placed
  <2>3. SourceSound => SourceSound' \/ check = "off"
    BY <1>3, <1>4, <2>2 DEF SourceSound
  <2> QED BY <1>1, <1>2, <1>3, <1>5, <2>1, <2>3, Passes
<1>10. Work'
  BY <1>6, <1>7, <1>8, <1>9 DEF Work
<1>11. job'.state # "COMPLETED" /\ step' \in StageSteps
  BY <1>1, <1>2, <1>3 DEF Placed, StageStates, Working, StageSteps
<1> QED BY <1>7, <1>10, <1>11, Within

-----------------------------------------------------------------------------
(* A tool writes an artifact                                                 *)

\* What was made stays made.
StillMade == \A d \in 1..Len(made) : made'[d] = made[d]

\* Only one file changes.
OnlyFile(a) == \A b \in Artifact : b # a => disk'[b] = disk[b]

LEMMA MadeStays ==
    ASSUME StillMade, NEW d \in 0..Len(made), d # 0, \E S : made \in Seq(S)
    PROVE  Made(d)' = Made(d)
<1>1. d \in 1..Len(made)
  OBVIOUS
<1> QED BY <1>1 DEF StillMade, Made

LEMMA MarksStay ==
    ASSUME Typed, MarksAreTrue, PrepIsTrue, StillMade, mark' = mark,
           disk'["reference"] = disk["reference"] \/ disk'["reference"] \notin 1..Len(made),
           \E S : made' \in Seq(S), Len(made) <= Len(made')
    PROVE  MarksAreTrue' /\ PrepIsTrue'
<1>1. \A b \in Marked : mark[b].out \in 0..Len(made)
  BY DEF Typed, TypedFiles
<1>2. \E S : made \in Seq(S)
  BY DEF Typed, TypedFiles
<1>3. \A d \in 0..Len(made) : d # 0 => Made(d)' = Made(d)
  BY <1>2, MadeStays
<1>4. ASSUME NEW b \in {"reference", "script", "tracks", "output", "sound", "video", "frames"},
             mark[b].out # 0
      PROVE  Made(mark[b].out)' = Made(mark[b].out)
  <2>1. b \in Marked
    BY DEF Marked, Artifact
  <2> QED BY <1>1, <1>3, <1>4, <2>1 DEF Made
<1>5. MarksAreTrue'
  <2>1. \A b \in {"reference", "script", "tracks", "output", "sound"} :
          mark[b].out # 0 => Made(mark[b].out)' = mark[b].inputs
    BY <1>4 DEF MarksAreTrue
  <2> QED BY <1>4, <2>1 DEF MarksAreTrue, Made
<1>6. PrepIsTrue'
  <2>1. Len(made) \in Nat /\ Len(made') \in Nat
    BY <1>2
  <2>2. \A d \in 1..Len(made) : d \in 1..Len(made') /\ made'[d] = made[d]
    BY <2>1 DEF StillMade
  <2> QED BY <2>2 DEF PrepIsTrue, Made
<1> QED BY <1>5, <1>6

LEMMA FactsStay ==
    ASSUME Typed, StillMade, NEW a \in Artifact, OnlyFile(a), UNCHANGED <<job, mark>>
    PROVE  /\ a # "reference" => (ReferenceReady => ReferenceReady')
           /\ a \notin {"reference", "script"} => (ScriptReady => ScriptReady')
           /\ a # "crf" => (SearchReady => SearchReady')
           /\ a \notin {"reference", "script", "crf", "video"} => (VideoReady => VideoReady')
           /\ a \notin {"reference", "tracks"} => (TracksReady => TracksReady')
           /\ a \notin {"output", "tracks", "video"} => (OutputReady => OutputReady')
           /\ a # "sound" => (EvidenceReady("sound") => EvidenceReady("sound")')
           /\ a # "frames" => (EvidenceReady("frames") => EvidenceReady("frames")')
           /\ a # "reference" /\ logs' = logs => (SourceSound => SourceSound')
<1>1. \E S : made \in Seq(S)
  BY DEF Typed, TypedFiles
<1>2. \A d \in 0..Len(made) : d # 0 => Made(d)' = Made(d)
  BY <1>1, MadeStays
<1>3. ASSUME NEW b \in Artifact, b # a
      PROVE  disk'[b] = disk[b] /\ (disk[b] # 0 => made'[disk[b]].from = made[disk[b]].from)
  BY <1>2, <1>3 DEF OnlyFile, Typed, TypedFiles, Made
<1>4. ASSUME NEW b \in Artifact, mark[b].out # 0
      PROVE  made'[mark[b].out].from = made[mark[b].out].from
  BY <1>2, <1>4 DEF Typed, TypedFiles, Marked, Made
<1>5. {"reference", "crop", "script", "crf", "video", "tracks", "output", "sound", "frames"} \subseteq Artifact
  BY DEF Artifact
<1>6. a # "reference" => (ReferenceReady => ReferenceReady')
  BY <1>3, <1>5 DEF ReferenceReady, Made
<1>7. a \notin {"reference", "script"} => (ScriptReady => ScriptReady')
  BY <1>3, <1>5 DEF ScriptReady, Made
<1>8. a # "crf" => (SearchReady => SearchReady')
  BY <1>3, <1>5 DEF SearchReady, Made
<1>9. a \notin {"reference", "script", "crf", "video"} => (VideoReady => VideoReady')
  BY <1>3, <1>5 DEF VideoReady, Made
<1>10. a \notin {"reference", "tracks"} => (TracksReady => TracksReady')
  BY <1>3, <1>5 DEF TracksReady, Made
<1>11. a \notin {"output", "tracks", "video"} => (OutputReady => OutputReady')
  BY <1>3, <1>4, <1>5 DEF OutputReady, Made
<1>12. a # "sound" => (EvidenceReady("sound") => EvidenceReady("sound")')
  BY <1>3, <1>4, <1>5 DEF EvidenceReady, Made
<1>13. a # "frames" => (EvidenceReady("frames") => EvidenceReady("frames")')
  BY <1>3, <1>4, <1>5 DEF EvidenceReady, Made
<1>14. a # "reference" /\ logs' = logs => (SourceSound => SourceSound')
  BY <1>3, <1>5 DEF SourceSound
<1> QED BY <1>6, <1>7, <1>8, <1>9, <1>10, <1>11, <1>12, <1>13, <1>14

\* What earlier stages have made is not what this stage writes.
LEMMA EarlierStays ==
    ASSUME Typed, Placed, Certified(StageOf(job)), StillMade, NEW a, AtArtifact(a), OnlyFile(a),
           UNCHANGED <<job, mark>>, logs' = logs \/ a = "reference"
    PROVE  Certified(StageOf(job))'
<1>1. job.state \in StageStates /\ a \in Items(job.state) /\ a \in Artifact
  BY Whereabouts DEF AtArtifact
<1>2. StageOf(job) = job.state /\ StageOf(job)' = job.state
  BY <1>1 DEF StageOf, StageStates, Working
<1>3. CASE job.state = "ENCODING"
  BY <1>2, <1>3 DEF Certified
<1>4. CASE job.state # "ENCODING"
  <2>1. a \in {"tracks", "output", "sound", "frames"}
    BY <1>1, <1>4 DEF StageStates, Working, Items
  <2>2. ReferenceReady' /\ ScriptReady' /\ SearchReady' /\ VideoReady' /\ SourceSound'
    <3>1. ReferenceReady /\ ScriptReady /\ SearchReady /\ VideoReady /\ SourceSound
      BY <1>1, <1>2, <1>4 DEF StageStates, Working, Certified
    <3> QED BY <1>1, <2>1, <3>1, FactsStay
  <2>3. job.state \in {"QC", "COMPARISON"} => a \in {"sound", "frames"} /\ TracksReady' /\ OutputReady' /\ (disk["output"] # 0)'
    <3>1. ASSUME job.state \in {"QC", "COMPARISON"} PROVE a \in {"sound", "frames"}
      BY <1>1, <3>1 DEF Items
    <3>2. ASSUME job.state \in {"QC", "COMPARISON"} PROVE TracksReady /\ OutputReady /\ disk["output"] # 0
      BY <1>2, <3>2 DEF Certified
    <3>3. "output" \in Artifact
      BY DEF Artifact
    <3> QED BY <1>1, <3>1, <3>2, <3>3, FactsStay DEF OnlyFile
  <2>4. job.state = "COMPARISON" => EvidenceReady("sound")'
    <3>1. ASSUME job.state = "COMPARISON" PROVE a = "frames" /\ EvidenceReady("sound")
      BY <1>1, <1>2, <3>1 DEF Items, Certified
    <3> QED BY <1>1, <3>1, FactsStay
  <2> QED BY <1>1, <1>2, <2>2, <2>3, <2>4 DEF Certified, StageStates, Working
<1> QED BY <1>3, <1>4

LEMMA BodyStays ==
    ASSUME Work, StillMade, NEW a, AtArtifact(a), OnlyFile(a),
           UNCHANGED <<job, todo, mark>>, logs' = logs \/ a = "reference",
           step \in {"look", "tool"}, step' \in {"tool", "made"},
           a = "video" => LoadPrepared \/ step = "tool",
           check' = check \/ (a = "video" /\ check' = "running"),
           step' = "made" => (disk[a] # 0 /\ Made(disk[a]) = Reads(a))'
    PROVE  Placed' /\ BodyIsTrue'
<1>1. /\ job.state \in StageStates /\ Doing(job.state) /\ Ahead(todo) = a /\ a \in Items(job.state)
      /\ a \in Artifact /\ Placed /\ Typed /\ BodyIsTrue
  BY Whereabouts DEF AtArtifact, Work
<1>2. Ahead(todo)' = a /\ a \notin {"check", "prepare", "end"}
  BY <1>1 DEF Ahead, Artifact
<1>3. check # "off" => job.state = "ENCODING" /\ a = "video"
  BY <1>1, <1>2 DEF Placed, Doing
<1>4. a = "video" => job.state = "ENCODING"
  BY <1>1 DEF StageStates, Working, Items
<1>5. Placed'
  BY <1>1, <1>2, <1>3, <1>4 DEF Placed, Doing, StageSteps, UploadSteps, SendSteps, PublishSteps
<1>6. check' = "passed" => SourceSound'
  <2>1. check' = "passed" => check = "passed" /\ a = "video"
    BY <1>3 DEF Placed
  <2> QED BY <1>1, <2>1, FactsStay DEF BodyIsTrue
<1>7. CASE job.state = "ENCODING"
  <2>1. a # "reference" => ReferenceReady'
    BY <1>1, <1>7, FactsStay DEF BodyIsTrue
  <2>2. a \notin {"reference", "crop", "script"} => ScriptReady'
    BY <1>1, <1>7, FactsStay DEF BodyIsTrue
  <2>3. a = "video" => SearchReady'
    <3>1. a = "video" => SearchReady
      BY <1>1, <1>7 DEF BodyIsTrue, LoadPrepared, SearchReady, Made, sel
    <3> QED BY <1>1, <3>1, FactsStay
  <2>4. ~Doing("MUXING")' /\ ~Doing("QC")' /\ ~Doing("COMPARISON")'
    BY <1>7 DEF Doing
  <2> QED BY <1>2, <1>5, <1>6, <2>1, <2>2, <2>3, <2>4, <1>7 DEF BodyIsTrue
<1>8. CASE job.state = "MUXING"
  <2>1. a # "tracks" => TracksReady'
    BY <1>1, <1>8, FactsStay DEF BodyIsTrue, Items
  <2>2. ~Doing("ENCODING")' /\ ~Doing("QC")' /\ ~Doing("COMPARISON")'
    BY <1>8 DEF Doing
  <2> QED BY <1>2, <1>5, <1>6, <2>1, <2>2 DEF BodyIsTrue
<1>9. CASE job.state \in {"QC", "COMPARISON"}
  <2>1. ~Doing("ENCODING")' /\ ~Doing("MUXING")'
    BY <1>9 DEF Doing
  <2> QED BY <1>2, <1>5, <1>6, <2>1 DEF BodyIsTrue
<1> QED BY <1>1, <1>7, <1>8, <1>9 DEF StageStates, Working

LEMMA RunToolHolds == ASSUME PipelineInv, RunTool PROVE PipelineInv'
<1> PICK a : a = Head(todo)
  OBVIOUS
<1>1. /\ Work /\ Typed /\ Placed /\ MarksAreTrue /\ PrepIsTrue /\ Certified(StageOf(job))
      /\ OneHost /\ BodyIsTrue /\ TypedFiles
  BY DEF PipelineInv, Work, Typed
<1>2. AtArtifact(a) /\ step = "look" /\ step \in StageSteps /\ ~Obstacle /\ a \in Artifact
  BY DEF RunTool, AtArtifact, StageSteps
<1>3. /\ SourceLogs /\ step' = "tool"
      /\ UNCHANGED <<job, todo, mark, made>>
      /\ UNCHANGED <<uploads, posted, hand, releases>>
      /\ disk' = IF a \in InPlace THEN [disk EXCEPT ![a] = 0] ELSE disk
      /\ check' = IF a = "video" /\ ~SourceIntegrityCurrent THEN "running" ELSE check
  BY DEF RunTool, At, remote
<1>4. /\ DOMAIN logs' = {"disc", "corrupt"} /\ logs'.corrupt \in BOOLEAN
      /\ logs' = logs \/ a = "reference"
  BY <1>1, <1>2, <1>3, LogsOfStage DEF At
<1>5. StillMade
  BY <1>3 DEF StillMade
<1>6. OnlyFile(a) /\ disk' \in [Artifact -> 0..Len(made)] /\ disk'[a] \in {0, disk[a]}
  BY <1>1, <1>2, <1>3 DEF TypedFiles, OnlyFile
<1>7. Typed'
  <2>1. TypedFiles'
    BY <1>1, <1>3, <1>4, <1>6 DEF TypedFiles
  <2> QED BY <1>1, <1>3, <2>1 DEF Typed, TypedJob, TypedRemote
<1>8. MarksAreTrue' /\ PrepIsTrue'
  <2>1. disk'["reference"] = disk["reference"] \/ disk'["reference"] = 0
    BY <1>6 DEF OnlyFile, Artifact
  <2>2. \E S : made' \in Seq(S)
    BY <1>7 DEF Typed, TypedFiles
  <2>3. Len(made) \in Nat /\ Len(made) <= Len(made')
    BY <1>3, <2>2
  <2> QED BY <1>1, <1>3, <1>5, <2>1, <2>2, <2>3, MarksStay
<1>9. Certified(StageOf(job))'
  BY <1>1, <1>2, <1>3, <1>4, <1>5, <1>6, EarlierStays
<1>10. a = "video" => LoadPrepared
  BY <1>2 DEF Obstacle, At, AtArtifact
<1>11. Placed' /\ BodyIsTrue'
  BY <1>1, <1>2, <1>3, <1>4, <1>5, <1>6, <1>10, BodyStays
<1>12. OneHost' /\ step' \in StageSteps /\ job'.state # "COMPLETED"
  BY <1>1, <1>2, <1>3, HostKept DEF Placed, StageStates, Working, StageSteps
<1> QED BY <1>7, <1>8, <1>9, <1>11, <1>12, Within DEF Work

LEMMA NewContentIsTrue ==
    ASSUME TypedFiles, NEW a \in Artifact, NewContent(a)
    PROVE  /\ StillMade /\ OnlyFile(a)
           /\ \E S : made' \in Seq(S)
           /\ Len(made) \in Nat /\ Len(made') \in Nat /\ Len(made) <= Len(made')
           /\ disk' \in [Artifact -> 0..Len(made')]
           /\ disk'[a] # 0 /\ made'[disk'[a]].from = Reads(a)
           /\ a \in Volatile => disk'[a] \notin 1..Len(made)
<1> DEFINE content == [of |-> a, from |-> Reads(a)]
           same == {n \in 1..Len(made) : made[n] = content}
<1>1. PICK S : made \in Seq(S)
  BY DEF TypedFiles
<1>2. Len(made) \in Nat
  BY <1>1
<1>3. content.from = Reads(a)
  OBVIOUS
<1>4. CASE a \in Volatile \/ same = {}
  <2>1. made' = Append(made, content) /\ disk' = [disk EXCEPT ![a] = Len(made) + 1]
    BY <1>4 DEF NewContent
  <2> HIDE DEF content
  <2>2. /\ made' \in Seq(S \cup {content}) /\ Len(made') = Len(made) + 1
        /\ made'[Len(made) + 1] = content /\ \A d \in 1..Len(made) : made'[d] = made[d]
    BY <1>1, <2>1
  <2>3. disk' \in [Artifact -> 0..Len(made')] /\ disk'[a] = Len(made) + 1
    BY <1>2, <2>1, <2>2 DEF TypedFiles
  <2>4. OnlyFile(a)
    BY <2>1 DEF TypedFiles, OnlyFile
  <2> QED BY <1>2, <1>3, <2>2, <2>3, <2>4 DEF StillMade
<1>5. CASE ~(a \in Volatile \/ same = {})
  <2>1. made' = made /\ disk' = [disk EXCEPT ![a] = CHOOSE n \in same : TRUE]
    BY <1>5 DEF NewContent
  <2>2. PICK n \in same : n = CHOOSE m \in same : TRUE
    BY <1>5
  <2>3. n \in 1..Len(made) /\ made[n].from = Reads(a)
    BY <2>2
  <2>4. disk' \in [Artifact -> 0..Len(made')] /\ disk'[a] = n
    BY <1>2, <2>1, <2>2, <2>3 DEF TypedFiles
  <2>5. OnlyFile(a) /\ StillMade
    BY <2>1 DEF TypedFiles, OnlyFile, StillMade
  <2> QED BY <1>1, <1>2, <1>5, <2>1, <2>3, <2>4, <2>5
<1> QED BY <1>4, <1>5

LEMMA ReadsOthers ==
    ASSUME NEW a \in Artifact, OnlyFile(a), job' = job
    PROVE  Reads(a)' = Reads(a)
<1>1. \A b \in {"reference", "script", "crf", "video", "tracks", "output"} : b # a => disk'[b] = disk[b]
  BY DEF OnlyFile, Artifact
<1>2. CASE a \in {"reference", "crop", "script", "crf"}
  BY <1>1, <1>2 DEF Reads, sel
<1>3. CASE a \in {"video", "tracks", "output"}
  BY <1>1, <1>3 DEF Reads, sel
<1>4. CASE a \in {"sound", "frames"}
  BY <1>1, <1>4 DEF Reads, sel
<1> QED BY <1>2, <1>3, <1>4 DEF Artifact

LEMMA ToolEndsHolds == ASSUME PipelineInv, ToolEnds PROVE PipelineInv'
<1> PICK a : a = Head(todo)
  OBVIOUS
<1>1. /\ Work /\ Typed /\ Placed /\ MarksAreTrue /\ PrepIsTrue /\ Certified(StageOf(job))
      /\ OneHost /\ BodyIsTrue /\ TypedFiles
  BY DEF PipelineInv, Work, Typed
<1>2. AtArtifact(a) /\ step = "tool" /\ step \in StageSteps /\ a \in Artifact
  <2>1. step = "tool" /\ Ahead(todo) \in Artifact
    BY <1>1 DEF ToolEnds, Placed
  <2> QED BY <2>1 DEF AtArtifact, StageSteps, Ahead, Artifact
<1>3. /\ NewContent(a) /\ step' = "made"
      /\ UNCHANGED <<job, todo, mark, check>>
      /\ UNCHANGED <<uploads, posted, hand, releases>>
      /\ logs' = logs \/ (a = "reference" /\ logs' = [logs EXCEPT !.corrupt = TRUE])
  BY DEF ToolEnds, At, remote
<1>4. /\ DOMAIN logs' = {"disc", "corrupt"} /\ logs'.corrupt \in BOOLEAN
      /\ logs' = logs \/ a = "reference"
  BY <1>1, <1>3 DEF TypedFiles
<1>5. /\ StillMade /\ OnlyFile(a)
      /\ \E S : made' \in Seq(S)
      /\ Len(made) \in Nat /\ Len(made') \in Nat /\ Len(made) <= Len(made')
      /\ disk' \in [Artifact -> 0..Len(made')]
      /\ disk'[a] # 0 /\ made'[disk'[a]].from = Reads(a)
      /\ a \in Volatile => disk'[a] \notin 1..Len(made)
  BY <1>1, <1>2, <1>3, NewContentIsTrue
<1>6. Typed'
  <2>1. TypedFiles'
    BY <1>1, <1>3, <1>4, <1>5 DEF TypedFiles
  <2> QED BY <1>1, <1>3, <2>1 DEF Typed, TypedJob, TypedRemote
<1>7. MarksAreTrue' /\ PrepIsTrue'
  <2>1. disk'["reference"] = disk["reference"] \/ disk'["reference"] \notin 1..Len(made)
    BY <1>5 DEF OnlyFile, Artifact, Volatile
  <2> QED BY <1>1, <1>3, <1>5, <2>1, MarksStay
<1>8. Certified(StageOf(job))'
  BY <1>1, <1>2, <1>3, <1>4, <1>5, EarlierStays
<1>9. (disk[a] # 0 /\ Made(disk[a]) = Reads(a))'
  BY <1>2, <1>3, <1>5, ReadsOthers DEF Made
<1>10. Placed' /\ BodyIsTrue'
  BY <1>1, <1>2, <1>3, <1>4, <1>5, <1>9, BodyStays
<1>11. OneHost' /\ step' \in StageSteps /\ job'.state # "COMPLETED"
  BY <1>1, <1>2, <1>3, HostKept DEF Placed, StageStates, Working, StageSteps
<1> QED BY <1>6, <1>7, <1>8, <1>10, <1>11, Within DEF Work

-----------------------------------------------------------------------------
(* Checkpoints                                                               *)

\* What the tool has made is what the stage should have.
LEMMA ToolMakes ==
    ASSUME Work, NEW a, AtArtifact(a), step = "made", WriteStage(a),
           UNCHANGED <<job, disk, made>>
    PROVE  Gained(a)'
<1>1. /\ job.state \in StageStates /\ Doing(job.state) /\ Ahead(todo) = a /\ a \in Items(job.state)
      /\ a \in Artifact /\ BodyIsTrue /\ Typed
  BY Whereabouts DEF AtArtifact, Work
<1>2. disk[a] # 0 /\ Made(disk[a]) = Reads(a)
  BY <1>1 DEF BodyIsTrue
<1>3. mark'[a].out = disk[a] /\ \A b \in Marked : b # a => mark'[b] = mark[b]
  BY <1>1 DEF WriteStage, Typed, TypedFiles, Marked
<1>4. StageOf(job) = job.state
  BY <1>1 DEF StageOf, StageStates, Working
<1>5. CASE a = "reference"
  BY <1>2, <1>3, <1>5 DEF Gained, ReferenceReady, Made, Reads, sel
<1>6. CASE a = "script"
  BY <1>2, <1>3, <1>6 DEF Gained, ScriptReady, Made, Reads, sel
<1>7. CASE a = "video"
  <2>1. job.state = "ENCODING"
    BY <1>1, <1>7 DEF Items, StageStates, Working
  <2>2. SearchReady
    BY <1>1, <1>7, <2>1 DEF BodyIsTrue
  <2>3. SearchReady'
    BY <2>2 DEF SearchReady, Made
  <2>4. VideoReady'
    BY <1>2, <1>7 DEF VideoReady, Made, Reads, sel
  <2> QED BY <1>7, <2>3, <2>4 DEF Gained
<1>8. CASE a = "tracks"
  BY <1>2, <1>3, <1>8 DEF Gained, TracksReady, Made, Reads, sel
<1>9. CASE a = "output"
  BY <1>2, <1>3, <1>9 DEF Gained, OutputReady, Made, Reads, sel
<1>10. CASE a \in {"sound", "frames"}
  <2>1. job.state \in {"QC", "COMPARISON"}
    BY <1>1, <1>10 DEF Items, StageStates, Working
  <2>2. disk["output"] = mark["output"].out
    BY <1>4, <2>1 DEF Work, Certified, OutputReady
  <2>3. mark'["output"] = mark["output"]
    BY <1>3, <1>10 DEF Marked, Artifact
  <2>4. Made(disk[a])[2] = disk["output"]
    BY <1>2, <1>10 DEF Reads
  <2> QED BY <1>2, <1>3, <1>10, <2>2, <2>3, <2>4 DEF Gained, EvidenceReady, Made
<1>11. CASE a \in {"crop", "crf"}
  BY <1>11 DEF Gained
<1> QED BY <1>1, <1>5, <1>6, <1>7, <1>8, <1>9, <1>10, <1>11 DEF Artifact

\* The marker tells the truth of what the tool has made.
LEMMA NewMarkIsTrue ==
    ASSUME Typed, MarksAreTrue, PrepIsTrue, NEW a \in Artifact, WriteStage(a),
           Made(disk[a]) = Reads(a), UNCHANGED <<job, disk, made>>
    PROVE  MarksAreTrue' /\ PrepIsTrue'
<1>1. /\ mark'[a].inputs = Inputs(a) /\ mark'[a].out = disk[a]
      /\ \A b \in Marked : b # a => mark'[b] = mark[b]
  BY DEF WriteStage, Typed, TypedFiles, Marked
<1>2. {"reference", "script", "tracks", "output", "sound", "video", "frames", "prepare"} \subseteq Marked
      /\ a # "prepare"
  BY DEF Marked, Artifact
<1>3. ASSUME NEW b \in {"reference", "script", "tracks", "output", "sound"}, mark'[b].out # 0
      PROVE  Made(mark[b].out)' = mark'[b].inputs
  <2>1. CASE b # a
    BY <1>1, <1>2, <1>3, <2>1 DEF MarksAreTrue, Made
  <2>2. CASE b = a /\ a \in {"reference", "script"}
    BY <1>1, <2>2 DEF Made, Inputs, PrepareInputs
  <2>3. CASE b = a /\ a \in {"tracks", "output"}
    BY <1>1, <2>3 DEF Made, Inputs, MuxInputs
  <2>4. CASE b = a /\ a = "sound"
    BY <1>1, <2>4 DEF Made, Inputs, AudioInputs, Reads
  <2> QED BY <1>3, <2>1, <2>2, <2>3, <2>4
<1>4. (mark["video"].out # 0 =>
         /\ Made(mark["video"].out) = <<Made(mark["video"].out)[1], mark["video"].inputs[2],
                                        mark["video"].inputs[3], mark["video"].inputs[4]>>
         /\ mark["video"].inputs[1] \in {0, Made(mark["video"].out)[1]})'
  <2>1. CASE a # "video"
    BY <1>1, <1>2, <2>1 DEF MarksAreTrue, Made
  <2>2. CASE a = "video"
    <3>1. mark'["video"].inputs = VideoInputs /\ mark'["video"].out = disk["video"]
      BY <1>1, <2>2 DEF Inputs
    <3>2. Made(disk["video"]) = <<disk["reference"], disk["script"], sel.picture,
                                  IF sel.auto THEN <<disk["crf"]>> ELSE <<>> >>
      BY <2>2 DEF Reads
    <3>3. VideoInputs[1] \in {0, disk["reference"]}
      BY DEF VideoInputs, RecordedOutput
    <3> QED BY <3>1, <3>2, <3>3 DEF Made, VideoInputs
  <2> QED BY <2>1, <2>2
<1>5. (mark["frames"].out # 0 => mark["frames"].inputs[2] \in {0, Made(mark["frames"].out)[2]})'
  <2>1. CASE a # "frames"
    BY <1>1, <1>2, <2>1 DEF MarksAreTrue, Made
  <2>2. CASE a = "frames"
    BY <1>1, <2>2 DEF Inputs, ComparisonInputs, RecordedOutput, Reads, Made
  <2> QED BY <2>1, <2>2
<1>6. MarksAreTrue'
  BY <1>3, <1>4, <1>5 DEF MarksAreTrue
<1>7. PrepIsTrue'
  <2>1. mark'["prepare"] = mark["prepare"]
    BY <1>1, <1>2
  <2>2. mark'["reference"].out = mark["reference"].out \/ mark'["reference"].out = disk["reference"]
    BY <1>1, <1>2
  <2> QED BY <2>1, <2>2 DEF PrepIsTrue, Made
<1> QED BY <1>6, <1>7

LEMMA CheckpointHolds == ASSUME PipelineInv, Checkpoint PROVE PipelineInv'
<1> PICK a : a = Head(todo)
  OBVIOUS
<1>1. /\ Work /\ Typed /\ Placed /\ MarksAreTrue /\ PrepIsTrue /\ Certified(StageOf(job))
      /\ OneHost /\ BodyIsTrue /\ TypedFiles
  BY DEF PipelineInv, Work, Typed
<1>2. AtArtifact(a) /\ step = "made" /\ step \in StageSteps /\ a \in Artifact
  <2>1. step = "made" /\ Ahead(todo) \in Artifact
    BY <1>1 DEF Checkpoint, Placed
  <2> QED BY <2>1 DEF AtArtifact, StageSteps, Ahead, Artifact
<1>3. /\ WriteStage(a) /\ todo' = Tail(todo) /\ step' = "look"
      /\ UNCHANGED <<job, disk, made, check, logs>>
      /\ UNCHANGED <<uploads, posted, hand, releases>>
  BY DEF Checkpoint, remote
<1>4. /\ job.state \in StageStates /\ Ahead(todo) = a /\ a \in Items(job.state)
  BY <1>1, <1>2, Whereabouts
<1>5. /\ mark'[a].out = disk[a] /\ DOMAIN mark'[a] = {"inputs", "out"} /\ DOMAIN mark' = Marked
      /\ \A b \in Marked : b # a => mark'[b] = mark[b]
  BY <1>1, <1>2, <1>3 DEF WriteStage, TypedFiles, Marked
<1>6. Typed'
  <2>1. TypedFiles'
    <3>1. \A b \in Marked : DOMAIN mark'[b] = {"inputs", "out"} /\ mark'[b].out \in 0..Len(made)
      BY <1>1, <1>2, <1>5 DEF TypedFiles
    <3> QED BY <1>1, <1>3, <1>5, <3>1 DEF TypedFiles
  <2> QED BY <1>1, <1>3, <2>1 DEF Typed, TypedJob, TypedRemote
<1>7. MarksAreTrue' /\ PrepIsTrue'
  <2>1. Made(disk[a]) = Reads(a)
    BY <1>1, <1>2, <1>4 DEF BodyIsTrue
  <2> QED BY <1>1, <1>2, <1>3, <2>1, NewMarkIsTrue
<1>8. {"reference", "output", "sound", "frames", "integrity"} \subseteq Marked /\ a # "integrity"
  BY <1>2 DEF Marked, Artifact
<1>9. /\ ReferenceReady => ReferenceReady'
      /\ ScriptReady => ScriptReady'
      /\ SearchReady => SearchReady'
      /\ VideoReady => VideoReady'
      /\ TracksReady => TracksReady'
      /\ SourceSound => SourceSound'
      /\ a # "output" => (OutputReady => OutputReady')
      /\ a \notin {"output", "sound"} => (EvidenceReady("sound") => EvidenceReady("sound")')
  BY <1>3, <1>5, <1>8 DEF ReferenceReady, ScriptReady, SearchReady, VideoReady, TracksReady,
     SourceSound, OutputReady, EvidenceReady, Made
<1>10. Certified(StageOf(job))'
  <2>1. StageOf(job) = job.state /\ StageOf(job)' = job.state
    BY <1>3, <1>4 DEF StageOf, StageStates, Working
  <2>2. job.state \in {"QC", "COMPARISON"} => a \notin {"output"}
    BY <1>4 DEF Items
  <2>3. job.state = "COMPARISON" => a \notin {"output", "sound"}
    BY <1>4 DEF Items
  <2> QED BY <1>1, <1>3, <1>4, <1>9, <2>1, <2>2, <2>3 DEF Certified, StageStates, Working
<1>11. Gained(a)'
  BY <1>1, <1>2, <1>3, ToolMakes
<1>12. Placed' /\ BodyIsTrue'
  BY <1>1, <1>2, <1>3, <1>9, <1>11, Passes
<1>13. OneHost' /\ step' \in StageSteps /\ job'.state # "COMPLETED"
  BY <1>1, <1>3, <1>4, HostKept DEF StageStates, Working, StageSteps
<1> QED BY <1>6, <1>7, <1>10, <1>12, <1>13, Within DEF Work

LEMMA CheckpointPreparationHolds == ASSUME PipelineInv, CheckpointPreparation PROVE PipelineInv'
<1>1. /\ Work /\ Typed /\ Placed /\ MarksAreTrue /\ PrepIsTrue /\ Certified(StageOf(job))
      /\ OneHost /\ BodyIsTrue /\ TypedFiles
  BY DEF PipelineInv, Work, Typed
<1>2. /\ mark' = [mark EXCEPT !["prepare"].inputs = Prepared]
      /\ step = "look" /\ step' = "look" /\ todo # <<>> /\ Head(todo) = "prepare" /\ todo' = Tail(todo)
      /\ UNCHANGED <<job, disk, made, check, logs>>
      /\ UNCHANGED <<uploads, posted, hand, releases>>
  BY DEF CheckpointPreparation, At, remote
<1>3. /\ job.state \in StageStates /\ todo \in Left(job.state) /\ Goes(job.state, todo)
  BY <1>1, <1>2, Lists DEF Placed, StageSteps
<1>4. /\ job.state = "ENCODING" /\ Ahead(todo) = "prepare" /\ Doing("ENCODING")
      /\ Tail(todo) \in Left("ENCODING") /\ Ahead(todo)' = "video" /\ Doing("ENCODING")'
  BY <1>2, <1>3 DEF Goes, Items, Follow, StageStates, Working, Doing, StageSteps, Ahead
<1>5. ReferenceReady /\ ScriptReady
  BY <1>1, <1>4 DEF BodyIsTrue
<1>6. check = "off"
  BY <1>1, <1>2, <1>4 DEF Placed
<1>7. /\ mark'["prepare"].inputs = Prepared /\ mark'["prepare"].out = mark["prepare"].out
      /\ DOMAIN mark'["prepare"] = {"inputs", "out"} /\ DOMAIN mark' = Marked
      /\ \A b \in Marked : b # "prepare" => mark'[b] = mark[b]
  BY <1>1, <1>2 DEF TypedFiles, Marked
<1>8. {"reference", "script", "tracks", "output", "sound", "video", "frames"} \subseteq Marked
      /\ "prepare" \notin {"reference", "script", "tracks", "output", "sound", "video", "frames"}
  BY DEF Marked, Artifact
<1>9. Typed'
  <2>1. TypedFiles'
    <3>1. \A b \in Marked : DOMAIN mark'[b] = {"inputs", "out"} /\ mark'[b].out \in 0..Len(made)
      BY <1>1, <1>7 DEF TypedFiles
    <3> QED BY <1>1, <1>2, <1>7, <3>1 DEF TypedFiles
  <2> QED BY <1>1, <1>2, <2>1 DEF Typed, TypedJob, TypedRemote
<1>10. MarksAreTrue'
  BY <1>1, <1>2, <1>7, <1>8 DEF MarksAreTrue, Made
<1>11. PrepIsTrue'
  <2>1. disk["reference"] \in 1..Len(made) /\ disk["script"] \in 1..Len(made)
    <3>1. disk["reference"] \in 0..Len(made) /\ disk["script"] \in 0..Len(made)
      BY <1>1 DEF TypedFiles, Artifact
    <3>2. Len(made) \in Nat
      BY <1>1 DEF TypedFiles
    <3> QED BY <1>5, <3>1, <3>2 DEF ReferenceReady, ScriptReady
  <2>2. mark'["reference"].out = disk["reference"]
    BY <1>5, <1>7, <1>8 DEF ReferenceReady
  <2>3. Made(disk["reference"]) = <<sel.disc>> /\ Made(disk["script"]) = <<disk["reference"], sel.crop>>
    BY <1>5 DEF ReferenceReady, ScriptReady, sel
  <2> QED BY <1>2, <1>7, <2>1, <2>2, <2>3 DEF PrepIsTrue, Prepared, Made
<1>12. Certified(StageOf(job))'
  BY <1>2, <1>4 DEF Certified, StageOf
<1>13. Placed'
  BY <1>1, <1>2, <1>4, <1>6 DEF Placed, StageStates, Working, StageSteps, UploadSteps, SendSteps, PublishSteps
<1>14. BodyIsTrue'
  <2>1. ReferenceReady' /\ ScriptReady'
    BY <1>2, <1>5, <1>7, <1>8 DEF ReferenceReady, ScriptReady, Made
  <2>2. ~Doing("MUXING")' /\ ~Doing("QC")' /\ ~Doing("COMPARISON")'
    BY <1>2, <1>4 DEF Doing
  <2> QED BY <1>2, <1>4, <1>6, <2>1, <2>2 DEF BodyIsTrue
<1>15. OneHost' /\ step' \in StageSteps /\ job'.state # "COMPLETED"
  BY <1>1, <1>2, <1>4, HostKept DEF StageSteps
<1> QED BY <1>9, <1>10, <1>11, <1>12, <1>13, <1>14, <1>15, Within DEF Work

-----------------------------------------------------------------------------
(* The source check                                                          *)

\* The check runs beside the encode or at its end: the reference is there.
LEMMA Beside ==
    ASSUME Work, check # "off" \/ (step = "look" /\ At("check"))
    PROVE  /\ job.state = "ENCODING" /\ Doing("ENCODING") /\ todo \in Left("ENCODING")
           /\ Ahead(todo) \in {"video", "check", "end"} /\ (Ahead(todo) = "video" => step # "look")
           /\ ReferenceReady
<1>1. Placed /\ BodyIsTrue
  BY DEF Work
<1>2. /\ Doing("ENCODING") /\ Ahead(todo) \in {"video", "check", "end"}
      /\ Ahead(todo) = "video" => step # "look"
  <2>1. CASE check # "off"
    BY <1>1, <2>1 DEF Placed
  <2>2. CASE step = "look" /\ At("check")
    <3>1. job.state \in StageStates /\ Goes(job.state, todo)
      BY <1>1, <2>2, Lists DEF Placed, StageSteps
    <3>2. Ahead(todo) = "check" /\ "check" \in Items(job.state)
      BY <2>2, <3>1 DEF Goes, At
    <3> QED BY <2>2, <3>1, <3>2 DEF Items, StageStates, Working, Doing, StageSteps
  <2> QED BY <2>1, <2>2
<1>3. ReferenceReady
  BY <1>1, <1>2 DEF BodyIsTrue
<1> QED BY <1>1, <1>2, <1>3 DEF Doing, Placed

LEMMA WaitForCheckHolds == ASSUME PipelineInv, WaitForCheck PROVE PipelineInv'
<1>1. /\ Work /\ Typed /\ Placed /\ MarksAreTrue /\ PrepIsTrue /\ Certified(StageOf(job))
      /\ OneHost /\ BodyIsTrue
  BY DEF PipelineInv, Work
<1>2. /\ step = "look" /\ step' = "look" /\ todo # <<>> /\ Head(todo) = "check" /\ todo' = Tail(todo)
      /\ check = "passed" /\ check' = "passed"
      /\ UNCHANGED <<job, files, logs>> /\ UNCHANGED <<uploads, posted, hand, releases>>
  BY DEF WaitForCheck, At, remote
<1>3. job.state = "ENCODING" /\ Doing("ENCODING") /\ todo \in Left("ENCODING")
  BY <1>1, <1>2, Beside
<1>4. Ahead(todo) = "check" /\ Ahead(todo)' = "end" /\ Tail(todo) \in Left("ENCODING") /\ Doing("ENCODING")'
  <2>1. Goes("ENCODING", todo)
    BY <1>3, Lists DEF StageStates, Working
  <2> QED BY <1>2, <1>3, <2>1 DEF Goes, Follow, Ahead, Doing
<1>5. /\ ReferenceReady' /\ ScriptReady' /\ SearchReady' /\ VideoReady' /\ SourceSound'
  <2>1. ReferenceReady /\ ScriptReady /\ SearchReady /\ VideoReady /\ SourceSound
    BY <1>1, <1>2, <1>3, <1>4 DEF BodyIsTrue
  <2> QED BY <1>2, <2>1, FactsKept
<1>6. Typed'
  BY <1>1, <1>2, TypesKept DEF Typed, TypedJob, TypedRemote
<1>7. MarksAreTrue' /\ PrepIsTrue' /\ OneHost' /\ Certified(StageOf(job))'
  BY <1>1, <1>2, MarksKept, HostKept, CertifiedKept
<1>8. Placed'
  BY <1>1, <1>2, <1>3, <1>4 DEF Placed, StageStates, Working, StageSteps, UploadSteps, SendSteps, PublishSteps
<1>9. BodyIsTrue'
  <2>1. ~Doing("MUXING")' /\ ~Doing("QC")' /\ ~Doing("COMPARISON")'
    BY <1>2, <1>3 DEF Doing
  <2> QED BY <1>2, <1>4, <1>5, <2>1 DEF BodyIsTrue
<1> QED BY <1>2, <1>3, <1>6, <1>7, <1>8, <1>9, Within DEF Work, StageSteps

\* The check goes on or ends beside the encode.
LEMMA BesideTheEncode ==
    ASSUME PipelineInv, job.state = "ENCODING", Doing("ENCODING"),
           Ahead(todo) \in {"video", "check"}, Ahead(todo) = "video" => step # "look",
           UNCHANGED <<job, todo, step, disk, made, uploads, posted, hand, releases>>,
           TypedFiles', \A b \in Marked : b # "integrity" => mark'[b] = mark[b],
           check' \in {"running", "passed", "review", "error"},
           check' = "passed" => SourceSound'
    PROVE  PipelineInv'
<1>1. /\ Typed /\ Placed /\ MarksAreTrue /\ PrepIsTrue /\ OneHost /\ BodyIsTrue
  BY DEF PipelineInv, Work
<1>2. /\ mark'["prepare"] = mark["prepare"]
      /\ \A b \in Artifact : mark'[b] = mark[b]
  BY DEF Marked, Artifact
<1>3. Typed'
  BY <1>1 DEF Typed, TypedJob, TypedRemote
<1>4. MarksAreTrue' /\ PrepIsTrue' /\ OneHost'
  <2>1. MarksAreTrue'
    BY <1>1, <1>2 DEF MarksAreTrue, Made, Artifact
  <2>2. PrepIsTrue'
    BY <1>1, <1>2 DEF PrepIsTrue, Made, Artifact
  <2> QED BY <1>1, <2>1, <2>2, HostKept
<1>5. Certified(StageOf(job))'
  BY DEF Certified, StageOf
<1>6. Placed'
  BY <1>1 DEF Placed, Doing
<1>7. BodyIsTrue'
  <2>1. /\ ReferenceReady => ReferenceReady'
        /\ ScriptReady => ScriptReady'
        /\ SearchReady => SearchReady'
        /\ VideoReady => VideoReady'
    BY <1>2 DEF ReferenceReady, ScriptReady, SearchReady, VideoReady, Made, Artifact
  <2>2. ~Doing("MUXING")' /\ ~Doing("QC")' /\ ~Doing("COMPARISON")'
    BY DEF Doing
  <2>3. step = "made" => (disk[Ahead(todo)] # 0 /\ Made(disk[Ahead(todo)]) = Reads(Ahead(todo)))'
    <3>1. Ahead(todo)' = Ahead(todo)
      BY DEF Ahead
    <3>2. step = "made" => disk[Ahead(todo)] # 0 /\ Made(disk[Ahead(todo)]) = Reads(Ahead(todo))
      BY <1>1 DEF BodyIsTrue
    <3>3. ASSUME step = "made" PROVE Ahead(todo) = "video"
      BY <1>1, <3>3 DEF Placed, Artifact
    <3> QED BY <3>1, <3>2, <3>3 DEF Made, Reads, sel
  <2>4. Doing("ENCODING")' /\ Ahead(todo)' = Ahead(todo) /\ step' = step
    BY DEF Doing, Ahead
  <2> QED BY <1>1, <2>1, <2>2, <2>3, <2>4 DEF BodyIsTrue
<1> QED BY <1>3, <1>4, <1>5, <1>6, <1>7, Within DEF Work, Doing

LEMMA CheckInlineHolds == ASSUME PipelineInv, CheckInline PROVE PipelineInv'
<1>1. Work /\ BodyIsTrue /\ TypedFiles
  BY DEF PipelineInv, Work, Typed
<1>2. /\ step = "look" /\ At("check") /\ UNCHANGED <<job, todo, step, files, logs>>
      /\ UNCHANGED <<disk, made, mark, uploads, posted, hand, releases>>
      /\ check' = IF ~SourceIntegrityCurrent THEN "running" ELSE IF logs.corrupt THEN "review" ELSE "passed"
  BY DEF CheckInline, files, remote
<1>3. Ahead(todo) = "check"
  BY <1>2 DEF At, Ahead
<1>4. job.state = "ENCODING" /\ Doing("ENCODING") /\ ReferenceReady
  BY <1>1, <1>2, Beside
<1>5. check' = "passed" => SourceSound'
  BY <1>2, <1>4 DEF SourceIntegrityCurrent, SourceSound, RecordedOutput, ReferenceReady
<1>6. TypedFiles'
  BY <1>1, <1>2, TypesKept
<1>7. check' \in {"running", "passed", "review", "error"}
  BY <1>2
<1> QED BY <1>2, <1>3, <1>4, <1>5, <1>6, <1>7, BesideTheEncode

LEMMA CheckEndsHolds == ASSUME PipelineInv, CheckEnds PROVE PipelineInv'
<1>1. Work /\ BodyIsTrue /\ TypedFiles
  BY DEF PipelineInv, Work, Typed
<1>2. /\ check = "running" /\ UNCHANGED <<job, todo, step, disk, made>>
      /\ UNCHANGED <<uploads, posted, hand, releases>>
  BY DEF CheckEnds, remote
<1>3. /\ job.state = "ENCODING" /\ Doing("ENCODING") /\ ReferenceReady
      /\ Ahead(todo) \in {"video", "check", "end"} /\ (Ahead(todo) = "video" => step # "look")
  BY <1>1, <1>2, Beside
<1>4. Ahead(todo) # "end"
  BY <1>1, <1>2, <1>3 DEF BodyIsTrue
<1>5. \/ /\ ~logs.corrupt /\ check' = "passed" /\ logs' = logs
         /\ mark' = [mark EXCEPT !["integrity"].inputs = <<disk["reference"]>>]
      \/ /\ check' = "review" /\ mark' = mark
         /\ \E found \in BOOLEAN : logs' = [logs EXCEPT !.corrupt = @ \/ found]
      \/ check' = "error" /\ UNCHANGED <<mark, logs>>
  BY DEF CheckEnds
<1>6. TypedFiles' /\ \A b \in Marked : b # "integrity" => mark'[b] = mark[b]
  <2>1. CASE mark' = [mark EXCEPT !["integrity"].inputs = <<disk["reference"]>>] /\ logs' = logs
    <3>1. /\ DOMAIN mark' = Marked /\ \A b \in Marked : b # "integrity" => mark'[b] = mark[b]
          /\ DOMAIN mark'["integrity"] = {"inputs", "out"} /\ mark'["integrity"].out = mark["integrity"].out
      BY <1>1, <2>1 DEF TypedFiles, Marked
    <3>2. \A b \in Marked : DOMAIN mark'[b] = {"inputs", "out"} /\ mark'[b].out \in 0..Len(made)
      BY <1>1, <3>1 DEF TypedFiles, Marked
    <3> QED BY <1>1, <1>2, <2>1, <3>1, <3>2 DEF TypedFiles
  <2>2. ASSUME mark' = mark, NEW found \in BOOLEAN, logs' = [logs EXCEPT !.corrupt = @ \/ found]
        PROVE  TypedFiles'
    <3>1. DOMAIN logs' = {"disc", "corrupt"} /\ logs'.corrupt \in BOOLEAN
      BY <1>1, <2>2 DEF TypedFiles
    <3> QED BY <1>1, <1>2, <2>2, <3>1 DEF TypedFiles
  <2>3. CASE UNCHANGED <<mark, logs>>
    BY <1>1, <1>2, <2>3 DEF TypedFiles
  <2> QED BY <1>5, <2>1, <2>2, <2>3
<1>7. check' = "passed" => SourceSound'
  <2>1. ASSUME check' = "passed" PROVE mark'["integrity"].inputs = <<disk["reference"]>> /\ ~logs'.corrupt
    BY <1>1, <1>5, <2>1 DEF TypedFiles, Marked
  <2> QED BY <1>2, <2>1 DEF SourceSound
<1>8. check' \in {"running", "passed", "review", "error"}
  BY <1>5
<1> QED BY <1>2, <1>3, <1>4, <1>6, <1>7, <1>8, BesideTheEncode

LEMMA CheckStopsEncodeHolds == ASSUME PipelineInv, CheckStopsEncode PROVE PipelineInv'
<1>1. /\ Work /\ Typed /\ Placed /\ MarksAreTrue /\ PrepIsTrue /\ Certified(StageOf(job)) /\ OneHost
  BY DEF PipelineInv, Work
<1>2. /\ check # "off" /\ UNCHANGED <<files, logs, uploads, posted, releases>>
      /\ Review("source") \/ (Rest /\ job' = job)
  BY DEF CheckStopsEncode, CheckFailed
<1>3. job.state = "ENCODING" /\ job.state \in Working
  BY <1>1, <1>2, Beside DEF Working
<1>4. CASE Review("source")
  BY <1>2, <1>3, <1>4, Reviewed
<1>5. CASE Rest /\ job' = job
  <2>1. step' = "idle" /\ check' = "off" /\ hand' = NoHand
    BY <1>5 DEF Rest
  <2>2. Typed'
    BY <1>1, <1>2, <1>5, <2>1, TypesKept, EmptyHand DEF Typed, TypedJob
  <2>3. MarksAreTrue' /\ PrepIsTrue' /\ OneHost' /\ Certified(StageOf(job))'
    BY <1>1, <1>2, <1>5, MarksKept, HostKept, CertifiedKept
  <2> QED BY <1>3, <1>5, <2>1, <2>2, <2>3, Idle
<1> QED BY <1>2, <1>4, <1>5

-----------------------------------------------------------------------------
(* The operator and the operating system                                     *)

LEMMA OnlyStagesCheck ==
    ASSUME Placed, step \notin StageSteps
    PROVE  check = "off"
  BY DEF Placed, Doing

LEMMA ClaimJobHolds == ASSUME PipelineInv, ClaimJob PROVE PipelineInv'
<1>1. /\ Work /\ Typed /\ Placed /\ MarksAreTrue /\ PrepIsTrue /\ OneHost
  BY DEF PipelineInv, Work
<1>2. /\ job.state = "READY" /\ Goto("ENCODING")
      /\ UNCHANGED <<todo, step, check, logs, files, uploads, hand, posted, releases>>
  BY DEF ClaimJob, remote
<1>3. step = "idle" /\ check = "off"
  <2>1. step = "idle"
    BY <1>1, <1>2 DEF Placed, StageStates, Working
  <2> QED BY <1>1, <2>1, OnlyStagesCheck DEF StageSteps
<1>4. TypedJob' /\ job'.state = "ENCODING" /\ job'.sel = job.sel
  BY <1>1, <1>2, JobMoves DEF States, Working
<1>5. Typed' /\ MarksAreTrue' /\ PrepIsTrue' /\ OneHost'
  <2>1. TypedFiles'
    BY <1>1, <1>2, TypesKept DEF Typed
  <2> QED BY <1>1, <1>2, <1>4, <2>1, MarksKept, HostKept DEF Typed, TypedRemote
<1>6. Certified(StageOf(job))'
  BY <1>4 DEF Certified, StageOf
<1> QED BY <1>2, <1>3, <1>4, <1>5, <1>6, Idle

LEMMA ResumeReviewHolds == ASSUME PipelineInv, ResumeReview PROVE PipelineInv'
<1>1. /\ Work /\ Typed /\ Placed /\ MarksAreTrue /\ PrepIsTrue /\ OneHost /\ Certified(StageOf(job))
  BY DEF PipelineInv, Work
<1>2. /\ job.state = "NEEDS_REVIEW"
      /\ job' = [job EXCEPT !.state = job.resume, !.resume = "", !.why = ""]
      /\ UNCHANGED <<todo, step, check, logs, files, uploads, hand, posted, releases>>
  BY DEF ResumeReview, remote
<1>3. step = "idle" /\ check = "off"
  <2>1. step = "idle"
    BY <1>1, <1>2 DEF Placed, StageStates, Working
  <2> QED BY <1>1, <2>1, OnlyStagesCheck DEF StageSteps
<1>4. job.resume \in Working
  BY <1>1, <1>2 DEF Typed, TypedJob
<1>5. /\ TypedJob' /\ job'.state = job.resume /\ job'.sel = job.sel
      /\ StageOf(job') = StageOf(job) /\ job'.state # "COMPLETED"
  <2>1. job.resume \in States /\ job.resume \notin {"NEEDS_REVIEW", "UPLOAD_FAILED", "COMPLETED"}
    BY <1>4 DEF Working, States
  <2>2. job'.state = job.resume /\ job'.sel = job.sel
    BY <1>1, <1>2 DEF Typed, TypedJob
  <2>3. TypedJob'
    BY <1>1, <1>2, <2>1 DEF Typed, TypedJob
  <2> QED BY <1>2, <2>1, <2>2, <2>3 DEF StageOf
<1>6. Typed' /\ MarksAreTrue' /\ PrepIsTrue' /\ OneHost'
  <2>1. TypedFiles'
    BY <1>1, <1>2, TypesKept DEF Typed
  <2> QED BY <1>1, <1>2, <1>5, <2>1, MarksKept, HostKept DEF Typed, TypedRemote
<1>7. Certified(StageOf(job))'
  BY <1>1, <1>2, <1>5, CertifiedKept
<1> QED BY <1>2, <1>3, <1>5, <1>6, <1>7, Idle

LEMMA SetSelectionHolds == ASSUME PipelineInv, SetSelection PROVE PipelineInv'
<1>1. /\ Work /\ Typed /\ Placed /\ MarksAreTrue /\ PrepIsTrue /\ OneHost
  BY DEF PipelineInv, Work
<1>2. PICK s \in Selections :
        /\ job.state = "NEEDS_REVIEW"
        /\ job' = [state |-> "READY", resume |-> "", sel |-> s, why |-> ""]
        /\ UNCHANGED <<todo, step, check, logs, files, uploads, hand, posted, releases>>
  BY DEF SetSelection, remote
<1>3. step = "idle" /\ check = "off"
  <2>1. step = "idle"
    BY <1>1, <1>2 DEF Placed, StageStates, Working
  <2> QED BY <1>1, <2>1, OnlyStagesCheck DEF StageSteps
<1>4. TypedJob' /\ job'.state = "READY"
  BY <1>2 DEF TypedJob, States
<1>5. Typed' /\ MarksAreTrue' /\ PrepIsTrue' /\ OneHost'
  <2>1. TypedFiles'
    BY <1>1, <1>2, TypesKept DEF Typed
  <2> QED BY <1>1, <1>2, <1>4, <2>1, MarksKept, HostKept DEF Typed, TypedRemote
<1>6. Certified(StageOf(job))'
  BY <1>4 DEF Certified, StageOf
<1> QED BY <1>2, <1>3, <1>4, <1>5, <1>6, Idle

LEMMA RetryUploadHolds == ASSUME PipelineInv, RetryUpload PROVE PipelineInv'
<1>1. /\ Work /\ Typed /\ Placed /\ MarksAreTrue /\ PrepIsTrue /\ OneHost /\ Certified(StageOf(job))
  BY DEF PipelineInv, Work
<1>2. /\ job.state = "UPLOAD_FAILED" /\ Goto("UPLOADING")
      /\ UNCHANGED <<todo, step, check, logs, files, uploads, hand, posted, releases>>
  BY DEF RetryUpload, remote
<1>3. step = "idle" /\ check = "off"
  <2>1. step = "idle"
    BY <1>1, <1>2 DEF Placed, StageStates, Working
  <2> QED BY <1>1, <2>1, OnlyStagesCheck DEF StageSteps
<1>4. TypedJob' /\ job'.state = "UPLOADING" /\ job'.sel = job.sel /\ StageOf(job') = StageOf(job)
  BY <1>1, <1>2, JobMoves DEF States, Working, StageOf
<1>5. Typed' /\ MarksAreTrue' /\ PrepIsTrue' /\ OneHost'
  <2>1. TypedFiles'
    BY <1>1, <1>2, TypesKept DEF Typed
  <2> QED BY <1>1, <1>2, <1>4, <2>1, MarksKept, HostKept DEF Typed, TypedRemote
<1>6. Certified(StageOf(job))'
  BY <1>1, <1>2, <1>4, CertifiedKept
<1> QED BY <1>2, <1>3, <1>4, <1>5, <1>6, Idle

LEMMA StopHolds == ASSUME PipelineInv, Stop PROVE PipelineInv'
<1>1. /\ Work /\ Typed /\ Placed /\ MarksAreTrue /\ PrepIsTrue /\ OneHost /\ Certified(StageOf(job))
  BY DEF PipelineInv, Work
<1>2. /\ job.state # "COMPLETED"
      /\ job' = job \/ Goto("READY")
      /\ step' = "idle" /\ check' = "off" /\ hand' = NoHand
      /\ UNCHANGED <<logs, files, uploads, posted, releases>>
  BY DEF Stop, Rest, Working
<1>3. MarksAreTrue' /\ PrepIsTrue' /\ OneHost' /\ TypedFiles' /\ TypedRemote'
  BY <1>1, <1>2, MarksKept, HostKept, TypesKept, EmptyHand DEF Typed
<1>4. CASE job' = job
  <2>1. Certified(StageOf(job))' /\ TypedJob'
    BY <1>1, <1>2, <1>4, CertifiedKept DEF Typed, TypedJob
  <2> QED BY <1>2, <1>3, <1>4, <2>1, Idle DEF Typed
<1>5. CASE Goto("READY")
  <2>1. TypedJob' /\ job'.state = "READY"
    BY <1>1, <1>5, JobMoves DEF States
  <2>2. Certified(StageOf(job))'
    BY <2>1 DEF Certified, StageOf
  <2> QED BY <1>2, <1>3, <2>1, <2>2, Idle DEF Typed
<1> QED BY <1>2, <1>4, <1>5

LEMMA DamageHolds == ASSUME PipelineInv, Damage PROVE PipelineInv'
<1>1. /\ Work /\ Typed /\ Placed /\ MarksAreTrue /\ PrepIsTrue /\ OneHost /\ Certified(StageOf(job))
      /\ PublicationIsTrue /\ UploadIsTrue
  BY DEF PipelineInv, Work
<1>2. PICK a \in {"output", "sound", "frames"} :
        /\ job.state = "UPLOADING" /\ disk' = [disk EXCEPT ![a] = 0]
        /\ UNCHANGED <<job, todo, step, mark, made, check, logs, uploads, hand, posted, releases>>
  BY DEF Damage, remote
<1>3. step \notin StageSteps /\ check = "off"
  <2>1. step \notin StageSteps
    BY <1>1, <1>2 DEF Placed, StageStates
  <2> QED BY <1>1, <2>1, OnlyStagesCheck
<1>4. a \in Artifact /\ OnlyFile(a) /\ disk'[a] = 0 /\ disk' \in [Artifact -> 0..Len(made)]
  BY <1>1, <1>2 DEF Typed, TypedFiles, OnlyFile, Artifact
<1>5. Typed'
  BY <1>1, <1>2, <1>4 DEF Typed, TypedJob, TypedFiles, TypedRemote
<1>6. \A b \in {"reference", "script", "crf", "video", "tracks"} : disk'[b] = disk[b]
  BY <1>2, <1>4 DEF OnlyFile, Artifact
<1>7. MarksAreTrue' /\ PrepIsTrue' /\ OneHost'
  BY <1>1, <1>2, <1>6 DEF MarksAreTrue, PrepIsTrue, OneHost, Made
<1>8. Certified(StageOf(job))'
  <2>1. /\ ReferenceReady /\ ScriptReady /\ SearchReady /\ VideoReady /\ SourceSound /\ TracksReady
        /\ OutputReady /\ EvidenceReady("sound") /\ EvidenceReady("frames")
    BY <1>1, <1>2 DEF Certified, StageOf
  <2>2. ReferenceReady' /\ ScriptReady' /\ SearchReady' /\ VideoReady' /\ SourceSound' /\ TracksReady'
    BY <1>2, <1>6, <2>1 DEF ReferenceReady, ScriptReady, SearchReady, VideoReady, SourceSound, TracksReady, Made
  <2>3. \A b \in {"output", "sound", "frames"} : disk'[b] \in {0, disk[b]}
    BY <1>2, <1>4 DEF OnlyFile, Artifact
  <2>4. OutputReady'
    BY <1>2, <1>6, <2>1, <2>3 DEF OutputReady, Made
  <2>5. EvidenceReady("sound")' /\ EvidenceReady("frames")'
    BY <1>2, <2>1, <2>3 DEF EvidenceReady, Made
  <2> QED BY <1>2, <2>2, <2>4, <2>5 DEF Certified, StageOf
<1>9. Placed' /\ BodyIsTrue'
  BY <1>1, <1>2, <1>3 DEF Placed, BodyIsTrue, Doing, StageSteps
<1>10. PublicationIsTrue' /\ UploadIsTrue'
  BY <1>1, <1>2 DEF PublicationIsTrue, UploadIsTrue, Picture
<1> QED BY <1>5, <1>7, <1>8, <1>9, <1>10 DEF PipelineInv, Work

-----------------------------------------------------------------------------
(* Upload                                                                    *)

Pinned == <<mark["output"].out, mark["sound"].out, mark["frames"].out>>

\* The upload leaves the files and what they were made for as they are.
LEMMA UploadWork ==
    ASSUME Work, UNCHANGED <<files, logs>>, job.state = "UPLOADING", job'.sel = job.sel,
           step \notin StageSteps, step' \in UploadSteps, UNCHANGED <<job, check>>, TypedRemote'
    PROVE  Work'
<1>1. /\ Typed /\ Placed /\ MarksAreTrue /\ PrepIsTrue /\ Certified(StageOf(job))
  BY DEF Work
<1>2. check = "off"
  BY <1>1, OnlyStagesCheck
<1>3. Typed'
  BY <1>1, TypesKept DEF Typed, TypedJob
<1>4. MarksAreTrue' /\ PrepIsTrue' /\ Certified(StageOf(job))'
  BY <1>1, MarksKept, CertifiedKept
<1>5. step' \notin StageSteps /\ step' # "idle" /\ step' # "made" /\ step' # "tool"
  BY DEF StageSteps, UploadSteps, SendSteps, PublishSteps
<1>6. Placed' /\ BodyIsTrue'
  BY <1>2, <1>5 DEF Placed, BodyIsTrue, Doing
<1> QED BY <1>3, <1>4, <1>6 DEF Work

\* The upload ends, for a review, a retry or the completion.
LEMMA UploadEnds ==
    ASSUME PipelineInv, UNCHANGED <<files, logs>>, job.state = "UPLOADING",
           \/ UploadFails
           \/ Review("changed") \/ Review("uploads") \/ Review("taken")
           \/ Rest /\ job' = job,
           TypedRemote', OneHost'
    PROVE  PipelineInv'
<1>1. /\ Typed /\ MarksAreTrue /\ PrepIsTrue /\ Certified(StageOf(job))
  BY DEF PipelineInv, Work
<1>2. step' = "idle" /\ check' = "off"
  BY DEF UploadFails, Review, Rest
<1>3. TypedJob' /\ job'.sel = job.sel /\ StageOf(job') = StageOf(job) /\ job'.state # "COMPLETED"
  <2>1. CASE UploadFails
    <3>1. Goto("UPLOAD_FAILED") /\ "UPLOAD_FAILED" \in States
      BY <2>1 DEF UploadFails, States
    <3> QED BY <1>1, <3>1, JobMoves DEF StageOf
  <2>2. CASE Review("changed") \/ Review("uploads") \/ Review("taken")
    BY <1>1, <2>2, JobReviewed DEF Working
  <2>3. CASE Rest /\ job' = job
    BY <1>1, <2>3 DEF Typed, TypedJob
  <2> QED BY <2>1, <2>2, <2>3
<1>4. Typed' /\ MarksAreTrue' /\ PrepIsTrue' /\ Certified(StageOf(job))'
  BY <1>1, <1>3, TypesKept, MarksKept, CertifiedKept DEF Typed
<1> QED BY <1>2, <1>3, <1>4, Idle

LEMMA InUpload ==
    ASSUME PipelineInv, step \in UploadSteps
    PROVE  /\ job.state = "UPLOADING" /\ step \notin StageSteps
           /\ hand.pins = Pinned /\ hand.pins[1] = mark["output"].out
           /\ hand.pins[2] = mark["sound"].out /\ hand.pins[3] = mark["frames"].out
           /\ Work /\ OneHost /\ PublicationIsTrue /\ UploadIsTrue /\ TypedRemote
  BY DEF PipelineInv, Work, Typed, Placed, PublicationIsTrue, Pinned,
         StageSteps, UploadSteps, SendSteps, PublishSteps

\* What the upload holds after a step on the way to the last image.
LEMMA StillSending ==
    ASSUME Work', OneHost', UploadIsTrue', job'.state = "UPLOADING",
           step' \in {"host"} \cup SendSteps, hand'.pins = Pinned'
    PROVE  PipelineInv'
<1>1. step' \in UploadSteps /\ step' \notin PublishSteps
  BY DEF UploadSteps, SendSteps, PublishSteps
<1>2. PublicationIsTrue'
  BY <1>1 DEF PublicationIsTrue, PublishSteps, Pinned
<1> QED BY <1>2 DEF PipelineInv

LEMMA BeginUploadHolds == ASSUME PipelineInv, BeginUpload PROVE PipelineInv'
<1>1. /\ Work /\ OneHost /\ Placed /\ Typed /\ TypedRemote
  BY DEF PipelineInv, Work, Typed
<1>2. /\ job.state = "UPLOADING" /\ step = "idle"
      /\ UNCHANGED <<files, logs, uploads, posted, releases>>
  BY DEF BeginUpload
<1>3. OneHost'
  BY <1>1, <1>2, HostKept
<1>4. CASE ~LoadPrepared \/ ~EvidenceCurrent \/ ~CheckpointFits
  <2>1. Review("changed") \/ Review("uploads")
    BY <1>4 DEF BeginUpload
  <2>2. TypedRemote'
    BY <1>1, <1>2, <2>1, EmptyHand DEF Review, Rest
  <2> QED BY <1>2, <1>3, <2>1, <2>2, UploadEnds
<1>5. CASE LoadPrepared /\ EvidenceCurrent /\ CheckpointFits
  <2>1. /\ hand' = [NoHand EXCEPT !.pins = Pins, !.lock = LoadedLock]
        /\ step' = "host" /\ UNCHANGED <<job, todo, check>>
    BY <1>5 DEF BeginUpload
  <2>2. DOMAIN hand' = {"lock", "hosts", "image", "pins"} /\ hand'.pins = Pins /\ hand'.lock = LoadedLock
    BY <2>1 DEF NoHand
  <2>3. /\ Pins = Pinned /\ Pinned' = Pinned
        /\ disk["frames"] = mark["frames"].out /\ Pinned[3] = mark["frames"].out
    BY <1>2, <1>5 DEF EvidenceCurrent, RecordedOutput, Pins, Pinned, files
  <2>4. step' \in UploadSteps /\ step \notin StageSteps
    BY <1>2, <2>1 DEF UploadSteps, StageSteps
  <2>5. TypedRemote'
    BY <1>1, <1>2, <2>2 DEF TypedRemote
  <2>6. Work'
    BY <1>1, <1>2, <2>1, <2>4, <2>5, UploadWork
  <2>7. UploadIsTrue'
    <3>1. uploads.images # {} => uploads.picture = Picture(mark["frames"].out)
      BY <1>5, <2>3 DEF CheckpointFits
    <3>2. (uploads.images # {} => uploads.picture = Picture(hand.pins[3]))'
      BY <1>2, <2>2, <2>3, <3>1 DEF files, Picture
    <3>3. /\ hand'.lock = NoHost => posted = {} \/ uploads.kind = "skipped"
          /\ hand'.lock # NoHost => uploads.kind = "open" /\ uploads.host = hand'.lock
      BY <1>1, <2>2 DEF OneHost, LoadedLock
    <3>4. uploads.kind = "skipped" => job.sel.host = "none"
      BY <1>5 DEF CheckpointFits, sel
    <3> QED BY <1>2, <2>1, <3>2, <3>3, <3>4 DEF UploadIsTrue, SendSteps
  <2> QED BY <1>2, <1>3, <2>1, <2>2, <2>3, <2>6, <2>7, StillSending
<1> QED BY <1>4, <1>5

LEMMA PinsKept ==
    ASSUME UNCHANGED files
    PROVE  Pinned' = Pinned
  BY DEF Pinned, files

LEMMA SkipUploadHolds == ASSUME PipelineInv, SkipUpload PROVE PipelineInv'
<1>1. step = "host" /\ step \in UploadSteps
  BY DEF SkipUpload, UploadSteps
<1>2. /\ job.state = "UPLOADING" /\ step \notin StageSteps /\ hand.pins = Pinned
      /\ Work /\ OneHost /\ TypedRemote
  BY <1>1, InUpload
<1>3. /\ sel.host = "none" /\ uploads' = [NoUploads EXCEPT !.kind = "skipped"] /\ step' = "publish"
      /\ UNCHANGED <<job, todo, files, check, logs, hand, posted, releases>>
  BY DEF SkipUpload
<1>4. /\ DOMAIN uploads' = {"kind", "host", "images", "picture"} /\ uploads'.kind = "skipped"
      /\ uploads'.images = {} /\ uploads'.host = NoHost
  BY <1>3 DEF NoUploads
<1>5. step' \in UploadSteps
  BY <1>3 DEF UploadSteps, PublishSteps
<1>6. Work'
  <2>1. TypedRemote'
    BY <1>2, <1>3, <1>4 DEF TypedRemote
  <2> QED BY <1>2, <1>3, <1>5, <2>1, UploadWork
<1>7. OneHost'
  BY <1>2, <1>3, <1>4 DEF OneHost
<1>8. UploadIsTrue'
  BY <1>3 DEF UploadIsTrue, SendSteps
<1>9. PublicationIsTrue'
  <2>1. hand'.pins = Pinned'
    BY <1>2, <1>3, PinsKept
  <2> QED BY <1>2, <1>3, <2>1 DEF PublicationIsTrue, Pinned, sel
<1> QED BY <1>6, <1>7, <1>8, <1>9 DEF PipelineInv

LEMMA ChooseHostsHolds == ASSUME PipelineInv, ChooseHosts PROVE PipelineInv'
<1>1. step = "host" /\ step \in UploadSteps
  BY DEF ChooseHosts, UploadSteps
<1>2. /\ job.state = "UPLOADING" /\ step \notin StageSteps /\ hand.pins = Pinned
      /\ Work /\ OneHost /\ TypedRemote /\ UploadIsTrue
  BY <1>1, InUpload
<1>3. /\ sel.host # "none" /\ UNCHANGED <<files, logs, uploads, posted, releases>>
  BY DEF ChooseHosts
<1>4. OneHost' /\ Pinned' = Pinned
  BY <1>2, <1>3, HostKept, PinsKept
<1>5. CASE uploads.images = Images
  <2>1. step' = "publish" /\ UNCHANGED <<job, todo, check, hand>>
    BY <1>5 DEF ChooseHosts
  <2>2. step' \in UploadSteps
    BY <2>1 DEF UploadSteps, PublishSteps
  <2>3. Work'
    BY <1>2, <1>3, <2>1, <2>2, UploadWork DEF TypedRemote
  <2>4. uploads.picture = Picture(hand.pins[3])
    BY <1>1, <1>2, <1>5, ImageAssumption DEF UploadIsTrue
  <2>5. UploadIsTrue'
    BY <2>1 DEF UploadIsTrue, SendSteps
  <2>6. (uploads.images = Images /\ uploads.picture = Picture(hand.pins[3]))'
    BY <1>3, <1>5, <2>1, <2>4 DEF Picture, files
  <2>7. hand'.pins = Pinned'
    BY <1>2, <1>4, <2>1
  <2>8. PublicationIsTrue'
    BY <1>2, <2>1, <2>6, <2>7 DEF PublicationIsTrue, Pinned
  <2> QED BY <1>4, <2>3, <2>5, <2>8 DEF PipelineInv
<1>6. CASE uploads.images # Images /\ hand.lock # NoHost /\ sel.host \notin {"auto", hand.lock}
  <2>1. UploadFails
    BY <1>6 DEF ChooseHosts
  <2>2. TypedRemote'
    BY <1>2, <1>3, <2>1, EmptyHand DEF UploadFails, Rest
  <2> QED BY <1>2, <1>3, <1>4, <2>1, <2>2, UploadEnds
<1>7. CASE uploads.images # Images /\ ~(hand.lock # NoHost /\ sel.host \notin {"auto", hand.lock})
  <2>1. /\ hand' = [hand EXCEPT !.hosts = IF hand.lock # NoHost THEN <<hand.lock>>
                                          ELSE IF sel.host # "auto" THEN <<sel.host>> ELSE Hosts]
        /\ step' = "pin" /\ UNCHANGED <<job, todo, check>>
    BY <1>7 DEF ChooseHosts
  <2>2. /\ DOMAIN hand' = {"lock", "hosts", "image", "pins"} /\ hand'.pins = hand.pins /\ hand'.lock = hand.lock
        /\ hand'.hosts = IF hand.lock # NoHost THEN <<hand.lock>>
                         ELSE IF sel.host # "auto" THEN <<sel.host>> ELSE Hosts
    BY <1>2, <2>1 DEF TypedRemote
  <2>3. hand.lock # NoHost => uploads.kind = "open" /\ uploads.host = hand.lock /\ hand.lock \in HostSet
    BY <1>1, <1>2 DEF UploadIsTrue, OneHost
  <2>4. sel.host \in HostSet \cup {"auto"}
    <3>1. sel \in Selections
      BY <1>2 DEF Work, Typed, TypedJob, sel
    <3> QED BY <1>3, <3>1, SelectionAssumption DEF SelectionOK
  <2>5. hand'.hosts \in Seq(HostSet) /\ hand'.hosts # <<>> /\ (hand.lock # NoHost => Head(hand'.hosts) = hand.lock)
    <3>1. CASE hand.lock # NoHost
      BY <2>2, <2>3, <3>1
    <3>2. CASE hand.lock = NoHost /\ sel.host # "auto"
      BY <2>2, <2>4, <3>2
    <3>3. CASE hand.lock = NoHost /\ sel.host = "auto"
      BY <2>2, <3>3, HostAssumption
    <3> QED BY <3>1, <3>2, <3>3
  <2>6. step' \in UploadSteps /\ step' \in SendSteps
    BY <2>1 DEF UploadSteps, SendSteps
  <2>7. Work'
    <3>1. TypedRemote'
      BY <1>2, <1>3, <2>2 DEF TypedRemote
    <3> QED BY <1>2, <1>3, <2>1, <2>6, <3>1, UploadWork
  <2>8. (uploads.images # {} => uploads.picture = Picture(hand.pins[3]))'
    BY <1>1, <1>2, <1>3, <2>2 DEF UploadIsTrue, Picture, files
  <2>9. /\ hand'.lock = NoHost => posted = {} \/ uploads.kind = "skipped"
        /\ hand'.lock # NoHost => uploads.kind = "open" /\ uploads.host = hand'.lock
        /\ uploads.kind # "skipped"
    BY <1>1, <1>2, <1>3, <2>2 DEF UploadIsTrue, sel
  <2>10. UploadIsTrue'
    BY <1>3, <2>1, <2>2, <2>5, <2>8, <2>9 DEF UploadIsTrue, SendSteps, sel
  <2> QED BY <1>2, <1>4, <2>1, <2>2, <2>6, <2>7, <2>10, StillSending
<1> QED BY <1>5, <1>6, <1>7

LEMMA PinHostHolds == ASSUME PipelineInv, PinHost PROVE PipelineInv'
<1>1. step = "pin" /\ step \in UploadSteps /\ step \in SendSteps
  BY DEF PinHost, UploadSteps, SendSteps
<1>2. /\ job.state = "UPLOADING" /\ step \notin StageSteps /\ hand.pins = Pinned
      /\ Work /\ OneHost /\ TypedRemote /\ UploadIsTrue
  BY <1>1, InUpload
<1>3. /\ uploads' = IF hand.lock # NoHost THEN uploads
                    ELSE [uploads EXCEPT !.kind = "open", !.host = Head(hand.hosts)]
      /\ step' = "send" /\ UNCHANGED <<job, todo, files, check, logs, hand, posted, releases>>
  BY DEF PinHost
<1>4. /\ hand.hosts \in Seq(HostSet) /\ hand.hosts # <<>> /\ Head(hand.hosts) \in HostSet
      /\ uploads.kind # "skipped" /\ job.sel.host # "none"
      /\ hand.lock = NoHost => posted = {}
      /\ hand.lock # NoHost => /\ Head(hand.hosts) = hand.lock
                               /\ uploads.kind = "open" /\ uploads.host = hand.lock
  <2>1. hand.hosts \in Seq(HostSet) /\ hand.hosts # <<>>
    BY <1>1, <1>2 DEF UploadIsTrue
  <2> QED BY <1>1, <1>2, <2>1 DEF UploadIsTrue
<1>5. /\ DOMAIN uploads' = {"kind", "host", "images", "picture"}
      /\ uploads'.images = uploads.images /\ uploads'.picture = uploads.picture
      /\ uploads'.kind = "open" /\ uploads'.host = Head(hand.hosts)
  <2>1. CASE hand.lock # NoHost
    BY <1>2, <1>3, <1>4, <2>1 DEF TypedRemote
  <2>2. CASE hand.lock = NoHost
    BY <1>2, <1>3, <2>2 DEF TypedRemote
  <2> QED BY <2>1, <2>2
<1>6. step' \in UploadSteps /\ step' \in SendSteps
  BY <1>3 DEF UploadSteps, SendSteps
<1>7. Work'
  <2>1. TypedRemote'
    BY <1>2, <1>3, <1>5 DEF TypedRemote
  <2> QED BY <1>2, <1>3, <1>6, <2>1, UploadWork
<1>8. OneHost'
  <2>1. Head(hand.hosts) # NoHost
    BY <1>4, HostAssumption
  <2>2. CASE hand.lock # NoHost
    BY <1>2, <1>3, <1>4, <1>5, <2>1, <2>2 DEF OneHost
  <2>3. CASE hand.lock = NoHost
    <3>1. posted = {} /\ uploads.images = {}
      BY <1>2, <1>4, <2>3 DEF OneHost
    <3> QED BY <1>3, <1>4, <1>5, <2>1, <3>1 DEF OneHost
  <2> QED BY <2>2, <2>3
<1>9. UploadIsTrue'
  <2>1. (uploads.images # {} => uploads.picture = Picture(hand.pins[3]))'
    BY <1>1, <1>2, <1>3, <1>5 DEF UploadIsTrue, Picture, files
  <2> QED BY <1>3, <1>4, <1>5, <2>1 DEF UploadIsTrue, SendSteps
<1>10. hand'.pins = Pinned'
  BY <1>2, <1>3, PinsKept
<1> QED BY <1>2, <1>3, <1>6, <1>7, <1>8, <1>9, <1>10, StillSending

LEMMA PostImageHolds == ASSUME PipelineInv, PostImage PROVE PipelineInv'
<1>1. step = "send" /\ step \in UploadSteps /\ step \in SendSteps
  BY DEF PostImage, UploadSteps, SendSteps
<1>2. /\ job.state = "UPLOADING" /\ step \notin StageSteps /\ hand.pins = Pinned
      /\ Work /\ OneHost /\ TypedRemote /\ UploadIsTrue
  BY <1>1, InUpload
<1>3. PICK i \in Pending :
        /\ posted' = posted \cup {<<Head(hand.hosts), i, Picture(hand.pins[3])>>}
        /\ hand' = [hand EXCEPT !.image = i]
        /\ step' = "sent" /\ UNCHANGED <<job, todo, files, check, logs, uploads, releases>>
  BY DEF PostImage
<1>4. /\ DOMAIN hand' = {"lock", "hosts", "image", "pins"}
      /\ hand'.image = i /\ hand'.hosts = hand.hosts /\ hand'.lock = hand.lock /\ hand'.pins = hand.pins
      /\ i \in Images
  BY <1>2, <1>3 DEF TypedRemote, Pending
<1>5. step' \in UploadSteps /\ step' \in SendSteps
  BY <1>3 DEF UploadSteps, SendSteps
<1>6. Work'
  <2>1. TypedRemote'
    BY <1>2, <1>3, <1>4 DEF TypedRemote
  <2> QED BY <1>2, <1>3, <1>5, <2>1, UploadWork
<1>7. /\ uploads.kind = "open" /\ uploads.host = Head(hand.hosts) /\ Head(hand.hosts) \in HostSet
      /\ hand.hosts \in Seq(HostSet) /\ hand.hosts # <<>> /\ job.sel.host # "none"
      /\ hand.lock # NoHost => Head(hand.hosts) = hand.lock
  <2>1. hand.hosts \in Seq(HostSet) /\ hand.hosts # <<>>
    BY <1>1, <1>2 DEF UploadIsTrue
  <2> QED BY <1>1, <1>2, <2>1 DEF UploadIsTrue
<1>8. OneHost'
  <2>1. \A p \in posted : p[1] = uploads.host
    BY <1>2, <1>7 DEF OneHost
  <2>2. \A p \in posted' : p[1] = uploads.host
    BY <1>3, <1>7, <2>1
  <2>3. \A j \in uploads.images : <<uploads.host, j, uploads.picture>> \in posted'
    BY <1>2, <1>3 DEF OneHost
  <2>4. uploads.host # NoHost
    BY <1>7, HostAssumption
  <2> QED BY <1>2, <1>3, <1>7, <2>2, <2>3, <2>4 DEF OneHost
<1>9. UploadIsTrue'
  <2>1. (uploads.images # {} => uploads.picture = Picture(hand.pins[3]))'
    BY <1>1, <1>2, <1>3, <1>4 DEF UploadIsTrue, Picture, files
  <2>2. (<<Head(hand.hosts), hand.image, Picture(hand.pins[3])>> \in posted)'
    BY <1>3, <1>4 DEF Picture, files
  <2> QED BY <1>3, <1>4, <1>7, <2>1, <2>2 DEF UploadIsTrue, SendSteps
<1>10. hand'.pins = Pinned'
  BY <1>2, <1>3, <1>4, PinsKept
<1> QED BY <1>2, <1>3, <1>5, <1>6, <1>8, <1>9, <1>10, StillSending

LEMMA RecordImageHolds == ASSUME PipelineInv, RecordImage PROVE PipelineInv'
<1>1. step = "sent" /\ step \in UploadSteps /\ step \in SendSteps
  BY DEF RecordImage, UploadSteps, SendSteps
<1>2. /\ job.state = "UPLOADING" /\ step \notin StageSteps /\ hand.pins = Pinned
      /\ Work /\ OneHost /\ TypedRemote /\ UploadIsTrue
  BY <1>1, InUpload
<1>3. /\ uploads' = [kind |-> "open", host |-> Head(hand.hosts),
                     images |-> uploads.images \cup {hand.image}, picture |-> Picture(hand.pins[3])]
      /\ hand' = [hand EXCEPT !.lock = Head(hand.hosts), !.image = NoHost]
      /\ step' = IF uploads'.images = Images THEN "publish" ELSE "send"
      /\ UNCHANGED <<job, todo, files, check, logs, posted, releases>>
  BY DEF RecordImage
<1>4. /\ DOMAIN hand' = {"lock", "hosts", "image", "pins"}
      /\ hand'.hosts = hand.hosts /\ hand'.lock = Head(hand.hosts) /\ hand'.pins = hand.pins
  BY <1>2, <1>3 DEF TypedRemote
<1>5. /\ DOMAIN uploads' = {"kind", "host", "images", "picture"}
      /\ uploads'.kind = "open" /\ uploads'.host = Head(hand.hosts)
      /\ uploads'.images = uploads.images \cup {hand.image} /\ uploads'.picture = Picture(hand.pins[3])
  BY <1>3
<1>6. step' \in UploadSteps
  BY <1>3 DEF UploadSteps, SendSteps, PublishSteps
<1>7. Work'
  <2>1. TypedRemote'
    BY <1>2, <1>3, <1>4, <1>5 DEF TypedRemote
  <2> QED BY <1>2, <1>3, <1>6, <2>1, UploadWork
<1>8. /\ uploads.kind = "open" /\ uploads.host = Head(hand.hosts) /\ Head(hand.hosts) \in HostSet
      /\ hand.hosts \in Seq(HostSet) /\ hand.hosts # <<>> /\ job.sel.host # "none"
      /\ hand.image \in Images /\ <<Head(hand.hosts), hand.image, Picture(hand.pins[3])>> \in posted
      /\ uploads.images # {} => uploads.picture = Picture(hand.pins[3])
  <2>1. hand.hosts \in Seq(HostSet) /\ hand.hosts # <<>>
    BY <1>1, <1>2 DEF UploadIsTrue
  <2> QED BY <1>1, <1>2, <2>1 DEF UploadIsTrue
<1>9. Head(hand.hosts) # NoHost
  BY <1>8, HostAssumption
<1>10. OneHost'
  <2>1. /\ \A p, q \in posted : p[1] = q[1]
        /\ \A p \in posted : p[1] = Head(hand.hosts)
        /\ uploads.images \subseteq Images
    BY <1>2, <1>8 DEF OneHost
  <2>2. \A j \in uploads.images : <<Head(hand.hosts), j, Picture(hand.pins[3])>> \in posted
    BY <1>2, <1>8 DEF OneHost
  <2>3. \A j \in uploads'.images : <<uploads'.host, j, uploads'.picture>> \in posted'
    BY <1>3, <1>5, <1>8, <2>2
  <2> QED BY <1>3, <1>5, <1>8, <1>9, <2>1, <2>3 DEF OneHost
<1>11. (uploads.picture = Picture(hand.pins[3]))'
  BY <1>3, <1>4, <1>5 DEF Picture, files
<1>12. UploadIsTrue'
  BY <1>3, <1>4, <1>5, <1>8, <1>9, <1>11 DEF UploadIsTrue, SendSteps
<1>13. hand'.pins = Pinned'
  BY <1>2, <1>3, <1>4, PinsKept
<1>14. PublicationIsTrue'
  BY <1>2, <1>3, <1>11, <1>13 DEF PublicationIsTrue, Pinned, PublishSteps
<1> QED BY <1>7, <1>10, <1>12, <1>14 DEF PipelineInv

LEMMA PostUnclearHolds == ASSUME PipelineInv, PostUnclear PROVE PipelineInv'
<1>1. step = "sent" /\ step \in UploadSteps /\ step \in SendSteps
  BY DEF PostUnclear, UploadSteps, SendSteps
<1>2. job.state = "UPLOADING" /\ OneHost /\ TypedRemote /\ UploadIsTrue
  BY <1>1, InUpload
<1>3. /\ uploads' = [uploads EXCEPT !.host = Head(hand.hosts)] /\ UploadFails
      /\ UNCHANGED <<files, logs, posted, releases>>
  BY DEF PostUnclear
<1>4. /\ DOMAIN uploads' = {"kind", "host", "images", "picture"} /\ uploads'.kind = uploads.kind
      /\ uploads'.images = uploads.images /\ uploads'.picture = uploads.picture
      /\ uploads'.host = uploads.host
  BY <1>1, <1>2, <1>3 DEF TypedRemote, UploadIsTrue
<1>5. TypedRemote'
  BY <1>2, <1>3, <1>4 DEF TypedRemote, UploadFails, Rest, NoHand
<1>6. OneHost'
  BY <1>2, <1>3, <1>4 DEF OneHost
<1> QED BY <1>2, <1>3, <1>5, <1>6, UploadEnds

LEMMA PostRefusedHolds == ASSUME PipelineInv, PostRefused PROVE PipelineInv'
<1>1. step = "send" /\ step \in UploadSteps
  BY DEF PostRefused, UploadSteps, SendSteps
<1>2. job.state = "UPLOADING" /\ OneHost /\ TypedRemote
  BY <1>1, InUpload
<1>3. UploadFails /\ UNCHANGED <<files, logs, uploads, posted, releases>>
  BY DEF PostRefused
<1>4. TypedRemote' /\ OneHost'
  BY <1>2, <1>3, EmptyHand, HostKept DEF UploadFails, Rest
<1> QED BY <1>2, <1>3, <1>4, UploadEnds

LEMMA LongTail ==
    ASSUME NEW S, NEW s \in Seq(S), Len(s) > 1
    PROVE  Tail(s) \in Seq(S) /\ Tail(s) # <<>>
<1>1. Len(s) \in Nat /\ Len(Tail(s)) = Len(s) - 1 /\ Tail(s) \in Seq(S)
  OBVIOUS
<1>2. Len(Tail(s)) # 0
  BY <1>1
<1> QED BY <1>1, <1>2

LEMMA PostDeferredHolds == ASSUME PipelineInv, PostDeferred PROVE PipelineInv'
<1>1. step = "send" /\ step \in UploadSteps /\ step \in SendSteps
  BY DEF PostDeferred, UploadSteps, SendSteps
<1>2. /\ job.state = "UPLOADING" /\ step \notin StageSteps /\ hand.pins = Pinned
      /\ Work /\ OneHost /\ TypedRemote /\ UploadIsTrue
  BY <1>1, InUpload
<1>3. UNCHANGED <<files, logs, posted, releases>>
  BY DEF PostDeferred
<1>4. /\ uploads.kind = "open" /\ hand.hosts \in Seq(HostSet) /\ hand.hosts # <<>> /\ job.sel.host # "none"
      /\ hand.lock = NoHost => posted = {}
  BY <1>1, <1>2 DEF UploadIsTrue
<1>5. CASE hand.lock # NoHost
  <2>1. UploadFails /\ uploads' = uploads
    BY <1>5 DEF PostDeferred
  <2>2. TypedRemote' /\ OneHost'
    BY <1>2, <1>3, <2>1, EmptyHand, HostKept DEF UploadFails, Rest
  <2> QED BY <1>2, <1>3, <2>1, <2>2, UploadEnds
<1>6. CASE hand.lock = NoHost /\ sel.host = "auto" /\ Len(hand.hosts) > 1
  <2>1. /\ hand' = [hand EXCEPT !.hosts = Tail(@)] /\ step' = "pin"
        /\ UNCHANGED <<job, todo, check, uploads>>
    BY <1>6 DEF PostDeferred
  <2>2. /\ DOMAIN hand' = {"lock", "hosts", "image", "pins"}
        /\ hand'.hosts = Tail(hand.hosts) /\ hand'.lock = hand.lock /\ hand'.pins = hand.pins
    BY <1>2, <2>1 DEF TypedRemote
  <2>3. Tail(hand.hosts) \in Seq(HostSet) /\ Tail(hand.hosts) # <<>>
    BY <1>4, <1>6, LongTail
  <2>4. step' \in UploadSteps /\ step' \in SendSteps
    BY <2>1 DEF UploadSteps, SendSteps
  <2>5. Work'
    <3>1. TypedRemote'
      BY <1>2, <1>3, <2>1, <2>2 DEF TypedRemote
    <3> QED BY <1>2, <1>3, <2>1, <2>4, <3>1, UploadWork
  <2>6. OneHost' /\ hand'.pins = Pinned'
    BY <1>2, <1>3, <2>1, <2>2, HostKept, PinsKept
  <2>7. UploadIsTrue'
    <3>1. (uploads.images # {} => uploads.picture = Picture(hand.pins[3]))'
      BY <1>1, <1>2, <1>3, <2>1, <2>2 DEF UploadIsTrue, Picture, files
    <3> QED BY <1>3, <1>4, <1>6, <2>1, <2>2, <2>3, <3>1 DEF UploadIsTrue, SendSteps
  <2> QED BY <1>2, <2>1, <2>4, <2>5, <2>6, <2>7, StillSending
<1>7. CASE hand.lock = NoHost /\ ~(sel.host = "auto" /\ Len(hand.hosts) > 1)
  <2>1. uploads' = [uploads EXCEPT !.host = NoHost] /\ UploadFails
    BY <1>7 DEF PostDeferred
  <2>2. /\ DOMAIN uploads' = {"kind", "host", "images", "picture"} /\ uploads'.kind = uploads.kind
        /\ uploads'.images = uploads.images /\ uploads'.host = NoHost
    BY <1>2, <2>1 DEF TypedRemote
  <2>3. TypedRemote'
    BY <1>2, <1>3, <2>1, <2>2 DEF TypedRemote, UploadFails, Rest, NoHand
  <2>4. posted = {} /\ uploads.images = {}
    BY <1>2, <1>4, <1>7 DEF OneHost
  <2>5. OneHost'
    BY <1>2, <1>3, <2>2, <2>4 DEF OneHost
  <2> QED BY <1>2, <1>3, <2>1, <2>3, <2>5, UploadEnds
<1> QED BY <1>5, <1>6, <1>7

-----------------------------------------------------------------------------
(* Publication                                                               *)

LEMMA NameIsKnown == Typed => job.sel.name \in {s.name : s \in Selections}
  BY DEF Typed, TypedJob

\* A step of the publication that goes on.
LEMMA Publishing ==
    ASSUME PipelineInv, step \in PublishSteps, step' \in PublishSteps,
           UNCHANGED <<job, todo, check, hand, files, logs, uploads, posted>>,
           TypedRemote',
           step' \in {"sidecars", "complete"} => releases'[job.sel.name].output = hand.pins[1],
           step' = "complete" => /\ releases'[job.sel.name].sound = hand.pins[2]
                                 /\ releases'[job.sel.name].frames = hand.pins[3]
    PROVE  PipelineInv'
<1>1. step \in UploadSteps /\ step' \in UploadSteps
  BY DEF UploadSteps
<1>2. /\ job.state = "UPLOADING" /\ step \notin StageSteps /\ hand.pins = Pinned
      /\ Work /\ OneHost /\ PublicationIsTrue
  BY <1>1, InUpload
<1>3. Work' /\ OneHost' /\ Pinned' = Pinned
  BY <1>1, <1>2, UploadWork, HostKept, PinsKept
<1>4. UploadIsTrue'
  BY DEF UploadIsTrue, SendSteps, PublishSteps
<1>5. (job.sel.host # "none" =>
         uploads.images = Images /\ uploads.picture = Picture(hand.pins[3]))'
  BY <1>2 DEF PublicationIsTrue, Picture, files
<1>6. PublicationIsTrue'
  BY <1>2, <1>3, <1>5 DEF PublicationIsTrue, Pinned
<1> QED BY <1>3, <1>4, <1>6 DEF PipelineInv

LEMMA ClaimReleaseHolds == ASSUME PipelineInv, ClaimRelease PROVE PipelineInv'
<1>1. step = "publish" /\ step \in UploadSteps /\ step \in PublishSteps
  BY DEF ClaimRelease, UploadSteps, PublishSteps
<1>2. job.state = "UPLOADING" /\ OneHost /\ TypedRemote /\ job.sel.name \in {s.name : s \in Selections}
  BY <1>1, InUpload, NameIsKnown DEF Work
<1>3. UNCHANGED <<files, logs, uploads, posted>>
  BY DEF ClaimRelease
<1>4. \/ (Review("changed") \/ Review("taken")) /\ releases' = releases
      \/ /\ releases' = [releases EXCEPT ![job.sel.name].owner = hand.pins[1]]
         /\ step' = "copy" /\ UNCHANGED <<job, todo, check, hand>>
  BY DEF ClaimRelease, sel
<1>5. CASE (Review("changed") \/ Review("taken")) /\ releases' = releases
  <2>1. TypedRemote' /\ OneHost'
    BY <1>2, <1>3, <1>5, EmptyHand, HostKept DEF Review, Rest
  <2> QED BY <1>2, <1>3, <1>5, <2>1, UploadEnds
<1>6. CASE /\ releases' = [releases EXCEPT ![job.sel.name].owner = hand.pins[1]]
           /\ step' = "copy" /\ UNCHANGED <<job, todo, check, hand>>
  <2>1. TypedRemote'
    BY <1>2, <1>3, <1>6 DEF TypedRemote
  <2>2. step' \in PublishSteps /\ step' \notin {"sidecars", "complete"}
    BY <1>6 DEF PublishSteps
  <2> QED BY <1>1, <1>3, <1>6, <2>1, <2>2, Publishing
<1> QED BY <1>4, <1>5, <1>6

LEMMA CopyOutputHolds == ASSUME PipelineInv, CopyOutput PROVE PipelineInv'
<1>1. step = "copy" /\ step \in UploadSteps /\ step \in PublishSteps
  BY DEF CopyOutput, UploadSteps, PublishSteps
<1>2. job.state = "UPLOADING" /\ OneHost /\ TypedRemote /\ job.sel.name \in {s.name : s \in Selections}
  BY <1>1, InUpload, NameIsKnown DEF Work
<1>3. UNCHANGED <<files, logs, uploads, posted>>
  BY DEF CopyOutput
<1>4. \/ (Review("taken") \/ (Rest /\ job' = job)) /\ releases' = releases
      \/ /\ releases' = [releases EXCEPT ![job.sel.name].output = hand.pins[1]]
         /\ step' = "sidecars" /\ UNCHANGED <<job, todo, check, hand>>
  BY DEF CopyOutput, sel
<1>5. CASE (Review("taken") \/ (Rest /\ job' = job)) /\ releases' = releases
  <2>1. TypedRemote' /\ OneHost'
    BY <1>2, <1>3, <1>5, EmptyHand, HostKept DEF Review, Rest
  <2> QED BY <1>2, <1>3, <1>5, <2>1, UploadEnds
<1>6. CASE /\ releases' = [releases EXCEPT ![job.sel.name].output = hand.pins[1]]
           /\ step' = "sidecars" /\ UNCHANGED <<job, todo, check, hand>>
  <2>1. TypedRemote' /\ releases'[job.sel.name].output = hand.pins[1]
    BY <1>2, <1>3, <1>6 DEF TypedRemote
  <2>2. step' \in PublishSteps /\ step' # "complete"
    BY <1>6 DEF PublishSteps
  <2> QED BY <1>1, <1>3, <1>6, <2>1, <2>2, Publishing
<1> QED BY <1>4, <1>5, <1>6

LEMMA ReplaceSidecarsHolds == ASSUME PipelineInv, ReplaceSidecars PROVE PipelineInv'
<1>1. step = "sidecars" /\ step \in UploadSteps /\ step \in PublishSteps
  BY DEF ReplaceSidecars, UploadSteps, PublishSteps
<1>2. /\ job.state = "UPLOADING" /\ OneHost /\ TypedRemote /\ job.sel.name \in {s.name : s \in Selections}
      /\ releases[job.sel.name].output = hand.pins[1]
  BY <1>1, InUpload, NameIsKnown DEF Work, PublicationIsTrue
<1>3. UNCHANGED <<files, logs, uploads, posted>>
  BY DEF ReplaceSidecars
<1>4. \/ Review("changed") /\ releases' = releases
      \/ /\ releases' = [releases EXCEPT ![job.sel.name].sound = hand.pins[2],
                                         ![job.sel.name].frames = hand.pins[3]]
         /\ step' = "complete" /\ UNCHANGED <<job, todo, check, hand>>
  BY DEF ReplaceSidecars, sel
<1>5. CASE Review("changed") /\ releases' = releases
  <2>1. TypedRemote' /\ OneHost'
    BY <1>2, <1>3, <1>5, EmptyHand, HostKept DEF Review, Rest
  <2> QED BY <1>2, <1>3, <1>5, <2>1, UploadEnds
<1>6. CASE /\ releases' = [releases EXCEPT ![job.sel.name].sound = hand.pins[2],
                                           ![job.sel.name].frames = hand.pins[3]]
           /\ step' = "complete" /\ UNCHANGED <<job, todo, check, hand>>
  <2>1. /\ TypedRemote' /\ releases'[job.sel.name].output = hand.pins[1]
        /\ releases'[job.sel.name].sound = hand.pins[2] /\ releases'[job.sel.name].frames = hand.pins[3]
    BY <1>2, <1>3, <1>6 DEF TypedRemote
  <2>2. step' \in PublishSteps
    BY <1>6 DEF PublishSteps
  <2> QED BY <1>1, <1>3, <1>6, <2>1, <2>2, Publishing
<1> QED BY <1>4, <1>5, <1>6

LEMMA CompleteHolds == ASSUME PipelineInv, Complete PROVE PipelineInv'
<1>1. step = "complete" /\ step \in UploadSteps /\ step \in PublishSteps
  BY DEF Complete, UploadSteps, PublishSteps
<1>2. /\ job.state = "UPLOADING" /\ step \notin StageSteps
      /\ hand.pins[1] = mark["output"].out
      /\ hand.pins[2] = mark["sound"].out /\ hand.pins[3] = mark["frames"].out
      /\ Work /\ OneHost /\ PublicationIsTrue /\ TypedRemote
  BY <1>1, InUpload
<1>3. /\ Goto("COMPLETED") /\ step' = "idle" /\ check' = "off" /\ hand' = NoHand
      /\ UNCHANGED <<files, logs, uploads, posted, releases>>
  BY DEF Complete, Rest
<1>4. /\ Typed /\ MarksAreTrue /\ PrepIsTrue /\ Certified("UPLOADING")
  BY <1>2 DEF Work, StageOf
<1>5. TypedJob' /\ job'.state = "COMPLETED" /\ job'.sel = job.sel
  BY <1>3, <1>4, JobMoves DEF States
<1>6. Typed' /\ MarksAreTrue' /\ PrepIsTrue' /\ OneHost'
  BY <1>2, <1>3, <1>4, <1>5, TypesKept, MarksKept, HostKept, EmptyHand DEF Typed
<1>7. Certified(StageOf(job))'
  BY <1>3, <1>4, <1>5, FactsKept DEF Certified, StageOf
<1>8. Placed' /\ BodyIsTrue' /\ UploadIsTrue'
  BY <1>3 DEF Placed, BodyIsTrue, UploadIsTrue, Doing, StageSteps, UploadSteps, SendSteps, PublishSteps
<1>9. PublicationIsTrue'
  <2>1. /\ releases[job.sel.name].output = mark["output"].out
        /\ releases[job.sel.name].sound = mark["sound"].out
        /\ releases[job.sel.name].frames = mark["frames"].out
        /\ job.sel.host # "none" => uploads.images = Images /\ uploads.picture = Picture(mark["frames"].out)
    BY <1>1, <1>2 DEF PublicationIsTrue
  <2>2. (job.sel.host # "none" => uploads.images = Images /\ uploads.picture = Picture(mark["frames"].out))'
    BY <1>3, <1>5, <2>1 DEF Picture, files
  <2>3. step' \notin UploadSteps \cup PublishSteps \cup {"sidecars", "complete"}
    BY <1>3 DEF UploadSteps, SendSteps, PublishSteps
  <2> QED BY <1>3, <1>5, <2>1, <2>2, <2>3 DEF PublicationIsTrue, files
<1> QED BY <1>6, <1>7, <1>8, <1>9 DEF PipelineInv, Work

-----------------------------------------------------------------------------
(* The invariant                                                             *)

LEMMA InitHolds == Init => PipelineInv
<1> SUFFICES ASSUME Init PROVE PipelineInv
  OBVIOUS
<1>1. PICK s \in Initial : job = [state |-> "READY", resume |-> "", sel |-> s, why |-> ""]
  BY DEF Init
<1>2. /\ todo = <<>> /\ step = "idle" /\ check = "off"
      /\ disk = [a \in Artifact |-> 0] /\ mark = [a \in Marked |-> Unmarked] /\ made = <<>>
      /\ logs = [disc |-> sel.disc, corrupt |-> FALSE]
      /\ uploads = NoUploads /\ hand = NoHand /\ posted = {}
  BY DEF Init, Marked
<1>3. TypedJob
  BY <1>1, SelectionAssumption DEF TypedJob, States
<1>4. TypedFiles
  <2>1. made \in Seq({}) /\ Len(made) = 0
    BY <1>2
  <2>2. \A a \in Marked : DOMAIN mark[a] = {"inputs", "out"} /\ mark[a].out = 0
    BY <1>2 DEF Unmarked
  <2>3. disk \in [Artifact -> 0..Len(made)]
    BY <1>2, <2>1
  <2>4. logs = [disc |-> sel.disc, corrupt |-> FALSE]
    BY <1>2
  <2>5. DOMAIN logs = {"disc", "corrupt"} /\ logs.corrupt = FALSE
    BY <2>4
  <2>6. DOMAIN mark = Marked
    BY <1>2
  <2>7. \E S : made \in Seq(S)
    BY <2>1
  <2>8. \A a \in Marked : DOMAIN mark[a] = {"inputs", "out"} /\ mark[a].out \in 0..Len(made)
    BY <2>1, <2>2
  <2>9. logs.corrupt \in BOOLEAN
    BY <2>5
  <2> QED BY <2>3, <2>5, <2>6, <2>7, <2>8, <2>9 DEF TypedFiles
<1>5. TypedRemote
  <2> DEFINE names == {t.name : t \in Selections}
             taken == [NoRelease EXCEPT !.owner = MaxMade + 1, !.output = MaxMade + 1]
  <2>1. releases = [n \in names |-> IF n \in Taken THEN taken ELSE NoRelease]
    BY DEF Init
  <2>2. DOMAIN NoRelease = {"owner", "output", "sound", "frames"} /\ DOMAIN taken = {"owner", "output", "sound", "frames"}
    BY DEF NoRelease
  <2> HIDE DEF names, taken
  <2>3. DOMAIN releases = names /\ \A n \in names : DOMAIN releases[n] = {"owner", "output", "sound", "frames"}
    BY <2>1, <2>2
  <2>4. DOMAIN uploads = {"kind", "host", "images", "picture"} /\ DOMAIN hand = {"lock", "hosts", "image", "pins"}
    BY <1>2 DEF NoUploads, NoHand
  <2> QED BY <2>3, <2>4 DEF TypedRemote, names
<1>6. MarksAreTrue /\ PrepIsTrue
  <2>1. \A a \in Marked : mark[a].out = 0 /\ mark[a].inputs = <<>>
    BY <1>2 DEF Unmarked
  <2> QED BY <2>1 DEF MarksAreTrue, PrepIsTrue, Marked, Artifact
<1>7. Placed /\ BodyIsTrue /\ Certified(StageOf(job)) /\ UploadIsTrue
  BY <1>1, <1>2 DEF Placed, BodyIsTrue, Certified, StageOf, UploadIsTrue, Doing, StageSteps,
     UploadSteps, SendSteps, PublishSteps
<1>8. OneHost
  BY <1>2 DEF OneHost, NoUploads
<1>9. PublicationIsTrue
  BY <1>1, <1>2 DEF PublicationIsTrue, UploadSteps, SendSteps, PublishSteps
<1> QED BY <1>3, <1>4, <1>5, <1>6, <1>7, <1>8, <1>9 DEF PipelineInv, Work, Typed

LEMMA StutterHolds == ASSUME PipelineInv, UNCHANGED vars PROVE PipelineInv'
<1>1. UNCHANGED <<job, todo, step, disk, mark, made, check, logs, uploads, hand, posted, releases>>
  BY DEF vars
<1>2. /\ Typed /\ Placed /\ MarksAreTrue /\ PrepIsTrue /\ Certified(StageOf(job)) /\ BodyIsTrue
      /\ OneHost /\ PublicationIsTrue /\ UploadIsTrue
  BY DEF PipelineInv, Work
<1>3. Typed' /\ Placed'
  BY <1>1, <1>2 DEF Typed, TypedJob, TypedFiles, TypedRemote, Placed, Doing
<1>4. UNCHANGED <<files, logs>>
  BY <1>1 DEF files
<1>5. MarksAreTrue' /\ PrepIsTrue' /\ Certified(StageOf(job))' /\ OneHost'
  BY <1>1, <1>2, <1>4, MarksKept, CertifiedKept, HostKept
<1>6. BodyIsTrue'
  BY <1>1, <1>2 DEF BodyIsTrue, Doing, ReferenceReady, ScriptReady, SearchReady, VideoReady, SourceSound,
     TracksReady, OutputReady, EvidenceReady, Made, Reads, sel
<1>7. PublicationIsTrue'
  BY <1>1, <1>2 DEF PublicationIsTrue, Picture
<1>8. UploadIsTrue'
  BY <1>1, <1>2 DEF UploadIsTrue, Picture
<1> QED BY <1>3, <1>5, <1>6, <1>7, <1>8 DEF PipelineInv, Work

LEMMA PipelineInductive == Spec => []PipelineInv
<1>1. Init => PipelineInv
  BY InitHolds
<1>2. PipelineInv /\ [Next]_vars => PipelineInv'
  <2> SUFFICES ASSUME PipelineInv, [Next]_vars PROVE PipelineInv'
    OBVIOUS
  <2>1. CASE Stage
    BY <2>1, BeginHolds, RefuseHolds, ReuseHolds, RunToolHolds, ToolEndsHolds, GateFailsHolds,
       CheckpointHolds, CheckpointPreparationHolds, AdvanceHolds DEF Stage
  <2>2. CASE Check
    BY <2>2, WaitForCheckHolds, CheckInlineHolds, CheckEndsHolds, CheckStopsEncodeHolds DEF Check
  <2>3. CASE Upload
    BY <2>3, BeginUploadHolds, SkipUploadHolds, ChooseHostsHolds, PinHostHolds, PostImageHolds,
       RecordImageHolds, PostUnclearHolds, PostRefusedHolds, PostDeferredHolds DEF Upload
  <2>4. CASE Publish
    BY <2>4, ClaimReleaseHolds, CopyOutputHolds, ReplaceSidecarsHolds, CompleteHolds DEF Publish
  <2>5. CASE Operate
    BY <2>5, ClaimJobHolds, ResumeReviewHolds, SetSelectionHolds, RetryUploadHolds, StopHolds,
       DamageHolds DEF Operate
  <2>6. CASE UNCHANGED vars
    BY <2>6, StutterHolds
  <2> QED BY <2>1, <2>2, <2>3, <2>4, <2>5, <2>6 DEF Next
<1> QED BY <1>1, <1>2, PTL DEF Spec

-----------------------------------------------------------------------------
\* What was released is what the present selection asks for, however often the
\* job was reviewed, revised, stopped or restarted over the same files.
THEOREM TheSelectionIsReleased == Spec => []ReleaseIsCurrent
<1>1. PipelineInv => ReleaseIsCurrent
  <2> SUFFICES ASSUME PipelineInv, job.state = "COMPLETED" PROVE ReleaseIsCurrent
    BY DEF ReleaseIsCurrent
  <2>1. /\ ReferenceReady /\ ScriptReady /\ SearchReady /\ VideoReady /\ TracksReady /\ OutputReady
        /\ releases[job.sel.name].output = mark["output"].out
    BY DEF PipelineInv, Work, Certified, StageOf, PublicationIsTrue
  <2> DEFINE output == releases[job.sel.name].output
  <2>2. made[output].from = <<disk["video"], disk["tracks"], job.sel.name>>
    BY <2>1 DEF OutputReady, Made
  <2>3. /\ made[output].from[1] = disk["video"] /\ made[output].from[2] = disk["tracks"]
        /\ made[output].from[3] = job.sel.name
    BY <2>2
  <2>4. /\ made[disk["video"]].from[1] = disk["reference"] /\ made[disk["video"]].from[2] = disk["script"]
        /\ made[disk["video"]].from[3] = job.sel.picture
        /\ job.sel.auto => made[disk["video"]].from[4][1] = disk["crf"]
    BY <2>1 DEF VideoReady, Made
  <2> HIDE DEF output
  <2>5. job.sel.auto => made[made[disk["video"]].from[4][1]].from[3] = job.sel
    BY <2>1, <2>4 DEF SearchReady, Made
  <2>6. /\ made[disk["reference"]].from = <<job.sel.disc>>
        /\ made[disk["script"]].from = <<disk["reference"], job.sel.crop>>
        /\ made[disk["tracks"]].from = <<disk["reference"], job.sel.tracks>>
    BY <2>1 DEF ReferenceReady, ScriptReady, TracksReady, Made
  <2> QED BY <2>3, <2>4, <2>5, <2>6 DEF ReleaseIsCurrent, sel, output
<1> QED BY <1>1, PipelineInductive, PTL

\* The published evidence and the images the release links to are about the
\* published file.
THEOREM TheEvidenceIsReleased == Spec => []EvidenceIsOfTheRelease
<1>1. PipelineInv => EvidenceIsOfTheRelease
  <2> SUFFICES ASSUME PipelineInv, job.state = "COMPLETED" PROVE EvidenceIsOfTheRelease
    BY DEF EvidenceIsOfTheRelease
  <2>1. /\ EvidenceReady("sound") /\ EvidenceReady("frames")
        /\ releases[job.sel.name].output = mark["output"].out
        /\ releases[job.sel.name].sound = mark["sound"].out
        /\ releases[job.sel.name].frames = mark["frames"].out
        /\ job.sel.host # "none" => uploads.images = Images /\ uploads.picture = Picture(mark["frames"].out)
    BY DEF PipelineInv, Work, Certified, StageOf, PublicationIsTrue
  <2> QED BY <2>1 DEF EvidenceIsOfTheRelease, EvidenceReady, Made, sel
<1> QED BY <1>1, PipelineInductive, PTL

\* Nothing is muxed, and nothing after it, from a video whose reference has not
\* passed the full decode, or while the source logs tell of corruption.
THEOREM OnlyCheckedSources == Spec => []SourceChecked
<1>1. PipelineInv => SourceChecked
  <2> SUFFICES ASSUME PipelineInv, job.state \in Working \ {"ENCODING"} PROVE SourceChecked
    BY DEF SourceChecked
  <2>1. job.state \in {"MUXING", "QC", "COMPARISON", "UPLOADING"}
    BY DEF Working
  <2>2. VideoReady /\ SourceSound
    BY <2>1 DEF PipelineInv, Work, Certified, StageOf
  <2> QED BY <2>2 DEF SourceChecked, VideoReady, SourceSound, Made
<1> QED BY <1>1, PipelineInductive, PTL

\* All the images a job has put anywhere are on one host, whatever the answers,
\* the crashes and the selections in between, and uploads.json tells the truth.
THEOREM OneHostHoldsTheImages == Spec => []ImagesAreTrue
<1>1. PipelineInv => ImagesAreTrue
  BY DEF PipelineInv, OneHost, ImagesAreTrue
<1> QED BY <1>1, PipelineInductive, PTL

=============================================================================
