----------------------------- MODULE JobStates -----------------------------
(***************************************************************************)
(* The vocabulary of the job pipeline: the durable states of a job, the    *)
(* sets of states the rest of the code tests membership in, the legal      *)
(* transitions and the progress baseline of each state.  Pure definitions, *)
(* translated from src/bdencode/models.py and src/bdencode/progress.py.    *)
(***************************************************************************)
EXTENDS Integers

JobState ==
    {"QUEUED", "SCANNING", "AWAITING_SELECTION", "READY", "ENCODING",
     "MUXING", "QC", "COMPARISON", "UPLOADING", "COMPLETED", "FAILED",
     "CANCELLED", "NEEDS_REVIEW", "UPLOAD_FAILED"}

JobControlState ==
    {"RUNNING", "PAUSE_REQUESTED", "PAUSED", "CANCEL_REQUESTED"}

ScanState ==
    {"PENDING", "RUNNING", "AWAITING_SELECTION", "COMPLETED", "FAILED"}

TerminalStates == {"COMPLETED", "FAILED", "CANCELLED"}

RetryableFailedStages == {"READY", "ENCODING", "MUXING", "QC", "COMPARISON"}

PreparationActiveStates == {"SCANNING"}

BlockingStates ==
    {"ENCODING", "MUXING", "QC", "COMPARISON", "UPLOADING", "NEEDS_REVIEW",
     "UPLOAD_FAILED"}

\* Only these states can have a worker operation executing (db.py).
ControlActiveStates ==
    {"SCANNING", "ENCODING", "MUXING", "QC", "COMPARISON", "UPLOADING"}

\* The value of a NULL resume_state column.
NoState == "NONE"

NormalTransitions ==
    [QUEUED             |-> {"SCANNING"},
     SCANNING           |-> {"AWAITING_SELECTION", "READY", "NEEDS_REVIEW"},
     AWAITING_SELECTION |-> {"READY"},
     READY              |-> {"ENCODING", "NEEDS_REVIEW"},
     ENCODING           |-> {"MUXING", "NEEDS_REVIEW"},
     MUXING             |-> {"QC", "NEEDS_REVIEW"},
     QC                 |-> {"COMPARISON", "NEEDS_REVIEW"},
     COMPARISON         |-> {"UPLOADING", "NEEDS_REVIEW"},
     UPLOADING          |-> {"COMPLETED", "UPLOAD_FAILED", "NEEDS_REVIEW"},
     UPLOAD_FAILED      |-> {"UPLOADING", "NEEDS_REVIEW"},
     NEEDS_REVIEW       |-> {},
     COMPLETED          |-> {},
     FAILED             |-> {},
     CANCELLED          |-> {}]

\* Legal targets, including failure, cancellation and the review resume.
AllowedTransitions(state, resume) ==
    IF state \in TerminalStates THEN {}
    ELSE NormalTransitions[state]
           \cup {"FAILED", "CANCELLED"}
           \cup (IF state = "NEEDS_REVIEW" /\ resume # NoState
                 THEN {resume, "READY"} ELSE {})

ScanTransitions ==
    [PENDING            |-> {"RUNNING", "FAILED"},
     RUNNING            |-> {"AWAITING_SELECTION", "COMPLETED", "FAILED"},
     AWAITING_SELECTION |-> {"COMPLETED", "FAILED"},
     COMPLETED          |-> {},
     FAILED             |-> {}]

\* Whole-pipeline progress in percent; the states outside the domain keep
\* whatever progress was last recorded.
Baseline ==
    [QUEUED |-> 0, SCANNING |-> 2, AWAITING_SELECTION |-> 10, READY |-> 12,
     ENCODING |-> 15, MUXING |-> 78, QC |-> 85, COMPARISON |-> 92,
     UPLOADING |-> 98, COMPLETED |-> 100]

BaselineStates == DOMAIN Baseline

Maximum(a, b) == IF a >= b THEN a ELSE b

-----------------------------------------------------------------------------
(* The two partial unique indexes of the jobs table, for a row with the    *)
(* columns state, control and resume (it may have more).                   *)

InScanLane(row) == row.state = "SCANNING" /\ row.control # "PAUSED"

\* Variant: a job under review is not counted in the encode lane.
InEncodeLaneNoReview(row) ==
    row.state \in BlockingStates \ {"NEEDS_REVIEW"} /\ row.control # "PAUSED"

InEncodeLane(row) == row.state \in BlockingStates /\ row.control # "PAUSED"

UniqueLanes(table) ==
    \A i, k \in DOMAIN table :
        i # k => /\ ~(InScanLane(table[i]) /\ InScanLane(table[k]))
                 /\ ~(InEncodeLane(table[i]) /\ InEncodeLane(table[k]))

-----------------------------------------------------------------------------
(* When a row may be moved to a target, and the resume_state it then has   *)
(* (Database._transition_in_connection).                                   *)

\* Variant: only an acknowledged pause stops a transition.
CanMoveUnlessPaused(row, target) ==
    /\ row.state \in JobState
    /\ row.control # "PAUSED" \/ target = "CANCELLED"
    /\ target \in AllowedTransitions(row.state, row.resume)

CanMove(row, target) ==
    /\ row.state \in JobState
    /\ row.control = "RUNNING" \/ target = "CANCELLED"
    /\ target \in AllowedTransitions(row.state, row.resume)

\* Variant: the terminal reset comes last and wipes the failed stage.
MovedResumeWiped(row, target) ==
    IF target \in TerminalStates \/ row.state = "NEEDS_REVIEW" THEN NoState
    ELSE IF target = "NEEDS_REVIEW" THEN row.state ELSE row.resume

\* Variant: leaving a review forgets to clear the resume state.
MovedResumeKept(row, target) ==
    IF target \in {"NEEDS_REVIEW", "FAILED"} THEN row.state
    ELSE IF target \in TerminalStates THEN NoState ELSE row.resume

MovedResume(row, target) ==
    IF target \in {"NEEDS_REVIEW", "FAILED"} THEN row.state
    ELSE IF target \in TerminalStates \/ row.state = "NEEDS_REVIEW"
         THEN NoState ELSE row.resume
=============================================================================
