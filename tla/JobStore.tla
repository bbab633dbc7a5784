------------------------------ MODULE JobStore ------------------------------
(***************************************************************************)
(* The durable job queue: the jobs, scans and events tables of             *)
(* src/bdencode/db.py behind the facade of src/bdencode/queue.py.  Every   *)
(* method of Database that changes a job runs in one BEGIN IMMEDIATE       *)
(* transaction, so it is one action here; a rejected call (an exception)   *)
(* rolls back and is no step.  Three calls are check-then-act over two     *)
(* transactions: JobQueue.resume_review, JobQueue.retry_upload and the     *)
(* version check of transition_job(CANCELLED).  Each of them is two        *)
(* actions joined by the variable call, so that any operation may come in  *)
(* between.                                                                *)
(*                                                                         *)
(* Clients are the worker and any number of API requests; an optional      *)
(* expected_version or expected_control_revision argument can only refuse  *)
(* a call, never change what an accepted one does, and is left out.        *)
(***************************************************************************)
EXTENDS JobStates, Sequences

CONSTANTS
    NumJobs,          \* how many jobs are ever created (bound)
    Priorities,       \* the priorities a job may be created with
    ProgressReports,  \* the percentages record_progress is called with
    MaxVersion,       \* bound on jobs.version
    MaxRevision,      \* bound on jobs.control_revision
    MaxScans          \* bound on the scans rows of one job

ASSUME BoundsAssumption ==
    NumJobs \in Nat /\ MaxVersion \in Nat /\ MaxRevision \in Nat
    /\ MaxScans \in Nat
ASSUME PrioritiesAssumption == Priorities \subseteq Int
ASSUME ReportsAssumption == ProgressReports \subseteq 0..100

\* Jobs are numbered in the order they are created (created_at).
Jobs == 1..NumJobs

VARIABLES
    jobs,       \* the jobs table: job -> row
    scans,      \* the scans table: job -> its scan statuses, oldest first
    lastEvent,  \* job -> its newest event that names a state
    nextJob,    \* the next job to be inserted
    call        \* a two-transaction API call between its transactions

vars == <<jobs, scans, lastEvent, nextJob, call>>

Absent == "ABSENT"  \* no such row: not inserted yet, or purged

Row == [state : JobState \cup {Absent}, control : JobControlState,
        resume : JobState \cup {NoState}, selection : BOOLEAN,
        progress : 0..100, version : Nat, revision : Nat,
        priority : Priorities \cup {0}]

Event == [kind : {"none", "job.created", "job.state", "job.retry",
                  "job.restart"},
          from : JobState \cup {NoState}, to : JobState \cup {NoState}]

Call == [kind : {"none", "resume_review", "retry_upload", "checked_cancel"},
         job : Jobs \cup {0}, target : JobState \cup {NoState},
         version : Nat]

NoRow == [state |-> Absent, control |-> "RUNNING", resume |-> NoState,
          selection |-> FALSE, progress |-> 0, version |-> 1,
          revision |-> 1, priority |-> 0]

NoEvent == [kind |-> "none", from |-> NoState, to |-> NoState]

NoCall == [kind |-> "none", job |-> 0, target |-> NoState, version |-> 0]

Live(j) == jobs[j].state # Absent

-----------------------------------------------------------------------------
(* Transactions: a statement that breaks a lane index raises IntegrityError  *)
(* and the whole transaction is rolled back.                               *)

Fits(j, row) == UniqueLanes([jobs EXCEPT ![j] = row])

\* Write the row of j, within the bounds of this model.
Commit(j, row) ==
    /\ row.version <= MaxVersion
    /\ row.revision <= MaxRevision
    /\ Fits(j, row)
    /\ jobs' = [jobs EXCEPT ![j] = row]

Record(j, kind, from, to) ==
    lastEvent' = [lastEvent EXCEPT ![j] =
                    [kind |-> kind, from |-> from, to |-> to]]

-----------------------------------------------------------------------------
(* Database._transition_in_connection                                      *)

\* Variant: a transition leaves the progress where it was.
MovedProgressKept(row, target) ==
    IF row.state = "NEEDS_REVIEW" /\ target = "READY"
    THEN Baseline[target] ELSE row.progress

MovedProgress(row, target) ==
    IF target \notin BaselineStates THEN row.progress
    ELSE IF row.state = "NEEDS_REVIEW" /\ target = "READY"
         THEN Baseline[target]
         ELSE Maximum(row.progress, Baseline[target])

Moved(row, target) ==
    [row EXCEPT !.state = target,
                !.resume = MovedResume(row, target),
                !.progress = MovedProgress(row, target),
                !.version = @ + 1]

\* Commit a legal transition of j, whose row the caller has just rewritten
\* to row in the same transaction.
MoveRow(j, row, target) ==
    /\ CanMove(row, target)
    /\ Commit(j, Moved(row, target))
    /\ Record(j, "job.state", row.state, target)

\* _set_control_in_connection: bumps the revision, never the version.
Controlled(row, control) ==
    [row EXCEPT !.control = control, !.revision = @ + 1]

SetControl(j, control) ==
    /\ Commit(j, Controlled(jobs[j], control))
    /\ UNCHANGED lastEvent

\* The transition to CANCELLED and the release of the control, together.
CancelNow(j) ==
    /\ CanMove(jobs[j], "CANCELLED")
    /\ Commit(j, Controlled(Moved(jobs[j], "CANCELLED"), "RUNNING"))
    /\ Record(j, "job.state", jobs[j].state, "CANCELLED")

-----------------------------------------------------------------------------
(* Creation and the two claims                                             *)

CreateJob(p) ==
    /\ nextJob \in Jobs
    /\ Commit(nextJob, [NoRow EXCEPT !.state = "QUEUED", !.priority = p])
    /\ Record(nextJob, "job.created", NoState, "QUEUED")
    /\ nextJob' = nextJob + 1
    /\ UNCHANGED <<scans, call>>

Waiting(state) ==
    {j \in Jobs : jobs[j].state = state /\ jobs[j].control = "RUNNING"}

\* ORDER BY priority DESC, created_at ASC LIMIT 1
IsFirst(j, S) ==
    /\ j \in S
    /\ \A k \in S : \/ jobs[k].priority < jobs[j].priority
                    \/ jobs[k].priority = jobs[j].priority /\ j <= k

ClaimNextJob(j) ==
    /\ \A k \in Jobs : ~InScanLane(jobs[k])
    /\ IsFirst(j, Waiting("QUEUED"))
    /\ MoveRow(j, jobs[j], "SCANNING")
    /\ UNCHANGED <<scans, nextJob, call>>

ClaimNextReadyJob(j) ==
    /\ \A k \in Jobs : ~InEncodeLane(jobs[k])
    /\ IsFirst(j, Waiting("READY"))
    /\ MoveRow(j, jobs[j], "ENCODING")
    /\ UNCHANGED <<scans, nextJob, call>>

-----------------------------------------------------------------------------
(* Transitions requested by the worker or the generic endpoint; the        *)
(* target CANCELLED is diverted to request_cancel.                         *)

TransitionJob(j, target) ==
    /\ target # "CANCELLED"
    /\ MoveRow(j, jobs[j], target)
    /\ UNCHANGED <<scans, nextJob, call>>

-----------------------------------------------------------------------------
(* Operator control                                                        *)

RequestPause(j) ==
    /\ Live(j)
    /\ jobs[j].state \notin TerminalStates
    /\ jobs[j].control = "RUNNING"
    /\ SetControl(j, IF jobs[j].state \in ControlActiveStates
                     THEN "PAUSE_REQUESTED" ELSE "PAUSED")
    /\ UNCHANGED <<scans, nextJob, call>>

CancelRequestable(j) ==
    /\ Live(j)
    /\ jobs[j].state \notin TerminalStates
    /\ jobs[j].control # "CANCEL_REQUESTED"

\* An executing stage is only asked to stop; an idle or paused job is
\* cancelled at once.
CancelEffect(j) ==
    \/ /\ jobs[j].state \in ControlActiveStates
       /\ jobs[j].control # "PAUSED"
       /\ SetControl(j, "CANCEL_REQUESTED")
    \/ /\ jobs[j].state \notin ControlActiveStates \/ jobs[j].control = "PAUSED"
       /\ CancelNow(j)

RequestCancel(j) ==
    /\ CancelRequestable(j)
    /\ CancelEffect(j)
    /\ UNCHANGED <<scans, nextJob, call>>

AcknowledgePause(j) ==
    /\ Live(j)
    /\ jobs[j].control = "PAUSE_REQUESTED"
    /\ SetControl(j, "PAUSED")
    /\ UNCHANGED <<scans, nextJob, call>>

AcknowledgeCancel(j) ==
    /\ Live(j)
    /\ jobs[j].control = "CANCEL_REQUESTED"
    /\ CancelNow(j)
    /\ UNCHANGED <<scans, nextJob, call>>

ResumePausedJob(j) ==
    /\ Live(j)
    /\ jobs[j].control = "PAUSED"
    /\ jobs[j].state \notin TerminalStates
    /\ SetControl(j, "RUNNING")
    /\ UNCHANGED <<scans, nextJob, call>>

-----------------------------------------------------------------------------
(* The three check-then-act calls.  The second transaction validates the   *)
(* transition again, but not the condition the first one read.             *)

ResumeReviewRead(j) ==
    /\ call = NoCall
    /\ jobs[j].state = "NEEDS_REVIEW"
    /\ jobs[j].resume # NoState
    /\ call' = [kind |-> "resume_review", job |-> j,
                target |-> jobs[j].resume, version |-> jobs[j].version]
    /\ UNCHANGED <<jobs, scans, lastEvent, nextJob>>

RetryUploadRead(j) ==
    /\ call = NoCall
    /\ jobs[j].state = "UPLOAD_FAILED"
    /\ call' = [kind |-> "retry_upload", job |-> j,
                target |-> "UPLOADING", version |-> jobs[j].version]
    /\ UNCHANGED <<jobs, scans, lastEvent, nextJob>>

\* The client's expected_version equals the version read here.
CheckedCancelRead(j) ==
    /\ call = NoCall
    /\ Live(j)
    /\ call' = [kind |-> "checked_cancel", job |-> j,
                target |-> "CANCELLED", version |-> jobs[j].version]
    /\ UNCHANGED <<jobs, scans, lastEvent, nextJob>>

MoveAccepted(j, target) ==
    CanMove(jobs[j], target) /\ Fits(j, Moved(jobs[j], target))

FinishAdvance ==
    /\ call.kind \in {"resume_review", "retry_upload"}
    /\ \/ MoveRow(call.job, jobs[call.job], call.target)
       \/ ~MoveAccepted(call.job, call.target) /\ UNCHANGED <<jobs, lastEvent>>
    /\ call' = NoCall
    /\ UNCHANGED <<scans, nextJob>>

FinishCheckedCancel ==
    /\ call.kind = "checked_cancel"
    /\ \/ CancelRequestable(call.job) /\ CancelEffect(call.job)
       \/ ~CancelRequestable(call.job) /\ UNCHANGED <<jobs, lastEvent>>
    /\ call' = NoCall
    /\ UNCHANGED <<scans, nextJob>>

-----------------------------------------------------------------------------
(* Leaving a terminal state                                                *)

\* Variant: a busy encode lane does not refuse the retry.
RetryFailedJobUnblocked(j) ==
    LET stage == lastEvent[j].from IN
    /\ jobs[j].state = "FAILED"
    /\ lastEvent[j].to = "FAILED"
    /\ stage \in RetryableFailedStages
    /\ Commit(j, [jobs[j] EXCEPT !.state = stage, !.resume = NoState,
                                 !.progress = Baseline[stage],
                                 !.version = @ + 1])
    /\ Record(j, "job.retry", "FAILED", stage)
    /\ UNCHANGED <<scans, nextJob, call>>

\* Any other job in a blocking state refuses the retry, even a paused one
\* that holds no lane.
RetryFailedJob(j) ==
    LET stage == lastEvent[j].from IN
    /\ jobs[j].state = "FAILED"
    /\ lastEvent[j].kind = "job.state"
    /\ lastEvent[j].to = "FAILED"
    /\ stage # NoState
    /\ jobs[j].resume \in {NoState, stage}
    /\ stage \in RetryableFailedStages
    /\ stage # "READY" =>
         \A k \in Jobs \ {j} : jobs[k].state \notin BlockingStates
    /\ Commit(j, [jobs[j] EXCEPT !.state = stage, !.resume = NoState,
                                 !.progress = Baseline[stage],
                                 !.version = @ + 1])
    /\ Record(j, "job.retry", "FAILED", stage)
    /\ UNCHANGED <<scans, nextJob, call>>

HasSuccessfulScan(j) ==
    \E k \in DOMAIN scans[j] : scans[j][k] \in {"AWAITING_SELECTION", "COMPLETED"}

RestartTarget(j) ==
    IF ~HasSuccessfulScan(j) THEN "QUEUED"
    ELSE IF jobs[j].selection THEN "READY" ELSE "AWAITING_SELECTION"

RestartCancelledJob(j) ==
    /\ jobs[j].state = "CANCELLED"
    /\ Commit(j, [jobs[j] EXCEPT !.state = RestartTarget(j),
                                 !.resume = NoState,
                                 !.progress = Baseline[RestartTarget(j)],
                                 !.version = @ + 1])
    /\ Record(j, "job.restart", "CANCELLED", RestartTarget(j))
    /\ UNCHANGED <<scans, nextJob, call>>

\* The row goes, and its scans with it (ON DELETE CASCADE).
DeleteTerminalJob(j) ==
    /\ jobs[j].state \in TerminalStates
    /\ jobs' = [jobs EXCEPT ![j] = NoRow]
    /\ scans' = [scans EXCEPT ![j] = <<>>]
    /\ lastEvent' = [lastEvent EXCEPT ![j] = NoEvent]
    /\ UNCHANGED <<nextJob, call>>

-----------------------------------------------------------------------------
(* Scans, selection and progress                                           *)

CreateScan(j, status) ==
    /\ jobs[j].state = "SCANNING"
    /\ status \in {"PENDING", "RUNNING"}
    /\ Len(scans[j]) < MaxScans
    /\ scans' = [scans EXCEPT ![j] = Append(@, status)]
    /\ UNCHANGED <<jobs, lastEvent, nextJob, call>>

\* Where a scan status moves a job that is SCANNING.
ScanBoundary ==
    [AWAITING_SELECTION |-> "AWAITING_SELECTION", COMPLETED |-> "READY",
     FAILED |-> "FAILED"]

UpdateScan(j, k, status) ==
    /\ k \in DOMAIN scans[j]
    /\ status = scans[j][k] \/ status \in ScanTransitions[scans[j][k]]
    /\ scans' = [scans EXCEPT ![j] = [@ EXCEPT ![k] = status]]
    /\ IF jobs[j].state = "SCANNING" /\ status \in DOMAIN ScanBoundary
       THEN MoveRow(j, jobs[j], ScanBoundary[status])
       ELSE UNCHANGED <<jobs, lastEvent>>
    /\ UNCHANGED <<nextJob, call>>

\* The newest scan that awaits the selection is completed by it.
SelectionCompletes(j, k) ==
    /\ scans[j][k] = "AWAITING_SELECTION"
    /\ \A m \in DOMAIN scans[j] : scans[j][m] = "AWAITING_SELECTION" => m <= k

SetSelection(j) ==
    /\ jobs[j].state \in {"AWAITING_SELECTION", "NEEDS_REVIEW"}
    /\ MoveRow(j, [jobs[j] EXCEPT !.selection = TRUE], "READY")
    /\ scans' = [scans EXCEPT ![j] =
                   [k \in DOMAIN @ |->
                      IF SelectionCompletes(j, k) THEN "COMPLETED" ELSE @[k]]]
    /\ UNCHANGED <<nextJob, call>>

\* Variants: a paused job still reports; the report does not bump the version.
RecordProgressPaused(j, p) ==
    /\ Live(j)
    /\ jobs[j].state \notin TerminalStates
    /\ Commit(j, [jobs[j] EXCEPT !.progress = Maximum(@, p),
                                 !.version = @ + 1])
    /\ UNCHANGED <<scans, lastEvent, nextJob, call>>

RecordProgressUnversioned(j, p) ==
    /\ Live(j)
    /\ jobs[j].state \notin TerminalStates
    /\ jobs[j].control # "PAUSED"
    /\ Commit(j, [jobs[j] EXCEPT !.progress = Maximum(@, p)])
    /\ UNCHANGED <<scans, lastEvent, nextJob, call>>

RecordProgress(j, p) ==
    /\ Live(j)
    /\ jobs[j].state \notin TerminalStates
    /\ jobs[j].control # "PAUSED"
    /\ Commit(j, [jobs[j] EXCEPT !.progress = Maximum(@, p),
                                 !.version = @ + 1])
    /\ UNCHANGED <<scans, lastEvent, nextJob, call>>

-----------------------------------------------------------------------------
Init ==
    /\ jobs = [j \in Jobs |-> NoRow]
    /\ scans = [j \in Jobs |-> <<>>]
    /\ lastEvent = [j \in Jobs |-> NoEvent]
    /\ nextJob = 1
    /\ call = NoCall

JobNext(j) ==
    \/ ClaimNextJob(j) \/ ClaimNextReadyJob(j)
    \/ \E target \in JobState : TransitionJob(j, target)
    \/ RequestPause(j) \/ RequestCancel(j)
    \/ AcknowledgePause(j) \/ AcknowledgeCancel(j) \/ ResumePausedJob(j)
    \/ ResumeReviewRead(j) \/ RetryUploadRead(j) \/ CheckedCancelRead(j)
    \/ RetryFailedJob(j) \/ RestartCancelledJob(j) \/ DeleteTerminalJob(j)
    \/ \E status \in ScanState : CreateScan(j, status)
    \/ \E k \in 1..MaxScans, status \in ScanState : UpdateScan(j, k, status)
    \/ SetSelection(j)
    \/ \E p \in ProgressReports : RecordProgress(j, p)

Next ==
    \/ \E p \in Priorities : CreateJob(p)
    \/ FinishAdvance \/ FinishCheckedCancel
    \/ \E j \in Jobs : JobNext(j)

Spec == Init /\ [][Next]_vars
-----------------------------------------------------------------------------
(* Properties                                                              *)

\* Every column holds a value of its type, and what is not in the tables has
\* left nothing behind.
TypeOK ==
    /\ jobs \in [Jobs -> Row]
    /\ scans \in [Jobs -> Seq(ScanState)]
    /\ lastEvent \in [Jobs -> Event]
    /\ nextJob \in 1..(NumJobs + 1)
    /\ call \in Call

\* A request waits only where a worker can be executing and will find it: no
\* job rests in an idle or terminal state with a request nobody acknowledges,
\* and no terminal job is left paused.
ControlMatchesStage ==
    \A j \in Jobs :
        /\ jobs[j].control \in {"PAUSE_REQUESTED", "CANCEL_REQUESTED"}
             => jobs[j].state \in ControlActiveStates
        /\ jobs[j].state \in TerminalStates => jobs[j].control = "RUNNING"

\* The newest state event tells how the job came to be where it is, and a
\* FAILED job's event and resume_state name the same stage: the provenance
\* checks of retry_failed_job never refuse a failure the store recorded.
Provenance ==
    \A j \in Jobs : Live(j) =>
        /\ lastEvent[j].to = jobs[j].state
        /\ jobs[j].state = "FAILED" =>
             /\ lastEvent[j].kind = "job.state"
             /\ jobs[j].resume = lastEvent[j].from

\* A resume state is stored exactly while a review or a failure is open, and
\* an open review returns to a stage from which a review can be asked.
ResumeWellFounded ==
    \A j \in Jobs :
        /\ (jobs[j].resume # NoState) <=> (jobs[j].state \in {"NEEDS_REVIEW", "FAILED"})
        /\ jobs[j].state = "NEEDS_REVIEW"
             => "NEEDS_REVIEW" \in NormalTransitions[jobs[j].resume]

\* The progress shown is never behind the stage the job is in.
ProgressReachesStage ==
    \A j \in Jobs : jobs[j].state \in BaselineStates
                        => jobs[j].progress >= Baseline[jobs[j].state]

\* The word of the operator holds.  Nothing but its acknowledgement moves a job
\* whose cancellation was accepted, or withdraws the request.  A paused job
\* stands still: it is continued where it stopped or cancelled, and no
\* transition, selection or progress report reaches it.
ControlIsHeeded ==
    [][\A j \in Jobs :
        /\ jobs[j].control = "CANCEL_REQUESTED" =>
             \/ jobs'[j].control = "CANCEL_REQUESTED" /\ jobs'[j].state = jobs[j].state
             \/ jobs'[j].control = "RUNNING" /\ jobs'[j].state = "CANCELLED"
        /\ jobs[j].control = "PAUSED" =>
             \/ jobs'[j] = jobs[j]
             \/ jobs'[j] = [jobs[j] EXCEPT !.control = "RUNNING", !.revision = @ + 1]
             \/ jobs'[j].control = "RUNNING" /\ jobs'[j].state = "CANCELLED"]_vars

\* A job that waits for a decision keeps its place.  A review resume or an upload
\* retry reads the job in one transaction and moves it in another.  If the job
\* still has the version that was read and nobody paused it, the decision is
\* carried out, whatever the other jobs did meanwhile: nobody can have taken the
\* encode lane of a job under review, and only the review of a scan can find its
\* lane taken by another disc.  If the job has changed since, the late decision
\* may still move it, but only a running job that is neither finished nor purged.
DecisionsAreCarriedOut ==
    [][call.kind \in {"resume_review", "retry_upload"} /\ call' = NoCall =>
         LET old == jobs[call.job]
             new == jobs'[call.job]
             asWasRead == old.state # Absent /\ old.version = call.version
             scanTaken == \E k \in Jobs : InScanLane(jobs[k])
         IN  /\ asWasRead /\ old.control = "RUNNING" =>
                  \/ new.state = call.target /\ new.resume = NoState
                  \/ call.target = "SCANNING" /\ scanTaken
             /\ new # old =>
                  /\ old.state \in JobState \ TerminalStates
                  /\ old.control = "RUNNING" /\ new.state = call.target]_vars

\* The two optimistic locks: a client that still reads the version it knows
\* sees the pipeline columns it knows, and one that still reads the control
\* revision it knows sees the control it knows.
LocksAreSound ==
    [][\A j \in Jobs : Live(j) /\ Live(j)' =>
         /\ jobs'[j].version >= jobs[j].version
         /\ jobs'[j].revision >= jobs[j].revision
         /\ jobs'[j].version = jobs[j].version =>
              /\ jobs'[j].state = jobs[j].state
              /\ jobs'[j].resume = jobs[j].resume
              /\ jobs'[j].progress = jobs[j].progress
              /\ jobs'[j].selection = jobs[j].selection
         /\ jobs'[j].revision = jobs[j].revision =>
              jobs'[j].control = jobs[j].control]_vars

\* The store implements the lifecycle it promises, seen through the three
\* columns state, control_state and resume_state.
Promise == INSTANCE JobLifecycle WITH
    Jobs <- Jobs,
    db <- [j \in Jobs |-> [state |-> jobs[j].state,
                           control |-> jobs[j].control,
                           resume |-> jobs[j].resume]]

\* Every behaviour of the tables is a behaviour of JobLifecycle: a retry, which
\* reads the stage from the event log, re-enters the stage the job failed in,
\* and no operation has an effect on the three columns the lifecycle lacks.
ImplementsLifecycle == Promise!Lifecycle
=============================================================================
