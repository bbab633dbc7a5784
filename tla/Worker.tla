------------------------------- MODULE Worker -------------------------------
(***************************************************************************)
(* The worker process (src/bdencode/worker.py): one serial encode lane and *)
(* one concurrent scan lane, each a loop that takes a job, runs its stages *)
(* and answers the operator, over the job store of JobLifecycle.  A lane   *)
(* works on a copy of the job it read earlier; between any two of its      *)
(* transactions the operator, the other lane or a crash may come.          *)
(*                                                                         *)
(* A stage body is abstract: it may end in any of the ways the handlers of *)
(* process_job tell apart.  The operator uses the routes the pages of the  *)
(* frontend offer: the generic /transition route and the purge are left    *)
(* out, so a job that has left the pipeline keeps its row.                 *)
(***************************************************************************)
EXTENDS JobLifecycle

CONSTANTS
    NoJob,          \* the job of a lane that holds none
    MaxStops,       \* bound on service stops and crashes
    RequeueInHand   \* may the operator re-queue a job in the instant in which
                    \* a lane has finished with it but still has it in hand?

ASSUME NoJobAssumption == NoJob \notin Jobs
ASSUME StopsAssumption == MaxStops \in Nat
ASSUME RequeueAssumption == RequeueInHand \in BOOLEAN

VARIABLES
    lane,      \* lane -> where the thread stands and its copy of the job
    stopping,  \* the worker's stop flag, shared by the two lanes
    stops      \* how often the service was stopped or killed

wvars == <<db, lane, stopping, stops>>

Lanes == {"prep", "encode"}

\* top: the loop head of process_job; body: inside a stage; refresh: the
\* stage has committed and the job is about to be read again; handling: in
\* the handler of the exception why; verdict: about to commit target; dead:
\* an exception has left the encode loop.
LaneRow == [at : {"idle", "top", "body", "refresh", "handling", "verdict", "dead"},
            job : Jobs \cup {NoJob}, view : JobState \cup {NoState},
            why : {"none", "refused", "interrupted", "timeout", "os", "review", "error"},
            target : {NoState, "NEEDS_REVIEW", "UPLOAD_FAILED", "FAILED"}]

Idle == [at |-> "idle", job |-> NoJob, view |-> NoState, why |-> "none",
         target |-> NoState]

LaneGoes(l, place) == lane' = [lane EXCEPT ![l].at = place]

Release(l) == lane' = [lane EXCEPT ![l] = Idle]

Raise(l, exception) ==
    lane' = [lane EXCEPT ![l].at = "handling", ![l].why = exception]

Decide(l, target) ==
    lane' = [lane EXCEPT ![l].at = "verdict", ![l].target = target]

\* Would the store accept the transition now?
Acceptable(j, target) ==
    /\ CanMove(db[j], target)
    /\ UniqueLanes([db EXCEPT ![j].state = target])

-----------------------------------------------------------------------------
(* Taking a job: current() or claim() under the deployment lock            *)

Holds(l, j) == IF l = "prep" THEN InScanLane(db[j]) ELSE InEncodeLane(db[j])

\* The job that already owns the lane, after a restart or a review.
HeldAlready(l, j) == Holds(l, j) /\ UNCHANGED db

\* claim_next_job for the scan lane, claim_next_ready_job for the encode lane.
Claim(l, j) ==
    /\ \A k \in Jobs : ~Holds(l, k)
    /\ db[j].control = "RUNNING"
    /\ db[j].state = IF l = "prep" THEN "QUEUED" ELSE "READY"
    /\ Move(j, IF l = "prep" THEN "SCANNING" ELSE "ENCODING")

\* Variant: only a newly claimed job is ever worked on.
TakeClaimed(l) ==
    /\ lane[l].at = "idle"
    /\ ~stopping
    /\ \E j \in Jobs :
         /\ Claim(l, j)
         /\ lane' = [lane EXCEPT ![l] = [Idle EXCEPT !.at = "top", !.job = j,
                                                     !.view = db'[j].state]]
    /\ UNCHANGED <<stopping, stops>>

Take(l) ==
    /\ lane[l].at = "idle"
    /\ ~stopping
    /\ \E j \in Jobs :
         /\ HeldAlready(l, j) \/ Claim(l, j)
         /\ lane' = [lane EXCEPT ![l] = [Idle EXCEPT !.at = "top", !.job = j,
                                                     !.view = db'[j].state]]
    /\ UNCHANGED <<stopping, stops>>

-----------------------------------------------------------------------------
(* _acknowledge_operator_control.  A revision that changed between the     *)
(* read and the acknowledgement makes the code read again, so the          *)
(* acknowledgement that succeeds answers the control as it is at that      *)
(* moment: one step.                                                       *)

Requested(j) == db[j].control \in {"PAUSE_REQUESTED", "CANCEL_REQUESTED"}

Controlled(j) == Requested(j) \/ db[j].control = "PAUSED"

\* Variant: only a pause is acknowledged.
AcknowledgePauses(j) ==
    AcknowledgePause(j) \/ (db[j].control # "PAUSE_REQUESTED" /\ UNCHANGED db)

Acknowledge(j) ==
    \/ AcknowledgePause(j)
    \/ AcknowledgeCancel(j)
    \/ ~Requested(j) /\ UNCHANGED db

-----------------------------------------------------------------------------
(* The loop of process_job and the dispatch of process_one_stage           *)

WaitingStates == {"AWAITING_SELECTION", "NEEDS_REVIEW", "UPLOAD_FAILED"}

Enter(l) ==
    LET j == lane[l].job IN
    /\ lane[l].at = "top"
    /\ IF lane[l].view \in TerminalStates \/ stopping
       THEN Release(l) /\ UNCHANGED db
       ELSE IF Controlled(j) THEN Acknowledge(j) /\ Release(l)
       ELSE IF lane[l].view \in WaitingStates
       THEN Release(l) /\ UNCHANGED db
       ELSE LaneGoes(l, "body") /\ UNCHANGED db
    /\ UNCHANGED <<stopping, stops>>

\* The transition each stage commits when its work is done.
Successor ==
    [SCANNING |-> "AWAITING_SELECTION", READY |-> "ENCODING",
     ENCODING |-> "MUXING", MUXING |-> "QC", QC |-> "COMPARISON",
     COMPARISON |-> "UPLOADING", UPLOADING |-> "COMPLETED"]

\* The commit is refused when a request arrived meanwhile.  A job re-queued
\* in the lane's hand may be QUEUED again: then there is no stage to run.
Finish(l) ==
    LET j == lane[l].job
        commits == /\ lane[l].view \in DOMAIN Successor
                   /\ Acceptable(j, Successor[lane[l].view])
    IN
    /\ lane[l].at = "body"
    /\ IF commits THEN Move(j, Successor[lane[l].view]) ELSE UNCHANGED db
    /\ IF commits \/ lane[l].view = "QUEUED"
       THEN LaneGoes(l, "refresh") ELSE Raise(l, "refused")
    /\ UNCHANGED <<stopping, stops>>

\* The process runner polls the stop flag and the control of the job; a
\* source check that failed beside the encode interrupts it as well.
Interrupt(l) ==
    /\ lane[l].at = "body"
    /\ stopping \/ Requested(lane[l].job) \/ lane[l].view = "ENCODING"
    /\ Raise(l, "interrupted")
    /\ UNCHANGED <<db, stopping, stops>>

\* Variant: the upload acknowledges the request and carries on.
StopAtBoundaryContinues(l) ==
    LET j == lane[l].job IN
    /\ lane[l].at = "body"
    /\ lane[l].view = "UPLOADING"
    /\ Controlled(j)
    /\ Acknowledge(j)
    /\ UNCHANGED <<lane, stopping, stops>>

\* _stop_at_operator_boundary, before each upload and the final commit.
StopAtBoundary(l) ==
    LET j == lane[l].job IN
    /\ lane[l].at = "body"
    /\ lane[l].view = "UPLOADING"
    /\ Controlled(j)
    /\ Acknowledge(j)
    /\ Raise(l, "interrupted")
    /\ UNCHANGED <<stopping, stops>>

Fault(l) ==
    /\ lane[l].at = "body"
    /\ \E exception \in {"review", "timeout", "os", "error"} :
         IF exception = "review"
         THEN lane' = [lane EXCEPT ![l].at = "verdict", ![l].why = "review",
                                   ![l].target = "NEEDS_REVIEW"]
         ELSE Raise(l, exception)
    /\ UNCHANGED <<db, stopping, stops>>

\* The job is read again.  Without durable progress a RuntimeError follows.
Refresh(l) ==
    LET j == lane[l].job IN
    /\ lane[l].at = "refresh"
    /\ IF db[j].control = "PAUSED" THEN Release(l)
       ELSE IF db[j].state = lane[l].view THEN Raise(l, "error")
       ELSE lane' = [lane EXCEPT ![l].at = "top", ![l].view = db[j].state]
    /\ UNCHANGED <<db, stopping, stops>>

-----------------------------------------------------------------------------
(* The exception handlers                                                  *)

\* What an exception of a job that was read in state s leads to.
Target(s, exception) ==
    IF exception = "timeout" /\ s = "COMPARISON" THEN "NEEDS_REVIEW"
    ELSE IF exception = "os" /\ s = "UPLOADING" THEN "UPLOAD_FAILED"
    ELSE "FAILED"

\* Variant: the failure is recorded without looking at the control first.
HandleUnasked(l) ==
    LET j == lane[l].job IN
    /\ lane[l].at = "handling"
    /\ \/ /\ lane[l].why = "interrupted"
          /\ Acknowledge(j)
          /\ Release(l)
       \/ /\ lane[l].why # "interrupted"
          /\ UNCHANGED db
          /\ IF stopping \/ db[j].state \in TerminalStates THEN Release(l)
             ELSE Decide(l, Target(db[j].state, lane[l].why))
    /\ UNCHANGED <<stopping, stops>>

\* A request is answered first; it explains the exception.  An interruption
\* leaves the job in its stage whoever caused it.
Handle(l) ==
    LET j == lane[l].job IN
    /\ lane[l].at = "handling"
    /\ \/ /\ lane[l].why = "interrupted" \/ Controlled(j)
          /\ Acknowledge(j)
          /\ Release(l)
       \/ /\ lane[l].why # "interrupted" /\ ~Controlled(j)
          /\ UNCHANGED db
          /\ IF stopping \/ db[j].state \in TerminalStates THEN Release(l)
             ELSE Decide(l, Target(db[j].state, lane[l].why))
    /\ UNCHANGED <<stopping, stops>>

\* An exception that leaves process_job: the scan lane logs it and polls
\* again, the encode loop ends the whole process.
Escape(l) ==
    IF l = "prep" THEN Release(l) /\ UNCHANGED stopping
    ELSE LaneGoes(l, "dead") /\ stopping' = TRUE

\* needs_review, UPLOAD_FAILED or _fail.  A request that arrived after the
\* handler looked refuses the transition, and so does a busy encode lane.
Verdict(l) ==
    LET j == lane[l].job target == lane[l].target IN
    /\ lane[l].at = "verdict"
    /\ \/ /\ target = "NEEDS_REVIEW" => db[j].state \notin TerminalStates \cup {target}
          /\ Acceptable(j, target)
          /\ Move(j, target)
          /\ Release(l)
          /\ UNCHANGED stopping
       \/ /\ target = "NEEDS_REVIEW" /\ db[j].state \in TerminalStates \cup {target}
          /\ UNCHANGED <<db, stopping>>
          /\ Release(l)
       \/ /\ target = "NEEDS_REVIEW" => db[j].state \notin TerminalStates \cup {target}
          /\ ~Acceptable(j, target)
          /\ UNCHANGED db
          /\ Escape(l)
    /\ UNCHANGED stops

-----------------------------------------------------------------------------
(* The process: SIGTERM, the end of both loops and the start by systemd,   *)
(* and a crash of the process or the machine.                              *)

Terminate ==
    /\ ~stopping
    /\ stops < MaxStops
    /\ stopping' = TRUE
    /\ stops' = stops + 1
    /\ UNCHANGED <<db, lane>>

\* The main thread waits five seconds at most for the scan lane; what still
\* runs is killed with the control group, and the service starts again.
Exit ==
    /\ stopping
    /\ lane["encode"].at \in {"idle", "dead"}
    /\ lane' = [l \in Lanes |-> Idle]
    /\ stopping' = FALSE
    /\ UNCHANGED <<db, stops>>

WorkerDies ==
    /\ stops < MaxStops
    /\ stops' = stops + 1
    /\ lane' = [l \in Lanes |-> Idle]
    /\ stopping' = FALSE
    /\ UNCHANGED db

-----------------------------------------------------------------------------
(* The operator                                                            *)

\* A lane whose copy says AWAITING_SELECTION or NEEDS_REVIEW will drop the
\* job, but only after it has read it again and answered its control.
InHand(j) == \E l \in Lanes : lane[l].job = j

SetSelection(j) ==
    /\ db[j].state \in {"AWAITING_SELECTION", "NEEDS_REVIEW"}
    /\ RequeueInHand \/ ~InHand(j)
    /\ Move(j, "READY")

RestartCancelled(j) ==
    /\ RequeueInHand \/ ~InHand(j)
    /\ \E target \in JobState : Restart(j, target)

ResumeReview(j) ==
    /\ db[j].state = "NEEDS_REVIEW"
    /\ RequeueInHand \/ ~InHand(j)
    /\ Move(j, db[j].resume)

RetryUpload(j) ==
    /\ db[j].state = "UPLOAD_FAILED"
    /\ Move(j, "UPLOADING")

Operator(j) ==
    /\ \/ Insert(j) \/ RequestPause(j) \/ Continue(j) \/ RequestCancel(j)
       \/ SetSelection(j) \/ ResumeReview(j) \/ RetryUpload(j)
       \/ Retry(j) \/ RestartCancelled(j)
    /\ UNCHANGED <<lane, stopping, stops>>

-----------------------------------------------------------------------------
WorkerInit ==
    /\ LifecycleInit
    /\ lane = [l \in Lanes |-> Idle]
    /\ stopping = FALSE
    /\ stops = 0

LaneStep(l) ==
    \/ Take(l) \/ Enter(l) \/ Finish(l) \/ Interrupt(l) \/ StopAtBoundary(l)
    \/ Fault(l) \/ Refresh(l) \/ Handle(l) \/ Verdict(l)

WorkerNext ==
    \/ \E l \in Lanes : LaneStep(l)
    \/ Terminate \/ Exit \/ WorkerDies
    \/ \E j \in Jobs : Operator(j)

WorkerSpec == WorkerInit /\ [][WorkerNext]_wvars

\* The threads are scheduled, commands end or are interrupted, and systemd
\* starts the service again.  Nothing is assumed of the operator.
FairWorkerSpec ==
    /\ WorkerSpec
    /\ \A l \in Lanes : WF_wvars(LaneStep(l))
    /\ WF_wvars(Exit)
-----------------------------------------------------------------------------
(* Properties                                                              *)

Executes(l, j) == lane[l].at = "body" /\ lane[l].job = j

EncodeHalf == BlockingStates \cup {"READY"}

\* While a stage runs, the store says that this job is in this stage and is
\* neither paused nor cancelled: an acknowledgement is only ever given after
\* the processes of the stage have stopped, and the lane still owns its index.
\* No job is worked on by both lanes, and only one lane ever does the work of
\* the encode half of the pipeline.
StageIsOwned ==
    /\ \A l \in Lanes, j \in Jobs :
         Executes(l, j) => /\ db[j].state = lane[l].view
                           /\ Holds(l, j)
    /\ \A j, k \in Jobs :
         Executes("prep", j) /\ Executes("encode", k) =>
             /\ j # k
             /\ lane["prep"].view \notin EncodeHalf

\* A commit that was refused because the operator asked to stop is answered
\* as that request, never recorded as a failure of the job.
RefusalIsNotFailure ==
    \A l \in Lanes : lane[l].at = "verdict" => lane[l].why # "refused"

\* What the two lanes may rely on, of the store and of one another.
LanesAreSound == StageIsOwned /\ RefusalIsNotFailure

\* A request that reaches the encode lane between a handler's look at the
\* control and its commit ends the process, and the scan lane with it.  The
\* promises below need this to happen finitely often.
StaysUp == <>[](lane["encode"].at # "dead")

\* A request is answered: a pause ends in a paused job or became a cancel, and
\* a cancellation that was accepted is carried out.
RequestAnswered(j) ==
    /\ db[j].control = "PAUSE_REQUESTED" ~> db[j].control # "PAUSE_REQUESTED"
    /\ db[j].control = "CANCEL_REQUESTED" ~> db[j].state = "CANCELLED"

\* No job owns a lane without a worker: after every stop and crash a job in
\* an executing stage is taken up again, unless the operator stops it.
StageTakenUp(j) ==
    (db[j].state \in ControlActiveStates /\ db[j].control = "RUNNING")
      ~> \/ \E l \in Lanes : Executes(l, j)
         \/ db[j].state \notin ControlActiveStates
         \/ db[j].control # "RUNNING"

\* The worker owes every job an answer and, where nobody stopped it, work.
JobsAreServed == StaysUp => \A j \in Jobs : RequestAnswered(j) /\ StageTakenUp(j)

\* docs/ARCHITECTURE.md: two encodes never start, whatever the race.
NoTwoEncodes ==
    ~(\A l \in Lanes : lane[l].at = "body" /\ lane[l].view = "ENCODING")
=============================================================================
