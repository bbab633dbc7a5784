---------------------------- MODULE JobLifecycle ----------------------------
(***************************************************************************)
(* What the job store promises its clients, with everything left out that  *)
(* only serves to keep the promise: a job is a pipeline state, an operator *)
(* control and a resume state.  There are no versions, revisions, scans,   *)
(* events or progress here, a retry re-enters the stage the job failed in  *)
(* without saying how that stage is known, and a restart may choose any of *)
(* its three targets.  JobStore implements this module; the worker and the *)
(* maintenance modules are built on it.                                    *)
(***************************************************************************)
EXTENDS JobStates

CONSTANT Jobs

VARIABLE db  \* job -> [state, control, resume]

Absent == "ABSENT"

Entry == [state : JobState \cup {Absent}, control : JobControlState,
          resume : JobState \cup {NoState}]

NoEntry == [state |-> Absent, control |-> "RUNNING", resume |-> NoState]

\* A transaction that would put two unpaused jobs in one lane is rolled back.
Write(j, entry) ==
    /\ UniqueLanes([db EXCEPT ![j] = entry])
    /\ db' = [db EXCEPT ![j] = entry]

-----------------------------------------------------------------------------
Insert(j) ==
    /\ db[j].state = Absent
    /\ Write(j, [NoEntry EXCEPT !.state = "QUEUED"])

\* Any legal transition but a cancellation; the two claims are such moves.
Move(j, target) ==
    /\ target # "CANCELLED"
    /\ CanMove(db[j], target)
    /\ Write(j, [db[j] EXCEPT !.state = target,
                              !.resume = MovedResume(db[j], target)])

InPipeline(j) == db[j].state \in JobState \ TerminalStates

RequestPause(j) ==
    /\ InPipeline(j)
    /\ db[j].control = "RUNNING"
    /\ Write(j, [db[j] EXCEPT !.control =
                   IF db[j].state \in ControlActiveStates
                   THEN "PAUSE_REQUESTED" ELSE "PAUSED"])

AcknowledgePause(j) ==
    /\ db[j].control = "PAUSE_REQUESTED"
    /\ Write(j, [db[j] EXCEPT !.control = "PAUSED"])

Continue(j) ==
    /\ InPipeline(j)
    /\ db[j].control = "PAUSED"
    /\ Write(j, [db[j] EXCEPT !.control = "RUNNING"])

Cancelled == [state |-> "CANCELLED", control |-> "RUNNING", resume |-> NoState]

\* Asked of an executing stage, done at once to an idle or paused job.
RequestCancel(j) ==
    /\ InPipeline(j)
    /\ db[j].control # "CANCEL_REQUESTED"
    /\ IF db[j].state \in ControlActiveStates /\ db[j].control # "PAUSED"
       THEN Write(j, [db[j] EXCEPT !.control = "CANCEL_REQUESTED"])
       ELSE Write(j, Cancelled)

AcknowledgeCancel(j) ==
    /\ InPipeline(j)
    /\ db[j].control = "CANCEL_REQUESTED"
    /\ Write(j, Cancelled)

\* Back into the stage the job failed in, if that stage can be replayed and
\* no other job is in the encode half of the pipeline, paused or not.
Retry(j) ==
    /\ db[j].state = "FAILED"
    /\ db[j].resume \in RetryableFailedStages
    /\ db[j].resume # "READY" =>
         \A k \in Jobs \ {j} : db[k].state \notin BlockingStates
    /\ Write(j, [db[j] EXCEPT !.state = db[j].resume, !.resume = NoState])

Restart(j, target) ==
    /\ db[j].state = "CANCELLED"
    /\ target \in {"QUEUED", "AWAITING_SELECTION", "READY"}
    /\ Write(j, [db[j] EXCEPT !.state = target, !.resume = NoState])

Purge(j) ==
    /\ db[j].state \in TerminalStates
    /\ Write(j, NoEntry)

-----------------------------------------------------------------------------
LifecycleInit == db = [j \in Jobs |-> NoEntry]

LifecycleNext ==
    \E j \in Jobs :
        \/ Insert(j) \/ Purge(j)
        \/ \E target \in JobState : Move(j, target) \/ Restart(j, target)
        \/ RequestPause(j) \/ AcknowledgePause(j) \/ Continue(j)
        \/ RequestCancel(j) \/ AcknowledgeCancel(j) \/ Retry(j)

Lifecycle == LifecycleInit /\ [][LifecycleNext]_db
=============================================================================
