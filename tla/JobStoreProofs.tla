--------------------------- MODULE JobStoreProofs ---------------------------
(***************************************************************************)
(* The invariants of JobStore for any number of jobs, any priorities and   *)
(* any bounds.  The inductive invariant IInv is a condition on each row    *)
(* (RowOK), one on each row and its newest state event (EventOK), the lane *)
(* indexes, and the well-formedness of the two-transaction call.  The      *)
(* proof shows that the rows the operations write are RowOK, operator by   *)
(* operator, and then that every action writes such a row.  The action     *)
(* properties and the refinement of JobLifecycle rest on one lemma more:   *)
(* a step writes at most one row, in one of seven ways (StepEffect).  The  *)
(* decisions taken over two transactions need an invariant of their own    *)
(* (Remembered).                                                           *)
(***************************************************************************)
EXTENDS JobStore, TLAPS

\* What every row satisfies on its own.
RowOK(row) ==
    /\ row \in Row
    /\ row.control \in {"PAUSE_REQUESTED", "CANCEL_REQUESTED"}
         => row.state \in ControlActiveStates
    /\ row.state \in TerminalStates => row.control = "RUNNING"
    /\ (row.resume # NoState) <=> (row.state \in {"NEEDS_REVIEW", "FAILED"})
    /\ row.state = "NEEDS_REVIEW"
         => "NEEDS_REVIEW" \in NormalTransitions[row.resume]
    /\ row.state \in BaselineStates => row.progress >= Baseline[row.state]

\* What a row and its newest state event satisfy together.
EventOK(row, event) ==
    /\ event \in Event
    /\ row.state # Absent =>
         /\ event.to = row.state
         /\ row.state = "FAILED" =>
              event.kind = "job.state" /\ row.resume = event.from

CallOK ==
    /\ call \in Call
    /\ call.kind # "none" => call.job \in Jobs /\ call.target \in JobState
    /\ call.kind \in {"resume_review", "retry_upload"}
         => call.target # "CANCELLED"

\* The jobs table and the event log.
TablesOK ==
    /\ jobs \in [Jobs -> Row]
    /\ lastEvent \in [Jobs -> Event]
    /\ \A j \in Jobs : RowOK(jobs[j]) /\ EventOK(jobs[j], lastEvent[j])
    /\ UniqueLanes(jobs)

IInv ==
    /\ TablesOK
    /\ scans \in [Jobs -> Seq(ScanState)]
    /\ nextJob \in 1..(NumJobs + 1)
    /\ CallOK

-----------------------------------------------------------------------------
(* Facts about the vocabulary                                              *)

LEMMA StateSets ==
    /\ Absent \notin JobState /\ NoState \notin JobState
    /\ TerminalStates \subseteq JobState
    /\ ControlActiveStates \subseteq JobState
    /\ ControlActiveStates \cap TerminalStates = {}
    /\ RetryableFailedStages \subseteq JobState \ TerminalStates
    /\ RetryableFailedStages \subseteq BaselineStates
    /\ BaselineStates \subseteq JobState
    /\ "NEEDS_REVIEW" \notin BaselineStates
BY DEF Absent, NoState, JobState, TerminalStates, ControlActiveStates,
       RetryableFailedStages, BaselineStates, Baseline

LEMMA BaselineType == \A s \in BaselineStates : Baseline[s] \in 0..100
BY DEF BaselineStates, Baseline

LEMMA NormalType ==
    /\ \A s \in JobState : NormalTransitions[s] \subseteq JobState
    /\ "NEEDS_REVIEW" \notin NormalTransitions["NEEDS_REVIEW"]
BY DEF NormalTransitions, JobState

\* A legal target is a state, reached from a state that is not terminal, and
\* a review is only opened from a stage that may ask for one.
LEMMA AllowedType ==
    ASSUME NEW row, RowOK(row), NEW target, CanMove(row, target)
    PROVE  /\ row.state \in JobState \ TerminalStates
           /\ target \in JobState
           /\ target = "NEEDS_REVIEW"
                => "NEEDS_REVIEW" \in NormalTransitions[row.state]
<1>1. row.state \in JobState \ TerminalStates
  BY DEF CanMove, AllowedTransitions
<1>2. row.resume \in JobState \cup {NoState}
  BY DEF RowOK, Row
<1>3. target \in JobState
  BY <1>1, <1>2, NormalType DEF CanMove, AllowedTransitions, JobState
<1>4. ASSUME target = "NEEDS_REVIEW"
      PROVE  "NEEDS_REVIEW" \in NormalTransitions[row.state]
  BY <1>1, <1>2, <1>4, NormalType DEF CanMove, AllowedTransitions, RowOK
<1> QED BY <1>1, <1>3, <1>4

-----------------------------------------------------------------------------
(* The rows the operations write                                           *)

\* An UPDATE of columns with values of their types leaves a typed row.
LEMMA WritePipeline ==
    ASSUME NEW row \in Row, NEW state \in JobState,
           NEW resume \in JobState \cup {NoState}, NEW progress \in 0..100,
           NEW version \in Nat
    PROVE  [row EXCEPT !.state = state, !.resume = resume,
                       !.progress = progress, !.version = version] \in Row
BY DEF Row

LEMMA WriteControl ==
    ASSUME NEW row \in Row, NEW control \in JobControlState,
           NEW revision \in Nat
    PROVE  [row EXCEPT !.control = control, !.revision = revision] \in Row
BY DEF Row

LEMMA WriteProgress ==
    ASSUME NEW row \in Row, NEW progress \in 0..100, NEW version \in Nat
    PROVE  [row EXCEPT !.progress = progress, !.version = version] \in Row
BY DEF Row

\* _transition_in_connection keeps a row well-formed.
LEMMA MovedOK ==
    ASSUME NEW row, RowOK(row), NEW target, CanMove(row, target)
    PROVE  /\ target # "CANCELLED" => RowOK(Moved(row, target))
           /\ target = "CANCELLED" =>
                RowOK(Controlled(Moved(row, target), "RUNNING"))
           /\ Moved(row, target).state = target
           /\ target = "FAILED" => Moved(row, target).resume = row.state
<1>1. /\ row \in Row
      /\ row.state \in JobState \ TerminalStates
      /\ target \in JobState
      /\ target = "NEEDS_REVIEW"
           => "NEEDS_REVIEW" \in NormalTransitions[row.state]
  BY AllowedType DEF RowOK
<1>2. MovedResume(row, target) \in JobState \cup {NoState}
  BY <1>1 DEF MovedResume, Row
<1>3. MovedProgress(row, target) \in 0..100
  BY <1>1, BaselineType DEF MovedProgress, Maximum, Row
<1>4. target \in BaselineStates
        => MovedProgress(row, target) >= Baseline[target]
  BY <1>1, BaselineType DEF MovedProgress, Maximum, Row
<1>5. /\ Moved(row, target).state = target
      /\ Moved(row, target).control = row.control
      /\ Moved(row, target).resume = MovedResume(row, target)
      /\ Moved(row, target).progress = MovedProgress(row, target)
  BY <1>1 DEF Moved, Row
<1>6. Moved(row, target) \in Row
  <2>1. row.version + 1 \in Nat
    BY <1>1 DEF Row
  <2> QED BY <1>1, <1>2, <1>3, <2>1, WritePipeline DEF Moved
<1>7. /\ (MovedResume(row, target) # NoState)
           <=> (target \in {"NEEDS_REVIEW", "FAILED"})
      /\ target = "NEEDS_REVIEW"
           => "NEEDS_REVIEW" \in NormalTransitions[MovedResume(row, target)]
      /\ target = "FAILED" => MovedResume(row, target) = row.state
  BY <1>1, StateSets DEF MovedResume, RowOK, TerminalStates
<1>8. ASSUME target # "CANCELLED" PROVE row.control = "RUNNING"
  BY <1>8 DEF CanMove
<1>9. target # "CANCELLED" => RowOK(Moved(row, target))
  BY <1>4, <1>5, <1>6, <1>7, <1>8 DEF RowOK
<1>10. /\ Controlled(Moved(row, target), "RUNNING").state = target
       /\ Controlled(Moved(row, target), "RUNNING").control = "RUNNING"
       /\ Controlled(Moved(row, target), "RUNNING").resume = MovedResume(row, target)
       /\ Controlled(Moved(row, target), "RUNNING").progress = MovedProgress(row, target)
  BY <1>5, <1>6 DEF Controlled, Row
<1>11. Controlled(Moved(row, target), "RUNNING") \in Row
  <2>1. Moved(row, target).revision + 1 \in Nat
    BY <1>6 DEF Row
  <2>2. "RUNNING" \in JobControlState
    BY DEF JobControlState
  <2> QED BY <1>6, <2>1, <2>2, WriteControl DEF Controlled
<1>12. RowOK(Controlled(Moved(row, target), "RUNNING"))
  BY <1>4, <1>7, <1>10, <1>11 DEF RowOK
<1> QED BY <1>5, <1>7, <1>9, <1>12

\* Writing the control column keeps a row well-formed if the new control
\* suits its state.
LEMMA ControlledOK ==
    ASSUME NEW row, RowOK(row), NEW control \in JobControlState,
           control \in {"PAUSE_REQUESTED", "CANCEL_REQUESTED"}
             => row.state \in ControlActiveStates,
           row.state \in TerminalStates => control = "RUNNING"
    PROVE  /\ RowOK(Controlled(row, control))
           /\ Controlled(row, control).state = row.state
           /\ Controlled(row, control).resume = row.resume
<1>1. row \in Row
  BY DEF RowOK
<1>2. /\ Controlled(row, control).state = row.state
      /\ Controlled(row, control).control = control
      /\ Controlled(row, control).resume = row.resume
      /\ Controlled(row, control).progress = row.progress
  BY <1>1 DEF Controlled, Row
<1>3. Controlled(row, control) \in Row
  <2>1. row.revision + 1 \in Nat
    BY <1>1 DEF Row
  <2> QED BY <1>1, <2>1, WriteControl DEF Controlled
<1> QED BY <1>2, <1>3 DEF RowOK

LEMMA NoRowOK == RowOK(NoRow) /\ NoEvent \in Event
BY DEF NoRow, RowOK, Row, NoState, JobState, JobControlState, Absent,
       ControlActiveStates, TerminalStates, BaselineStates, Baseline,
       NoEvent, Event

LEMMA QueuedRowOK ==
    ASSUME NEW p \in Priorities
    PROVE  LET new == [NoRow EXCEPT !.state = "QUEUED", !.priority = p]
           IN  RowOK(new) /\ new.state = "QUEUED"
<1> DEFINE new == [NoRow EXCEPT !.state = "QUEUED", !.priority = p]
<1>1. /\ new.state = "QUEUED" /\ new.control = "RUNNING"
      /\ new.resume = NoState /\ new.progress = 0
  BY DEF NoRow
<1>2. new \in Row
  <2>1. NoRow \in Row /\ "QUEUED" \in JobState
    BY NoRowOK DEF RowOK, JobState
  <2> QED BY <2>1 DEF Row
<1>3. RowOK(new)
  <2> HIDE DEF new
  <2> QED
    BY <1>1, <1>2
    DEF RowOK, ControlActiveStates, TerminalStates, BaselineStates, Baseline
<1> QED BY <1>1, <1>3

\* A retry or a restart re-enters the pipeline at the floor of its stage.
LEMMA ReenteredOK ==
    ASSUME NEW row, RowOK(row), row.state \in TerminalStates,
           NEW stage \in BaselineStates \ TerminalStates
    PROVE  LET new == [row EXCEPT !.state = stage, !.resume = NoState,
                                  !.progress = Baseline[stage],
                                  !.version = @ + 1]
           IN  RowOK(new) /\ new.state = stage
<1> DEFINE new == [row EXCEPT !.state = stage, !.resume = NoState,
                              !.progress = Baseline[stage],
                              !.version = @ + 1]
<1>1. row \in Row /\ row.control = "RUNNING"
  BY DEF RowOK
<1>2. /\ stage \in JobState
      /\ stage \notin {"NEEDS_REVIEW", "FAILED"}
      /\ Baseline[stage] \in 0..100
  BY StateSets, BaselineType DEF TerminalStates
<1>3. new \in Row
  <2>1. row.version + 1 \in Nat
    BY <1>1 DEF Row
  <2> QED BY <1>1, <1>2, <2>1, WritePipeline
<1>4. /\ new.state = stage /\ new.control = "RUNNING"
      /\ new.resume = NoState /\ new.progress = Baseline[stage]
  BY <1>1 DEF Row
<1>5. RowOK(new)
  <2> HIDE DEF new
  <2> QED BY <1>2, <1>3, <1>4 DEF RowOK
<1> QED BY <1>4, <1>5

\* A progress report never takes the meter under the stage's floor.
LEMMA ReportedOK ==
    ASSUME NEW row, RowOK(row), NEW p \in ProgressReports
    PROVE  LET new == [row EXCEPT !.progress = Maximum(@, p),
                                  !.version = @ + 1]
           IN  /\ RowOK(new) /\ new.state = row.state
               /\ new.resume = row.resume
<1> DEFINE new == [row EXCEPT !.progress = Maximum(@, p), !.version = @ + 1]
<1>1. row \in Row
  BY DEF RowOK
<1>2. Maximum(row.progress, p) \in 0..100
  BY <1>1, ReportsAssumption DEF Row, Maximum
<1>3. Maximum(row.progress, p) >= row.progress
  BY <1>1, ReportsAssumption DEF Row, Maximum
<1>4. new \in Row
  <2>1. row.version + 1 \in Nat
    BY <1>1 DEF Row
  <2> QED BY <1>1, <1>2, <2>1, WriteProgress
<1>5. /\ new.state = row.state /\ new.control = row.control
      /\ new.resume = row.resume /\ new.progress = Maximum(row.progress, p)
  BY <1>1 DEF Row
<1>6. row.state \in BaselineStates => new.progress >= Baseline[row.state]
  BY <1>1, <1>2, <1>3, <1>5, BaselineType DEF RowOK, Row
<1>7. RowOK(new)
  <2> HIDE DEF new
  <2> QED BY <1>4, <1>5, <1>6 DEF RowOK
<1> QED BY <1>5, <1>7

LEMMA SelectedOK ==
    ASSUME NEW row, RowOK(row)
    PROVE  LET new == [row EXCEPT !.selection = TRUE]
           IN  /\ RowOK(new) /\ new.state = row.state
               /\ new.resume = row.resume
<1> DEFINE new == [row EXCEPT !.selection = TRUE]
<1>1. row \in Row
  BY DEF RowOK
<1>2. new \in Row
  BY <1>1 DEF Row
<1>3. /\ new.state = row.state /\ new.control = row.control
      /\ new.resume = row.resume /\ new.progress = row.progress
  BY <1>1 DEF Row
<1>4. RowOK(new)
  <2> HIDE DEF new
  <2> QED BY <1>2, <1>3 DEF RowOK
<1> QED BY <1>3, <1>4

-----------------------------------------------------------------------------
(* The transactions                                                        *)

\* A transaction that commits a well-formed row and logs a fitting event
\* keeps the tables well-formed.
LEMMA RowWritten ==
    ASSUME TablesOK, NEW j \in Jobs, NEW row, NEW event,
           RowOK(row), EventOK(row, event),
           jobs' = [jobs EXCEPT ![j] = row],
           lastEvent' = [lastEvent EXCEPT ![j] = event],
           UniqueLanes(jobs')
    PROVE  TablesOK'
<1>1. jobs' \in [Jobs -> Row] /\ lastEvent' \in [Jobs -> Event]
  BY DEF TablesOK, RowOK, EventOK
<1>2. \A i \in Jobs : RowOK(jobs'[i]) /\ EventOK(jobs'[i], lastEvent'[i])
  BY DEF TablesOK
<1> QED BY <1>1, <1>2 DEF TablesOK

LEMMA MoveRowStep ==
    ASSUME TablesOK, NEW j \in Jobs, NEW row, RowOK(row),
           NEW target, target # "CANCELLED", MoveRow(j, row, target)
    PROVE  TablesOK'
<1> DEFINE event == [kind |-> "job.state", from |-> row.state, to |-> target]
<1>1. CanMove(row, target)
  BY DEF MoveRow
<1>2. /\ RowOK(Moved(row, target)) /\ Moved(row, target).state = target
      /\ target = "FAILED" => Moved(row, target).resume = row.state
  BY <1>1, MovedOK
<1>3. EventOK(Moved(row, target), event)
  BY <1>1, <1>2, AllowedType DEF EventOK, Event
<1>4. /\ jobs' = [jobs EXCEPT ![j] = Moved(row, target)]
      /\ lastEvent' = [lastEvent EXCEPT ![j] = event]
      /\ UniqueLanes(jobs')
  BY DEF MoveRow, Commit, Fits, Record
<1> HIDE DEF event
<1> QED BY <1>2, <1>3, <1>4, RowWritten

LEMMA CancelNowStep ==
    ASSUME TablesOK, NEW j \in Jobs, CancelNow(j)
    PROVE  TablesOK'
<1> DEFINE new == Controlled(Moved(jobs[j], "CANCELLED"), "RUNNING")
           event == [kind |-> "job.state", from |-> jobs[j].state,
                     to |-> "CANCELLED"]
<1>1. RowOK(jobs[j]) /\ CanMove(jobs[j], "CANCELLED")
  BY DEF TablesOK, CancelNow
<1>2. RowOK(new)
  BY <1>1, MovedOK
<1>3. new.state = "CANCELLED"
  BY <1>1 DEF Controlled, Moved, RowOK, Row
<1>4. EventOK(new, event)
  BY <1>1, <1>3, AllowedType DEF EventOK, Event, TerminalStates
<1>5. /\ jobs' = [jobs EXCEPT ![j] = new]
      /\ lastEvent' = [lastEvent EXCEPT ![j] = event]
      /\ UniqueLanes(jobs')
  BY DEF CancelNow, Commit, Fits, Record
<1> HIDE DEF new, event
<1> QED BY <1>2, <1>4, <1>5, RowWritten

LEMMA SetControlStep ==
    ASSUME TablesOK, NEW j \in Jobs, NEW control \in JobControlState,
           control \in {"PAUSE_REQUESTED", "CANCEL_REQUESTED"}
             => jobs[j].state \in ControlActiveStates,
           jobs[j].state \in TerminalStates => control = "RUNNING",
           SetControl(j, control)
    PROVE  TablesOK'
<1> DEFINE new == Controlled(jobs[j], control)
<1>1. RowOK(jobs[j]) /\ EventOK(jobs[j], lastEvent[j])
  BY DEF TablesOK
<1>2. /\ RowOK(new) /\ new.state = jobs[j].state
      /\ new.resume = jobs[j].resume
  BY <1>1, ControlledOK
<1>3. /\ jobs' = [jobs EXCEPT ![j] = new]
      /\ UniqueLanes(jobs') /\ lastEvent' = lastEvent
  BY DEF SetControl, Commit, Fits
<1> HIDE DEF new
<1>4. EventOK(new, lastEvent[j])
  BY <1>1, <1>2 DEF EventOK
<1>5. lastEvent' = [lastEvent EXCEPT ![j] = lastEvent[j]]
  BY <1>3 DEF TablesOK
<1> QED BY <1>2, <1>3, <1>4, <1>5, RowWritten

-----------------------------------------------------------------------------
(* Sequences of scans                                                      *)

LEMMA ScanWritten ==
    ASSUME NEW s \in Seq(ScanState), NEW k \in DOMAIN s,
           NEW status \in ScanState
    PROVE  [s EXCEPT ![k] = status] \in Seq(ScanState)
OBVIOUS

LEMMA ScansMapped ==
    ASSUME NEW s \in Seq(ScanState), NEW t,
           DOMAIN t = DOMAIN s, t = [k \in DOMAIN s |-> t[k]],
           \A k \in DOMAIN s : t[k] \in ScanState
    PROVE  t \in Seq(ScanState)
<1>1. DOMAIN s = 1..Len(s) /\ Len(s) \in Nat
  OBVIOUS
<1>2. t \in [1..Len(s) -> ScanState]
  BY <1>1
<1> QED BY <1>1, <1>2

-----------------------------------------------------------------------------
(* The actions                                                             *)

LEMMA CreateJobStep ==
    ASSUME IInv, NEW p \in Priorities, CreateJob(p) PROVE IInv'
<1> DEFINE new == [NoRow EXCEPT !.state = "QUEUED", !.priority = p]
           event == [kind |-> "job.created", from |-> NoState,
                     to |-> "QUEUED"]
<1>1. /\ jobs' = [jobs EXCEPT ![nextJob] = new]
      /\ lastEvent' = [lastEvent EXCEPT ![nextJob] = event]
      /\ UniqueLanes(jobs') /\ nextJob \in Jobs
  BY DEF CreateJob, Commit, Fits, Record
<1>2. RowOK(new) /\ new.state = "QUEUED"
  BY QueuedRowOK
<1>3. EventOK(new, event)
  BY <1>2 DEF EventOK, Event, JobState
<1> HIDE DEF new, event
<1>4. TablesOK'
  BY <1>1, <1>2, <1>3, RowWritten DEF IInv
<1>5. nextJob' \in 1..(NumJobs + 1)
  BY <1>1, BoundsAssumption DEF CreateJob, Jobs
<1> QED BY <1>4, <1>5 DEF IInv, CreateJob, CallOK

LEMMA ClaimNextJobStep ==
    ASSUME IInv, NEW j \in Jobs, ClaimNextJob(j) PROVE IInv'
<1>1. TablesOK' BY MoveRowStep DEF ClaimNextJob, IInv, TablesOK
<1> QED BY <1>1 DEF IInv, ClaimNextJob, CallOK

LEMMA ClaimNextReadyJobStep ==
    ASSUME IInv, NEW j \in Jobs, ClaimNextReadyJob(j) PROVE IInv'
<1>1. TablesOK' BY MoveRowStep DEF ClaimNextReadyJob, IInv, TablesOK
<1> QED BY <1>1 DEF IInv, ClaimNextReadyJob, CallOK

LEMMA TransitionJobStep ==
    ASSUME IInv, NEW j \in Jobs, NEW target \in JobState,
           TransitionJob(j, target)
    PROVE  IInv'
<1>1. TablesOK' BY MoveRowStep DEF TransitionJob, IInv, TablesOK
<1> QED BY <1>1 DEF IInv, TransitionJob, CallOK

LEMMA RequestPauseStep ==
    ASSUME IInv, NEW j \in Jobs, RequestPause(j) PROVE IInv'
<1>1. TablesOK'
  BY SetControlStep
  DEF RequestPause, IInv, JobControlState
<1> QED BY <1>1 DEF IInv, RequestPause, CallOK

LEMMA CancelEffectStep ==
    ASSUME TablesOK, NEW j \in Jobs, CancelRequestable(j), CancelEffect(j)
    PROVE  TablesOK'
BY SetControlStep, CancelNowStep
DEF CancelEffect, CancelRequestable, JobControlState

LEMMA RequestCancelStep ==
    ASSUME IInv, NEW j \in Jobs, RequestCancel(j) PROVE IInv'
<1>1. TablesOK' BY CancelEffectStep DEF RequestCancel, IInv
<1> QED BY <1>1 DEF IInv, RequestCancel, CallOK

LEMMA AcknowledgePauseStep ==
    ASSUME IInv, NEW j \in Jobs, AcknowledgePause(j) PROVE IInv'
<1>1. jobs[j].state \notin TerminalStates
  BY StateSets DEF IInv, TablesOK, RowOK, AcknowledgePause
<1>2. TablesOK'
  BY <1>1, SetControlStep DEF AcknowledgePause, IInv, JobControlState
<1> QED BY <1>2 DEF IInv, AcknowledgePause, CallOK

LEMMA AcknowledgeCancelStep ==
    ASSUME IInv, NEW j \in Jobs, AcknowledgeCancel(j) PROVE IInv'
<1>1. TablesOK' BY CancelNowStep DEF AcknowledgeCancel, IInv
<1> QED BY <1>1 DEF IInv, AcknowledgeCancel, CallOK

LEMMA ResumePausedJobStep ==
    ASSUME IInv, NEW j \in Jobs, ResumePausedJob(j) PROVE IInv'
<1>1. TablesOK'
  BY SetControlStep DEF ResumePausedJob, IInv, JobControlState
<1> QED BY <1>1 DEF IInv, ResumePausedJob, CallOK

\* The first transaction of a check-then-act call only fills call.
LEMMA ReadStep ==
    ASSUME IInv, NEW j \in Jobs,
           ResumeReviewRead(j) \/ RetryUploadRead(j) \/ CheckedCancelRead(j)
    PROVE  IInv'
<1>1. /\ jobs[j] \in Row
      /\ jobs[j].state = "NEEDS_REVIEW" => jobs[j].resume # "CANCELLED"
  BY DEF IInv, TablesOK, RowOK, NormalTransitions
<1>2. CallOK'
  BY <1>1
  DEF ResumeReviewRead, RetryUploadRead, CheckedCancelRead, CallOK, Call, Row,
      JobState
<1>3. UNCHANGED <<jobs, scans, lastEvent, nextJob>>
  BY DEF ResumeReviewRead, RetryUploadRead, CheckedCancelRead
<1> QED BY <1>2, <1>3 DEF IInv, TablesOK

LEMMA FinishAdvanceStep ==
    ASSUME IInv, FinishAdvance PROVE IInv'
<1>1. /\ call.job \in Jobs /\ call.target \in JobState
      /\ call.target # "CANCELLED"
  BY DEF IInv, CallOK, FinishAdvance
<1>2. CallOK'
  BY DEF FinishAdvance, CallOK, NoCall, Call
<1>3. CASE MoveRow(call.job, jobs[call.job], call.target)
  <2>1. TablesOK' BY <1>1, <1>3, MoveRowStep DEF IInv, TablesOK
  <2> QED BY <1>2, <2>1 DEF IInv, FinishAdvance
<1>4. CASE UNCHANGED <<jobs, lastEvent>>
  BY <1>2, <1>4 DEF IInv, TablesOK, FinishAdvance
<1> QED BY <1>3, <1>4 DEF FinishAdvance

LEMMA FinishCheckedCancelStep ==
    ASSUME IInv, FinishCheckedCancel PROVE IInv'
<1>1. call.job \in Jobs
  BY DEF IInv, CallOK, FinishCheckedCancel
<1>2. CallOK'
  BY DEF FinishCheckedCancel, CallOK, NoCall, Call
<1>3. CASE CancelRequestable(call.job) /\ CancelEffect(call.job)
  <2>1. TablesOK' BY <1>1, <1>3, CancelEffectStep DEF IInv
  <2> QED BY <1>2, <2>1 DEF IInv, FinishCheckedCancel
<1>4. CASE UNCHANGED <<jobs, lastEvent>>
  BY <1>2, <1>4 DEF IInv, TablesOK, FinishCheckedCancel
<1> QED BY <1>3, <1>4 DEF FinishCheckedCancel

LEMMA RetryFailedJobStep ==
    ASSUME IInv, NEW j \in Jobs, RetryFailedJob(j) PROVE IInv'
<1> DEFINE stage == lastEvent[j].from
           new == [jobs[j] EXCEPT !.state = stage, !.resume = NoState,
                                  !.progress = Baseline[stage],
                                  !.version = @ + 1]
           event == [kind |-> "job.retry", from |-> "FAILED", to |-> stage]
<1>1. /\ jobs' = [jobs EXCEPT ![j] = new]
      /\ lastEvent' = [lastEvent EXCEPT ![j] = event]
      /\ UniqueLanes(jobs')
  BY DEF RetryFailedJob, Commit, Fits, Record
<1>2. /\ RowOK(jobs[j]) /\ jobs[j].state \in TerminalStates
      /\ stage \in BaselineStates \ TerminalStates /\ stage \in JobState
  BY StateSets DEF RetryFailedJob, IInv, TablesOK, TerminalStates
<1>3. RowOK(new) /\ new.state = stage
  BY <1>2, ReenteredOK
<1>4. EventOK(new, event)
  BY <1>2, <1>3 DEF EventOK, Event, JobState, TerminalStates
<1> HIDE DEF new, event
<1>5. TablesOK'
  BY <1>1, <1>3, <1>4, RowWritten DEF IInv
<1> QED BY <1>5 DEF IInv, RetryFailedJob, CallOK

LEMMA RestartCancelledJobStep ==
    ASSUME IInv, NEW j \in Jobs, RestartCancelledJob(j) PROVE IInv'
<1> DEFINE stage == RestartTarget(j)
           new == [jobs[j] EXCEPT !.state = stage, !.resume = NoState,
                                  !.progress = Baseline[stage],
                                  !.version = @ + 1]
           event == [kind |-> "job.restart", from |-> "CANCELLED",
                     to |-> stage]
<1>1. /\ jobs' = [jobs EXCEPT ![j] = new]
      /\ lastEvent' = [lastEvent EXCEPT ![j] = event]
      /\ UniqueLanes(jobs')
  BY DEF RestartCancelledJob, Commit, Fits, Record
<1>2. /\ RowOK(jobs[j]) /\ jobs[j].state \in TerminalStates
      /\ stage \in BaselineStates \ TerminalStates /\ stage \in JobState
  BY DEF RestartCancelledJob, RestartTarget, IInv, TablesOK, TerminalStates,
         BaselineStates, Baseline, JobState
<1>3. RowOK(new) /\ new.state = stage
  BY <1>2, ReenteredOK
<1>4. EventOK(new, event)
  BY <1>2, <1>3 DEF EventOK, Event, JobState, TerminalStates
<1> HIDE DEF new, event
<1>5. TablesOK'
  BY <1>1, <1>3, <1>4, RowWritten DEF IInv
<1> QED BY <1>5 DEF IInv, RestartCancelledJob, CallOK

LEMMA DeleteTerminalJobStep ==
    ASSUME IInv, NEW j \in Jobs, DeleteTerminalJob(j) PROVE IInv'
<1>1. RowOK(NoRow) /\ EventOK(NoRow, NoEvent)
  BY NoRowOK DEF EventOK, NoRow
<1>2. /\ jobs' = [jobs EXCEPT ![j] = NoRow]
      /\ lastEvent' = [lastEvent EXCEPT ![j] = NoEvent]
  BY DEF DeleteTerminalJob
<1>3. UniqueLanes(jobs')
  <2>1. ~InScanLane(NoRow) /\ ~InEncodeLane(NoRow)
    BY DEF NoRow, InScanLane, InEncodeLane, BlockingStates, Absent
  <2> QED BY <1>2, <2>1 DEF UniqueLanes, IInv, TablesOK
<1>4. TablesOK'
  BY <1>1, <1>2, <1>3, RowWritten DEF IInv
<1>5. scans' \in [Jobs -> Seq(ScanState)]
  BY DEF DeleteTerminalJob, IInv
<1> QED BY <1>4, <1>5 DEF IInv, DeleteTerminalJob, CallOK

LEMMA CreateScanStep ==
    ASSUME IInv, NEW j \in Jobs, NEW status \in ScanState,
           CreateScan(j, status)
    PROVE  IInv'
<1>1. scans' \in [Jobs -> Seq(ScanState)]
  BY DEF CreateScan, IInv
<1> QED BY <1>1 DEF IInv, TablesOK, CreateScan, CallOK

LEMMA UpdateScanStep ==
    ASSUME IInv, NEW j \in Jobs, NEW k \in 1..MaxScans,
           NEW status \in ScanState, UpdateScan(j, k, status)
    PROVE  IInv'
<1>1. scans' \in [Jobs -> Seq(ScanState)]
  <2>1. [scans[j] EXCEPT ![k] = status] \in Seq(ScanState)
    BY ScanWritten DEF UpdateScan, IInv
  <2> QED BY <2>1 DEF UpdateScan, IInv
<1>2. TablesOK'
  <2>1. CASE UNCHANGED <<jobs, lastEvent>>
    BY <2>1 DEF IInv, TablesOK
  <2>2. CASE /\ status \in DOMAIN ScanBoundary
             /\ MoveRow(j, jobs[j], ScanBoundary[status])
    <3>1. ScanBoundary[status] # "CANCELLED"
      BY <2>2 DEF ScanBoundary
    <3> QED BY <2>2, <3>1, MoveRowStep DEF IInv, TablesOK
  <2> QED BY <2>1, <2>2 DEF UpdateScan
<1> QED BY <1>1, <1>2 DEF IInv, UpdateScan, CallOK

LEMMA SetSelectionStep ==
    ASSUME IInv, NEW j \in Jobs, SetSelection(j) PROVE IInv'
<1> DEFINE row == [jobs[j] EXCEPT !.selection = TRUE]
           t == [k \in DOMAIN scans[j] |->
                   IF SelectionCompletes(j, k) THEN "COMPLETED"
                   ELSE scans[j][k]]
<1>1. RowOK(row) /\ MoveRow(j, row, "READY")
  BY SelectedOK DEF SetSelection, IInv, TablesOK
<1> HIDE DEF row
<1>2. TablesOK'
  BY <1>1, MoveRowStep DEF IInv
<1>3. t \in Seq(ScanState)
  <2>1. scans[j] \in Seq(ScanState)
    BY DEF IInv
  <2>2. \A k \in DOMAIN scans[j] : t[k] \in ScanState
    BY <2>1 DEF ScanState
  <2>3. DOMAIN t = DOMAIN scans[j] /\ t = [k \in DOMAIN scans[j] |-> t[k]]
    OBVIOUS
  <2> HIDE DEF t
  <2> QED BY <2>1, <2>2, <2>3, ScansMapped
<1>4. scans' = [scans EXCEPT ![j] = t]
  BY DEF SetSelection
<1> HIDE DEF t
<1>5. scans' \in [Jobs -> Seq(ScanState)]
  BY <1>3, <1>4 DEF IInv
<1> QED BY <1>2, <1>5 DEF IInv, SetSelection, CallOK

LEMMA RecordProgressStep ==
    ASSUME IInv, NEW j \in Jobs, NEW p \in ProgressReports,
           RecordProgress(j, p)
    PROVE  IInv'
<1> DEFINE new == [jobs[j] EXCEPT !.progress = Maximum(@, p),
                                  !.version = @ + 1]
<1>1. /\ jobs' = [jobs EXCEPT ![j] = new]
      /\ UniqueLanes(jobs') /\ lastEvent' = lastEvent
  BY DEF RecordProgress, Commit, Fits
<1>2. /\ RowOK(new) /\ new.state = jobs[j].state
      /\ new.resume = jobs[j].resume
  BY ReportedOK DEF IInv, TablesOK
<1> HIDE DEF new
<1>3. EventOK(new, lastEvent[j])
  BY <1>2 DEF IInv, TablesOK, EventOK
<1>4. lastEvent' = [lastEvent EXCEPT ![j] = lastEvent[j]]
  BY <1>1 DEF IInv, TablesOK
<1>5. TablesOK'
  BY <1>1, <1>2, <1>3, <1>4, RowWritten DEF IInv
<1> QED BY <1>5 DEF IInv, RecordProgress, CallOK

-----------------------------------------------------------------------------
(* The theorems                                                            *)

LEMMA IInvInit == Init => IInv
<1> SUFFICES ASSUME Init PROVE IInv
  OBVIOUS
<1>1. RowOK(NoRow) /\ EventOK(NoRow, NoEvent) /\ NoRow \in Row
  BY NoRowOK DEF EventOK, NoRow, RowOK
<1>2. TablesOK
  <2>1. ~InScanLane(NoRow) /\ ~InEncodeLane(NoRow)
    BY DEF NoRow, InScanLane, InEncodeLane, BlockingStates, Absent
  <2> QED BY <1>1, <2>1, NoRowOK DEF Init, TablesOK, UniqueLanes
<1>3. CallOK
  BY DEF Init, CallOK, Call, NoCall
<1> QED BY <1>2, <1>3, BoundsAssumption DEF Init, IInv

LEMMA IInvStep == IInv /\ [Next]_vars => IInv'
<1> SUFFICES ASSUME IInv, [Next]_vars PROVE IInv'
  OBVIOUS
<1>1. ASSUME NEW p \in Priorities, CreateJob(p) PROVE IInv'
  BY <1>1, CreateJobStep
<1>2. CASE FinishAdvance
  BY <1>2, FinishAdvanceStep
<1>3. CASE FinishCheckedCancel
  BY <1>3, FinishCheckedCancelStep
<1>4. ASSUME NEW j \in Jobs, JobNext(j) PROVE IInv'
  <2>1. CASE ClaimNextJob(j) BY <2>1, ClaimNextJobStep
  <2>2. CASE ClaimNextReadyJob(j) BY <2>2, ClaimNextReadyJobStep
  <2>3. ASSUME NEW target \in JobState, TransitionJob(j, target) PROVE IInv'
    BY <2>3, TransitionJobStep
  <2>4. CASE RequestPause(j) BY <2>4, RequestPauseStep
  <2>5. CASE RequestCancel(j) BY <2>5, RequestCancelStep
  <2>6. CASE AcknowledgePause(j) BY <2>6, AcknowledgePauseStep
  <2>7. CASE AcknowledgeCancel(j) BY <2>7, AcknowledgeCancelStep
  <2>8. CASE ResumePausedJob(j) BY <2>8, ResumePausedJobStep
  <2>9. CASE ResumeReviewRead(j) \/ RetryUploadRead(j) \/ CheckedCancelRead(j)
    BY <2>9, ReadStep
  <2>10. CASE RetryFailedJob(j) BY <2>10, RetryFailedJobStep
  <2>11. CASE RestartCancelledJob(j) BY <2>11, RestartCancelledJobStep
  <2>12. CASE DeleteTerminalJob(j) BY <2>12, DeleteTerminalJobStep
  <2>13. ASSUME NEW status \in ScanState, CreateScan(j, status) PROVE IInv'
    BY <2>13, CreateScanStep
  <2>14. ASSUME NEW k \in 1..MaxScans, NEW status \in ScanState,
                UpdateScan(j, k, status)
         PROVE  IInv'
    BY <2>14, UpdateScanStep
  <2>15. CASE SetSelection(j) BY <2>15, SetSelectionStep
  <2>16. ASSUME NEW p \in ProgressReports, RecordProgress(j, p) PROVE IInv'
    BY <2>16, RecordProgressStep
  <2> QED
    BY <1>4, <2>1, <2>2, <2>3, <2>4, <2>5, <2>6, <2>7, <2>8, <2>9, <2>10,
       <2>11, <2>12, <2>13, <2>14, <2>15, <2>16 DEF JobNext
<1>5. CASE UNCHANGED vars
  BY <1>5 DEF vars, IInv, TablesOK, CallOK
<1> QED BY <1>1, <1>2, <1>3, <1>4, <1>5 DEF Next

\* The inductive invariant holds in every behaviour of the store.
THEOREM Invariance == Spec => []IInv
<1> QED BY IInvInit, IInvStep, PTL DEF Spec

\* Type correctness of the tables and of the pending call.
THEOREM TypeCorrect == Spec => []TypeOK
<1>1. IInv => TypeOK
  BY DEF IInv, TablesOK, CallOK, TypeOK
<1> QED BY <1>1, Invariance, PTL

\* No request is left where no worker can acknowledge it.
THEOREM ControlIsAnswerable == Spec => []ControlMatchesStage
<1>1. IInv => ControlMatchesStage
  BY DEF IInv, TablesOK, RowOK, ControlMatchesStage
<1> QED BY <1>1, Invariance, PTL

\* Every failure the store records passes the provenance checks of a retry.
THEOREM FailureProvenance == Spec => []Provenance
<1>1. IInv => Provenance
  BY DEF IInv, TablesOK, EventOK, Provenance, Live
<1> QED BY <1>1, Invariance, PTL

\* A stored resume state belongs to an open review or a failure, and a review
\* resumes into a stage that can ask for a review.
THEOREM ResumeIsWellFounded == Spec => []ResumeWellFounded
<1>1. IInv => ResumeWellFounded
  BY DEF IInv, TablesOK, RowOK, ResumeWellFounded
<1> QED BY <1>1, Invariance, PTL

\* The progress meter is never behind the stage.
THEOREM ProgressFollowsStage == Spec => []ProgressReachesStage
<1>1. IInv => ProgressReachesStage
  BY DEF IInv, TablesOK, RowOK, ProgressReachesStage
<1> QED BY <1>1, Invariance, PTL

-----------------------------------------------------------------------------
(* What a step does to the one row it writes.  The action properties and   *)
(* the refinement are read off these seven effects.                        *)

\* j is inserted by CreateJob.
Created(j, new) ==
    /\ j = nextJob /\ nextJob' = nextJob + 1
    /\ new.state = "QUEUED" /\ new.control = "RUNNING" /\ new.resume = NoState

\* A transition other than a cancellation.
MovedTo(j, new, target) ==
    /\ target \in JobState \ {"CANCELLED"} /\ CanMove(jobs[j], target)
    /\ new.state = target /\ new.control = jobs[j].control
    /\ new.resume = MovedResume(jobs[j], target)
    /\ new.version = jobs[j].version + 1
    /\ new.revision = jobs[j].revision

\* The three controls and the request to cancel: only the control column.
Steered(j, new, control) ==
    /\ jobs[j].state \in JobState \ TerminalStates
    /\ new = Controlled(jobs[j], control)
    /\ \/ /\ jobs[j].control = "RUNNING"
          /\ control = IF jobs[j].state \in ControlActiveStates
                       THEN "PAUSE_REQUESTED" ELSE "PAUSED"
       \/ jobs[j].control = "PAUSE_REQUESTED" /\ control = "PAUSED"
       \/ jobs[j].control = "PAUSED" /\ control = "RUNNING"
       \/ /\ jobs[j].control \notin {"PAUSED", "CANCEL_REQUESTED"}
          /\ jobs[j].state \in ControlActiveStates
          /\ control = "CANCEL_REQUESTED"

\* A cancellation takes effect.
Stopped(j, new) ==
    /\ jobs[j].state \in JobState \ TerminalStates
    /\ jobs[j].control # "CANCEL_REQUESTED" =>
         jobs[j].state \notin ControlActiveStates \/ jobs[j].control = "PAUSED"
    /\ new.state = "CANCELLED" /\ new.control = "RUNNING"
    /\ new.resume = NoState
    /\ new.version = jobs[j].version + 1
    /\ new.revision = jobs[j].revision + 1

\* A retry of a failed job or a restart of a cancelled one.
Reentered(j, new) ==
    /\ jobs[j].control = "RUNNING"
    /\ \/ /\ jobs[j].state = "FAILED"
          /\ new.state = jobs[j].resume
          /\ jobs[j].resume \in RetryableFailedStages
          /\ jobs[j].resume # "READY" =>
               \A k \in Jobs \ {j} : jobs[k].state \notin BlockingStates
       \/ /\ jobs[j].state = "CANCELLED"
          /\ new.state \in {"QUEUED", "AWAITING_SELECTION", "READY"}
    /\ new.control = "RUNNING" /\ new.resume = NoState
    /\ new.version = jobs[j].version + 1
    /\ new.revision = jobs[j].revision

\* A progress report.
Reported(j, new) ==
    /\ jobs[j].state # Absent /\ jobs[j].control # "PAUSED"
    /\ new.state = jobs[j].state /\ new.control = jobs[j].control
    /\ new.resume = jobs[j].resume
    /\ new.version = jobs[j].version + 1
    /\ new.revision = jobs[j].revision

\* The row of a terminal job is deleted.
Purged(j, new) ==
    /\ jobs[j].state \in TerminalStates /\ jobs[j].control = "RUNNING"
    /\ new = NoRow

Change(j, new) ==
    \/ /\ nextJob' = nextJob
       /\ \/ \E target \in JobState : MovedTo(j, new, target)
          \/ \E control \in JobControlState : Steered(j, new, control)
          \/ Stopped(j, new) \/ Reentered(j, new) \/ Reported(j, new)
          \/ Purged(j, new)
    \/ Created(j, new)

\* The new row of j, committed.
Written(j, new) ==
    /\ jobs' = [jobs EXCEPT ![j] = new]
    /\ UniqueLanes(jobs')
    /\ Change(j, new)

\* A step writes at most one row.
OneWrite ==
    \/ UNCHANGED <<jobs, nextJob>>
    \/ \E j \in Jobs, new \in Row : Written(j, new)

LEMMA MoveRowEffect ==
    ASSUME TablesOK, NEW j \in Jobs, NEW row, RowOK(row),
           row.state = jobs[j].state, row.control = jobs[j].control,
           row.resume = jobs[j].resume, row.version = jobs[j].version,
           row.revision = jobs[j].revision,
           NEW target, target # "CANCELLED", MoveRow(j, row, target),
           nextJob' = nextJob
    PROVE  OneWrite
<1> DEFINE new == Moved(row, target)
<1>1. /\ CanMove(row, target) /\ jobs' = [jobs EXCEPT ![j] = new]
      /\ UniqueLanes(jobs')
  BY DEF MoveRow, Commit, Fits
<1>2. target \in JobState
  BY <1>1, AllowedType
<1>3. row \in Row /\ new \in Row
  BY <1>1, MovedOK DEF RowOK
<1>4. /\ new.state = target /\ new.control = row.control
      /\ new.resume = MovedResume(row, target)
      /\ new.version = row.version + 1 /\ new.revision = row.revision
  BY <1>3 DEF Moved, Row
<1>5. /\ CanMove(jobs[j], target)
      /\ MovedResume(row, target) = MovedResume(jobs[j], target)
  BY <1>1 DEF CanMove, MovedResume
<1> HIDE DEF new
<1>6. MovedTo(j, new, target)
  BY <1>2, <1>4, <1>5 DEF MovedTo
<1>7. Written(j, new)
  BY <1>1, <1>2, <1>6 DEF Written, Change
<1> QED BY <1>3, <1>7 DEF OneWrite

LEMMA SetControlEffect ==
    ASSUME TablesOK, NEW j \in Jobs, NEW control \in JobControlState,
           SetControl(j, control), Steered(j, Controlled(jobs[j], control), control),
           nextJob' = nextJob
    PROVE  OneWrite
<1> DEFINE new == Controlled(jobs[j], control)
<1>1. jobs' = [jobs EXCEPT ![j] = new] /\ UniqueLanes(jobs')
  BY DEF SetControl, Commit, Fits
<1>2. new \in Row
  <2>1. jobs[j] \in Row /\ jobs[j].revision + 1 \in Nat
    BY DEF TablesOK, Row
  <2> QED BY <2>1, WriteControl DEF Controlled
<1> HIDE DEF new
<1>3. Change(j, new)
  BY DEF Change, new
<1> QED BY <1>1, <1>2, <1>3 DEF OneWrite, Written

LEMMA CancelNowEffect ==
    ASSUME TablesOK, NEW j \in Jobs, CancelNow(j),
           jobs[j].control # "CANCEL_REQUESTED" =>
             \/ jobs[j].state \notin ControlActiveStates
             \/ jobs[j].control = "PAUSED",
           nextJob' = nextJob
    PROVE  OneWrite
<1> DEFINE moved == Moved(jobs[j], "CANCELLED")
           new == Controlled(moved, "RUNNING")
<1>1. /\ CanMove(jobs[j], "CANCELLED") /\ jobs' = [jobs EXCEPT ![j] = new]
      /\ UniqueLanes(jobs')
  BY DEF CancelNow, Commit, Fits
<1>2. RowOK(jobs[j]) /\ jobs[j] \in Row
  BY DEF TablesOK, RowOK
<1>3. jobs[j].state \in JobState \ TerminalStates
  BY <1>1, <1>2, AllowedType
<1>4. new \in Row
  BY <1>1, <1>2, MovedOK DEF RowOK
<1>5. /\ moved.state = "CANCELLED" /\ moved.resume = NoState
      /\ moved.version = jobs[j].version + 1
      /\ moved.revision = jobs[j].revision
      /\ DOMAIN moved = DOMAIN jobs[j]
  BY <1>2 DEF Moved, Row, MovedResume, TerminalStates
<1>6. /\ new.state = "CANCELLED" /\ new.control = "RUNNING"
      /\ new.resume = NoState /\ new.version = jobs[j].version + 1
      /\ new.revision = jobs[j].revision + 1
  <2> HIDE DEF moved
  <2> QED BY <1>2, <1>5 DEF Controlled, Row
<1> HIDE DEF new
<1>7. Stopped(j, new)
  BY <1>3, <1>6 DEF Stopped
<1> QED BY <1>1, <1>4, <1>7 DEF OneWrite, Written, Change

LEMMA CancelEffectEffect ==
    ASSUME TablesOK, NEW j \in Jobs, CancelRequestable(j), CancelEffect(j),
           nextJob' = nextJob
    PROVE  OneWrite
<1>1. jobs[j].state \in JobState \ TerminalStates
      /\ jobs[j].control # "CANCEL_REQUESTED"
  BY DEF TablesOK, Row, CancelRequestable, Live
<1>2. CASE /\ jobs[j].state \in ControlActiveStates
           /\ jobs[j].control # "PAUSED"
           /\ SetControl(j, "CANCEL_REQUESTED")
  <2>1. Steered(j, Controlled(jobs[j], "CANCEL_REQUESTED"), "CANCEL_REQUESTED")
    BY <1>1, <1>2 DEF Steered
  <2> QED BY <1>2, <2>1, SetControlEffect DEF JobControlState
<1>3. CASE /\ \/ jobs[j].state \notin ControlActiveStates
              \/ jobs[j].control = "PAUSED"
           /\ CancelNow(j)
  BY <1>3, CancelNowEffect
<1> QED BY <1>2, <1>3 DEF CancelEffect

LEMMA CreateJobEffect ==
    ASSUME IInv, NEW p \in Priorities, CreateJob(p) PROVE OneWrite
<1> DEFINE new == [NoRow EXCEPT !.state = "QUEUED", !.priority = p]
<1>1. /\ jobs' = [jobs EXCEPT ![nextJob] = new] /\ UniqueLanes(jobs')
      /\ nextJob \in Jobs /\ nextJob' = nextJob + 1
  BY DEF CreateJob, Commit, Fits
<1>2. new \in Row
  BY QueuedRowOK DEF RowOK
<1>3. new.state = "QUEUED" /\ new.control = "RUNNING" /\ new.resume = NoState
  BY DEF NoRow
<1> HIDE DEF new
<1> QED BY <1>1, <1>2, <1>3 DEF OneWrite, Written, Change, Created

\* The row a move starts from is the stored one.
LEMMA PlainMoveEffect ==
    ASSUME TablesOK, NEW j \in Jobs, NEW target, target # "CANCELLED",
           MoveRow(j, jobs[j], target), nextJob' = nextJob
    PROVE  OneWrite
BY MoveRowEffect DEF TablesOK

LEMMA RequestPauseEffect ==
    ASSUME IInv, NEW j \in Jobs, RequestPause(j) PROVE OneWrite
<1> DEFINE control == IF jobs[j].state \in ControlActiveStates
                      THEN "PAUSE_REQUESTED" ELSE "PAUSED"
<1>1. /\ SetControl(j, control) /\ jobs[j].control = "RUNNING"
      /\ nextJob' = nextJob
  BY DEF RequestPause
<1>2. jobs[j].state \in JobState \ TerminalStates
  BY DEF RequestPause, Live, IInv, TablesOK, Row
<1>3. Steered(j, Controlled(jobs[j], control), control)
  BY <1>1, <1>2 DEF Steered
<1>4. control \in JobControlState
  BY DEF JobControlState
<1> HIDE DEF control
<1> QED BY <1>1, <1>3, <1>4, SetControlEffect DEF IInv

LEMMA AcknowledgePauseEffect ==
    ASSUME IInv, NEW j \in Jobs, AcknowledgePause(j) PROVE OneWrite
<1>1. jobs[j].state \in JobState \ TerminalStates
  BY StateSets DEF IInv, TablesOK, RowOK, AcknowledgePause
<1>2. Steered(j, Controlled(jobs[j], "PAUSED"), "PAUSED")
  BY <1>1 DEF Steered, AcknowledgePause
<1> QED BY <1>2, SetControlEffect DEF AcknowledgePause, IInv, JobControlState

LEMMA ResumePausedJobEffect ==
    ASSUME IInv, NEW j \in Jobs, ResumePausedJob(j) PROVE OneWrite
<1>1. jobs[j].state \in JobState \ TerminalStates
  BY DEF ResumePausedJob, Live, IInv, TablesOK, Row
<1>2. Steered(j, Controlled(jobs[j], "RUNNING"), "RUNNING")
  BY <1>1 DEF Steered, ResumePausedJob
<1> QED BY <1>2, SetControlEffect DEF ResumePausedJob, IInv, JobControlState

LEMMA RetryFailedJobEffect ==
    ASSUME IInv, NEW j \in Jobs, RetryFailedJob(j) PROVE OneWrite
<1> DEFINE stage == lastEvent[j].from
           new == [jobs[j] EXCEPT !.state = stage, !.resume = NoState,
                                  !.progress = Baseline[stage],
                                  !.version = @ + 1]
<1>1. /\ jobs' = [jobs EXCEPT ![j] = new] /\ UniqueLanes(jobs')
      /\ nextJob' = nextJob
  BY DEF RetryFailedJob, Commit, Fits
<1>2. /\ RowOK(jobs[j]) /\ jobs[j].state = "FAILED"
      /\ jobs[j].state \in TerminalStates
      /\ stage \in BaselineStates \ TerminalStates /\ stage \in JobState
      /\ stage \in RetryableFailedStages
      /\ stage # "READY" =>
           \A k \in Jobs \ {j} : jobs[k].state \notin BlockingStates
  BY StateSets DEF RetryFailedJob, IInv, TablesOK, TerminalStates
<1>3. jobs[j].resume = stage
  BY <1>2 DEF IInv, TablesOK, EventOK, Absent
<1>4. new \in Row
  BY <1>2, ReenteredOK DEF RowOK
<1>5. jobs[j] \in Row /\ jobs[j].control = "RUNNING"
  BY <1>2 DEF RowOK
<1>6. /\ new.state = stage /\ new.control = jobs[j].control
      /\ new.resume = NoState /\ new.version = jobs[j].version + 1
      /\ new.revision = jobs[j].revision
  BY <1>5 DEF Row
<1> HIDE DEF new, stage
<1>7. Reentered(j, new)
  BY <1>2, <1>3, <1>5, <1>6 DEF Reentered
<1> QED BY <1>1, <1>4, <1>7 DEF OneWrite, Written, Change

LEMMA RestartCancelledJobEffect ==
    ASSUME IInv, NEW j \in Jobs, RestartCancelledJob(j) PROVE OneWrite
<1> DEFINE stage == RestartTarget(j)
           new == [jobs[j] EXCEPT !.state = stage, !.resume = NoState,
                                  !.progress = Baseline[stage],
                                  !.version = @ + 1]
<1>1. /\ jobs' = [jobs EXCEPT ![j] = new] /\ UniqueLanes(jobs')
      /\ nextJob' = nextJob
  BY DEF RestartCancelledJob, Commit, Fits
<1>2. stage \in {"QUEUED", "AWAITING_SELECTION", "READY"}
  BY DEF RestartTarget
<1>3. /\ RowOK(jobs[j]) /\ jobs[j].state = "CANCELLED"
      /\ jobs[j].state \in TerminalStates
  BY DEF RestartCancelledJob, IInv, TablesOK, TerminalStates
<1> HIDE DEF stage
<1>4. stage \in BaselineStates \ TerminalStates
  BY <1>2 DEF BaselineStates, Baseline, TerminalStates
<1>5. new \in Row
  BY <1>3, <1>4, ReenteredOK DEF RowOK
<1>6. jobs[j] \in Row /\ jobs[j].control = "RUNNING"
  BY <1>3 DEF RowOK
<1>7. /\ new.state = stage /\ new.control = jobs[j].control
      /\ new.resume = NoState /\ new.version = jobs[j].version + 1
      /\ new.revision = jobs[j].revision
  BY <1>6 DEF Row
<1> HIDE DEF new
<1>8. Reentered(j, new)
  BY <1>2, <1>3, <1>6, <1>7 DEF Reentered
<1> QED BY <1>1, <1>5, <1>8 DEF OneWrite, Written, Change

LEMMA DeleteTerminalJobEffect ==
    ASSUME IInv, NEW j \in Jobs, DeleteTerminalJob(j) PROVE OneWrite
<1>1. /\ jobs' = [jobs EXCEPT ![j] = NoRow]
      /\ jobs[j].state \in TerminalStates /\ nextJob' = nextJob
  BY DEF DeleteTerminalJob
<1>2. UniqueLanes(jobs')
  <2>1. ~InScanLane(NoRow) /\ ~InEncodeLane(NoRow)
    BY DEF NoRow, InScanLane, InEncodeLane, BlockingStates, Absent
  <2> QED BY <1>1, <2>1 DEF UniqueLanes, IInv, TablesOK
<1>3. jobs[j].control = "RUNNING"
  BY <1>1 DEF IInv, TablesOK, RowOK
<1>4. NoRow \in Row
  BY NoRowOK DEF RowOK
<1> QED BY <1>1, <1>2, <1>3, <1>4 DEF OneWrite, Written, Change, Purged

LEMMA UpdateScanEffect ==
    ASSUME IInv, NEW j \in Jobs, NEW k \in 1..MaxScans,
           NEW status \in ScanState, UpdateScan(j, k, status)
    PROVE  OneWrite
<1>1. CASE UNCHANGED <<jobs, lastEvent>>
  BY <1>1 DEF UpdateScan, OneWrite
<1>2. CASE /\ status \in DOMAIN ScanBoundary
           /\ MoveRow(j, jobs[j], ScanBoundary[status])
  <2>1. ScanBoundary[status] # "CANCELLED"
    BY <1>2 DEF ScanBoundary
  <2> QED BY <1>2, <2>1, PlainMoveEffect DEF IInv, UpdateScan
<1> QED BY <1>1, <1>2 DEF UpdateScan

LEMMA SetSelectionEffect ==
    ASSUME IInv, NEW j \in Jobs, SetSelection(j) PROVE OneWrite
<1> DEFINE row == [jobs[j] EXCEPT !.selection = TRUE]
<1>1. /\ RowOK(row) /\ MoveRow(j, row, "READY") /\ nextJob' = nextJob
  BY SelectedOK DEF SetSelection, IInv, TablesOK
<1>2. /\ row.state = jobs[j].state /\ row.control = jobs[j].control
      /\ row.resume = jobs[j].resume /\ row.version = jobs[j].version
      /\ row.revision = jobs[j].revision
  OBVIOUS
<1> HIDE DEF row
<1> QED BY <1>1, <1>2, MoveRowEffect DEF IInv

LEMMA RecordProgressEffect ==
    ASSUME IInv, NEW j \in Jobs, NEW p \in ProgressReports,
           RecordProgress(j, p)
    PROVE  OneWrite
<1> DEFINE new == [jobs[j] EXCEPT !.progress = Maximum(@, p),
                                  !.version = @ + 1]
<1>1. /\ jobs' = [jobs EXCEPT ![j] = new] /\ UniqueLanes(jobs')
      /\ nextJob' = nextJob
      /\ jobs[j].state # Absent /\ jobs[j].control # "PAUSED"
  BY DEF RecordProgress, Commit, Fits, Live
<1>2. new \in Row /\ jobs[j] \in Row
  BY ReportedOK DEF IInv, TablesOK, RowOK
<1>3. /\ new.state = jobs[j].state /\ new.control = jobs[j].control
      /\ new.resume = jobs[j].resume /\ new.version = jobs[j].version + 1
      /\ new.revision = jobs[j].revision
  BY <1>2 DEF Row
<1> HIDE DEF new
<1>4. Reported(j, new)
  BY <1>1, <1>3 DEF Reported
<1> QED BY <1>1, <1>2, <1>4 DEF OneWrite, Written, Change

LEMMA StepEffect ==
    ASSUME IInv, [Next]_vars PROVE OneWrite
<1>1. ASSUME NEW p \in Priorities, CreateJob(p) PROVE OneWrite
  BY <1>1, CreateJobEffect
<1>2. CASE FinishAdvance
  <2>1. /\ call.job \in Jobs /\ call.target # "CANCELLED" /\ nextJob' = nextJob
    BY <1>2 DEF IInv, CallOK, FinishAdvance
  <2>2. CASE MoveRow(call.job, jobs[call.job], call.target)
    BY <2>1, <2>2, PlainMoveEffect DEF IInv
  <2>3. CASE UNCHANGED <<jobs, lastEvent>>
    BY <2>1, <2>3 DEF OneWrite
  <2> QED BY <1>2, <2>2, <2>3 DEF FinishAdvance
<1>3. CASE FinishCheckedCancel
  <2>1. call.job \in Jobs /\ nextJob' = nextJob
    BY <1>3 DEF IInv, CallOK, FinishCheckedCancel
  <2>2. CASE CancelRequestable(call.job) /\ CancelEffect(call.job)
    BY <2>1, <2>2, CancelEffectEffect DEF IInv
  <2>3. CASE UNCHANGED <<jobs, lastEvent>>
    BY <2>1, <2>3 DEF OneWrite
  <2> QED BY <1>3, <2>2, <2>3 DEF FinishCheckedCancel
<1>4. ASSUME NEW j \in Jobs, JobNext(j) PROVE OneWrite
  <2>1. CASE ClaimNextJob(j) \/ ClaimNextReadyJob(j)
    BY <2>1, PlainMoveEffect DEF IInv, ClaimNextJob, ClaimNextReadyJob
  <2>2. ASSUME NEW target \in JobState, TransitionJob(j, target)
        PROVE  OneWrite
    BY <2>2, PlainMoveEffect DEF IInv, TransitionJob
  <2>3. CASE RequestPause(j) BY <2>3, RequestPauseEffect
  <2>4. CASE RequestCancel(j)
    BY <2>4, CancelEffectEffect DEF IInv, RequestCancel
  <2>5. CASE AcknowledgePause(j) BY <2>5, AcknowledgePauseEffect
  <2>6. CASE AcknowledgeCancel(j)
    BY <2>6, CancelNowEffect DEF IInv, AcknowledgeCancel
  <2>7. CASE ResumePausedJob(j) BY <2>7, ResumePausedJobEffect
  <2>8. CASE ResumeReviewRead(j) \/ RetryUploadRead(j) \/ CheckedCancelRead(j)
    BY <2>8 DEF ResumeReviewRead, RetryUploadRead, CheckedCancelRead, OneWrite
  <2>9. CASE RetryFailedJob(j) BY <2>9, RetryFailedJobEffect
  <2>10. CASE RestartCancelledJob(j) BY <2>10, RestartCancelledJobEffect
  <2>11. CASE DeleteTerminalJob(j) BY <2>11, DeleteTerminalJobEffect
  <2>12. ASSUME NEW status \in ScanState, CreateScan(j, status)
         PROVE  OneWrite
    BY <2>12 DEF CreateScan, OneWrite
  <2>13. ASSUME NEW k \in 1..MaxScans, NEW status \in ScanState,
                UpdateScan(j, k, status)
         PROVE  OneWrite
    BY <2>13, UpdateScanEffect
  <2>14. CASE SetSelection(j) BY <2>14, SetSelectionEffect
  <2>15. ASSUME NEW p \in ProgressReports, RecordProgress(j, p)
         PROVE  OneWrite
    BY <2>15, RecordProgressEffect
  <2> QED
    BY <1>4, <2>1, <2>2, <2>3, <2>4, <2>5, <2>6, <2>7, <2>8, <2>9, <2>10,
       <2>11, <2>12, <2>13, <2>14, <2>15 DEF JobNext
<1>5. CASE UNCHANGED vars
  BY <1>5 DEF vars, OneWrite
<1> QED BY <1>1, <1>2, <1>3, <1>4, <1>5 DEF Next

-----------------------------------------------------------------------------
(* Jobs that are not inserted yet, and the first two action properties     *)

\* A number that is still to be given out has no row.
Unborn == \A j \in Jobs : j >= nextJob => jobs[j] = NoRow

LEMMA UnbornStep ==
    ASSUME IInv, Unborn, [Next]_vars PROVE Unborn'
<1>1. CASE UNCHANGED <<jobs, nextJob>>
  BY <1>1 DEF Unborn
<1>2. ASSUME NEW j \in Jobs, NEW new \in Row, Written(j, new) PROVE Unborn'
  <2>1. \A k \in Jobs \ {j} : jobs'[k] = jobs[k]
    BY <1>2 DEF Written, IInv, TablesOK
  <2>2. CASE Created(j, new)
    BY <2>1, <2>2 DEF Created, Unborn, Jobs, IInv
  <2>3. CASE ~Created(j, new)
    <3>1. nextJob' = nextJob /\ jobs[j].state # Absent
      BY <1>2, <2>3, StateSets
      DEF Written, Change, MovedTo, CanMove, Steered, Stopped, Reentered,
          Reported, Purged, Absent
    <3>2. ~(j >= nextJob)
      BY <3>1 DEF Unborn, NoRow
    <3> QED BY <2>1, <3>1, <3>2 DEF Unborn
  <2> QED BY <2>2, <2>3
<1> QED BY <1>1, <1>2, StepEffect DEF OneWrite

THEOREM NumbersAreFresh == Spec => []Unborn
<1>1. Init => Unborn
  BY DEF Init, Unborn
<1> QED BY <1>1, UnbornStep, Invariance, PTL DEF Spec

Heeded ==
    \A j \in Jobs :
        /\ jobs[j].control = "CANCEL_REQUESTED" =>
             \/ jobs'[j].control = "CANCEL_REQUESTED" /\ jobs'[j].state = jobs[j].state
             \/ jobs'[j].control = "RUNNING" /\ jobs'[j].state = "CANCELLED"
        /\ jobs[j].control = "PAUSED" =>
             \/ jobs'[j] = jobs[j]
             \/ jobs'[j] = [jobs[j] EXCEPT !.control = "RUNNING", !.revision = @ + 1]
             \/ jobs'[j].control = "RUNNING" /\ jobs'[j].state = "CANCELLED"

LEMMA HeededStep ==
    ASSUME IInv, Unborn, [Next]_vars PROVE Heeded
<1>1. CASE UNCHANGED <<jobs, nextJob>>
  BY <1>1 DEF Heeded
<1>2. ASSUME NEW j \in Jobs, NEW new \in Row, Written(j, new) PROVE Heeded
  <2>1. /\ \A k \in Jobs \ {j} : jobs'[k] = jobs[k]
        /\ jobs'[j] = new /\ jobs[j] \in Row
    BY <1>2 DEF Written, IInv, TablesOK
  <2>2. ASSUME jobs[j].control = "CANCEL_REQUESTED"
        PROVE  \/ new.control = "CANCEL_REQUESTED" /\ new.state = jobs[j].state
               \/ new.control = "RUNNING" /\ new.state = "CANCELLED"
    <3>1. ~Created(j, new)
      BY <2>2 DEF Created, Unborn, NoRow, Jobs
    <3>2. \A target : ~MovedTo(j, new, target)
      BY <2>2 DEF MovedTo, CanMove
    <3>3. \A control : ~Steered(j, new, control)
      BY <2>2 DEF Steered
    <3> QED
      BY <1>2, <2>2, <3>1, <3>2, <3>3
      DEF Written, Change, Stopped, Reentered, Reported, Purged
  <2>3. ASSUME jobs[j].control = "PAUSED"
        PROVE  \/ new = [jobs[j] EXCEPT !.control = "RUNNING", !.revision = @ + 1]
               \/ new.control = "RUNNING" /\ new.state = "CANCELLED"
    <3>1. ~Created(j, new)
      BY <2>3 DEF Created, Unborn, NoRow, Jobs
    <3>2. \A target : ~MovedTo(j, new, target)
      BY <2>3 DEF MovedTo, CanMove
    <3>3. \A control : Steered(j, new, control) => new = Controlled(jobs[j], "RUNNING")
      BY <2>3 DEF Steered
    <3> QED
      BY <1>2, <2>3, <3>1, <3>2, <3>3
      DEF Written, Change, Stopped, Reentered, Reported, Purged, Controlled
  <2> QED BY <2>1, <2>2, <2>3 DEF Heeded
<1> QED BY <1>1, <1>2, StepEffect DEF OneWrite

\* Only its acknowledgement moves a job whose cancellation was accepted, and
\* a paused job stands still until it is continued or cancelled.
THEOREM OperatorIsHeeded == Spec => ControlIsHeeded
<1>1. IInv /\ Unborn /\ [Next]_vars => [Heeded]_vars
  BY HeededStep
<1>2. ControlIsHeeded <=> [][Heeded]_vars
  BY DEF ControlIsHeeded, Heeded
<1> QED BY <1>1, <1>2, Invariance, NumbersAreFresh, PTL DEF Spec

Locked ==
    \A j \in Jobs : Live(j) /\ Live(j)' =>
         /\ jobs'[j].version >= jobs[j].version
         /\ jobs'[j].revision >= jobs[j].revision
         /\ jobs'[j].version = jobs[j].version =>
              /\ jobs'[j].state = jobs[j].state
              /\ jobs'[j].resume = jobs[j].resume
              /\ jobs'[j].progress = jobs[j].progress
              /\ jobs'[j].selection = jobs[j].selection
         /\ jobs'[j].revision = jobs[j].revision =>
              jobs'[j].control = jobs[j].control

LEMMA LockedStep ==
    ASSUME IInv, Unborn, [Next]_vars PROVE Locked
<1> DEFINE Sound(old, new) ==
             /\ new.version >= old.version /\ new.revision >= old.revision
             /\ new.version = old.version =>
                  /\ new.state = old.state /\ new.resume = old.resume
                  /\ new.progress = old.progress
                  /\ new.selection = old.selection
             /\ new.revision = old.revision => new.control = old.control
<1>1. \A row \in Row : Sound(row, row)
  BY DEF Row
<1>2. \A k \in Jobs : jobs[k] \in Row
  BY DEF IInv, TablesOK
<1>3. CASE UNCHANGED <<jobs, nextJob>>
  BY <1>1, <1>2, <1>3 DEF Locked
<1>4. ASSUME NEW j \in Jobs, NEW new \in Row, Written(j, new) PROVE Locked
  <2>1. /\ \A k \in Jobs \ {j} : jobs'[k] = jobs[k]
        /\ jobs'[j] = new
    BY <1>4 DEF Written, IInv, TablesOK
  <2>2. ASSUME jobs[j].state # Absent, new.state # Absent
        PROVE  Sound(jobs[j], new)
    <3>0. PICK old \in Row : old = jobs[j]
      BY <1>2
    <3>1. /\ old.version \in Nat /\ old.revision \in Nat
          /\ old.version + 1 > old.version /\ old.version + 1 # old.version
          /\ old.revision + 1 > old.revision /\ old.revision + 1 # old.revision
      BY DEF Row
    <3>2. ~Created(j, new) /\ ~Purged(j, new)
      BY <2>2 DEF Created, Unborn, NoRow, Jobs, Purged
    <3>3. ASSUME NEW target, MovedTo(j, new, target) PROVE Sound(old, new)
      BY <3>0, <3>1, <3>3 DEF MovedTo
    <3>4. ASSUME NEW control, Steered(j, new, control) PROVE Sound(old, new)
      <4>1. new = Controlled(old, control)
        BY <3>0, <3>4 DEF Steered
      <4>2. /\ new.version = old.version /\ new.state = old.state
            /\ new.resume = old.resume /\ new.progress = old.progress
            /\ new.selection = old.selection
            /\ new.revision = old.revision + 1
        BY <4>1 DEF Controlled, Row
      <4> QED BY <3>1, <4>2
    <3>5. CASE Stopped(j, new)
      BY <3>0, <3>1, <3>5 DEF Stopped
    <3>6. CASE Reentered(j, new)
      BY <3>0, <3>1, <3>6 DEF Reentered
    <3>7. CASE Reported(j, new)
      BY <3>0, <3>1, <3>7 DEF Reported
    <3> QED
      BY <1>4, <3>0, <3>2, <3>3, <3>4, <3>5, <3>6, <3>7 DEF Written, Change
  <2> HIDE DEF Sound
  <2>3. \A k \in Jobs : Live(k) /\ Live(k)' => Sound(jobs[k], jobs'[k])
    BY <1>1, <1>2, <2>1, <2>2 DEF Live
  <2> QED BY <2>3 DEF Locked, Sound
<1> QED BY <1>3, <1>4, StepEffect DEF OneWrite

\* An unchanged version or revision means unchanged columns behind it.
THEOREM OptimisticLocks == Spec => LocksAreSound
<1>1. IInv /\ Unborn /\ [Next]_vars => [Locked]_vars
  BY LockedStep
<1>2. LocksAreSound <=> [][Locked]_vars
  BY DEF LocksAreSound, Locked
<1> QED BY <1>1, <1>2, Invariance, NumbersAreFresh, PTL DEF Spec

-----------------------------------------------------------------------------
(* The decisions that read the job in one transaction and move it in       *)
(* another.  Remembered is what the first transaction leaves behind: as    *)
(* long as the version is the one it read, so is the condition it read.    *)

Pending == call.kind \in {"resume_review", "retry_upload"}

\* The two states that wait for a decision, and where the decision leads.
Awaits(row, kind, target) ==
    \/ /\ kind = "resume_review"
       /\ row.state = "NEEDS_REVIEW" /\ row.resume = target
    \/ /\ kind = "retry_upload"
       /\ row.state = "UPLOAD_FAILED" /\ target = "UPLOADING"

Remembered ==
    Pending =>
      /\ call.job < nextJob
      /\ Live(call.job) =>
           /\ call.version <= jobs[call.job].version
           /\ jobs[call.job].version = call.version
                => Awaits(jobs[call.job], call.kind, call.target)

\* A step keeps the pending decision, ends it, or takes up a new one.
LEMMA CallStep ==
    ASSUME [Next]_vars
    PROVE  \/ call' = call
           \/ call' = NoCall /\ (FinishAdvance \/ FinishCheckedCancel)
           \/ \E j \in Jobs : \/ ResumeReviewRead(j) \/ RetryUploadRead(j)
                              \/ CheckedCancelRead(j)
<1>1. ASSUME NEW p \in Priorities, CreateJob(p) PROVE call' = call
  BY <1>1 DEF CreateJob
<1>2. FinishAdvance \/ FinishCheckedCancel => call' = NoCall
  BY DEF FinishAdvance, FinishCheckedCancel
<1>3. ASSUME NEW j \in Jobs, JobNext(j)
      PROVE  \/ call' = call \/ ResumeReviewRead(j) \/ RetryUploadRead(j)
             \/ CheckedCancelRead(j)
  BY <1>3 DEF JobNext, ClaimNextJob, ClaimNextReadyJob, TransitionJob,
     RequestPause, RequestCancel, AcknowledgePause, AcknowledgeCancel,
     ResumePausedJob, RetryFailedJob, RestartCancelledJob, DeleteTerminalJob,
     CreateScan, UpdateScan, SetSelection, RecordProgress
<1>4. CASE UNCHANGED vars
  BY <1>4 DEF vars
<1> QED BY <1>1, <1>2, <1>3, <1>4 DEF Next

\* Job numbers only grow, and a number given out is not given out again.
LEMMA BornStep ==
    ASSUME IInv, [Next]_vars, NEW j \in Jobs, j < nextJob
    PROVE  j < nextJob' /\ (Live(j)' => Live(j))
<1>1. CASE UNCHANGED <<jobs, nextJob>>
  BY <1>1 DEF Live
<1>2. ASSUME NEW k \in Jobs, NEW new \in Row, Written(k, new)
      PROVE  j < nextJob' /\ (Live(j)' => Live(j))
  <2>1. nextJob \in Nat /\ j \in Nat
    BY DEF IInv, Jobs
  <2>2. nextJob' = nextJob \/ nextJob' = nextJob + 1
    BY <1>2 DEF Written, Change, Created
  <2>3. CASE k # j
    <3>1. jobs'[j] = jobs[j]
      BY <1>2, <2>3 DEF Written, IInv, TablesOK
    <3> QED BY <2>1, <2>2, <3>1 DEF Live
  <2>4. CASE k = j
    <3>1. ~Created(j, new)
      BY <2>1 DEF Created
    <3>2. jobs[j].state # Absent
      BY <1>2, <2>4, <3>1, StateSets
      DEF Written, Change, MovedTo, CanMove, Steered, Stopped, Reentered,
          Reported, Purged, Absent
    <3> QED BY <2>1, <2>2, <3>2 DEF Live
  <2> QED BY <2>3, <2>4
<1> QED BY <1>1, <1>2, StepEffect DEF OneWrite

LEMMA RememberedStep ==
    ASSUME IInv, Unborn, Remembered, [Next]_vars PROVE Remembered'
<1>1. CASE call' = call
  <2> SUFFICES ASSUME Pending PROVE Remembered'
    BY <1>1 DEF Remembered, Pending
  <2>1. PICK j \in Jobs : j = call.job
    BY DEF Pending, IInv, CallOK
  <2>2. j < nextJob
    BY <2>1 DEF Remembered
  <2>3. j < nextJob' /\ (Live(j)' => Live(j))
    BY <2>2, BornStep
  <2>4. ASSUME Live(j)'
        PROVE  /\ call.version <= jobs'[j].version
               /\ jobs'[j].version = call.version
                    => Awaits(jobs'[j], call.kind, call.target)
    <3>1. /\ jobs'[j].version >= jobs[j].version
          /\ jobs'[j].version = jobs[j].version =>
               jobs'[j].state = jobs[j].state /\ jobs'[j].resume = jobs[j].resume
      BY <2>3, <2>4, LockedStep DEF Locked
    <3>2. /\ call.version <= jobs[j].version
          /\ jobs[j].version = call.version
               => Awaits(jobs[j], call.kind, call.target)
      BY <2>1, <2>3, <2>4 DEF Remembered
    <3>3. jobs[j] \in Row /\ call.version \in Nat
      BY DEF IInv, TablesOK, CallOK, Call
    <3>4. jobs'[j] \in Row
      BY IInvStep DEF IInv, TablesOK
    <3>5. jobs[j].version \in Nat /\ jobs'[j].version \in Nat
      BY <3>3, <3>4 DEF Row
    <3> QED BY <3>1, <3>2, <3>3, <3>5 DEF Awaits
  <2> QED BY <1>1, <2>1, <2>3, <2>4 DEF Remembered, Live
<1>2. CASE call' = NoCall
  BY <1>2 DEF Remembered, Pending, NoCall
<1>3. ASSUME NEW j \in Jobs,
             ResumeReviewRead(j) \/ RetryUploadRead(j) \/ CheckedCancelRead(j)
      PROVE  Remembered'
  <2>1. /\ jobs' = jobs /\ nextJob' = nextJob
        /\ call'.job = j /\ call'.version = jobs[j].version
        /\ \/ call'.kind = "checked_cancel"
           \/ Awaits(jobs[j], call'.kind, call'.target)
    BY <1>3 DEF ResumeReviewRead, RetryUploadRead, CheckedCancelRead, Awaits
  <2>2. jobs[j].state # Absent
    BY <1>3 DEF ResumeReviewRead, RetryUploadRead, CheckedCancelRead, Live, Absent
  <2>3. j < nextJob
    BY <2>2 DEF Unborn, NoRow, IInv, Jobs
  <2>4. jobs[j].version \in Nat
    BY DEF IInv, TablesOK, Row
  <2> QED BY <2>1, <2>3, <2>4 DEF Remembered, Pending, Awaits
<1> QED BY <1>1, <1>2, <1>3, CallStep

\* The row that waits for a decision: the decision is legal, and it clears the
\* resume state.
LEMMA AwaitsMove ==
    ASSUME NEW row, RowOK(row), NEW kind, NEW target \in JobState,
           Awaits(row, kind, target), row.control = "RUNNING"
    PROVE  /\ CanMove(row, target)
           /\ MovedResume(row, target) = NoState
           /\ InEncodeLane(row) /\ ~InScanLane(row)
           /\ target \notin {"NEEDS_REVIEW", "FAILED", "CANCELLED"}
<1>1. CASE row.state = "NEEDS_REVIEW" /\ row.resume = target
  <2>1. "NEEDS_REVIEW" \in NormalTransitions[target] /\ target # NoState
    BY <1>1 DEF RowOK
  <2>2. target \notin {"NEEDS_REVIEW", "FAILED", "CANCELLED"}
    BY <2>1 DEF NormalTransitions
  <2>3. target \in AllowedTransitions(row.state, row.resume)
    BY <1>1, <2>1 DEF AllowedTransitions, TerminalStates
  <2> QED
    BY <1>1, <2>2, <2>3
    DEF CanMove, JobState, MovedResume, InEncodeLane, InScanLane, BlockingStates
<1>2. CASE row.state = "UPLOAD_FAILED" /\ target = "UPLOADING"
  <2>1. row.resume = NoState
    BY <1>2 DEF RowOK
  <2>2. target \in AllowedTransitions(row.state, row.resume)
    BY <1>2 DEF AllowedTransitions, TerminalStates, NormalTransitions
  <2> QED
    BY <1>2, <2>1, <2>2
    DEF CanMove, JobState, MovedResume, InEncodeLane, InScanLane,
        BlockingStates, TerminalStates
<1> QED BY <1>1, <1>2 DEF Awaits

\* It fits the lanes: it holds the encode lane already, and enters the scan
\* lane only when that is free.
LEMMA AwaitsFits ==
    ASSUME IInv, NEW j \in Jobs, NEW new \in Row, InEncodeLane(jobs[j]),
           new.state = "SCANNING" => \A k \in Jobs : ~InScanLane(jobs[k])
    PROVE  Fits(j, new)
<1> DEFINE table == [jobs EXCEPT ![j] = new]
<1>1. /\ DOMAIN table = Jobs /\ DOMAIN jobs = Jobs /\ table[j] = new
      /\ \A k \in Jobs \ {j} : table[k] = jobs[k]
  BY DEF IInv, TablesOK
<1>2. \A k \in Jobs \ {j} : ~InEncodeLane(jobs[k])
  BY <1>1 DEF IInv, TablesOK, UniqueLanes
<1>3. \A k \in Jobs : InScanLane(new) => ~InScanLane(jobs[k])
  BY DEF InScanLane
<1>4. \A i, k \in Jobs \ {j} :
        i # k => ~(InScanLane(jobs[i]) /\ InScanLane(jobs[k]))
  BY <1>1 DEF IInv, TablesOK, UniqueLanes
<1> HIDE DEF table
<1>5. UniqueLanes(table)
  BY <1>1, <1>2, <1>3, <1>4 DEF UniqueLanes
<1> QED BY <1>5 DEF Fits, table

Decided ==
    Pending /\ call' = NoCall =>
      LET old == jobs[call.job]
          new == jobs'[call.job]
          asWasRead == old.state # Absent /\ old.version = call.version
          scanTaken == \E k \in Jobs : InScanLane(jobs[k])
      IN  /\ asWasRead /\ old.control = "RUNNING" =>
               \/ new.state = call.target /\ new.resume = NoState
               \/ call.target = "SCANNING" /\ scanTaken
          /\ new # old =>
               /\ old.state \in JobState \ TerminalStates
               /\ old.control = "RUNNING" /\ new.state = call.target

LEMMA DecidedStep ==
    ASSUME IInv, Remembered, [Next]_vars PROVE Decided
<1> SUFFICES ASSUME Pending, call' = NoCall PROVE Decided
  BY DEF Decided
<1>1. FinishAdvance
  <2>1. call # NoCall
    BY DEF Pending, NoCall
  <2>2. ~FinishCheckedCancel
    BY DEF Pending, FinishCheckedCancel
  <2>3. \A j \in Jobs : /\ ~ResumeReviewRead(j) /\ ~RetryUploadRead(j)
                       /\ ~CheckedCancelRead(j)
    BY <2>1 DEF ResumeReviewRead, RetryUploadRead, CheckedCancelRead
  <2> QED BY <2>1, <2>2, <2>3, CallStep
<1>2. PICK j \in Jobs : j = call.job
  BY DEF Pending, IInv, CallOK
<1>3. PICK target \in JobState : target = call.target /\ target # "CANCELLED"
  BY DEF Pending, IInv, CallOK
<1>4. RowOK(jobs[j]) /\ jobs[j] \in Row
  BY DEF IInv, TablesOK
<1> DEFINE old == jobs[j]
           moved == Moved(old, target)
           asWasRead == old.state # Absent /\ old.version = call.version
<1>5. asWasRead => Awaits(old, call.kind, target)
  BY <1>2, <1>3 DEF Remembered, Live
<1>6. ASSUME CanMove(old, target)
      PROVE  /\ moved \in Row /\ moved.state = target
             /\ moved.resume = MovedResume(old, target)
  <2>1. moved \in Row
    BY <1>3, <1>4, <1>6, MovedOK DEF RowOK
  <2> QED BY <1>4, <2>1 DEF Moved, Row
<1> HIDE DEF moved, old
<1>7. CASE MoveRow(j, old, target)
  <2>1. CanMove(old, target) /\ jobs' = [jobs EXCEPT ![j] = moved]
    BY <1>7 DEF MoveRow, Commit, moved
  <2>2. jobs'[j] = moved
    BY <2>1 DEF IInv, TablesOK
  <2>3. old.state \in JobState \ TerminalStates
    BY <1>4, <2>1, AllowedType DEF old
  <2>4. old.control = "RUNNING"
    BY <1>3, <2>1 DEF CanMove
  <2>5. asWasRead => moved.resume = NoState
    BY <1>4, <1>5, <1>6, <2>1, <2>4, AwaitsMove DEF old
  <2> QED BY <1>2, <1>3, <1>6, <2>1, <2>2, <2>3, <2>4, <2>5 DEF Decided, old
<1>8. CASE ~MoveAccepted(j, target) /\ jobs' = jobs
  <2>1. ASSUME asWasRead, old.control = "RUNNING"
        PROVE  target = "SCANNING" /\ \E k \in Jobs : InScanLane(jobs[k])
    <3>1. CanMove(old, target) /\ InEncodeLane(old)
      BY <1>4, <1>5, <2>1, AwaitsMove DEF old
    <3>2. ~Fits(j, moved)
      BY <1>8, <3>1 DEF MoveAccepted, moved, old
    <3> QED BY <1>6, <3>1, <3>2, AwaitsFits DEF old
  <2> QED BY <1>2, <1>3, <1>8, <2>1 DEF Decided, old
<1> QED BY <1>1, <1>2, <1>3, <1>7, <1>8 DEF FinishAdvance, old

\* A decision on a job that is as it was read is carried out: a review or a
\* failed upload keeps its place in the encode lane, for any number of jobs.
THEOREM DecisionsCount == Spec => DecisionsAreCarriedOut
<1>1. Init => Remembered
  BY DEF Init, Remembered, Pending, NoCall
<1>2. IInv /\ Unborn /\ Remembered /\ [Next]_vars => Remembered'
  BY RememberedStep
<1>3. IInv /\ Remembered /\ [Next]_vars => [Decided]_vars
  BY DecidedStep
<1>4. DecisionsAreCarriedOut <=> [][Decided]_vars
  BY DEF DecisionsAreCarriedOut, Decided, Pending
<1> QED
  BY <1>1, <1>2, <1>3, <1>4, Invariance, NumbersAreFresh, PTL DEF Spec

-----------------------------------------------------------------------------
(* The refinement of JobLifecycle                                          *)

\* What the lifecycle sees of a row, and of the table.
Seen(row) == [state |-> row.state, control |-> row.control, resume |-> row.resume]

View == [j \in Jobs |-> [state |-> jobs[j].state, control |-> jobs[j].control,
                         resume |-> jobs[j].resume]]

ViewNext == Promise!LifecycleNext

\* The two modules share the vocabulary of JobStates.
LEMMA SharedVocabulary ==
    /\ Promise!JobState = JobState /\ Promise!TerminalStates = TerminalStates
    /\ Promise!ControlActiveStates = ControlActiveStates
    /\ Promise!BlockingStates = BlockingStates
    /\ Promise!RetryableFailedStages = RetryableFailedStages
    /\ Promise!NoState = NoState /\ Promise!Absent = Absent
    /\ \A row, target : /\ Promise!CanMove(row, target) <=> CanMove(row, target)
                        /\ Promise!MovedResume(row, target) = MovedResume(row, target)
    /\ \A table : Promise!UniqueLanes(table) <=> UniqueLanes(table)
<1>1. /\ Promise!JobState = JobState /\ Promise!TerminalStates = TerminalStates
      /\ Promise!ControlActiveStates = ControlActiveStates
      /\ Promise!BlockingStates = BlockingStates
      /\ Promise!RetryableFailedStages = RetryableFailedStages
      /\ Promise!NoState = NoState /\ Promise!Absent = Absent
  BY DEF Promise!JobState, JobState, Promise!TerminalStates, TerminalStates,
         Promise!ControlActiveStates, ControlActiveStates,
         Promise!BlockingStates, BlockingStates,
         Promise!RetryableFailedStages, RetryableFailedStages,
         Promise!NoState, NoState, Promise!Absent, Absent
<1>2. Promise!NormalTransitions = NormalTransitions
  BY DEF Promise!NormalTransitions, NormalTransitions
<1>3. ASSUME NEW row, NEW target
      PROVE  Promise!AllowedTransitions(row.state, row.resume)
               = AllowedTransitions(row.state, row.resume)
  BY <1>1, <1>2 DEF Promise!AllowedTransitions, AllowedTransitions
<1>4. \A row, target : Promise!CanMove(row, target) <=> CanMove(row, target)
  BY <1>1, <1>3 DEF Promise!CanMove, CanMove
<1>5. \A row, target :
         Promise!MovedResume(row, target) = MovedResume(row, target)
  BY <1>1 DEF Promise!MovedResume, MovedResume
<1>6. \A row : /\ Promise!InScanLane(row) <=> InScanLane(row)
               /\ Promise!InEncodeLane(row) <=> InEncodeLane(row)
  BY <1>1 DEF Promise!InScanLane, InScanLane, Promise!InEncodeLane, InEncodeLane
<1>7. \A table : Promise!UniqueLanes(table) <=> UniqueLanes(table)
  BY <1>6 DEF Promise!UniqueLanes, UniqueLanes
<1> QED BY <1>1, <1>4, <1>5, <1>7

LEMMA WriteSeen ==
    ASSUME TablesOK, NEW j \in Jobs, NEW new \in Row,
           jobs' = [jobs EXCEPT ![j] = new], UniqueLanes(jobs')
    PROVE  Promise!Write(j, Seen(new))
<1>1. View' = [View EXCEPT ![j] = Seen(new)]
  BY DEF View, Seen, TablesOK
<1>2. UniqueLanes(View')
  <2>1. DOMAIN View' = Jobs /\ DOMAIN jobs' = Jobs
    BY DEF View, TablesOK
  <2>2. \A k \in Jobs : /\ (View')[k].state = jobs'[k].state
                        /\ (View')[k].control = jobs'[k].control
    BY DEF View
  <2> QED BY <2>1, <2>2 DEF UniqueLanes, InScanLane, InEncodeLane
<1>3. UniqueLanes([View EXCEPT ![j] = Seen(new)])
  BY <1>1, <1>2
<1> QED
  BY <1>1, <1>3, SharedVocabulary DEF Promise!Write, View

\* A row whose state and resume columns are rewritten, as the lifecycle sees it.
Rewritten(old, state, resume) ==
    [Seen(old) EXCEPT !.state = state, !.resume = resume]

LEMMA SeenRewritten ==
    ASSUME NEW old, NEW new, NEW state, NEW resume, new.state = state,
           new.control = old.control, new.resume = resume
    PROVE  Seen(new) = Rewritten(old, state, resume)
<1>1. [Seen(old) EXCEPT !.state = state]
        = [state |-> state, control |-> old.control, resume |-> old.resume]
  BY DEF Seen
<1>2. [[state |-> state, control |-> old.control, resume |-> old.resume]
         EXCEPT !.resume = resume]
        = [state |-> state, control |-> old.control, resume |-> resume]
  OBVIOUS
<1>3. Seen(new) = [state |-> state, control |-> old.control, resume |-> resume]
  BY DEF Seen
<1> QED BY <1>1, <1>2, <1>3 DEF Rewritten

\* Each effect of a step on the row of j is an operation of the lifecycle.
LEMMA WrittenPromised ==
    ASSUME IInv, Unborn, NEW j \in Jobs, NEW new \in Row, Written(j, new)
    PROVE  ViewNext \/ View' = View
<1>1. /\ Promise!UniqueLanes([View EXCEPT ![j] = Seen(new)])
      /\ View' = [View EXCEPT ![j] = Seen(new)]
  BY WriteSeen DEF Written, IInv, Promise!Write, View
<1>2. \A k \in Jobs : /\ View[k].state = jobs[k].state
                      /\ View[k].control = jobs[k].control
                      /\ View[k].resume = jobs[k].resume
                      /\ View[k] = Seen(jobs[k])
  BY DEF View, Seen
<1>3. CASE Created(j, new)
  <2>1. jobs[j].state = Absent
    BY <1>3 DEF Created, Unborn, NoRow, Jobs
  <2>2. Seen(new) = [Promise!NoEntry EXCEPT !.state = "QUEUED"]
    BY <1>3, SharedVocabulary DEF Created, Seen, Promise!NoEntry
  <2>3. Promise!Insert(j)
    BY <1>1, <2>1, <2>2, SharedVocabulary
    DEF Promise!Insert, Promise!Write, View
  <2> QED BY <2>3 DEF ViewNext, Promise!LifecycleNext
<1>4. ASSUME NEW target \in JobState, MovedTo(j, new, target) PROVE ViewNext
  <2>1. CanMove(View[j], target)
    BY <1>2, <1>4 DEF MovedTo, CanMove
  <2>2. MovedResume(View[j], target) = MovedResume(jobs[j], target)
    BY <1>2 DEF MovedResume
  <2>3. Seen(new) = [View[j] EXCEPT !.state = target,
                                    !.resume = Promise!MovedResume(View[j], target)]
    <3>1. new.resume = Promise!MovedResume(View[j], target)
      BY <1>4, <2>2, SharedVocabulary DEF MovedTo
    <3>2. new.state = target /\ new.control = jobs[j].control
      BY <1>4 DEF MovedTo
    <3>3. Seen(new) = Rewritten(jobs[j], target, new.resume)
      BY <3>2, SeenRewritten
    <3> QED BY <1>2, <3>1, <3>3 DEF Rewritten
  <2>4. Promise!Move(j, target)
    BY <1>1, <1>2, <1>4, <2>1, <2>3, SharedVocabulary
    DEF Promise!Move, Promise!Write, MovedTo, View
  <2> QED BY <1>4, <2>4, SharedVocabulary DEF ViewNext, Promise!LifecycleNext
<1>5. ASSUME NEW control \in JobControlState, Steered(j, new, control)
      PROVE  ViewNext
  <2>1. jobs[j] \in Row
    BY DEF IInv, TablesOK
  <2>2. Seen(new) = [Seen(jobs[j]) EXCEPT !.control = control]
    BY <1>5, <2>1 DEF Steered, Controlled, Seen, Row
  <2>3. Promise!Write(j, [View[j] EXCEPT !.control = control])
    <3>1. Seen(new) = [View[j] EXCEPT !.control = control]
      BY <1>2, <2>2
    <3> QED BY <1>1, <3>1 DEF Promise!Write, View
  <2>4. Promise!InPipeline(j)
    BY <1>2, <1>5, SharedVocabulary DEF Promise!InPipeline, Steered, View
  <2>5. CASE /\ jobs[j].control = "RUNNING"
             /\ control = IF jobs[j].state \in ControlActiveStates
                          THEN "PAUSE_REQUESTED" ELSE "PAUSED"
    <3>1. Promise!RequestPause(j)
      BY <1>2, <2>3, <2>4, <2>5, SharedVocabulary
      DEF Promise!RequestPause, Promise!Write, View
    <3> QED BY <3>1 DEF ViewNext, Promise!LifecycleNext
  <2>6. CASE jobs[j].control = "PAUSE_REQUESTED" /\ control = "PAUSED"
    <3>1. Promise!AcknowledgePause(j)
      BY <1>2, <2>3, <2>6, SharedVocabulary
      DEF Promise!AcknowledgePause, Promise!Write, View
    <3> QED BY <3>1 DEF ViewNext, Promise!LifecycleNext
  <2>7. CASE jobs[j].control = "PAUSED" /\ control = "RUNNING"
    <3>1. Promise!Continue(j)
      BY <1>2, <2>3, <2>4, <2>7, SharedVocabulary
      DEF Promise!Continue, Promise!Write, View
    <3> QED BY <3>1 DEF ViewNext, Promise!LifecycleNext
  <2>8. CASE /\ jobs[j].control \notin {"PAUSED", "CANCEL_REQUESTED"}
             /\ jobs[j].state \in ControlActiveStates
             /\ control = "CANCEL_REQUESTED"
    <3>1. Promise!RequestCancel(j)
      BY <1>2, <2>3, <2>4, <2>8, SharedVocabulary
      DEF Promise!RequestCancel, Promise!Write, View
    <3> QED BY <3>1 DEF ViewNext, Promise!LifecycleNext
  <2> QED BY <1>5, <2>5, <2>6, <2>7, <2>8 DEF Steered
<1>6. CASE Stopped(j, new)
  <2>1. Promise!InPipeline(j)
    BY <1>2, <1>6, SharedVocabulary DEF Promise!InPipeline, Stopped, View
  <2>2. Seen(new) = Promise!Cancelled
    BY <1>6, SharedVocabulary DEF Stopped, Seen, Promise!Cancelled
  <2>3. CASE jobs[j].control = "CANCEL_REQUESTED"
    <3>1. Promise!AcknowledgeCancel(j)
      BY <1>1, <1>2, <2>1, <2>2, <2>3, SharedVocabulary
      DEF Promise!AcknowledgeCancel, Promise!Write, View
    <3> QED BY <3>1 DEF ViewNext, Promise!LifecycleNext
  <2>4. CASE jobs[j].control # "CANCEL_REQUESTED"
    <3>1. Promise!RequestCancel(j)
      BY <1>1, <1>2, <1>6, <2>1, <2>2, <2>4, SharedVocabulary
      DEF Promise!RequestCancel, Promise!Write, Stopped, View
    <3> QED BY <3>1 DEF ViewNext, Promise!LifecycleNext
  <2> QED BY <2>3, <2>4
<1>7. CASE Reentered(j, new)
  <2>1. Seen(new) = [View[j] EXCEPT !.state = new.state, !.resume = NoState]
    <3>1. new.control = jobs[j].control /\ new.resume = NoState
      BY <1>7 DEF Reentered
    <3>2. Seen(new) = Rewritten(jobs[j], new.state, NoState)
      BY <3>1, SeenRewritten
    <3> QED BY <1>2, <3>2 DEF Rewritten
  <2>2. Promise!Write(j, [View[j] EXCEPT !.state = new.state, !.resume = NoState])
    BY <1>1, <2>1 DEF Promise!Write, View
  <2>3. CASE jobs[j].state = "FAILED"
    <3>1. Promise!Retry(j)
      BY <1>2, <1>7, <2>2, <2>3, SharedVocabulary
      DEF Promise!Retry, Promise!Write, Reentered, View
    <3> QED BY <3>1 DEF ViewNext, Promise!LifecycleNext
  <2>4. CASE jobs[j].state = "CANCELLED"
    <3>1. Promise!Restart(j, new.state)
      BY <1>2, <1>7, <2>2, <2>4, SharedVocabulary
      DEF Promise!Restart, Promise!Write, Reentered, View
    <3>2. new.state \in JobState
      BY <1>7, <2>4 DEF Reentered, JobState
    <3> QED BY <3>1, <3>2, SharedVocabulary DEF ViewNext, Promise!LifecycleNext
  <2> QED BY <1>7, <2>3, <2>4 DEF Reentered
<1>8. CASE Reported(j, new)
  <2>1. Seen(new) = View[j]
    BY <1>2, <1>8 DEF Reported, Seen
  <2>2. View' = [View EXCEPT ![j] = View[j]]
    BY <1>1, <2>1 DEF Promise!Write, View
  <2> QED BY <2>2 DEF View
<1>9. CASE Purged(j, new)
  <2>1. Seen(new) = Promise!NoEntry
    BY <1>9, SharedVocabulary DEF Purged, Seen, NoRow, Promise!NoEntry
  <2>2. Promise!Purge(j)
    BY <1>1, <1>2, <1>9, <2>1, SharedVocabulary
    DEF Promise!Purge, Promise!Write, Purged, View
  <2> QED BY <2>2 DEF ViewNext, Promise!LifecycleNext
<1> QED
  BY <1>3, <1>4, <1>5, <1>6, <1>7, <1>8, <1>9 DEF Written, Change

LEMMA PromiseStep ==
    ASSUME IInv, Unborn, [Next]_vars PROVE [ViewNext]_View
<1>1. CASE UNCHANGED <<jobs, nextJob>>
  BY <1>1 DEF View
<1> QED BY <1>1, WrittenPromised, StepEffect DEF OneWrite

\* The tables implement the lifecycle they promise their clients.
THEOREM StoreImplementsLifecycle == Spec => ImplementsLifecycle
<1>1. Init => Promise!LifecycleInit
  BY DEF Init, Promise!LifecycleInit, Promise!NoEntry, NoRow, Promise!Absent,
         Absent, Promise!NoState, NoState
<1>2. IInv /\ Unborn /\ [Next]_vars => [ViewNext]_View
  BY PromiseStep
<1>3. [ViewNext]_View <=>
        [Promise!LifecycleNext]_([j \in Jobs |->
            [state |-> jobs[j].state, control |-> jobs[j].control,
             resume |-> jobs[j].resume]])
  BY DEF ViewNext, View
<1> QED
  BY <1>1, <1>2, <1>3, Invariance, NumbersAreFresh, PTL
  DEF Spec, ImplementsLifecycle, Promise!Lifecycle

=============================================================================
