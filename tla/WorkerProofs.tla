---------------------------- MODULE WorkerProofs ----------------------------
(* For any number of jobs, the two lanes of the worker stay apart: a stage   *)
(* runs only on the job the store gives to its lane, and a commit that a     *)
(* request has overtaken is never recorded as a failure.  The operator is    *)
(* the one of the runs, who re-queues no job a lane still has in hand; the   *)
(* run worker_two_encodes shows what happens otherwise.                      *)
EXTENDS Worker, TLAPS

\* The stages a lane executes, and the states into which a job may have gone
\* while the lane still has it in hand.
OwnStages(l)  == IF l = "prep" THEN {"SCANNING"} ELSE ControlActiveStates \ {"SCANNING"}
LeftStates(l) == IF l = "prep" THEN {"AWAITING_SELECTION", "CANCELLED"}
                 ELSE {"NEEDS_REVIEW", "UPLOAD_FAILED", "COMPLETED", "CANCELLED"}

Owned(l, e) == e.state \in OwnStages(l) /\ e.control # "PAUSED"

(* What the copy r of lane l says of the entry e of its job.                 *)
HandOK(l, r, e) ==
    /\ e.state \in OwnStages(l) \cup LeftStates(l)
    /\ r.at = "top" => r.view \in OwnStages(l) \cup WaitingStates \cup TerminalStates
    /\ r.at = "body" \/ (r.at = "top" /\ r.view \in OwnStages(l)) => Owned(l, e) /\ e.state = r.view
    /\ r.at = "handling" /\ r.why = "refused" =>
         Owned(l, e) /\ e.control \in {"PAUSE_REQUESTED", "CANCEL_REQUESTED"}
    /\ r.at = "verdict" => r.why # "refused"

LaneOK(l) ==
    IF lane[l].at = "idle" THEN lane[l].job = NoJob
    ELSE lane[l].job \in Jobs /\ HandOK(l, lane[l], db[lane[l].job])

WorkerTyped == db \in [Jobs -> Entry] /\ lane \in [Lanes -> LaneRow]

\* No job is in two hands.
Apart == \A l, m \in Lanes : l # m /\ lane[l].job = lane[m].job => lane[l].job = NoJob

WorkerInv ==
    /\ WorkerTyped /\ UniqueLanes(db) /\ Apart
    /\ \A l \in Lanes : LaneOK(l)

-----------------------------------------------------------------------------
(* The store                                                                 *)

\* The entry e in another state, with another resume state.
Moved(e, s, r) == [e EXCEPT !.state = s, !.resume = r]

LEMMA EntryMoves ==
    ASSUME NEW e \in Entry, NEW s \in JobState \cup {Absent}, NEW r \in JobState \cup {NoState}
    PROVE  /\ Moved(e, s, r) \in Entry
           /\ Moved(e, s, r).state = s /\ Moved(e, s, r).control = e.control
  BY DEF Entry, Moved

LEMMA EntryState ==
    ASSUME NEW e \in Entry, NEW s \in JobState \cup {Absent}
    PROVE  /\ [e EXCEPT !.state = s] \in Entry
           /\ [e EXCEPT !.state = s].state = s
           /\ [e EXCEPT !.state = s].control = e.control
  BY DEF Entry

LEMMA EntryControl ==
    ASSUME NEW e \in Entry, NEW c \in JobControlState
    PROVE  /\ [e EXCEPT !.control = c] \in Entry
           /\ [e EXCEPT !.control = c].state = e.state
           /\ [e EXCEPT !.control = c].control = c
  BY DEF Entry

LEMMA Constants ==
    /\ NoEntry \in Entry /\ [NoEntry EXCEPT !.state = "QUEUED"] \in Entry
    /\ NoEntry.state = Absent
    /\ [NoEntry EXCEPT !.state = "QUEUED"].state = "QUEUED"
    /\ Cancelled \in Entry /\ Cancelled.state = "CANCELLED" /\ Cancelled.control = "RUNNING"
  BY DEF NoEntry, Cancelled, Entry, JobState, JobControlState, Absent, NoState

\* A transaction that commits e into the row j.
Commits(j, e) ==
    /\ db' \in [Jobs -> Entry] /\ UniqueLanes(db')
    /\ db'[j] = e
    /\ \A i \in Jobs \ {j} : db'[i] = db[i]

LEMMA WriteCommits ==
    ASSUME db \in [Jobs -> Entry], NEW j \in Jobs, NEW e \in Entry, Write(j, e)
    PROVE  Commits(j, e)
  BY DEF Write, Commits

\* A row that may be moved names a state, and so does the target.
LEMMA MoveTargets ==
    ASSUME NEW e \in Entry, NEW t, CanMove(e, t), t # "CANCELLED"
    PROVE  /\ e.state \in JobState \ TerminalStates /\ e.control = "RUNNING"
           /\ t \in JobState
           /\ MovedResume(e, t) \in JobState \cup {NoState}
  <1>1. e.state \in JobState \ TerminalStates /\ e.control = "RUNNING"
    BY DEF CanMove, AllowedTransitions
  <1>2. t \in JobState
    <2>1. NormalTransitions[e.state] \subseteq JobState
      BY <1>1, SMT DEF NormalTransitions, JobState, TerminalStates
    <2>2. t \in NormalTransitions[e.state] \cup {"FAILED", "CANCELLED"}
             \cup (IF e.state = "NEEDS_REVIEW" /\ e.resume # NoState THEN {e.resume, "READY"} ELSE {})
      BY <1>1 DEF CanMove, AllowedTransitions
    <2>3. e.resume \in JobState \cup {NoState}
      BY DEF Entry
    <2> QED
      BY <2>1, <2>2, <2>3 DEF JobState
  <1>3. MovedResume(e, t) \in JobState \cup {NoState}
    BY <1>1 DEF MovedResume, Entry
  <1> QED
    BY <1>1, <1>2, <1>3

LEMMA MoveCommits ==
    ASSUME db \in [Jobs -> Entry], NEW j \in Jobs, NEW t, Move(j, t)
    PROVE  \E e \in Entry : /\ Commits(j, e) /\ e.state = t /\ e.control = "RUNNING"
                            /\ db[j].state \notin TerminalStates /\ db[j].control = "RUNNING"
  <1>1. CanMove(db[j], t) /\ t # "CANCELLED" /\ db[j] \in Entry
    BY DEF Move
  <1>2. /\ db[j].state \notin TerminalStates /\ db[j].control = "RUNNING" /\ t \in JobState
        /\ MovedResume(db[j], t) \in JobState \cup {NoState}
    BY <1>1, MoveTargets
  <1>3. PICK r \in JobState \cup {NoState} : r = MovedResume(db[j], t)
    BY <1>2
  <1>4. Write(j, Moved(db[j], t, r))
    BY <1>3 DEF Move, Moved
  <1>5. /\ Moved(db[j], t, r) \in Entry
        /\ Moved(db[j], t, r).state = t /\ Moved(db[j], t, r).control = "RUNNING"
    BY <1>1, <1>2, <1>3, EntryMoves
  <1>6. Commits(j, Moved(db[j], t, r))
    BY <1>4, <1>5, WriteCommits
  <1> QED
    BY <1>2, <1>5, <1>6

\* The answer to a request leaves the stage or marks the job as paused.
LEMMA AcknowledgeCommits ==
    ASSUME db \in [Jobs -> Entry], UniqueLanes(db), NEW j \in Jobs, Acknowledge(j)
    PROVE  \E e \in Entry : /\ Commits(j, e)
                            /\ e.state \in {db[j].state, "CANCELLED"}
  <1>1. CASE AcknowledgePause(j)
    <2> DEFINE e == [db[j] EXCEPT !.control = "PAUSED"]
    <2>1. e \in Entry /\ e.state = db[j].state
      BY EntryControl DEF JobControlState
    <2>2. Write(j, e)
      BY <1>1 DEF AcknowledgePause
    <2> HIDE DEF e
    <2> QED
      BY <2>1, <2>2, WriteCommits
  <1>2. CASE AcknowledgeCancel(j)
    BY <1>2, WriteCommits, Constants DEF AcknowledgeCancel
  <1>3. CASE UNCHANGED db
    BY <1>3 DEF Commits
  <1> QED
    BY <1>1, <1>2, <1>3 DEF Acknowledge

\* A job that owns a lane keeps it when it goes to another stage of the lane,
\* or gives it up: the indexes never refuse its commit.
LEMMA StageMovesFit ==
    ASSUME db \in [Jobs -> Entry], UniqueLanes(db), NEW l \in Lanes, NEW j \in Jobs,
           Owned(l, db[j]), db[j].control = "RUNNING",
           db[j].state \in DOMAIN Successor
    PROVE  Acceptable(j, Successor[db[j].state])
  <1> DEFINE s == db[j].state  t == Successor[s]
  <1>1. s \in ControlActiveStates /\ t \in JobState /\ t \in NormalTransitions[s]
    BY DEF Owned, OwnStages, ControlActiveStates, Successor, NormalTransitions, JobState
  <1>2. CanMove(db[j], t)
    <2>1. s \in JobState /\ s \notin TerminalStates
      BY <1>1 DEF ControlActiveStates, TerminalStates, JobState
    <2> QED
      BY <1>1, <2>1 DEF CanMove, AllowedTransitions
  <1>3. UniqueLanes([db EXCEPT ![j].state = t])
    <2> DEFINE e == [db[j] EXCEPT !.state = t]
    <2>1. e \in Entry /\ e.state = t /\ e.control = db[j].control
      <3>1. db[j] \in Entry /\ t \in JobState
        BY <1>1
      <3> HIDE DEF t
      <3> QED
        BY <3>1, EntryState
    <2>2. [db EXCEPT ![j].state = t] = [db EXCEPT ![j] = e]
      OBVIOUS
    <2>3. /\ InScanLane(e) => InScanLane(db[j])
          /\ InEncodeLane(e) => InEncodeLane(db[j])
      BY <1>1, <2>1 DEF InScanLane, InEncodeLane, ControlActiveStates, Successor, BlockingStates
    <2> HIDE DEF e
    <2> QED
      BY <2>1, <2>2, <2>3 DEF UniqueLanes
  <1> QED
    BY <1>2, <1>3 DEF Acceptable

-----------------------------------------------------------------------------
(* The hands of a lane                                                       *)

\* The row of lane l becomes r.
Sets(l, r) ==
    /\ lane' \in [Lanes -> LaneRow]
    /\ lane'[l] = r
    /\ \A m \in Lanes \ {l} : lane'[m] = lane[m]

PlacedRow(r, p) == [r EXCEPT !.at = p]

LEMMA RowFields ==
    ASSUME NEW r \in LaneRow,
           NEW p \in {"idle", "top", "body", "refresh", "handling", "verdict", "dead"}
    PROVE  /\ PlacedRow(r, p) \in LaneRow /\ PlacedRow(r, p).at = p
           /\ PlacedRow(r, p).job = r.job /\ PlacedRow(r, p).view = r.view
           /\ PlacedRow(r, p).why = r.why
  BY DEF PlacedRow, LaneRow

RaisedRow(r, w) == [r EXCEPT !.at = "handling", !.why = w]

LEMMA RowRaised ==
    ASSUME NEW r \in LaneRow, NEW w \in {"refused", "interrupted", "timeout", "os", "review", "error"}
    PROVE  /\ RaisedRow(r, w) \in LaneRow
           /\ RaisedRow(r, w).at = "handling"
           /\ RaisedRow(r, w).why = w
           /\ RaisedRow(r, w).job = r.job
  BY DEF RaisedRow, LaneRow

DecidedRow(r, t) == [r EXCEPT !.at = "verdict", !.target = t]

LEMMA RowDecided ==
    ASSUME NEW r \in LaneRow, NEW t \in {"NEEDS_REVIEW", "UPLOAD_FAILED", "FAILED"}
    PROVE  /\ DecidedRow(r, t) \in LaneRow
           /\ DecidedRow(r, t).at = "verdict"
           /\ DecidedRow(r, t).why = r.why
           /\ DecidedRow(r, t).job = r.job
  BY DEF DecidedRow, LaneRow

ReviewedRow(r) == [r EXCEPT !.at = "verdict", !.why = "review", !.target = "NEEDS_REVIEW"]

LEMMA RowReviewed ==
    ASSUME NEW r \in LaneRow
    PROVE  /\ ReviewedRow(r) \in LaneRow
           /\ ReviewedRow(r).at = "verdict"
           /\ ReviewedRow(r).why = "review"
           /\ ReviewedRow(r).job = r.job
  BY DEF ReviewedRow, LaneRow

ViewedRow(r, v) == [r EXCEPT !.at = "top", !.view = v]

LEMMA RowViewed ==
    ASSUME NEW r \in LaneRow, NEW v \in JobState \cup {NoState}
    PROVE  /\ ViewedRow(r, v) \in LaneRow
           /\ ViewedRow(r, v).at = "top"
           /\ ViewedRow(r, v).view = v
           /\ ViewedRow(r, v).job = r.job
  BY DEF ViewedRow, LaneRow

LEMMA IdleRow == Idle \in LaneRow /\ Idle.at = "idle" /\ Idle.job = NoJob
  BY DEF Idle, LaneRow

TakenRow(j, v) == [Idle EXCEPT !.at = "top", !.job = j, !.view = v]

LEMMA RowTaken ==
    ASSUME NEW j \in Jobs, NEW v \in JobState
    PROVE  /\ TakenRow(j, v) \in LaneRow
           /\ TakenRow(j, v).at = "top"
           /\ TakenRow(j, v).view = v
           /\ TakenRow(j, v).job = j
  BY DEF TakenRow, Idle, LaneRow, NoState

LEMMA RowSet ==
    ASSUME WorkerTyped, NEW l \in Lanes, NEW r \in LaneRow, lane' = [lane EXCEPT ![l] = r]
    PROVE  Sets(l, r)
  BY DEF WorkerTyped, Sets

\* A lane that sets its own row to r, and the table to what r may be in,
\* leaves the other lane as it was.
LEMMA LaneSets ==
    ASSUME WorkerInv, NEW l \in Lanes, NEW r \in LaneRow, Sets(l, r),
           db' \in [Jobs -> Entry], UniqueLanes(db'),
           \A m \in Lanes \ {l} : /\ lane[m].at # "idle" => db'[lane[m].job] = db[lane[m].job]
                                  /\ lane[m].job = r.job => r.job = NoJob,
           IF r.at = "idle" THEN r.job = NoJob ELSE r.job \in Jobs /\ HandOK(l, r, db'[r.job])
    PROVE  WorkerInv'
  <1>1. WorkerTyped' /\ UniqueLanes(db')
    BY DEF WorkerTyped, Sets
  <1>2. Apart'
    BY DEF Apart, WorkerInv, Sets
  <1>3. ASSUME NEW m \in Lanes PROVE LaneOK(m)'
    <2>1. CASE m = l
      BY <2>1 DEF LaneOK, Sets
    <2>2. CASE m # l
      BY <2>2 DEF LaneOK, Sets, WorkerInv
    <2> QED
      BY <2>1, <2>2
  <1> QED
    BY <1>1, <1>2, <1>3 DEF WorkerInv

\* A lane works on its own job and keeps or drops it.
LEMMA OwnJob ==
    ASSUME WorkerInv, NEW l \in Lanes, lane[l].at # "idle",
           NEW r \in LaneRow, Sets(l, r), NEW e \in Entry, Commits(lane[l].job, e),
           \/ r = Idle
           \/ r.job = lane[l].job /\ r.at # "idle" /\ HandOK(l, r, e)
    PROVE  WorkerInv'
  <1>1. lane[l].job \in Jobs /\ lane[l].job # NoJob
    BY NoJobAssumption DEF WorkerInv, LaneOK
  <1>2. ASSUME NEW m \in Lanes \ {l}
        PROVE  /\ lane[m].at # "idle" => db'[lane[m].job] = db[lane[m].job]
               /\ lane[m].job = r.job => r.job = NoJob
    <2>1. lane[m].job # lane[l].job
      BY <1>1 DEF WorkerInv, Apart
    <2>2. lane[m].at # "idle" => lane[m].job \in Jobs
      BY DEF WorkerInv, LaneOK
    <2> QED
      BY <2>1, <2>2, IdleRow DEF Commits
  <1>3. IF r.at = "idle" THEN r.job = NoJob ELSE r.job \in Jobs /\ HandOK(l, r, db'[r.job])
    BY <1>1, IdleRow DEF Commits
  <1> QED
    BY <1>2, <1>3, LaneSets DEF Commits

LEMMA Unchanged ==
    ASSUME db \in [Jobs -> Entry], UniqueLanes(db), NEW j \in Jobs, UNCHANGED db
    PROVE  db[j] \in Entry /\ Commits(j, db[j])
  BY DEF Commits

-----------------------------------------------------------------------------
(* The steps of a lane                                                       *)

LEMMA InHandFacts ==
    ASSUME WorkerInv, NEW l \in Lanes, lane[l].at # "idle"
    PROVE  /\ lane[l].job \in Jobs /\ lane[l] \in LaneRow /\ db[lane[l].job] \in Entry
           /\ HandOK(l, lane[l], db[lane[l].job])
           /\ db \in [Jobs -> Entry] /\ UniqueLanes(db)
  BY DEF WorkerInv, WorkerTyped, LaneOK

LEMMA FreesLane ==
    ASSUME WorkerInv, NEW l \in Lanes, Release(l)
    PROVE  Sets(l, Idle)
  BY RowSet, IdleRow DEF Release, WorkerInv

LEMMA GoesTo ==
    ASSUME WorkerInv, NEW l \in Lanes, NEW p \in {"body", "refresh", "dead"}, LaneGoes(l, p)
    PROVE  \E r \in LaneRow : /\ Sets(l, r)
                              /\ r.at = p /\ r.job = lane[l].job /\ r.view = lane[l].view
  <1>1. lane[l] \in LaneRow /\ WorkerTyped
    BY DEF WorkerInv, WorkerTyped
  <1>2. lane' = [lane EXCEPT ![l] = PlacedRow(lane[l], p)]
    BY DEF LaneGoes, PlacedRow
  <1>3. PlacedRow(lane[l], p) \in LaneRow
    BY <1>1, RowFields
  <1>4. /\ PlacedRow(lane[l], p).at = p /\ PlacedRow(lane[l], p).job = lane[l].job
        /\ PlacedRow(lane[l], p).view = lane[l].view
    BY <1>1, RowFields
  <1>5. Sets(l, PlacedRow(lane[l], p))
    BY <1>1, <1>2, <1>3, RowSet
  <1> QED
    BY <1>3, <1>4, <1>5

LEMMA Raises ==
    ASSUME WorkerInv, NEW l \in Lanes,
           NEW w \in {"refused", "interrupted", "timeout", "os", "review", "error"}, Raise(l, w)
    PROVE  \E r \in LaneRow : /\ Sets(l, r)
                              /\ r.at = "handling" /\ r.job = lane[l].job /\ r.why = w
  <1>1. lane[l] \in LaneRow /\ WorkerTyped
    BY DEF WorkerInv, WorkerTyped
  <1>2. lane' = [lane EXCEPT ![l] = RaisedRow(lane[l], w)]
    BY DEF Raise, RaisedRow
  <1> QED
    <2>1. RaisedRow(lane[l], w) \in LaneRow
      BY <1>1, RowRaised
    <2>2. Sets(l, RaisedRow(lane[l], w))
      BY <1>1, <1>2, <2>1, RowSet
    <2>3. /\ RaisedRow(lane[l], w).at = "handling" /\ RaisedRow(lane[l], w).job = lane[l].job
          /\ RaisedRow(lane[l], w).why = w
      BY <1>1, RowRaised
    <2> QED
      BY <2>1, <2>2, <2>3

LEMMA Decides ==
    ASSUME WorkerInv, NEW l \in Lanes, NEW t \in {"NEEDS_REVIEW", "UPLOAD_FAILED", "FAILED"}, Decide(l, t)
    PROVE  \E r \in LaneRow : /\ Sets(l, r)
                              /\ r.at = "verdict" /\ r.job = lane[l].job /\ r.why = lane[l].why
  <1>1. lane[l] \in LaneRow /\ WorkerTyped
    BY DEF WorkerInv, WorkerTyped
  <1>2. lane' = [lane EXCEPT ![l] = DecidedRow(lane[l], t)]
    BY DEF Decide, DecidedRow
  <1> QED
    <2>1. DecidedRow(lane[l], t) \in LaneRow
      BY <1>1, RowDecided
    <2>2. Sets(l, DecidedRow(lane[l], t))
      BY <1>1, <1>2, <2>1, RowSet
    <2>3. /\ DecidedRow(lane[l], t).at = "verdict" /\ DecidedRow(lane[l], t).job = lane[l].job
          /\ DecidedRow(lane[l], t).why = lane[l].why
      BY <1>1, RowDecided
    <2> QED
      BY <2>1, <2>2, <2>3

LEMMA TakeKeeps ==
    ASSUME WorkerInv, NEW l \in Lanes, Take(l)
    PROVE  WorkerInv'
  <1>1. PICK j \in Jobs :
          /\ HeldAlready(l, j) \/ Claim(l, j)
          /\ lane' = [lane EXCEPT ![l] = TakenRow(j, db'[j].state)]
    BY DEF Take, TakenRow
  <1>2. /\ lane[l].at = "idle" /\ db \in [Jobs -> Entry] /\ UniqueLanes(db)
        /\ WorkerTyped
    BY DEF Take, WorkerInv, WorkerTyped
  <1>3. /\ db' \in [Jobs -> Entry] /\ UniqueLanes(db')
        /\ \A i \in Jobs \ {j} : db'[i] = db[i]
        /\ Holds(l, j)'
        /\ db[j].state \in IF l = "prep" THEN {"QUEUED", "SCANNING"} ELSE BlockingStates \cup {"READY"}
    <2>1. CASE HeldAlready(l, j)
      BY <1>2, <2>1 DEF HeldAlready, Holds, InScanLane, InEncodeLane
    <2>2. CASE Claim(l, j)
      <3>1. PICK e \in Entry : /\ Commits(j, e) /\ e.control = "RUNNING"
                              /\ e.state = IF l = "prep" THEN "SCANNING" ELSE "ENCODING"
        BY <1>2, <2>2, MoveCommits DEF Claim
      <3> QED
        BY <2>2, <3>1 DEF Claim, Commits, Holds, InScanLane, InEncodeLane, BlockingStates
    <2> QED
      BY <1>1, <2>1, <2>2
  <1>4. \A m \in Lanes \ {l} : lane[m].at # "idle" => lane[m].job \in Jobs \ {j}
    BY <1>3 DEF WorkerInv, LaneOK, HandOK, OwnStages, LeftStates, ControlActiveStates, Lanes, BlockingStates
  <1>5. \A m \in Lanes \ {l} : lane[m].job # j
    BY <1>4, NoJobAssumption DEF WorkerInv, LaneOK
  <1>6. /\ db'[j].state \in JobState /\ db'[j].control # "PAUSED"
        /\ db'[j].state \in OwnStages(l) \cup (IF l = "prep" THEN {} ELSE {"NEEDS_REVIEW", "UPLOAD_FAILED"})
    BY <1>3 DEF Holds, InScanLane, InEncodeLane, OwnStages, BlockingStates, ControlActiveStates, JobState
  <1>7. PICK r \in LaneRow : Sets(l, r) /\ r.at = "top" /\ r.job = j /\ r.view = db'[j].state
    <2>1. TakenRow(j, db'[j].state) \in LaneRow
      BY <1>6, RowTaken
    <2>2. Sets(l, TakenRow(j, db'[j].state))
      BY <1>1, <1>2, <2>1, RowSet
    <2>3. /\ TakenRow(j, db'[j].state).at = "top" /\ TakenRow(j, db'[j].state).job = j
          /\ TakenRow(j, db'[j].state).view = db'[j].state
      BY <1>6, RowTaken
    <2> QED
      BY <2>1, <2>2, <2>3
  <1>8. HandOK(l, r, db'[j])
    BY <1>6, <1>7 DEF HandOK, Owned, LeftStates, OwnStages, WaitingStates
  <1> QED
    BY <1>3, <1>4, <1>5, <1>7, <1>8, LaneSets

LEMMA EnterKeeps ==
    ASSUME WorkerInv, NEW l \in Lanes, Enter(l)
    PROVE  WorkerInv'
  <1> DEFINE j == lane[l].job
  <1>1. lane[l].at = "top" /\ lane[l].at # "idle"
    BY DEF Enter
  <1>2. /\ j \in Jobs /\ lane[l] \in LaneRow /\ db[j] \in Entry /\ HandOK(l, lane[l], db[j])
        /\ db \in [Jobs -> Entry] /\ UniqueLanes(db)
    BY <1>1, InHandFacts
  <1>3. CASE Release(l) /\ UNCHANGED db
    BY <1>1, <1>2, <1>3, FreesLane, IdleRow, Unchanged, OwnJob
  <1>4. CASE Acknowledge(j) /\ Release(l)
    BY <1>1, <1>2, <1>4, FreesLane, IdleRow, AcknowledgeCommits, OwnJob
  <1>5. CASE LaneGoes(l, "body") /\ UNCHANGED db /\ lane[l].view \notin TerminalStates \cup WaitingStates
    <2>1. PICK r \in LaneRow : /\ Sets(l, r)
                              /\ r.at = "body" /\ r.job = j /\ r.view = lane[l].view
      BY <1>5, GoesTo
    <2>2. HandOK(l, r, db[j])
      BY <1>1, <1>2, <1>5, <2>1 DEF HandOK
    <2> QED
      BY <1>1, <1>2, <1>5, <2>1, <2>2, Unchanged, OwnJob
  <1> QED
    BY <1>3, <1>4, <1>5 DEF Enter

LEMMA FinishKeeps ==
    ASSUME WorkerInv, NEW l \in Lanes, Finish(l)
    PROVE  WorkerInv'
  <1> DEFINE j == lane[l].job
  <1>1. lane[l].at = "body" /\ lane[l].at # "idle"
    BY DEF Finish
  <1>2. /\ j \in Jobs /\ lane[l] \in LaneRow /\ db[j] \in Entry /\ HandOK(l, lane[l], db[j])
        /\ db \in [Jobs -> Entry] /\ UniqueLanes(db)
    BY <1>1, InHandFacts
  <1>3. /\ Owned(l, db[j]) /\ db[j].state = lane[l].view
        /\ lane[l].view \in DOMAIN Successor /\ lane[l].view # "QUEUED"
    BY <1>1, <1>2 DEF HandOK, Owned, OwnStages, ControlActiveStates, Successor
  <1>4. CASE Acceptable(j, Successor[lane[l].view])
    <2>1. Move(j, Successor[lane[l].view]) /\ LaneGoes(l, "refresh")
      BY <1>3, <1>4 DEF Finish
    <2>2. PICK e \in Entry : Commits(j, e) /\ e.state = Successor[lane[l].view]
      BY <1>2, <2>1, MoveCommits
    <2>3. PICK r \in LaneRow : Sets(l, r) /\ r.at = "refresh" /\ r.job = j
      BY <2>1, GoesTo
    <2>4. e.state \in OwnStages(l) \cup LeftStates(l)
      BY <1>3, <2>2 DEF Owned, OwnStages, LeftStates, ControlActiveStates, Successor
    <2>5. HandOK(l, r, e)
      BY <2>3, <2>4 DEF HandOK
    <2> QED
      BY <1>1, <2>2, <2>3, <2>5, OwnJob
  <1>5. CASE ~Acceptable(j, Successor[lane[l].view])
    <2>1. UNCHANGED db /\ Raise(l, "refused")
      BY <1>3, <1>5 DEF Finish
    <2>2. PICK r \in LaneRow : Sets(l, r) /\ r.at = "handling" /\ r.job = j /\ r.why = "refused"
      BY <2>1, Raises
    <2>3. db[j].control # "RUNNING"
      BY <1>2, <1>3, <1>5, StageMovesFit
    <2>4. db[j].control \in {"PAUSE_REQUESTED", "CANCEL_REQUESTED"}
      BY <1>2, <1>3, <2>3 DEF Entry, JobControlState, Owned
    <2>5. HandOK(l, r, db[j])
      BY <1>3, <2>2, <2>4 DEF HandOK, Owned
    <2> QED
      BY <1>1, <1>2, <2>1, <2>2, <2>5, Unchanged, OwnJob
  <1> QED
    BY <1>4, <1>5

LEMMA InterruptKeeps ==
    ASSUME WorkerInv, NEW l \in Lanes, Interrupt(l)
    PROVE  WorkerInv'
  <1>1. lane[l].at = "body" /\ lane[l].at # "idle" /\ UNCHANGED db /\ Raise(l, "interrupted")
    BY DEF Interrupt
  <1>2. PICK r \in LaneRow : Sets(l, r) /\ r.at = "handling" /\ r.job = lane[l].job /\ r.why = "interrupted"
    BY <1>1, Raises
  <1>3. HandOK(l, r, db[lane[l].job])
    BY <1>1, <1>2, InHandFacts DEF HandOK
  <1> QED
    BY <1>1, <1>2, <1>3, InHandFacts, Unchanged, OwnJob

LEMMA StopAtBoundaryKeeps ==
    ASSUME WorkerInv, NEW l \in Lanes, StopAtBoundary(l)
    PROVE  WorkerInv'
  <1>1. lane[l].at = "body" /\ lane[l].at # "idle" /\ Acknowledge(lane[l].job) /\ Raise(l, "interrupted")
    BY DEF StopAtBoundary
  <1>2. /\ lane[l].job \in Jobs /\ HandOK(l, lane[l], db[lane[l].job])
        /\ db \in [Jobs -> Entry] /\ UniqueLanes(db)
    BY <1>1, InHandFacts
  <1>3. PICK r \in LaneRow : Sets(l, r) /\ r.at = "handling" /\ r.job = lane[l].job /\ r.why = "interrupted"
    BY <1>1, Raises
  <1>4. PICK e \in Entry : /\ Commits(lane[l].job, e)
                          /\ e.state \in {db[lane[l].job].state, "CANCELLED"}
    BY <1>1, <1>2, AcknowledgeCommits
  <1>5. HandOK(l, r, e) /\ r.at # "idle"
    BY <1>2, <1>3, <1>4 DEF HandOK, LeftStates
  <1>6. lane[l].at # "idle"
    BY <1>1
  <1>7. Sets(l, r) /\ r.job = lane[l].job
    BY <1>3
  <1>8. Commits(lane[l].job, e)
    BY <1>4
  <1> QED
    BY <1>5, <1>6, <1>7, <1>8, OwnJob

LEMMA FaultKeeps ==
    ASSUME WorkerInv, NEW l \in Lanes, Fault(l)
    PROVE  WorkerInv'
  <1>1. lane[l].at = "body" /\ lane[l].at # "idle" /\ UNCHANGED db
    BY DEF Fault
  <1>2. /\ lane[l].job \in Jobs /\ lane[l] \in LaneRow /\ HandOK(l, lane[l], db[lane[l].job])
        /\ db \in [Jobs -> Entry] /\ UniqueLanes(db) /\ WorkerTyped
    BY <1>1, InHandFacts DEF WorkerInv
  <1>3. PICK r \in LaneRow : /\ Sets(l, r) /\ r.job = lane[l].job
                            /\ r.at \in {"handling", "verdict"} /\ r.why # "refused"
    <2>1. CASE lane' = [lane EXCEPT ![l].at = "verdict", ![l].why = "review", ![l].target = "NEEDS_REVIEW"]
      <3>1. lane' = [lane EXCEPT ![l] = ReviewedRow(lane[l])]
        BY <2>1 DEF ReviewedRow
      <3>2. /\ ReviewedRow(lane[l]) \in LaneRow /\ ReviewedRow(lane[l]).at = "verdict"
            /\ ReviewedRow(lane[l]).why = "review" /\ ReviewedRow(lane[l]).job = lane[l].job
        BY <1>2, RowReviewed
      <3>3. Sets(l, ReviewedRow(lane[l]))
        BY <1>2, <3>1, <3>2, RowSet
      <3> QED
        BY <3>2, <3>3
    <2>2. ASSUME NEW w \in {"timeout", "os", "error"}, Raise(l, w)
          PROVE  \E r \in LaneRow : /\ Sets(l, r) /\ r.job = lane[l].job
                                    /\ r.at \in {"handling", "verdict"} /\ r.why # "refused"
      <3>1. w \in {"refused", "interrupted", "timeout", "os", "review", "error"} /\ w # "refused"
        OBVIOUS
      <3> QED
        BY <2>2, <3>1, Raises
    <2> QED
      BY <2>1, <2>2 DEF Fault
  <1>4. HandOK(l, r, db[lane[l].job])
    BY <1>2, <1>3 DEF HandOK
  <1>5. r.at # "idle"
    BY <1>3
  <1> QED
    BY <1>1, <1>2, <1>3, <1>4, <1>5, Unchanged, OwnJob

LEMMA RefreshKeeps ==
    ASSUME WorkerInv, NEW l \in Lanes, Refresh(l)
    PROVE  WorkerInv'
  <1> DEFINE j == lane[l].job
  <1>1. lane[l].at = "refresh" /\ lane[l].at # "idle" /\ UNCHANGED db
    BY DEF Refresh
  <1>2. /\ j \in Jobs /\ lane[l] \in LaneRow /\ db[j] \in Entry /\ HandOK(l, lane[l], db[j])
        /\ db \in [Jobs -> Entry] /\ UniqueLanes(db) /\ WorkerTyped
    BY <1>1, InHandFacts DEF WorkerInv
  <1>3. CASE Release(l)
    BY <1>1, <1>2, <1>3, FreesLane, IdleRow, Unchanged, OwnJob
  <1>4. CASE Raise(l, "error")
    <2>1. PICK r \in LaneRow : Sets(l, r) /\ r.at = "handling" /\ r.job = j /\ r.why = "error"
      BY <1>4, Raises
    <2>2. HandOK(l, r, db[j])
      BY <1>2, <2>1 DEF HandOK
    <2> QED
      BY <1>1, <1>2, <2>1, <2>2, Unchanged, OwnJob
  <1>5. CASE /\ lane' = [lane EXCEPT ![l].at = "top", ![l].view = db[j].state]
             /\ db[j].control # "PAUSED"
    <2>1. db[j].state \in JobState \cup {NoState}
      BY <1>2 DEF HandOK, OwnStages, LeftStates, ControlActiveStates, JobState
    <2>2. /\ ViewedRow(lane[l], db[j].state) \in LaneRow
          /\ ViewedRow(lane[l], db[j].state).at = "top"
          /\ ViewedRow(lane[l], db[j].state).view = db[j].state
          /\ ViewedRow(lane[l], db[j].state).job = j
      BY <1>2, <2>1, RowViewed
    <2>3. lane' = [lane EXCEPT ![l] = ViewedRow(lane[l], db[j].state)]
      BY <1>5 DEF ViewedRow
    <2>4. Sets(l, ViewedRow(lane[l], db[j].state))
      BY <1>2, <2>2, <2>3, RowSet
    <2>5. PICK r \in LaneRow : Sets(l, r) /\ r.at = "top" /\ r.view = db[j].state /\ r.job = j
      BY <2>2, <2>4
    <2>6. HandOK(l, r, db[j])
      BY <1>2, <1>5, <2>5 DEF HandOK, Owned, OwnStages, LeftStates, WaitingStates, TerminalStates
    <2> QED
      BY <1>1, <1>2, <2>5, <2>6, Unchanged, OwnJob
  <1> QED
    BY <1>3, <1>4, <1>5 DEF Refresh

LEMMA HandleKeeps ==
    ASSUME WorkerInv, NEW l \in Lanes, Handle(l)
    PROVE  WorkerInv'
  <1> DEFINE j == lane[l].job
  <1>1. lane[l].at = "handling" /\ lane[l].at # "idle"
    BY DEF Handle
  <1>2. /\ j \in Jobs /\ lane[l] \in LaneRow /\ db[j] \in Entry /\ HandOK(l, lane[l], db[j])
        /\ db \in [Jobs -> Entry] /\ UniqueLanes(db)
    BY <1>1, InHandFacts
  <1>3. CASE Acknowledge(j) /\ Release(l)
    BY <1>1, <1>2, <1>3, FreesLane, IdleRow, AcknowledgeCommits, OwnJob
  <1>4. CASE UNCHANGED db /\ Release(l)
    BY <1>1, <1>2, <1>4, FreesLane, IdleRow, Unchanged, OwnJob
  <1>5. CASE UNCHANGED db /\ ~Controlled(j) /\ Decide(l, Target(db[j].state, lane[l].why))
    <2>1. Target(db[j].state, lane[l].why) \in {"NEEDS_REVIEW", "UPLOAD_FAILED", "FAILED"}
      BY DEF Target
    <2>2. PICK r \in LaneRow : Sets(l, r) /\ r.at = "verdict" /\ r.job = j /\ r.why = lane[l].why
      BY <1>5, <2>1, Decides
    <2>3. lane[l].why # "refused"
      BY <1>1, <1>2, <1>5 DEF HandOK, Controlled, Requested
    <2>4. HandOK(l, r, db[j])
      BY <1>2, <2>2, <2>3 DEF HandOK
    <2> QED
      BY <1>1, <1>2, <1>5, <2>2, <2>4, Unchanged, OwnJob
  <1> QED
    BY <1>3, <1>4, <1>5 DEF Handle

LEMMA VerdictKeeps ==
    ASSUME WorkerInv, NEW l \in Lanes, Verdict(l)
    PROVE  WorkerInv'
  <1> DEFINE j == lane[l].job
  <1>1. lane[l].at = "verdict" /\ lane[l].at # "idle"
    BY DEF Verdict
  <1>2. /\ j \in Jobs /\ lane[l] \in LaneRow /\ db[j] \in Entry /\ HandOK(l, lane[l], db[j])
        /\ db \in [Jobs -> Entry] /\ UniqueLanes(db)
    BY <1>1, InHandFacts
  <1>3. CASE Move(j, lane[l].target) /\ Release(l)
    BY <1>1, <1>2, <1>3, FreesLane, IdleRow, MoveCommits, OwnJob
  <1>4. CASE UNCHANGED db /\ Release(l)
    BY <1>1, <1>2, <1>4, FreesLane, IdleRow, Unchanged, OwnJob
  <1>5. CASE UNCHANGED db /\ LaneGoes(l, "dead")
    <2>1. PICK r \in LaneRow : Sets(l, r) /\ r.at = "dead" /\ r.job = j
      BY <1>5, GoesTo
    <2>2. HandOK(l, r, db[j])
      BY <1>2, <2>1 DEF HandOK
    <2> QED
      BY <1>1, <1>2, <1>5, <2>1, <2>2, Unchanged, OwnJob
  <1> QED
    BY <1>3, <1>4, <1>5 DEF Verdict, Escape

-----------------------------------------------------------------------------
(* The operator and the process                                              *)

\* A row that stays in its stage, without being paused in it, and keeps its
\* request, is still what the lane may rely on.
LEMMA HandStays ==
    ASSUME NEW l \in Lanes, NEW r \in LaneRow, NEW d \in Entry, NEW e \in Entry, HandOK(l, r, d),
           e.state = d.state, e.control # "PAUSED" \/ d.state \notin OwnStages(l),
           d.control \in {"PAUSE_REQUESTED", "CANCEL_REQUESTED"} =>
             e.control \in {"PAUSE_REQUESTED", "CANCEL_REQUESTED"}
    PROVE  HandOK(l, r, e)
  BY DEF HandOK, Owned

\* A row that is in no stage, or paused in one, may leave it.
LEMMA HandLeaves ==
    ASSUME NEW l \in Lanes, NEW r \in LaneRow, NEW d \in Entry, NEW e \in Entry, HandOK(l, r, d),
           ~Owned(l, d), e.state \in OwnStages(l) \cup LeftStates(l)
    PROVE  HandOK(l, r, e)
  BY DEF HandOK

LEMMA OperatorCommits ==
    ASSUME WorkerInv, UNCHANGED lane, NEW j \in Jobs, NEW e \in Entry, Commits(j, e),
           \A l \in Lanes : lane[l].job = j => HandOK(l, lane[l], e)
    PROVE  WorkerInv'
  <1>1. WorkerTyped' /\ UniqueLanes(db') /\ Apart'
    BY DEF WorkerInv, WorkerTyped, Commits, Apart
  <1>2. ASSUME NEW l \in Lanes PROVE LaneOK(l)'
    BY DEF WorkerInv, LaneOK, Commits
  <1> QED
    BY <1>1, <1>2 DEF WorkerInv

\* A job that is in neither hand may go anywhere.
LEMMA OutOfHand ==
    ASSUME WorkerInv, NEW j \in Jobs, ~InHand(j)
    PROVE  \A l \in Lanes : lane[l].job # j
  BY DEF InHand

LEMMA HeldJob ==
    ASSUME WorkerInv, NEW j \in Jobs, NEW l \in Lanes, lane[l].job = j
    PROVE  /\ HandOK(l, lane[l], db[j]) /\ lane[l] \in LaneRow
           /\ db[j].state \in OwnStages(l) \cup LeftStates(l)
           /\ db[j].state \in {"SCANNING", "AWAITING_SELECTION", "CANCELLED", "ENCODING", "MUXING", "QC",
                               "COMPARISON", "UPLOADING", "NEEDS_REVIEW", "UPLOAD_FAILED", "COMPLETED"}
  BY NoJobAssumption DEF WorkerInv, WorkerTyped, LaneOK, HandOK, OwnStages, LeftStates, ControlActiveStates

LEMMA OperatorKeeps ==
    ASSUME ~RequeueInHand, WorkerInv, NEW j \in Jobs, Operator(j)
    PROVE  WorkerInv'
  <1>1. UNCHANGED lane /\ db \in [Jobs -> Entry] /\ db[j] \in Entry /\ UniqueLanes(db)
    BY DEF Operator, WorkerInv, WorkerTyped
  <1>2. CASE Insert(j)
    <2>1. PICK e \in Entry : Commits(j, e)
      BY <1>1, <1>2, Constants, WriteCommits DEF Insert
    <2>2. \A l \in Lanes : lane[l].job # j
      BY <1>2, HeldJob DEF Insert, Absent
    <2> QED
      BY <1>1, <2>1, <2>2, OperatorCommits
  <1>3. CASE RequestPause(j)
    <2> DEFINE c == IF db[j].state \in ControlActiveStates THEN "PAUSE_REQUESTED" ELSE "PAUSED"
    <2>1. PICK e \in Entry : Commits(j, e) /\ e.state = db[j].state /\ e.control = c
      <3>1. c \in JobControlState
        BY DEF JobControlState
      <3>2. Write(j, [db[j] EXCEPT !.control = c])
        BY <1>3 DEF RequestPause
      <3> HIDE DEF c
      <3>3. /\ [db[j] EXCEPT !.control = c] \in Entry /\ [db[j] EXCEPT !.control = c].state = db[j].state
            /\ [db[j] EXCEPT !.control = c].control = c
        BY <1>1, <3>1, EntryControl
      <3>4. Commits(j, [db[j] EXCEPT !.control = c])
        BY <1>1, <3>2, <3>3, WriteCommits
      <3> QED
        BY <3>3, <3>4
    <2>2. ASSUME NEW l \in Lanes, lane[l].job = j PROVE HandOK(l, lane[l], e)
      <3>1. HandOK(l, lane[l], db[j]) /\ lane[l] \in LaneRow
        BY <2>2, HeldJob
      <3>2. e.control # "PAUSED" \/ db[j].state \notin OwnStages(l)
        BY <2>1 DEF OwnStages, ControlActiveStates
      <3>3. db[j].control = "RUNNING"
        BY <1>3 DEF RequestPause
      <3> QED
        BY <1>1, <2>1, <3>1, <3>2, <3>3, HandStays
    <2> QED
      BY <1>1, <2>1, <2>2, OperatorCommits
  <1>4. CASE Continue(j)
    <2>1. PICK e \in Entry : Commits(j, e) /\ e.state = db[j].state /\ e.control = "RUNNING"
      <3>1. Write(j, [db[j] EXCEPT !.control = "RUNNING"])
        BY <1>4 DEF Continue
      <3>2. /\ [db[j] EXCEPT !.control = "RUNNING"] \in Entry /\ [db[j] EXCEPT !.control = "RUNNING"].state = db[j].state
            /\ [db[j] EXCEPT !.control = "RUNNING"].control = "RUNNING"
        BY <1>1, EntryControl DEF JobControlState
      <3>3. Commits(j, [db[j] EXCEPT !.control = "RUNNING"])
        BY <1>1, <3>1, <3>2, WriteCommits
      <3> QED
        BY <3>2, <3>3
    <2>2. ASSUME NEW l \in Lanes, lane[l].job = j PROVE HandOK(l, lane[l], e)
      <3>1. HandOK(l, lane[l], db[j]) /\ lane[l] \in LaneRow
        BY <2>2, HeldJob
      <3>2. db[j].control = "PAUSED"
        BY <1>4 DEF Continue
      <3> QED
        BY <1>1, <2>1, <3>1, <3>2, HandStays
    <2> QED
      BY <1>1, <2>1, <2>2, OperatorCommits
  <1>5. CASE RequestCancel(j) /\ db[j].state \in ControlActiveStates /\ db[j].control # "PAUSED"
    <2>1. PICK e \in Entry : Commits(j, e) /\ e.state = db[j].state /\ e.control = "CANCEL_REQUESTED"
      <3>1. Write(j, [db[j] EXCEPT !.control = "CANCEL_REQUESTED"])
        BY <1>5 DEF RequestCancel
      <3>2. /\ [db[j] EXCEPT !.control = "CANCEL_REQUESTED"] \in Entry
            /\ [db[j] EXCEPT !.control = "CANCEL_REQUESTED"].state = db[j].state
            /\ [db[j] EXCEPT !.control = "CANCEL_REQUESTED"].control = "CANCEL_REQUESTED"
        BY <1>1, EntryControl DEF JobControlState
      <3>3. Commits(j, [db[j] EXCEPT !.control = "CANCEL_REQUESTED"])
        BY <1>1, <3>1, <3>2, WriteCommits
      <3> QED
        BY <3>2, <3>3
    <2>2. ASSUME NEW l \in Lanes, lane[l].job = j PROVE HandOK(l, lane[l], e)
      <3>1. HandOK(l, lane[l], db[j]) /\ lane[l] \in LaneRow
        BY <2>2, HeldJob
      <3> QED
        BY <1>1, <2>1, <3>1, HandStays
    <2> QED
      BY <1>1, <2>1, <2>2, OperatorCommits
  <1>6. CASE RequestCancel(j) /\ ~(db[j].state \in ControlActiveStates /\ db[j].control # "PAUSED")
    <2>1. Cancelled \in Entry /\ Commits(j, Cancelled) /\ Cancelled.state = "CANCELLED"
      BY <1>1, <1>6, Constants, WriteCommits DEF RequestCancel
    <2>2. ASSUME NEW l \in Lanes, lane[l].job = j PROVE HandOK(l, lane[l], Cancelled)
      <3>1. HandOK(l, lane[l], db[j]) /\ lane[l] \in LaneRow
        BY <2>2, HeldJob
      <3>2. ~Owned(l, db[j])
        BY <1>6 DEF Owned, OwnStages, ControlActiveStates
      <3>3. Cancelled.state \in OwnStages(l) \cup LeftStates(l)
        BY <2>1 DEF LeftStates
      <3> QED
        BY <1>1, <2>1, <3>1, <3>2, <3>3, HandLeaves
    <2> QED
      BY <1>1, <2>1, <2>2, OperatorCommits
  <1>7. CASE SetSelection(j) \/ ResumeReview(j)
    <2>1. PICK e \in Entry : Commits(j, e)
      BY <1>1, <1>7, MoveCommits DEF SetSelection, ResumeReview
    <2> QED
      BY <1>1, <1>7, <2>1, OutOfHand, OperatorCommits DEF SetSelection, ResumeReview
  <1>8. CASE RetryUpload(j)
    <2>1. PICK e \in Entry : Commits(j, e) /\ e.state = "UPLOADING"
      BY <1>1, <1>8, MoveCommits DEF RetryUpload
    <2>2. ASSUME NEW l \in Lanes, lane[l].job = j PROVE HandOK(l, lane[l], e)
      <3>1. HandOK(l, lane[l], db[j]) /\ lane[l] \in LaneRow /\ db[j].state \in OwnStages(l) \cup LeftStates(l)
        BY <2>2, HeldJob
      <3>2. db[j].state = "UPLOAD_FAILED"
        BY <1>8 DEF RetryUpload
      <3>3. ~Owned(l, db[j]) /\ e.state \in OwnStages(l)
        BY <2>1, <3>1, <3>2 DEF Owned, OwnStages, LeftStates, ControlActiveStates
      <3> QED
        BY <1>1, <2>1, <3>1, <3>3, HandLeaves
    <2> QED
      BY <1>1, <2>1, <2>2, OperatorCommits
  <1>9. CASE Retry(j)
    <2>1. PICK e \in Entry : Commits(j, e)
      <3>1. db[j].resume \in JobState \cup {Absent} /\ NoState \in JobState \cup {NoState}
        BY <1>9 DEF Retry, RetryableFailedStages, JobState
      <3>2. Write(j, Moved(db[j], db[j].resume, NoState))
        BY <1>9 DEF Retry, Moved
      <3>3. Moved(db[j], db[j].resume, NoState) \in Entry
        BY <1>1, <3>1, EntryMoves
      <3> QED
        BY <1>1, <3>2, <3>3, WriteCommits
    <2>2. \A l \in Lanes : lane[l].job # j
      BY <1>9, HeldJob DEF Retry
    <2> QED
      BY <1>1, <2>1, <2>2, OperatorCommits
  <1>10. CASE RestartCancelled(j)
    <2>1. PICK e \in Entry : Commits(j, e)
      <3>1. PICK t \in JobState : Restart(j, t)
        BY <1>10 DEF RestartCancelled
      <3>2. Write(j, Moved(db[j], t, NoState))
        BY <3>1 DEF Restart, Moved
      <3>3. Moved(db[j], t, NoState) \in Entry
        BY <1>1, <3>1, EntryMoves
      <3> QED
        BY <1>1, <3>2, <3>3, WriteCommits
    <2> QED
      BY <1>1, <1>10, <2>1, OutOfHand, OperatorCommits DEF RestartCancelled
  <1> QED
    BY <1>2, <1>3, <1>4, <1>5, <1>6, <1>7, <1>8, <1>9, <1>10 DEF Operator

\* The process ends, by itself or not: both lanes drop what they had.
LEMMA EndKeeps ==
    ASSUME WorkerInv, UNCHANGED db, lane' = [l \in Lanes |-> Idle]
    PROVE  WorkerInv'
  BY IdleRow DEF WorkerInv, WorkerTyped, Apart, LaneOK

LEMMA InitHolds == WorkerInit => WorkerInv
  BY IdleRow, Constants DEF WorkerInit, LifecycleInit, WorkerInv, WorkerTyped, Apart, LaneOK, UniqueLanes,
     InScanLane, InEncodeLane, BlockingStates, Absent

LEMMA StepKeeps ==
    ASSUME ~RequeueInHand, WorkerInv, [WorkerNext]_wvars
    PROVE  WorkerInv'
  <1>1. ASSUME NEW l \in Lanes, LaneStep(l) PROVE WorkerInv'
    BY <1>1, TakeKeeps, EnterKeeps, FinishKeeps, InterruptKeeps, StopAtBoundaryKeeps, FaultKeeps,
       RefreshKeeps, HandleKeeps, VerdictKeeps DEF LaneStep
  <1>2. CASE Terminate
    BY <1>2 DEF Terminate, WorkerInv, WorkerTyped, Apart, LaneOK
  <1>3. CASE Exit \/ WorkerDies
    BY <1>3, EndKeeps DEF Exit, WorkerDies
  <1>4. ASSUME NEW j \in Jobs, Operator(j) PROVE WorkerInv'
    BY <1>4, OperatorKeeps
  <1>5. CASE UNCHANGED wvars
    BY <1>5 DEF wvars, WorkerInv, WorkerTyped, Apart, LaneOK
  <1> QED
    BY <1>1, <1>2, <1>3, <1>4, <1>5 DEF WorkerNext

LEMMA InvIsSound == WorkerInv => LanesAreSound
  <1> SUFFICES ASSUME WorkerInv PROVE LanesAreSound
    OBVIOUS
  <1>1. ASSUME NEW l \in Lanes, NEW j \in Jobs, Executes(l, j)
        PROVE  db[j].state = lane[l].view /\ Owned(l, db[j]) /\ Holds(l, j)
    BY <1>1 DEF WorkerInv, LaneOK, HandOK, Executes, Owned, OwnStages, Holds, InScanLane, InEncodeLane,
       ControlActiveStates, BlockingStates
  <1>2. ASSUME NEW j \in Jobs, NEW k \in Jobs, Executes("prep", j), Executes("encode", k)
        PROVE  j # k /\ lane["prep"].view \notin EncodeHalf
    BY <1>1, <1>2, NoJobAssumption DEF WorkerInv, Apart, Lanes, Executes, Owned, OwnStages, EncodeHalf, BlockingStates
  <1>3. RefusalIsNotFailure
    BY DEF WorkerInv, LaneOK, HandOK, RefusalIsNotFailure
  <1> QED
    BY <1>1, <1>2, <1>3 DEF LanesAreSound, StageIsOwned

(* Whatever the operator and the service do, with any number of jobs: a      *)
(* stage runs only on the job whose lane it owns in the store, no job is in  *)
(* both lanes, and a refused commit is answered as the request it is, if no  *)
(* job is re-queued while a lane has it in hand.                             *)
THEOREM LanesHold ==
    ASSUME ~RequeueInHand
    PROVE  WorkerSpec => []LanesAreSound
  <1>1. WorkerInv /\ [WorkerNext]_wvars => WorkerInv'
    BY StepKeeps
  <1> QED
    BY <1>1, InitHolds, InvIsSound, PTL DEF WorkerSpec
=============================================================================
