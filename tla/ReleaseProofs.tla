--------------------------- MODULE ReleaseProofs ---------------------------
(* With any number of preparations and threads, whatever is lost, refused,   *)
(* deleted or recovered: an effect outside the machine happens at most once, *)
(* what says that it may have happened outlives everything but the deletion  *)
(* of the release, and the files stay where the work with them needs them.   *)
EXTENDS Release, FiniteSetTheorems, TLAPS

Effects == {"add", "publish"}

Receipt(r, e)   == IF e = "add" THEN r.seed ELSE r.pub
LeaseState(e)   == IF e = "add" THEN "SEEDING" ELSE "PUBLISHING"
ClosedStates(e) == IF e = "add" THEN {"UNKNOWN"} ELSE {"UNKNOWN", "PUBLISHED"}

\* The places of a thread that holds the lease, before and after it has sent.
Before(e) == IF e = "add" THEN {"seeding"} ELSE {"rechecking", "binding", "sending"}
Sent(e)   == IF e = "add" THEN "added" ELSE "published"
Holds(r, e) == r.at \in Before(e) \cup {Sent(e)}

\* The ledger of an effect, as the rows have it.
Leases(r, e) == r.state = LeaseState(e)
Closes(r, e) == r.state \in ClosedStates(e) \/ Receipt(r, e) \in {"accepted", "unknown"}
Leased(e) == \E p \in Preps : Leases(row[p], e)
Closed(e) == job # "completed" \/ \E p \in Preps : Closes(row[p], e)
Entry(e)  == IF Leased(e) THEN "leased" ELSE IF Closed(e) THEN "closed" ELSE "clear"

ReleaseTyped ==
    /\ row \in [Preps -> Row] /\ job \in {"completed", "tombstoned", "purged"}
    /\ thread \in [Threads -> ThreadRow]
    /\ service \in {"down", "recovering", "up"}
    /\ wire \in [Effects -> Nat] /\ effects \in [Effects -> Nat]

\* A row that is not there says nothing, and without the release there is none.
RowsOK ==
    /\ \A p \in Preps : row[p].state = NoPrep => row[p] = NoRow
    /\ job # "completed" => \A p \in Preps : row[p].state = NoPrep
    /\ \A e \in Effects, p, q \in Preps : Leases(row[p], e) /\ Leases(row[q], e) => p = q

\* What a row may be while a thread with a current copy of it is at a place.
StatesAt(at) ==
    CASE at = "build" -> {"NOT_PREPARED", "NEEDS_REVIEW", "FAILED"}
      [] at \in {"building", "built", "failed"} -> {"PREPARING"}
      [] at = "dupe" -> {"READY"}
      [] at = "duping" -> {"SEEDING_CHECK"}
      [] at = "seed" -> {"READY", "READY_TO_PUBLISH"}
      [] at \in {"seeding", "added"} -> {"SEEDING"}
      [] at = "publish" -> {"READY_TO_PUBLISH"}
      [] at \in {"rechecking", "binding", "sending", "published"} -> {"PUBLISHING"}

Working == {"build", "building", "built", "failed", "dupe", "duping", "seed", "seeding", "added",
            "publish", "rechecking", "binding", "sending", "published"}
Removing == {"begin", "stage", "commit"}

OutcomeIn(r) == \/ r.state \in External
                \/ r.seed \notin {"none", "rejected"} \/ r.pub \notin {"none", "rejected"}

\* A copy that is current is what the thread looked at when it began.
CopyOK(r, rows) ==
    /\ r.at \in Working => r.prep \in Preps
    /\ r.at \in {"seed", "seeding", "added"} => r.was \in {"READY", "READY_TO_PUBLISH"}
    /\ r.at \in Working /\ r.fresh => rows[r.prep].state \in StatesAt(r.at)
    /\ r.at \in Removing =>
         /\ r.op \in Operation /\ r.prep = r.op.subject
         /\ r.op.kind \in {"orphan", "delete"} => r.op.subject \in Preps
         /\ r.op.kind \in {"release", "purge"} => r.op.subject = Job
    /\ r.at \in Removing /\ r.fresh =>
         /\ r.op.kind = "delete" => ~OutcomeIn(rows[r.op.subject])
         /\ r.op.kind = "purge" => \A p \in Preps : ~OutcomeIn(rows[p])

\* Who holds a lease knows what became of its request.
HolderOK(r, e, rows, sent, done) ==
    /\ Holds(r, e) => r.prep \in Preps /\ Leases(rows[r.prep], e)
    /\ r.at \in Before(e) => sent[e] = 0 /\ done[e] = 0
    /\ r.at = Sent(e) =>
         /\ r.reply = "none" => sent[e] = 1 /\ done[e] = 0
         /\ r.reply = "refused" => sent[e] = 0 /\ done[e] = 0
         /\ r.reply = "accepted" => sent[e] = 0 /\ done[e] = 1

ThreadOK(r, rows, sent, done) ==
    /\ CopyOK(r, rows)
    /\ \A e \in Effects : HolderOK(r, e, rows, sent, done)
    /\ r.reply # "none" => r.at \in {"added", "published"}

ThreadsOK ==
    /\ \A t \in Threads : ThreadOK(thread[t], row, wire, effects)
    /\ \A t, u \in Threads, e \in Effects : Holds(thread[t], e) /\ Holds(thread[u], e) => t = u
    /\ service # "up" => \A t \in Threads : thread[t] = Resting

\* A request on its way, or an effect, is in the ledger.
LedgerOK ==
    \A e \in Effects :
        /\ wire[e] + effects[e] <= 1
        /\ wire[e] + effects[e] > 0 => Leased(e) \/ Closed(e)

ReleaseInv == ReleaseTyped /\ RowsOK /\ ThreadsOK /\ LedgerOK

-----------------------------------------------------------------------------
(* What a step does to the ledger of an effect                               *)

Moves(e) ==
    \/ UNCHANGED <<Entry(e), wire[e], effects[e]>>
    \/ Entry(e) = "clear" /\ Entry(e)' = "leased" /\ UNCHANGED <<wire[e], effects[e]>>
    \/ /\ Entry(e) = "leased" /\ wire[e] = 0 /\ effects[e] = 0 /\ wire'[e] = 1
       /\ UNCHANGED <<Entry(e), effects[e]>>
    \/ /\ wire[e] = 1 /\ wire'[e] = 0 /\ effects'[e] \in {effects[e], effects[e] + 1}
       /\ UNCHANGED Entry(e)
    \/ /\ Entry(e) = "leased" /\ wire[e] = 0 /\ effects[e] = 0 /\ Entry(e)' = "clear"
       /\ UNCHANGED <<wire[e], effects[e]>>
    \/ Entry(e) # "closed" /\ Entry(e)' = "closed" /\ UNCHANGED <<wire[e], effects[e]>>

Outlives == \A p \in Preps : OutcomeIn(row[p]) /\ row'[p].state = NoPrep => job' = "tombstoned"

StepOK == ReleaseInv' /\ (\A e \in Effects : Moves(e)) /\ Outlives

LEMMA NoRowFacts ==
    NoRow \in Row /\ NoRow.state = NoPrep /\ NoRow.seed = "none" /\ NoRow.pub = "none"
  BY DEF NoRow, Row, NoPrep, Outcome

LEMMA StateFacts ==
    /\ NoPrep \notin State
    /\ \A e \in Effects : /\ LeaseState(e) \in State /\ ClosedStates(e) \subseteq State
                          /\ LeaseState(e) \notin ClosedStates(e)
  BY DEF NoPrep, State, Active, Deletable, External, LeaseState, ClosedStates, Effects

\* A row that is not there has no outcome.
LEMMA OutcomeThere ==
    ASSUME ReleaseInv, NEW p \in Preps, OutcomeIn(row[p])
    PROVE  Exists(p)
  BY NoRowFacts DEF ReleaseInv, RowsOK, OutcomeIn, Exists, NoPrep, External

(* One row is written: it takes the lease of an effect only when the ledger  *)
(* is clear, gives it back only when nothing was sent, and stays closed.     *)
MayWrite(p, new) ==
    /\ new \in Row /\ new.state # NoPrep /\ job = "completed"
    /\ \A e \in Effects :
         /\ Leases(new, e) /\ ~Leases(row[p], e) => Entry(e) = "clear"
         /\ Leases(row[p], e) /\ ~Leases(new, e) /\ ~Closes(new, e) => wire[e] = 0 /\ effects[e] = 0
         /\ Closes(row[p], e) /\ ~Leases(row[p], e) => Closes(new, e)

LEMMA RowWritten ==
    ASSUME ReleaseInv, NEW p \in Preps, NEW new, MayWrite(p, new), row' = [row EXCEPT ![p] = new],
           UNCHANGED <<job, wire, effects>>
    PROVE  /\ row' \in [Preps -> Row] /\ RowsOK' /\ LedgerOK'
           /\ \A e \in Effects : Moves(e)
           /\ Outlives
  <1>1. /\ row' \in [Preps -> Row] /\ row'[p] = new
        /\ \A q \in Preps \ {p} : row'[q] = row[q]
    BY DEF ReleaseInv, ReleaseTyped, MayWrite
  <1>2. RowsOK'
    <2>1. \A q \in Preps : row'[q].state = NoPrep => row'[q] = NoRow
      BY <1>1 DEF ReleaseInv, RowsOK, MayWrite
    <2>2. ASSUME NEW e \in Effects, NEW q \in Preps, NEW s \in Preps,
                 Leases(row'[q], e), Leases(row'[s], e)
          PROVE  q = s
      BY <1>1, <2>2 DEF ReleaseInv, RowsOK, MayWrite, Entry, Leased
    <2> QED
      BY <2>1, <2>2 DEF RowsOK, MayWrite
  <1>3. ASSUME NEW e \in Effects
        PROVE  /\ Moves(e)
               /\ wire[e] + effects[e] > 0 => Leased(e)' \/ Closed(e)'
    <2>1. wire[e] \in Nat /\ effects[e] \in Nat /\ wire'[e] = wire[e] /\ effects'[e] = effects[e]
      BY DEF ReleaseInv, ReleaseTyped
    <2>2. Leased(e)' <=> Leases(new, e) \/ \E q \in Preps \ {p} : Leases(row[q], e)
      BY <1>1 DEF Leased
    <2>3. Leased(e) <=> Leases(row[p], e) \/ \E q \in Preps \ {p} : Leases(row[q], e)
      BY DEF Leased
    <2>4. Closed(e)' <=> Closes(new, e) \/ \E q \in Preps \ {p} : Closes(row[q], e)
      BY <1>1 DEF Closed, MayWrite
    <2>5. Closed(e) <=> Closes(row[p], e) \/ \E q \in Preps \ {p} : Closes(row[q], e)
      BY DEF Closed, MayWrite
    <2>6. Leases(row[p], e) => ~\E q \in Preps \ {p} : Leases(row[q], e)
      BY DEF ReleaseInv, RowsOK
    <2>7. wire[e] + effects[e] > 0 => Leased(e) \/ Closed(e)
      BY DEF ReleaseInv, LedgerOK
    <2>8. CASE Leases(new, e)
      BY <2>1, <2>2, <2>3, <2>5, <2>8 DEF Moves, Entry, MayWrite
    <2>9. CASE ~Leases(new, e) /\ Leases(row[p], e)
      BY <2>1, <2>2, <2>3, <2>4, <2>5, <2>6, <2>9 DEF Moves, Entry, MayWrite
    <2>10. CASE ~Leases(new, e) /\ ~Leases(row[p], e)
      BY <2>1, <2>2, <2>3, <2>4, <2>5, <2>7, <2>10 DEF Moves, Entry, MayWrite
    <2> QED
      BY <2>8, <2>9, <2>10
  <1>4. LedgerOK'
    BY <1>3 DEF ReleaseInv, LedgerOK
  <1>5. Outlives
    BY <1>1, OutcomeThere DEF Outlives, MayWrite, Exists
  <1> QED
    BY <1>1, <1>2, <1>3, <1>4, <1>5

-----------------------------------------------------------------------------
(* What a step does to the threads                                           *)

Lost(r) == [r EXCEPT !.fresh = FALSE]

LEMMA LostFacts ==
    ASSUME NEW r \in ThreadRow
    PROVE  /\ Lost(r) \in ThreadRow /\ ~Lost(r).fresh
           /\ Lost(r).at = r.at /\ Lost(r).prep = r.prep /\ Lost(r).was = r.was
           /\ Lost(r).reply = r.reply /\ Lost(r).op = r.op
  BY DEF Lost, ThreadRow

LEMMA RestingFacts ==
    /\ Resting \in ThreadRow /\ Resting.at = "idle" /\ Resting.reply = "none"
    /\ \A e \in Effects : ~Holds(Resting, e)
    /\ \A rows, sent, done : ThreadOK(Resting, rows, sent, done)
  <1>1. NoOp \in Operation \cup {NoOp} /\ NoPrep \in State \cup {NoPrep} /\ Job \in Preps \cup {Job}
    OBVIOUS
  <1>2. Resting \in ThreadRow /\ Resting.at = "idle" /\ Resting.reply = "none"
    BY <1>1 DEF Resting, ThreadRow
  <1>3. \A e \in Effects : ~Holds(Resting, e) /\ Resting.at \notin Before(e) /\ Resting.at # Sent(e)
    BY <1>2 DEF Holds, Before, Sent
  <1>4. Resting.at \notin Working \cup Removing \cup {"seed", "seeding", "added"}
    BY <1>2 DEF Working, Removing
  <1> QED
    BY <1>2, <1>3, <1>4 DEF ThreadOK, CopyOK, HolderOK

\* Thread t writes what it stands at; the others at most lose their copy.
LEMMA ThreadsWritten ==
    ASSUME ReleaseInv, NEW t \in Threads, NEW mine \in ThreadRow,
           thread' \in [Threads -> ThreadRow], thread'[t] = mine,
           \A u \in Threads \ {t} : thread'[u] \in {thread[u], Lost(thread[u])},
           \A u \in Threads \ {t} : ThreadOK(thread'[u], row', wire', effects'),
           ThreadOK(mine, row', wire', effects'),
           \A e \in Effects : Holds(mine, e) =>
               Holds(thread[t], e) \/ \A u \in Threads : ~Holds(thread[u], e),
           service = "up", service' = "up"
    PROVE  ThreadsOK'
  <1>1. ASSUME NEW u \in Threads \ {t}, NEW e \in Effects, Holds(thread'[u], e)
        PROVE  Holds(thread[u], e)
    BY <1>1, LostFacts DEF Holds, ReleaseInv, ReleaseTyped
  <1>2. \A u, v \in Threads, e \in Effects : Holds(thread'[u], e) /\ Holds(thread'[v], e) => u = v
    BY <1>1 DEF ReleaseInv, ThreadsOK
  <1> QED
    BY <1>2 DEF ThreadsOK

\* Nobody serves while the service is down.
LEMMA Serving ==
    ASSUME ReleaseInv, NEW t \in Threads, thread[t].at # "idle"
    PROVE  service = "up"
  BY RestingFacts DEF ReleaseInv, ThreadsOK

\* Who leases is the only one who can hold.
LEMMA HolderLeases ==
    ASSUME ReleaseInv, NEW t \in Threads, NEW e \in Effects, Holds(thread[t], e)
    PROVE  /\ thread[t].prep \in Preps /\ Leases(row[thread[t].prep], e)
           /\ Leased(e) /\ Entry(e) = "leased"
  BY DEF ReleaseInv, ThreadsOK, ThreadOK, HolderOK, Leased, Entry

(* A thread goes on without writing a row, and only who holds the lease      *)
(* touches the request.                                                      *)
LEMMA ThreadMoved ==
    ASSUME ReleaseInv, NEW t \in Threads, NEW mine \in ThreadRow,
           thread' = [thread EXCEPT ![t] = mine],
           ThreadOK(mine, row, wire', effects'),
           \A e \in Effects : Holds(mine, e) => Holds(thread[t], e),
           \A e \in Effects : wire'[e] # wire[e] \/ effects'[e] # effects[e] => Holds(thread[t], e),
           UNCHANGED <<row, service>>, service = "up"
    PROVE  thread' \in [Threads -> ThreadRow] /\ ThreadsOK'
  <1>1. /\ thread' \in [Threads -> ThreadRow] /\ thread'[t] = mine
        /\ \A u \in Threads \ {t} : thread'[u] = thread[u]
    BY DEF ReleaseInv, ReleaseTyped
  <1>2. ASSUME NEW u \in Threads \ {t} PROVE ThreadOK(thread[u], row, wire', effects')
    <2>1. ASSUME NEW e \in Effects PROVE HolderOK(thread[u], e, row, wire', effects')
      <3>1. HolderOK(thread[u], e, row, wire, effects)
        BY DEF ReleaseInv, ThreadsOK, ThreadOK
      <3>2. CASE Holds(thread[t], e)
        <4>1. ~Holds(thread[u], e)
          BY <3>2 DEF ReleaseInv, ThreadsOK
        <4> QED
          BY <4>1 DEF HolderOK, Holds
      <3>3. CASE wire'[e] = wire[e] /\ effects'[e] = effects[e]
        BY <3>1, <3>3 DEF HolderOK
      <3> QED
        BY <3>2, <3>3
    <2> QED
      BY <2>1 DEF ReleaseInv, ThreadsOK, ThreadOK
  <1> QED
    BY <1>1, <1>2, ThreadsWritten

\* The same with nothing but the thread and what no theorem here is about.
LEMMA ThreadOnly ==
    ASSUME ReleaseInv, NEW t \in Threads, NEW mine \in ThreadRow,
           thread' = [thread EXCEPT ![t] = mine],
           ThreadOK(mine, row, wire, effects),
           \A e \in Effects : Holds(mine, e) => Holds(thread[t], e),
           UNCHANGED <<row, job, service, wire, effects>>, service = "up"
    PROVE  StepOK
  <1>1. thread' \in [Threads -> ThreadRow] /\ ThreadsOK'
    BY ThreadMoved
  <1>2. RowsOK' /\ LedgerOK'
    BY DEF ReleaseInv, RowsOK, LedgerOK, Leased, Closed
  <1>3. \A e \in Effects : Moves(e)
    BY DEF Moves, Entry, Leased, Closed
  <1>4. Outlives
    BY OutcomeThere DEF Outlives, Exists
  <1> QED
    BY <1>1, <1>2, <1>3, <1>4 DEF StepOK, ReleaseInv, ReleaseTyped

(* After a write to row p, whoever had a copy of it has lost it, and nobody  *)
(* but t holds its lease.                                                    *)
LEMMA OthersLose ==
    ASSUME ReleaseInv, NEW p \in Preps, NEW new, row' = [row EXCEPT ![p] = new],
           UNCHANGED <<wire, effects>>, NEW u \in Threads,
           thread'[u] = IF thread[u].prep \in {p, Job} THEN Lost(thread[u]) ELSE thread[u],
           \A e \in Effects : Leases(row[p], e) => ~Holds(thread[u], e)
    PROVE  ThreadOK(thread'[u], row', wire', effects')
  <1>1. \A q \in Preps \ {p} : row'[q] = row[q]
    BY DEF ReleaseInv, ReleaseTyped
  <1>2. thread[u] \in ThreadRow /\ ThreadOK(thread[u], row, wire, effects)
    BY DEF ReleaseInv, ReleaseTyped, ThreadsOK
  <1>3. /\ thread'[u].at = thread[u].at /\ thread'[u].prep = thread[u].prep /\ thread'[u].was = thread[u].was
        /\ thread'[u].reply = thread[u].reply /\ thread'[u].op = thread[u].op
        /\ thread'[u].fresh => thread[u].fresh /\ thread[u].prep \notin {p, Job}
    BY <1>2, LostFacts
  <1>4. CopyOK(thread'[u], row')
    <2>1. thread[u].op.kind = "delete" /\ thread[u].at \in Removing => thread[u].op.subject \in Preps
      BY <1>2 DEF ThreadOK, CopyOK
    <2>2. thread[u].op.kind = "purge" /\ thread[u].at \in Removing => thread[u].prep = Job
      BY <1>2 DEF ThreadOK, CopyOK
    <2> QED
      BY <1>1, <1>2, <1>3, <2>1, <2>2 DEF ThreadOK, CopyOK
  <1>5. ASSUME NEW e \in Effects PROVE HolderOK(thread'[u], e, row', wire', effects')
    BY <1>1, <1>2, <1>3 DEF ThreadOK, HolderOK, Holds
  <1> QED
    BY <1>2, <1>3, <1>4, <1>5 DEF ThreadOK

\* One write of thread t to the row it works on.
LEMMA WriteKeeps ==
    ASSUME ReleaseInv, NEW t \in Threads, thread[t].at # "idle", thread[t].prep \in Preps,
           NEW new, MayWrite(thread[t].prep, new),
           NEW mine \in ThreadRow, PrepWritten(t, new, mine), UNCHANGED Local,
           ThreadOK(mine, row', wire', effects'),
           \A e \in Effects : Leases(row[thread[t].prep], e) => Holds(thread[t], e),
           \A e \in Effects : Holds(mine, e) => Holds(thread[t], e) \/ ~Leased(e)
    PROVE  StepOK
  <1> DEFINE p == thread[t].prep
  <1>1. /\ row' \in [Preps -> Row] /\ RowsOK' /\ LedgerOK' /\ Outlives
        /\ \A e \in Effects : Moves(e)
    BY RowWritten DEF PrepWritten, Local
  <1>2. /\ thread'[t] = mine
        /\ \A u \in Threads \ {t} :
             thread'[u] = IF thread[u].prep \in {p, Job} THEN Lost(thread[u]) ELSE thread[u]
    BY DEF PrepWritten, Stale, Lost
  <1>3. thread' \in [Threads -> ThreadRow]
    BY <1>2, LostFacts DEF PrepWritten, Stale, Lost, ReleaseInv, ReleaseTyped
  <1>4. ASSUME NEW u \in Threads \ {t} PROVE ThreadOK(thread'[u], row', wire', effects')
    <2>1. \A e \in Effects : Leases(row[p], e) => ~Holds(thread[u], e)
      BY DEF ReleaseInv, ThreadsOK
    <2> QED
      BY <1>2, <2>1, OthersLose DEF PrepWritten, Local
  <1>5. service = "up" /\ service' = "up"
    BY Serving DEF Local
  <1>6. ThreadsOK'
    <2>1. \A e \in Effects : Holds(mine, e) => Holds(thread[t], e) \/ \A u \in Threads : ~Holds(thread[u], e)
      BY HolderLeases
    <2>2. \A u \in Threads \ {t} : thread'[u] \in {thread[u], Lost(thread[u])}
      BY <1>2
    <2> QED
      BY <1>2, <1>3, <1>4, <1>5, <2>1, <2>2, ThreadsWritten
  <1> QED
    BY <1>1, <1>3, <1>6 DEF StepOK, ReleaseInv, ReleaseTyped, Local

\* The state of a row changes between states no effect leases or closes on.
LEMMA PlainMove ==
    ASSUME ReleaseInv, NEW p \in Preps, Exists(p), NEW s \in State,
           \A e \in Effects : /\ ~Leases(row[p], e) /\ s # LeaseState(e)
                              /\ row[p].state \in ClosedStates(e) => s \in ClosedStates(e)
    PROVE  /\ MayWrite(p, [row[p] EXCEPT !.state = s])
           /\ [row[p] EXCEPT !.state = s].state = s
  <1>1. row[p] \in Row
    BY DEF ReleaseInv, ReleaseTyped
  <1>2. /\ [row[p] EXCEPT !.state = s] \in Row /\ [row[p] EXCEPT !.state = s].state = s
        /\ \A e \in Effects : Receipt([row[p] EXCEPT !.state = s], e) = Receipt(row[p], e)
    BY <1>1 DEF Row, Receipt
  <1>3. job = "completed" /\ s # NoPrep
    BY StateFacts DEF ReleaseInv, RowsOK, Exists
  <1> QED
    BY <1>2, <1>3 DEF MayWrite, Leases, Closes

LEMMA AtFacts ==
    ASSUME ReleaseInv, NEW t \in Threads,
           NEW at \in {"building", "built", "failed", "duping", "seeding", "added", "rechecking",
                       "binding", "sending", "published", "stage", "commit", "finalize"}
    PROVE  /\ At(t, at) \in ThreadRow /\ At(t, at).at = at
           /\ At(t, at).prep = thread[t].prep /\ At(t, at).fresh = thread[t].fresh
           /\ At(t, at).was = thread[t].was /\ At(t, at).reply = thread[t].reply
           /\ At(t, at).op = thread[t].op
  BY DEF ReleaseInv, ReleaseTyped, ThreadRow, At

-----------------------------------------------------------------------------
(* Requests of the operator                                                  *)

LEMMA CreateKeeps ==
    ASSUME ReleaseInv, NEW p \in Preps, Create(p)
    PROVE  StepOK
  <1> DEFINE new == [NoRow EXCEPT !.state = "NOT_PREPARED"]
  <1>1. /\ new \in Row /\ new.state = "NOT_PREPARED" /\ new.state # NoPrep
        /\ \A e \in Effects : ~Leases(new, e)
    BY NoRowFacts DEF Row, State, Deletable, NoPrep, Leases, LeaseState
  <1>2. row[p] = NoRow /\ job = "completed" /\ row' = [row EXCEPT ![p] = new] /\ service = "up"
    BY DEF Create, PayloadBound, ReleaseInv, RowsOK
  <1>3. \A e \in Effects : ~Leases(row[p], e) /\ ~Closes(row[p], e)
    BY <1>2, NoRowFacts, StateFacts DEF Leases, Closes, Receipt
  <1>4. MayWrite(p, new)
    BY <1>1, <1>2, <1>3 DEF MayWrite
  <1> HIDE DEF new
  <1>5. UNCHANGED <<job, wire, effects, service>>
    BY DEF Create, Local
  <1>6. /\ row' \in [Preps -> Row] /\ RowsOK' /\ LedgerOK' /\ Outlives
        /\ \A e \in Effects : Moves(e)
    BY <1>2, <1>4, <1>5, RowWritten
  <1>7. thread' = [u \in Threads |-> IF thread[u].prep \in {p, Job} THEN Lost(thread[u]) ELSE thread[u]]
    BY DEF Create, Lost
  <1>8. thread' \in [Threads -> ThreadRow]
    BY <1>7, LostFacts DEF ReleaseInv, ReleaseTyped
  <1>9. \A u \in Threads : ThreadOK(thread'[u], row', wire', effects')
    BY <1>2, <1>3, <1>5, <1>7, OthersLose
  <1>10. \A u \in Threads, e \in Effects : Holds(thread'[u], e) => Holds(thread[u], e)
    BY <1>7, LostFacts DEF Holds, ReleaseInv, ReleaseTyped
  <1>11. ThreadsOK'
    BY <1>2, <1>5, <1>9, <1>10 DEF ReleaseInv, ThreadsOK
  <1> QED
    BY <1>5, <1>6, <1>8, <1>11 DEF StepOK, ReleaseInv, ReleaseTyped

Begun(at, p, was) == [Resting EXCEPT !.at = at, !.prep = p, !.fresh = TRUE, !.was = was]

LEMMA BegunFacts ==
    ASSUME NEW at \in {"build", "dupe", "seed", "publish"}, NEW p \in Preps,
           NEW was \in State \cup {NoPrep}
    PROVE  /\ Begun(at, p, was) \in ThreadRow
           /\ Begun(at, p, was).at = at /\ Begun(at, p, was).prep = p /\ Begun(at, p, was).was = was
           /\ Begun(at, p, was).reply = "none"
           /\ \A e \in Effects : ~Holds(Begun(at, p, was), e) /\ at \notin Before(e) /\ at # Sent(e)
  <1>1. /\ Begun(at, p, was) \in ThreadRow
        /\ Begun(at, p, was).at = at /\ Begun(at, p, was).prep = p /\ Begun(at, p, was).was = was
        /\ Begun(at, p, was).reply = Resting.reply
    BY RestingFacts DEF Begun, ThreadRow
  <1> QED
    BY <1>1, RestingFacts DEF Holds, Before, Sent, Effects

LEMMA BeginKeeps ==
    ASSUME ReleaseInv, NEW t \in Threads, NEW at \in {"build", "dupe", "seed", "publish"},
           NEW p \in Preps, NEW was \in State \cup {NoPrep}, Begin(t, at, p, was),
           UNCHANGED <<row, Local>>, row[p].state \in StatesAt(at),
           at = "seed" => was \in {"READY", "READY_TO_PUBLISH"}
    PROVE  StepOK
  <1>1. thread' = [thread EXCEPT ![t] = Begun(at, p, was)] /\ service = "up"
    BY DEF Begin, Begun
  <1> DEFINE mine == Begun(at, p, was)
  <1>2. /\ mine \in ThreadRow /\ mine.at = at /\ mine.prep = p /\ mine.was = was /\ mine.reply = "none"
        /\ \A e \in Effects : ~Holds(mine, e) /\ mine.at \notin Before(e) /\ mine.at # Sent(e)
    BY BegunFacts
  <1>3. thread' = [thread EXCEPT ![t] = mine]
    BY <1>1
  <1> HIDE DEF mine
  <1>4. CopyOK(mine, row)
    BY <1>2 DEF CopyOK, Removing, Working
  <1>5. ThreadOK(mine, row, wire, effects)
    BY <1>2, <1>4 DEF ThreadOK, HolderOK
  <1> QED
    BY <1>1, <1>2, <1>3, <1>5, ThreadOnly DEF Local

LEMMA TransitionFacts ==
    \A s \in State : "PREPARING" \in Transitions[s] => s \in {"NOT_PREPARED", "NEEDS_REVIEW", "FAILED"}
  BY DEF State, Active, Deletable, External, Transitions

LEMMA ThereIsState ==
    ASSUME ReleaseInv, NEW p \in Preps
    PROVE  /\ row[p] \in Row /\ row[p].state \in State \cup {NoPrep}
           /\ Exists(p) <=> row[p].state \in State
  BY StateFacts DEF ReleaseInv, ReleaseTyped, Row, Exists

LEMMA StartsKeep ==
    ASSUME ReleaseInv, NEW t \in Threads, NEW p \in Preps,
           StartBuild(t, p) \/ StartDupeCheck(t, p) \/ StartSeed(t, p) \/ StartPublish(t, p)
    PROVE  StepOK
  <1>1. CASE StartBuild(t, p)
    <2>1. row[p].state \in {"NOT_PREPARED", "NEEDS_REVIEW", "FAILED"}
      BY <1>1, TransitionFacts, ThereIsState DEF StartBuild
    <2>2. row[p].state \in StatesAt("build")
      BY <2>1 DEF StatesAt
    <2> QED
      BY <1>1, <2>2, BeginKeeps DEF StartBuild
  <1>2. CASE StartDupeCheck(t, p)
    BY <1>2, BeginKeeps DEF StartDupeCheck, StatesAt
  <1>3. CASE StartSeed(t, p)
    <2>1. row[p].state \in StatesAt("seed") /\ row[p].state \in State \cup {NoPrep}
      BY <1>3, ThereIsState DEF StartSeed, StatesAt
    <2> QED
      BY <1>3, <2>1, BeginKeeps DEF StartSeed
  <1>4. CASE StartPublish(t, p)
    BY <1>4, BeginKeeps DEF StartPublish, StatesAt
  <1> QED
    BY <1>1, <1>2, <1>3, <1>4

Begins(at, kind, subject, kits) ==
    [Resting EXCEPT !.at = at, !.prep = subject, !.fresh = TRUE,
                    !.op = [kind |-> kind, subject |-> subject, phase |-> "intent", kits |-> kits]]

LEMMA BeginsFacts ==
    ASSUME NEW at \in {"begin", "commit"}, NEW kind \in {"delete", "release", "purge"},
           NEW subject \in Preps \cup {Job}, NEW kits \in SUBSET Preps
    PROVE  LET r == Begins(at, kind, subject, kits) IN
           /\ r \in ThreadRow /\ r.at = at /\ r.prep = subject /\ r.reply = "none"
           /\ r.op.kind = kind /\ r.op.subject = subject /\ r.op \in Operation
           /\ \A e \in Effects : ~Holds(r, e) /\ r.at \notin Before(e) /\ r.at # Sent(e)
  <1> DEFINE r == Begins(at, kind, subject, kits)
             o == [kind |-> kind, subject |-> subject, phase |-> "intent", kits |-> kits]
  <1>1. o \in Operation
    BY DEF Operation
  <1>2. r = [Resting EXCEPT !.at = at, !.prep = subject, !.fresh = TRUE, !.op = o]
    BY DEF Begins
  <1>3. o.kind = kind /\ o.subject = subject
    OBVIOUS
  <1> HIDE DEF o, r
  <1>4. /\ r \in ThreadRow /\ r.at = at /\ r.prep = subject /\ r.op = o /\ r.reply = Resting.reply
    BY <1>1, <1>2, RestingFacts DEF ThreadRow
  <1>5. \A e \in Effects : ~Holds(r, e) /\ r.at \notin Before(e) /\ r.at # Sent(e)
    BY <1>4 DEF Holds, Before, Sent, Effects
  <1> QED
    BY <1>1, <1>3, <1>4, <1>5, RestingFacts DEF r

LEMMA BeginsKeeps ==
    ASSUME ReleaseInv, NEW t \in Threads, NEW kind \in {"delete", "release", "purge"},
           NEW subject \in Preps \cup {Job}, NEW kits \in SUBSET Preps, NEW needsOp,
           StartDestroy(t, kind, subject, kits, needsOp),
           kind = "delete" => subject \in Preps /\ ~OutcomeIn(row[subject]),
           kind \in {"release", "purge"} => subject = Job,
           kind = "purge" => \A p \in Preps : ~OutcomeIn(row[p])
    PROVE  StepOK
  <1> DEFINE at == IF needsOp THEN "begin" ELSE "commit"
             mine == Begins(at, kind, subject, kits)
  <1>1. thread' = [thread EXCEPT ![t] = mine] /\ service = "up"
    BY DEF StartDestroy, Begins
  <1>2. /\ mine \in ThreadRow /\ mine.at = at /\ mine.prep = subject /\ mine.reply = "none"
        /\ mine.op.kind = kind /\ mine.op.subject = subject /\ mine.op \in Operation
        /\ \A e \in Effects : ~Holds(mine, e) /\ mine.at \notin Before(e) /\ mine.at # Sent(e)
    BY BeginsFacts
  <1> HIDE DEF mine
  <1>3. ThreadOK(mine, row, wire, effects)
    BY <1>2 DEF ThreadOK, CopyOK, HolderOK, Removing, Working
  <1> QED
    BY <1>1, <1>2, <1>3, ThreadOnly DEF Local, StartDestroy

LEMMA RemovalsKeep ==
    ASSUME ReleaseInv, NEW t \in Threads,
           (\E p \in Preps : StartDelete(t, p)) \/ StartReleaseDelete(t) \/ StartPurge(t)
    PROVE  StepOK
  <1>1. ASSUME NEW p \in Preps, StartDelete(t, p) PROVE StepOK
    BY <1>1, BeginsKeeps DEF StartDelete, HasOutcome, OutcomeIn
  <1>2. CASE StartReleaseDelete(t)
    BY <1>2, BeginsKeeps DEF StartReleaseDelete, KitsOfJob, Rows
  <1>3. CASE StartPurge(t)
    <2>1. \A p \in Preps : ~OutcomeIn(row[p])
      BY <1>3, OutcomeThere DEF StartPurge, HasOutcome, OutcomeIn, Rows
    <2> QED
      BY <1>3, <2>1, BeginsKeeps DEF StartPurge, KitsOfJob, Rows
  <1> QED
    BY <1>1, <1>2, <1>3

-----------------------------------------------------------------------------
(* Building and checking for duplicates                                      *)

LEMMA RestKeeps ==
    ASSUME ReleaseInv, NEW t \in Threads, Rest(t), thread[t].at # "idle",
           UNCHANGED <<row, job, service, wire, effects>>
    PROVE  StepOK
  BY RestingFacts, Serving, ThreadOnly DEF Rest

LEMMA RefusedKeeps ==
    ASSUME ReleaseInv, NEW t \in Threads, NEW allowed, Refused(t, allowed), thread[t].at # "idle",
           UNCHANGED <<job, service, wire, effects>>
    PROVE  StepOK
  BY RestKeeps DEF Refused

\* What a thread with a current copy knows of its row.
LEMMA Known ==
    ASSUME ReleaseInv, NEW t \in Threads, thread[t].at \in Working, Current(t)
    PROVE  /\ thread[t].prep \in Preps /\ thread[t].at # "idle" /\ thread[t] \in ThreadRow
           /\ row[thread[t].prep] \in Row /\ Exists(thread[t].prep) /\ job = "completed"
           /\ row[thread[t].prep].state \in StatesAt(thread[t].at)
  <1>1. thread[t].prep \in Preps /\ row[thread[t].prep].state \in StatesAt(thread[t].at) /\ thread[t] \in ThreadRow
    BY DEF ReleaseInv, ReleaseTyped, ThreadsOK, ThreadOK, CopyOK, Current
  <1> QED
    BY <1>1 DEF ReleaseInv, ReleaseTyped, RowsOK, Current, Exists, Working

\* A step between states that lease nothing.
LEMMA PlainKeeps ==
    ASSUME ReleaseInv, NEW t \in Threads, thread[t].at \in Working, Current(t), NEW s \in State,
           NEW mine \in ThreadRow, PrepMoves(t, s, mine), UNCHANGED Local,
           \A e \in Effects : s # LeaseState(e),
           row[thread[t].prep].state \in
               {"NOT_PREPARED", "NEEDS_REVIEW", "FAILED", "PREPARING", "READY", "SEEDING_CHECK"},
           \A e \in Effects : ~Holds(mine, e) /\ mine.at \notin Before(e) /\ mine.at # Sent(e),
           mine.reply = "none",
           mine # Resting => /\ mine.at \in {"building", "duping"} /\ mine.prep = thread[t].prep
                             /\ s \in StatesAt(mine.at)
    PROVE  StepOK
  <1> DEFINE p == thread[t].prep
             new == [row[p] EXCEPT !.state = s]
  <1>1. p \in Preps /\ Exists(p) /\ row[p] \in Row /\ thread[t].at # "idle"
    BY Known
  <1>2. \A e \in Effects : ~Leases(row[p], e) /\ row[p].state \notin ClosedStates(e)
    BY DEF Leases, LeaseState, ClosedStates
  <1>3. MayWrite(p, new) /\ new.state = s
    BY <1>1, <1>2, PlainMove
  <1>4. PrepWritten(t, new, mine)
    BY DEF PrepMoves
  <1> HIDE DEF new
  <1>5. row'[p] = new
    BY <1>1, <1>4 DEF PrepWritten, ReleaseInv, ReleaseTyped
  <1>6. ThreadOK(mine, row', wire', effects')
    <2>1. CASE mine = Resting
      BY <2>1, RestingFacts
    <2>2. CASE mine # Resting
      <3>1. CopyOK(mine, row')
        BY <1>1, <1>3, <1>5, <2>2 DEF CopyOK, Working, Removing
      <3> QED
        BY <3>1 DEF ThreadOK, HolderOK
    <2> QED
      BY <2>1, <2>2
  <1> QED
    BY <1>1, <1>2, <1>3, <1>4, <1>6, WriteKeeps

LEMMA ClaimBuildKeeps ==
    ASSUME ReleaseInv, NEW t \in Threads, ClaimBuild(t)
    PROVE  StepOK
  <1>1. thread[t].at = "build" /\ thread[t].at \in Working /\ thread[t].at # "idle" /\ UNCHANGED Local
    BY DEF ClaimBuild, Working
  <1>2. CASE MayMove(t, "PREPARING") /\ PrepMoves(t, "PREPARING", At(t, "building"))
    <2>1. Current(t) /\ row[thread[t].prep].state \in {"NOT_PREPARED", "NEEDS_REVIEW", "FAILED"}
      BY <1>1, <1>2, Known DEF MayMove, StatesAt
    <2>2. thread[t].reply = "none"
      BY <1>1 DEF ReleaseInv, ThreadsOK, ThreadOK
    <2>3. /\ "PREPARING" \in State /\ "PREPARING" \in StatesAt("building")
          /\ \A e \in Effects : "PREPARING" # LeaseState(e)
      BY DEF State, Active, StatesAt, LeaseState
    <2>4. \A e \in Effects : ~Holds(At(t, "building"), e) /\ "building" \notin Before(e) /\ "building" # Sent(e)
      BY AtFacts DEF Holds, Before, Sent
    <2> QED
      BY <1>1, <1>2, <2>1, <2>2, <2>3, <2>4, AtFacts, PlainKeeps
  <1>3. CASE Refused(t, MayMove(t, "PREPARING"))
    BY <1>1, <1>3, RefusedKeeps DEF Local
  <1> QED
    BY <1>2, <1>3 DEF ClaimBuild

\* The build goes on with the same copy, or the handler reads the row again.
LEMMA BuildingKeeps ==
    ASSUME ReleaseInv, NEW t \in Threads, BuildKit(t) \/ BuildFails(t)
    PROVE  StepOK
  <1>1. thread[t].at \in {"building", "built"} /\ thread[t] \in ThreadRow /\ thread[t].at # "idle"
        /\ UNCHANGED <<row, job, service, wire, effects>>
    BY DEF BuildKit, BuildFails, Local, ReleaseInv, ReleaseTyped
  <1>2. thread[t].prep \in Preps /\ thread[t].reply = "none"
        /\ (thread[t].fresh => row[thread[t].prep].state = "PREPARING")
    BY <1>1 DEF ReleaseInv, ThreadsOK, ThreadOK, CopyOK, Working, StatesAt
  <1>3. service = "up"
    BY <1>1, Serving
  <1>4. ASSUME NEW mine \in ThreadRow, mine.at \in {"built", "failed"}, mine.prep = thread[t].prep,
               mine.reply = "none", mine.fresh => row[mine.prep].state = "PREPARING",
               thread' = [thread EXCEPT ![t] = mine]
        PROVE  StepOK
    <2>1. \A e \in Effects : ~Holds(mine, e) /\ mine.at \notin Before(e) /\ mine.at # Sent(e)
      BY <1>4 DEF Holds, Before, Sent
    <2>2. CopyOK(mine, row)
      BY <1>2, <1>4 DEF CopyOK, Working, Removing, StatesAt
    <2>3. ThreadOK(mine, row, wire, effects)
      BY <1>4, <2>1, <2>2 DEF ThreadOK, HolderOK
    <2> QED
      BY <1>1, <1>3, <1>4, <2>1, <2>3, ThreadOnly
  <1>5. CASE BuildKit(t)
    <2>1. thread' = [thread EXCEPT ![t] = At(t, "built")]
      BY <1>5 DEF BuildKit, Goto, At
    <2>2. /\ At(t, "built") \in ThreadRow /\ At(t, "built").at = "built"
          /\ At(t, "built").prep = thread[t].prep /\ At(t, "built").fresh = thread[t].fresh
          /\ At(t, "built").reply = thread[t].reply
      BY AtFacts
    <2> QED
      BY <1>2, <1>4, <2>1, <2>2
  <1>6. CASE BuildFails(t)
    <2>1. CASE row[thread[t].prep].state = "PREPARING"
      <3> DEFINE mine == [thread[t] EXCEPT !.at = "failed", !.fresh = TRUE]
      <3>1. thread' = [thread EXCEPT ![t] = mine]
        BY <1>6, <2>1 DEF BuildFails
      <3>2. mine \in ThreadRow /\ mine.at = "failed" /\ mine.prep = thread[t].prep /\ mine.reply = thread[t].reply
        BY <1>1 DEF ThreadRow
      <3> HIDE DEF mine
      <3> QED
        BY <1>2, <1>4, <2>1, <3>1, <3>2
    <2>2. CASE row[thread[t].prep].state # "PREPARING"
      BY <1>1, <1>6, <2>2, RestKeeps DEF BuildFails, Rest
    <2> QED
      BY <2>1, <2>2
  <1> QED
    BY <1>5, <1>6

LEMMA FinishBuildKeeps ==
    ASSUME ReleaseInv, NEW t \in Threads, FinishBuild(t)
    PROVE  StepOK
  <1> DEFINE p == thread[t].prep
             new == [row[p] EXCEPT !.state = "READY", !.kitPath = TRUE]
  <1>1. thread[t].at = "built" /\ thread[t].at \in Working /\ thread[t].at # "idle" /\ Current(t) /\ UNCHANGED Local
    BY DEF FinishBuild, MayMove, Working
  <1>2. p \in Preps /\ row[p] \in Row /\ row[p].state = "PREPARING" /\ job = "completed"
    BY <1>1, Known DEF StatesAt
  <1>3. /\ new \in Row /\ new.state = "READY" /\ new.seed = row[p].seed /\ new.pub = row[p].pub
    BY <1>2 DEF Row, State, Deletable
  <1>4. PrepWritten(t, new, Resting)
    BY DEF FinishBuild
  <1> HIDE DEF new
  <1>5. \A e \in Effects : ~Leases(row[p], e) /\ ~Leases(new, e) /\ (Closes(row[p], e) => Closes(new, e))
    BY <1>2, <1>3 DEF Leases, LeaseState, Closes, ClosedStates, Receipt
  <1>6. MayWrite(p, new)
    BY <1>2, <1>3, <1>5 DEF MayWrite, NoPrep
  <1> QED
    BY <1>1, <1>2, <1>4, <1>5, <1>6, RestingFacts, WriteKeeps

LEMMA CleanBuildKeeps ==
    ASSUME ReleaseInv, NEW t \in Threads, CleanBuild(t)
    PROVE  StepOK
  <1> DEFINE p == thread[t].prep
             o == [kind |-> "orphan", subject |-> p, phase |-> "intent", kits |-> {p}]
  <1>1. /\ thread[t].at = "failed" /\ thread[t].at \in Working /\ thread[t].at # "idle"
        /\ thread[t] \in ThreadRow /\ UNCHANGED <<job, kit, payload, service, wire, effects, crashes>>
    BY DEF CleanBuild, Working, ReleaseInv, ReleaseTyped
  <1>2. p \in Preps /\ thread[t].reply = "none"
    BY <1>1 DEF ReleaseInv, ThreadsOK, ThreadOK, CopyOK
  <1>3. CASE FailBuild(t, Resting) /\ UNCHANGED ops
    <2>1. Current(t) /\ row[p].state = "PREPARING" /\ PrepMoves(t, "FAILED", Resting) /\ UNCHANGED Local
      BY <1>1, <1>3 DEF FailBuild, Local
    <2>2. "FAILED" \in State /\ \A e \in Effects : "FAILED" # LeaseState(e)
      BY DEF State, Deletable, LeaseState
    <2>3. \A e \in Effects : ~Holds(Resting, e) /\ Resting.at \notin Before(e) /\ Resting.at # Sent(e)
      BY RestingFacts DEF Before, Sent
    <2> QED
      BY <1>1, <2>1, <2>2, <2>3, RestingFacts, PlainKeeps
  <1>4. CASE thread' = [thread EXCEPT ![t].at = "stage", ![t].op = o] /\ UNCHANGED row
    <2> DEFINE mine == [thread[t] EXCEPT !.at = "stage", !.op = o]
    <2>1. o \in Operation /\ o.kind = "orphan" /\ o.subject = p
      BY <1>2 DEF Operation
    <2>2. thread' = [thread EXCEPT ![t] = mine]
      BY <1>4
    <2> HIDE DEF o
    <2>3. mine \in ThreadRow /\ mine.at = "stage" /\ mine.prep = p /\ mine.op = o /\ mine.reply = "none"
      BY <1>1, <1>2, <2>1 DEF ThreadRow
    <2> HIDE DEF mine
    <2>4. \A e \in Effects : ~Holds(mine, e) /\ mine.at \notin Before(e) /\ mine.at # Sent(e)
      BY <2>3 DEF Holds, Before, Sent
    <2>5. ThreadOK(mine, row, wire, effects)
      BY <1>2, <2>1, <2>3, <2>4 DEF ThreadOK, CopyOK, HolderOK, Working, Removing
    <2> QED
      BY <1>1, <1>4, <2>2, <2>3, <2>4, <2>5, Serving, ThreadOnly
  <1>5. CASE Rest(t) /\ UNCHANGED row
    BY <1>1, <1>5, RestKeeps
  <1> QED
    BY <1>3, <1>4, <1>5 DEF CleanBuild, Refused

LEMMA DupeCheckKeeps ==
    ASSUME ReleaseInv, NEW t \in Threads, ClaimDupeCheck(t) \/ FinishDupeCheck(t)
    PROVE  StepOK
  <1>1. thread[t].at \in {"dupe", "duping"} /\ thread[t].at \in Working /\ thread[t].at # "idle" /\ UNCHANGED Local
    BY DEF ClaimDupeCheck, FinishDupeCheck, Working
  <1>2. thread[t].reply = "none"
    BY <1>1 DEF ReleaseInv, ThreadsOK, ThreadOK
  <1>3. CASE ClaimDupeCheck(t) /\ MayMove(t, "SEEDING_CHECK") /\ PrepMoves(t, "SEEDING_CHECK", At(t, "duping"))
    <2>1. Current(t) /\ row[thread[t].prep].state = "READY"
      BY <1>1, <1>3, Known DEF MayMove, StatesAt, ClaimDupeCheck
    <2>2. /\ "SEEDING_CHECK" \in State /\ "SEEDING_CHECK" \in StatesAt("duping")
          /\ \A e \in Effects : "SEEDING_CHECK" # LeaseState(e)
      BY DEF State, Active, StatesAt, LeaseState
    <2>3. \A e \in Effects : ~Holds(At(t, "duping"), e) /\ "duping" \notin Before(e) /\ "duping" # Sent(e)
      BY AtFacts DEF Holds, Before, Sent
    <2> QED
      BY <1>1, <1>2, <1>3, <2>1, <2>2, <2>3, AtFacts, PlainKeeps
  <1>4. ASSUME NEW target \in {"READY_TO_PUBLISH", "NEEDS_REVIEW", "UNKNOWN"}, FinishDupeCheck(t),
               MayMove(t, target), PrepMoves(t, target, Resting)
        PROVE  StepOK
    <2>1. Current(t) /\ row[thread[t].prep].state = "SEEDING_CHECK"
      BY <1>1, <1>4, Known DEF MayMove, StatesAt, FinishDupeCheck
    <2>2. target \in State /\ \A e \in Effects : target # LeaseState(e)
      BY <1>4 DEF State, Deletable, External, LeaseState
    <2>3. \A e \in Effects : ~Holds(Resting, e) /\ Resting.at \notin Before(e) /\ Resting.at # Sent(e)
      BY RestingFacts DEF Before, Sent
    <2> QED
      BY <1>1, <1>4, <2>1, <2>2, <2>3, RestingFacts, PlainKeeps
  <1>5. ASSUME NEW allowed, Refused(t, allowed) PROVE StepOK
    BY <1>1, <1>5, RefusedKeeps DEF Local
  <1> QED
    BY <1>3, <1>4, <1>5 DEF ClaimDupeCheck, FinishDupeCheck

-----------------------------------------------------------------------------
(* Working with a remote system                                              *)

\* The holder of a lease gives it back, or closes the ledger with it.
LEMMA HolderWrites ==
    ASSUME ReleaseInv, NEW t \in Threads, NEW e \in Effects, Holds(thread[t], e), Current(t),
           NEW new \in Row, new.state \notin {NoPrep, "SEEDING", "PUBLISHING"},
           \A f \in Effects \ {e} : Receipt(new, f) = Receipt(row[thread[t].prep], f),
           Closes(new, e) \/ (wire[e] = 0 /\ effects[e] = 0),
           PrepWritten(t, new, Resting), UNCHANGED Local
    PROVE  StepOK
  <1> DEFINE p == thread[t].prep
  <1>1. /\ p \in Preps /\ Leases(row[p], e) /\ thread[t].at # "idle"
        /\ job = "completed"
    BY HolderLeases DEF Holds, Before, Sent, Current, Exists, ReleaseInv, RowsOK
  <1>2. \A f \in Effects : ~Leases(new, f)
    BY DEF Leases, LeaseState
  <1>3. \A f \in Effects \ {e} : ~Leases(row[p], f) /\ row[p].state \notin ClosedStates(f)
    BY <1>1 DEF Leases, LeaseState, ClosedStates, Effects
  <1>4. MayWrite(p, new)
    BY <1>1, <1>2, <1>3 DEF MayWrite, Closes
  <1>5. \A f \in Effects : Leases(row[p], f) => Holds(thread[t], f)
    BY <1>3
  <1> QED
    BY <1>1, <1>4, <1>5, RestingFacts, WriteKeeps

(* A thread takes the lease of an effect the ledger says nothing of.         *)
LEMMA HolderClaims ==
    ASSUME ReleaseInv, NEW t \in Threads, NEW e \in Effects, thread[t].at \in {"seed", "publish"},
           Current(t), row[thread[t].prep].state \in {"READY", "READY_TO_PUBLISH"},
           NEW at, e = "add" => at = "seeding", e = "publish" => at = "rechecking",
           thread[t].at = "publish" <=> e = "publish",
           PrepMoves(t, LeaseState(e), At(t, at)), UNCHANGED Local,
           Entry(e) = "clear"
    PROVE  StepOK
  <1> DEFINE p == thread[t].prep
             new == [row[p] EXCEPT !.state = LeaseState(e)]
             mine == At(t, at)
  <1>1. thread[t].at \in Working
    BY DEF Working
  <1>2. /\ p \in Preps /\ row[p] \in Row /\ job = "completed" /\ thread[t].at # "idle"
        /\ thread[t].reply = "none"
    BY <1>1, Known DEF ReleaseInv, ThreadsOK, ThreadOK
  <1>3. /\ new \in Row /\ new.state = LeaseState(e) /\ new.seed = row[p].seed /\ new.pub = row[p].pub
    BY <1>2, StateFacts DEF Row
  <1>4. PrepWritten(t, new, mine)
    BY DEF PrepMoves
  <1>5. /\ mine \in ThreadRow /\ mine.at = at /\ mine.prep = p /\ mine.was = thread[t].was /\ mine.reply = "none"
    BY <1>2, AtFacts DEF Effects
  <1>6. e = "add" => mine.was \in {"READY", "READY_TO_PUBLISH"}
    BY <1>5 DEF ReleaseInv, ThreadsOK, ThreadOK, CopyOK, Effects
  <1> HIDE DEF new, mine
  <1>7. /\ Leases(new, e) /\ \A f \in Effects \ {e} : ~Leases(new, f)
        /\ \A f \in Effects : ~Leases(row[p], f) /\ row[p].state \notin ClosedStates(f)
    BY <1>3 DEF Leases, LeaseState, ClosedStates, Effects
  <1>8. \A f \in Effects : Closes(row[p], f) => Closes(new, f)
    BY <1>3, <1>7 DEF Closes, Receipt
  <1>9. MayWrite(p, new)
    BY <1>2, <1>3, <1>7, <1>8, StateFacts DEF MayWrite
  <1>10. wire[e] = 0 /\ effects[e] = 0 /\ UNCHANGED <<wire, effects>>
    BY DEF ReleaseInv, ReleaseTyped, LedgerOK, Entry, Local
  <1>11. row'[p] = new
    BY <1>2, <1>4 DEF PrepWritten, ReleaseInv, ReleaseTyped
  <1>12. /\ at \in {"seeding", "rechecking"}
         /\ \A f \in Effects : Holds(mine, f) => f = e
         /\ \A f \in Effects : at \in Before(f) => f = e
         /\ \A f \in Effects : at # Sent(f)
    BY <1>5 DEF Holds, Before, Sent, Effects
  <1>13. CopyOK(mine, row')
    BY <1>2, <1>3, <1>5, <1>6, <1>11, <1>12 DEF CopyOK, Working, Removing, StatesAt, LeaseState, Effects
  <1>14. \A f \in Effects : HolderOK(mine, f, row', wire', effects')
    BY <1>2, <1>5, <1>7, <1>10, <1>11, <1>12 DEF HolderOK
  <1>15. ThreadOK(mine, row', wire', effects')
    BY <1>5, <1>13, <1>14 DEF ThreadOK
  <1>16. \A f \in Effects : Holds(mine, f) => ~Leased(f)
    BY <1>12 DEF Entry
  <1> QED
    BY <1>2, <1>4, <1>5, <1>7, <1>9, <1>15, <1>16, WriteKeeps

LEMMA ClaimsKeep ==
    ASSUME ReleaseInv, NEW t \in Threads, ClaimSeeding(t) \/ ClaimPublication(t)
    PROVE  StepOK
  <1>1. thread[t].at \in {"seed", "publish"} /\ thread[t].at \in Working /\ thread[t].at # "idle" /\ UNCHANGED Local
    BY DEF ClaimSeeding, ClaimPublication, Working
  <1>2. CASE ClaimSeeding(t) /\ MaySeed(t) /\ PrepMoves(t, "SEEDING", At(t, "seeding"))
    <2>1. Current(t) /\ row[thread[t].prep].state \in {"READY", "READY_TO_PUBLISH"}
      BY <1>2 DEF MaySeed
    <2>2. job = "completed" /\ thread[t].prep \in Preps
      BY <1>1, <2>1, Known
    <2>3. ~Leased("add") /\ ~Closed("add")
      BY <1>2, <2>1, <2>2 DEF MaySeed, Leased, Leases, LeaseState, Closed, Closes, ClosedStates, Receipt
    <2>4. Entry("add") = "clear" /\ "add" \in Effects /\ LeaseState("add") = "SEEDING" /\ thread[t].at = "seed"
      BY <1>2, <2>3 DEF Entry, Effects, LeaseState, ClaimSeeding
    <2> QED
      BY <1>1, <1>2, <2>1, <2>4, HolderClaims
  <1>3. CASE ClaimPublication(t) /\ MayPublish(t) /\ PrepMoves(t, "PUBLISHING", At(t, "rechecking"))
    <2>1. Current(t) /\ row[thread[t].prep].state = "READY_TO_PUBLISH"
      BY <1>3 DEF MayPublish
    <2>2. job = "completed" /\ thread[t].prep \in Preps
      BY <1>1, <2>1, Known
    <2>3. ~Leased("publish") /\ ~Closed("publish")
      BY <1>3, <2>1, <2>2 DEF MayPublish, Leased, Leases, LeaseState, Closed, Closes, ClosedStates, Receipt
    <2>4. /\ Entry("publish") = "clear" /\ "publish" \in Effects /\ LeaseState("publish") = "PUBLISHING"
          /\ thread[t].at = "publish"
      BY <1>3, <2>3 DEF Entry, Effects, LeaseState, ClaimPublication
    <2> QED
      BY <1>1, <1>3, <2>1, <2>4, HolderClaims
  <1>4. ASSUME NEW allowed, Refused(t, allowed) PROVE StepOK
    BY <1>1, <1>4, RefusedKeeps DEF Local
  <1> QED
    BY <1>2, <1>3, <1>4 DEF ClaimSeeding, ClaimPublication

\* The request leaves: the only one, under the lease.
LEMMA SendKeeps ==
    ASSUME ReleaseInv, NEW t \in Threads, NEW e \in Effects, thread[t].at \in Before(e),
           Send(t, e, Sent(e))
    PROVE  StepOK
  <1> DEFINE mine == At(t, Sent(e))
  <1>1. /\ thread[t].at # "idle" /\ thread[t].at \in Working /\ thread[t].reply = "none" /\ Holds(thread[t], e)
        /\ ThreadOK(thread[t], row, wire, effects) /\ wire[e] = 0 /\ effects[e] = 0
    BY DEF Before, Working, ReleaseInv, ThreadsOK, ThreadOK, HolderOK, Holds
  <1>2. /\ mine \in ThreadRow /\ mine.at = Sent(e) /\ mine.prep = thread[t].prep /\ mine.fresh = thread[t].fresh
        /\ mine.was = thread[t].was /\ mine.reply = "none"
    BY <1>1, AtFacts DEF Sent
  <1>3. thread' = [thread EXCEPT ![t] = mine] /\ UNCHANGED <<row, job, service, effects>>
        /\ wire' = [wire EXCEPT ![e] = wire[e] + 1]
    BY DEF Send, Goto, At
  <1>4. /\ wire' \in [Effects -> Nat] /\ wire'[e] = 1 /\ \A f \in Effects \ {e} : wire'[f] = wire[f]
    BY <1>1, <1>3 DEF ReleaseInv, ReleaseTyped
  <1> HIDE DEF mine
  <1>5. /\ \A f \in Effects : Holds(mine, f) => f = e
        /\ Holds(mine, e) /\ \A f \in Effects : Sent(e) \notin Before(f)
        /\ Sent(e) \in {"added", "published"}
    BY <1>2 DEF Holds, Before, Sent, Effects
  <1>6. CopyOK(mine, row)
    <2>1. Sent(e) \in Working /\ Sent(e) \notin Removing /\ StatesAt(Sent(e)) = StatesAt(thread[t].at)
      BY DEF Sent, Before, Working, Removing, StatesAt
    <2>2. Sent(e) \in {"seed", "seeding", "added"} => thread[t].at = "seeding"
      BY DEF Sent, Before
    <2> QED
      BY <1>1, <1>2, <2>1, <2>2 DEF CopyOK, ThreadOK
  <1>7. \A f \in Effects : HolderOK(mine, f, row, wire', effects')
    BY <1>1, <1>2, <1>3, <1>4, <1>5 DEF HolderOK, ThreadOK, Holds
  <1>8. ThreadOK(mine, row, wire', effects')
    BY <1>2, <1>5, <1>6, <1>7 DEF ThreadOK
  <1>9. thread' \in [Threads -> ThreadRow] /\ ThreadsOK'
    BY <1>1, <1>2, <1>3, <1>4, <1>5, <1>8, Serving, ThreadMoved
  <1>10. Entry(e) = "leased" /\ Leased(e)
    BY <1>1, HolderLeases
  <1>11. \A f \in Effects : Moves(f)
    BY <1>1, <1>3, <1>4, <1>10 DEF Moves, Entry, Leased, Closed
  <1>12. RowsOK' /\ LedgerOK'
    BY <1>1, <1>3, <1>4, <1>10 DEF ReleaseInv, RowsOK, LedgerOK, Leased, Closed
  <1>13. Outlives
    BY <1>3, OutcomeThere DEF Outlives, Exists
  <1> QED
    BY <1>3, <1>4, <1>9, <1>11, <1>12, <1>13 DEF StepOK, ReleaseInv, ReleaseTyped

LEMMA SendsKeep ==
    ASSUME ReleaseInv, NEW t \in Threads, SendAdd(t) \/ SendPublication(t)
    PROVE  StepOK
  <1>1. CASE SendAdd(t)
    BY <1>1, SendKeeps DEF SendAdd, Effects, Before, Sent
  <1>2. CASE SendPublication(t)
    BY <1>2, SendKeeps DEF SendPublication, Effects, Before, Sent
  <1> QED
    BY <1>1, <1>2

\* Rejected means that the remote system has refused it.
LEMMA RefusedWithoutEffect ==
    ASSUME ReleaseInv, NEW t \in Threads, NEW e \in Effects, Holds(thread[t], e),
           thread[t].reply = "refused"
    PROVE  wire[e] = 0 /\ effects[e] = 0
  BY DEF ReleaseInv, ThreadsOK, ThreadOK, HolderOK, Holds

LEMMA RecordSeedKeeps ==
    ASSUME ReleaseInv, NEW t \in Threads, RecordSeed(t)
    PROVE  StepOK
  <1>1. /\ thread[t].at \in {"seeding", "added"} /\ thread[t].at # "idle" /\ thread[t].at \in Working
        /\ Holds(thread[t], "add") /\ "add" \in Effects /\ UNCHANGED Local
    BY DEF RecordSeed, Holds, Before, Sent, Effects, Working
  <1>2. ASSUME NEW outcome \in AddOutcomes(t), NEW target, MayMove(t, target),
               target = IF outcome = "unknown" THEN "UNKNOWN" ELSE thread[t].was,
               PrepWritten(t, [row[thread[t].prep] EXCEPT !.state = target, !.seed = outcome], Resting)
        PROVE  StepOK
    <2> DEFINE p == thread[t].prep
               new == [row[p] EXCEPT !.state = target, !.seed = outcome]
    <2>1. Current(t) /\ row[p] \in Row
      BY <1>1, <1>2, Known DEF MayMove
    <2>2. target \in {"UNKNOWN", "READY", "READY_TO_PUBLISH"} /\ target \in State
      BY <1>1, <1>2 DEF ReleaseInv, ThreadsOK, ThreadOK, CopyOK, State, External, Deletable
    <2>3. outcome \in {"unknown", "accepted", "rejected"} /\ outcome \in Outcome
      BY <1>2 DEF AddOutcomes, Outcome
    <2>4. new \in Row /\ new.state = target /\ new.seed = outcome /\ new.pub = row[p].pub
      BY <2>1, <2>2, <2>3 DEF Row
    <2>5. PrepWritten(t, new, Resting)
      BY <1>2
    <2> HIDE DEF new
    <2>6. Closes(new, "add") \/ (wire["add"] = 0 /\ effects["add"] = 0)
      <3>1. CASE outcome = "rejected"
        BY <1>1, <1>2, <3>1, RefusedWithoutEffect DEF AddOutcomes
      <3>2. CASE outcome # "rejected"
        BY <2>3, <2>4, <3>2 DEF Closes, Receipt
      <3> QED
        BY <3>1, <3>2
    <2>7. \A f \in Effects \ {"add"} : Receipt(new, f) = Receipt(row[p], f)
      BY <2>4 DEF Receipt, Effects
    <2>8. new.state \notin {NoPrep, "SEEDING", "PUBLISHING"}
      BY <2>2, <2>4 DEF NoPrep
    <2> QED
      BY <1>1, <2>1, <2>4, <2>5, <2>6, <2>7, <2>8, HolderWrites
  <1>3. ASSUME NEW allowed, Refused(t, allowed) PROVE StepOK
    BY <1>1, <1>3, RefusedKeeps DEF Local
  <1> QED
    BY <1>2, <1>3 DEF RecordSeed

LEMMA RecordPublicationKeeps ==
    ASSUME ReleaseInv, NEW t \in Threads, RecordPublication(t)
    PROVE  StepOK
  <1>1. /\ thread[t].at \in {"sending", "published"} /\ thread[t].at # "idle" /\ thread[t].at \in Working
        /\ Holds(thread[t], "publish") /\ "publish" \in Effects /\ UNCHANGED Local
    BY DEF RecordPublication, Holds, Before, Sent, Effects, Working
  <1>2. ASSUME NEW outcome \in PublicationOutcomes(t), NEW target, MayMove(t, target),
               target = PublicationTarget(outcome),
               PrepWritten(t, [row[thread[t].prep] EXCEPT !.state = target, !.pub = outcome], Resting)
        PROVE  StepOK
    <2> DEFINE p == thread[t].prep
               new == [row[p] EXCEPT !.state = target, !.pub = outcome]
    <2>1. Current(t) /\ row[p] \in Row
      BY <1>1, <1>2, Known DEF MayMove
    <2>2. outcome \in {"unknown", "accepted", "rejected"} /\ outcome \in Outcome
      BY <1>2 DEF PublicationOutcomes, Outcome
    <2>3. target \in {"UNKNOWN", "PUBLISHED", "FAILED"} /\ target \in State
      BY <1>2, <2>2 DEF PublicationTarget, State, External, Deletable
    <2>4. new \in Row /\ new.state = target /\ new.pub = outcome /\ new.seed = row[p].seed
      BY <2>1, <2>2, <2>3 DEF Row
    <2>5. PrepWritten(t, new, Resting)
      BY <1>2
    <2> HIDE DEF new
    <2>6. Closes(new, "publish") \/ (wire["publish"] = 0 /\ effects["publish"] = 0)
      <3>1. CASE outcome = "rejected"
        BY <1>1, <1>2, <3>1, RefusedWithoutEffect DEF PublicationOutcomes
      <3>2. CASE outcome # "rejected"
        BY <2>2, <2>4, <3>2 DEF Closes, Receipt
      <3> QED
        BY <3>1, <3>2
    <2>7. \A f \in Effects \ {"publish"} : Receipt(new, f) = Receipt(row[p], f)
      BY <2>4 DEF Receipt, Effects
    <2>8. new.state \notin {NoPrep, "SEEDING", "PUBLISHING"}
      BY <2>3, <2>4 DEF NoPrep
    <2> QED
      BY <1>1, <2>1, <2>4, <2>5, <2>6, <2>7, <2>8, HolderWrites
  <1>3. ASSUME NEW allowed, Refused(t, allowed) PROVE StepOK
    BY <1>1, <1>3, RefusedKeeps DEF Local
  <1> QED
    BY <1>2, <1>3 DEF RecordPublication

\* The holder has not sent anything yet.
LEMMA BeforeFacts ==
    ASSUME ReleaseInv, NEW t \in Threads, thread[t].at \in {"rechecking", "binding"}
    PROVE  /\ Holds(thread[t], "publish") /\ wire["publish"] = 0 /\ effects["publish"] = 0
           /\ "publish" \in Effects /\ thread[t].at # "idle" /\ thread[t].at \in Working
           /\ thread[t].reply = "none" /\ thread[t].prep \in Preps /\ thread[t] \in ThreadRow
           /\ \A f \in Effects : Holds(thread[t], f) => f = "publish"
  BY DEF Holds, Before, Sent, Effects, Working, ReleaseInv, ReleaseTyped, ThreadsOK, ThreadOK, HolderOK, CopyOK

\* Without a request the lease goes back.
LEMMA LeaseReturned ==
    ASSUME ReleaseInv, NEW t \in Threads, thread[t].at \in {"rechecking", "binding"},
           NEW target \in {"NEEDS_REVIEW", "UNKNOWN", "FAILED"}, MayMove(t, target),
           PrepMoves(t, target, Resting), UNCHANGED Local
    PROVE  StepOK
  <1> DEFINE p == thread[t].prep
             new == [row[p] EXCEPT !.state = target]
  <1>1. Current(t) /\ row[p] \in Row
    BY BeforeFacts, Known DEF MayMove
  <1>2. target \in State /\ target \notin {NoPrep, "SEEDING", "PUBLISHING"}
    BY DEF State, External, Deletable, NoPrep
  <1>3. new \in Row /\ new.state = target /\ new.seed = row[p].seed
    BY <1>1, <1>2 DEF Row
  <1>4. PrepWritten(t, new, Resting)
    BY DEF PrepMoves
  <1> HIDE DEF new
  <1>5. \A f \in Effects \ {"publish"} : Receipt(new, f) = Receipt(row[p], f)
    BY <1>3 DEF Receipt, Effects
  <1> QED
    BY <1>1, <1>2, <1>3, <1>4, <1>5, BeforeFacts, HolderWrites

LEMMA RecheckKeeps ==
    ASSUME ReleaseInv, NEW t \in Threads, Recheck(t)
    PROVE  StepOK
  <1>1. thread[t].at = "rechecking" /\ UNCHANGED Local
    BY DEF Recheck
  <1>2. CASE MayMove(t, "PUBLISHING") /\ PrepMoves(t, "PUBLISHING", At(t, "binding"))
    <2> DEFINE p == thread[t].prep
               new == [row[p] EXCEPT !.state = "PUBLISHING"]
               mine == At(t, "binding")
    <2>1. /\ Current(t) /\ row[p] \in Row /\ row[p].state = "PUBLISHING" /\ p \in Preps
          /\ job = "completed" /\ thread[t].reply = "none" /\ thread[t].at # "idle"
      BY <1>1, <1>2, BeforeFacts, Known DEF MayMove, StatesAt
    <2>2. new \in Row /\ new.state = row[p].state /\ new.seed = row[p].seed /\ new.pub = row[p].pub
      BY <2>1 DEF Row
    <2>3. PrepWritten(t, new, mine)
      BY <1>2 DEF PrepMoves
    <2>4. /\ mine \in ThreadRow /\ mine.at = "binding" /\ mine.prep = p /\ mine.reply = "none"
      BY <2>1, AtFacts
    <2> HIDE DEF new, mine
    <2>5. \A f \in Effects : /\ Leases(new, f) <=> Leases(row[p], f)
                             /\ Closes(new, f) <=> Closes(row[p], f)
      BY <2>2 DEF Leases, Closes, Receipt
    <2>6. MayWrite(p, new)
      BY <2>1, <2>2, <2>5 DEF MayWrite, NoPrep
    <2>7. row'[p] = new
      BY <2>1, <2>3 DEF PrepWritten, ReleaseInv, ReleaseTyped
    <2>8. /\ \A f \in Effects : Holds(mine, f) => f = "publish"
          /\ \A f \in Effects : "binding" \in Before(f) => f = "publish"
          /\ \A f \in Effects : "binding" # Sent(f)
      BY <2>4 DEF Holds, Before, Sent, Effects
    <2>9. CopyOK(mine, row')
      BY <2>1, <2>2, <2>4, <2>7 DEF CopyOK, Working, Removing, StatesAt
    <2>10. \A f \in Effects : HolderOK(mine, f, row', wire', effects')
      BY <1>1, <2>1, <2>2, <2>4, <2>7, <2>8, BeforeFacts DEF HolderOK, Leases, LeaseState, Local
    <2>11. ThreadOK(mine, row', wire', effects')
      BY <2>4, <2>9, <2>10 DEF ThreadOK
    <2>12. \A f \in Effects : Leases(row[p], f) => Holds(thread[t], f)
      BY <1>1, <2>1, BeforeFacts DEF Leases, LeaseState, Effects
    <2>13. \A f \in Effects : Holds(mine, f) => Holds(thread[t], f)
      BY <1>1, <2>8, BeforeFacts
    <2> QED
      BY <1>1, <2>1, <2>3, <2>4, <2>6, <2>11, <2>12, <2>13, WriteKeeps
  <1>3. ASSUME NEW target \in {"NEEDS_REVIEW", "UNKNOWN"}, MayMove(t, target), PrepMoves(t, target, Resting)
        PROVE  StepOK
    BY <1>1, <1>3, LeaseReturned
  <1>4. ASSUME NEW allowed, Refused(t, allowed) PROVE StepOK
    BY <1>1, <1>4, RefusedKeeps DEF Local
  <1> QED
    BY <1>2, <1>3, <1>4 DEF Recheck

LEMMA RebindKeeps ==
    ASSUME ReleaseInv, NEW t \in Threads, Rebind(t)
    PROVE  StepOK
  <1>1. thread[t].at = "binding" /\ UNCHANGED Local
    BY DEF Rebind
  <1>2. CASE Goto(t, "sending") /\ UNCHANGED row
    <2> DEFINE mine == At(t, "sending")
    <2>1. thread' = [thread EXCEPT ![t] = mine]
      BY <1>2 DEF Goto, At
    <2>2. /\ mine \in ThreadRow /\ mine.at = "sending" /\ mine.prep = thread[t].prep
          /\ mine.fresh = thread[t].fresh /\ mine.reply = "none"
      BY <1>1, AtFacts, BeforeFacts
    <2> HIDE DEF mine
    <2>3. /\ \A f \in Effects : Holds(mine, f) => f = "publish"
          /\ \A f \in Effects : "sending" \in Before(f) => f = "publish"
          /\ \A f \in Effects : "sending" # Sent(f)
      BY <2>2 DEF Holds, Before, Sent, Effects
    <2>4. ThreadOK(thread[t], row, wire, effects)
      BY DEF ReleaseInv, ThreadsOK
    <2>5. CopyOK(mine, row)
      BY <1>1, <2>2, <2>4, BeforeFacts DEF CopyOK, ThreadOK, Working, Removing, StatesAt
    <2>6. \A f \in Effects : HolderOK(mine, f, row, wire, effects)
      BY <1>1, <2>2, <2>3, <2>4, BeforeFacts DEF HolderOK, ThreadOK
    <2>7. ThreadOK(mine, row, wire, effects)
      BY <2>2, <2>5, <2>6 DEF ThreadOK
    <2> QED
      BY <1>1, <1>2, <2>1, <2>2, <2>3, <2>7, BeforeFacts, Serving, ThreadOnly DEF Local
  <1>3. CASE MayMove(t, "FAILED") /\ PrepMoves(t, "FAILED", Resting)
    BY <1>1, <1>3, LeaseReturned
  <1>4. ASSUME NEW allowed, Refused(t, allowed) PROVE StepOK
    BY <1>1, <1>4, RefusedKeeps DEF Local
  <1> QED
    BY <1>2, <1>3, <1>4 DEF Rebind

-----------------------------------------------------------------------------
(* The remote systems                                                        *)

LEMMA AnswerKeeps ==
    ASSUME ReleaseInv, NEW t \in Threads, NEW e \in Effects, NEW reply \in {"accepted", "refused"},
           Answer(e, t, reply)
    PROVE  StepOK
  <1> DEFINE mine == [thread[t] EXCEPT !.reply = reply]
  <1>1. thread[t].at = Sent(e) /\ thread[t].reply = "none" /\ thread[t].at # "idle" /\ thread[t] \in ThreadRow
    BY DEF Answer, Waiting, Sent, ReleaseInv, ReleaseTyped
  <1>2. /\ mine \in ThreadRow /\ mine.at = Sent(e) /\ mine.prep = thread[t].prep /\ mine.fresh = thread[t].fresh
        /\ mine.was = thread[t].was /\ mine.reply = reply
    BY <1>1 DEF ThreadRow
  <1>3. thread' = [thread EXCEPT ![t] = mine] /\ UNCHANGED <<row, job, service>>
    BY DEF Answer
  <1>4. /\ ThreadOK(thread[t], row, wire, effects) /\ wire[e] = 1 /\ effects[e] = 0 /\ Holds(thread[t], e)
    BY <1>1 DEF ReleaseInv, ThreadsOK, ThreadOK, HolderOK, Holds
  <1>5. /\ wire' \in [Effects -> Nat] /\ wire'[e] = 0 /\ \A f \in Effects \ {e} : wire'[f] = wire[f]
    BY <1>4 DEF Answer, ReleaseInv, ReleaseTyped
  <1>6. /\ effects' \in [Effects -> Nat] /\ effects'[e] = IF reply = "accepted" THEN 1 ELSE 0
        /\ \A f \in Effects \ {e} : effects'[f] = effects[f]
    BY <1>4 DEF Answer, ReleaseInv, ReleaseTyped
  <1> HIDE DEF mine
  <1>7. /\ \A f \in Effects : Holds(mine, f) <=> Holds(thread[t], f)
        /\ \A f \in Effects : Holds(mine, f) => f = e
        /\ \A f \in Effects : Sent(e) \notin Before(f)
        /\ Sent(e) \in {"added", "published"} /\ Sent(e) \notin Removing
    BY <1>1, <1>2 DEF Holds, Before, Sent, Effects, Removing
  <1>8. CopyOK(mine, row)
    BY <1>1, <1>2, <1>4, <1>7 DEF CopyOK, ThreadOK
  <1>9. \A f \in Effects : HolderOK(mine, f, row, wire', effects')
    BY <1>2, <1>4, <1>5, <1>6, <1>7 DEF HolderOK, ThreadOK, Holds
  <1>10. ThreadOK(mine, row, wire', effects')
    BY <1>2, <1>7, <1>8, <1>9 DEF ThreadOK
  <1>11. thread' \in [Threads -> ThreadRow] /\ ThreadsOK'
    BY <1>1, <1>2, <1>3, <1>4, <1>5, <1>6, <1>7, <1>10, Serving, ThreadMoved
  <1>12. Leased(e)
    BY <1>4, HolderLeases
  <1>13. \A f \in Effects : Moves(f)
    BY <1>3, <1>4, <1>5, <1>6 DEF Moves, Entry, Leased, Closed
  <1>14. RowsOK' /\ LedgerOK'
    BY <1>3, <1>5, <1>6, <1>12 DEF ReleaseInv, RowsOK, LedgerOK, Leased, Closed
  <1>15. Outlives
    BY <1>3, OutcomeThere DEF Outlives, Exists
  <1> QED
    BY <1>3, <1>5, <1>6, <1>11, <1>13, <1>14, <1>15 DEF StepOK, ReleaseInv, ReleaseTyped

\* As many requests as somebody waits for are no late ones.
LEMMA LateAnswerKeeps ==
    ASSUME ReleaseInv, NEW e \in Effects, LateAnswer(e)
    PROVE  StepOK
  <1>1. IsFiniteSet(Waiting(e)) /\ Cardinality(Waiting(e)) \in Nat
    BY ThreadAssumption, FS_Subset, FS_CardinalityType DEF Waiting
  <1>2. wire[e] = 1 /\ effects[e] = 0 /\ Cardinality(Waiting(e)) = 0
    BY <1>1 DEF LateAnswer, ReleaseInv, ReleaseTyped, LedgerOK
  <1>3. Waiting(e) = {}
    BY <1>1, <1>2, FS_EmptySet
  <1>4. /\ wire' \in [Effects -> Nat] /\ wire'[e] = 0 /\ \A f \in Effects \ {e} : wire'[f] = wire[f]
    BY <1>2 DEF LateAnswer, ReleaseInv, ReleaseTyped
  <1>5. /\ effects' \in [Effects -> Nat] /\ effects'[e] \in {0, 1}
        /\ \A f \in Effects \ {e} : effects'[f] = effects[f]
    BY <1>2 DEF LateAnswer, ReleaseInv, ReleaseTyped
  <1>6. UNCHANGED <<row, job, thread, service>>
    BY DEF LateAnswer
  <1>7. ASSUME NEW t \in Threads, NEW f \in Effects PROVE HolderOK(thread[t], f, row, wire', effects')
    <2>1. HolderOK(thread[t], f, row, wire, effects)
      BY DEF ReleaseInv, ThreadsOK, ThreadOK
    <2>2. CASE f # e
      BY <1>4, <1>5, <2>1, <2>2 DEF HolderOK
    <2>3. CASE f = e
      <3>1. thread[t].at # Sent(e)
        BY <1>2, <1>3, <2>1, <2>3 DEF Waiting, Sent, HolderOK, ReleaseInv, ReleaseTyped, ThreadRow
      <3> QED
        BY <1>2, <2>1, <2>3, <3>1 DEF HolderOK
    <2> QED
      BY <2>2, <2>3
  <1>8. ThreadsOK'
    BY <1>6, <1>7 DEF ReleaseInv, ThreadsOK, ThreadOK
  <1>9. \A f \in Effects : Moves(f)
    BY <1>2, <1>4, <1>5, <1>6 DEF Moves, Entry, Leased, Closed, LateAnswer
  <1>10. RowsOK' /\ LedgerOK'
    BY <1>2, <1>4, <1>5, <1>6 DEF ReleaseInv, RowsOK, LedgerOK, Leased, Closed
  <1>11. Outlives
    BY <1>6, OutcomeThere DEF Outlives, Exists
  <1> QED
    BY <1>4, <1>5, <1>6, <1>8, <1>9, <1>10, <1>11 DEF StepOK, ReleaseInv, ReleaseTyped

-----------------------------------------------------------------------------
(* Deletions                                                                 *)

\* A deletion goes on to another step, with the same copy.
LEMMA RemovalMoved ==
    ASSUME ReleaseInv, NEW t \in Threads, thread[t].at \in Removing,
           NEW mine \in ThreadRow, mine.at \in {"stage", "commit", "finalize"}, mine.prep = thread[t].prep,
           mine.op \in Operation, mine.op.kind = thread[t].op.kind, mine.op.subject = thread[t].op.subject,
           mine.fresh = thread[t].fresh, mine.reply = thread[t].reply,
           thread' = [thread EXCEPT ![t] = mine],
           UNCHANGED <<row, job, service, wire, effects>>
    PROVE  StepOK
  <1>1. /\ ThreadOK(thread[t], row, wire, effects) /\ thread[t].at # "idle"
        /\ thread[t].at \notin {"added", "published"}
    BY DEF ReleaseInv, ThreadsOK, Removing
  <1>2. \A f \in Effects : ~Holds(mine, f) /\ mine.at \notin Before(f) /\ mine.at # Sent(f)
    BY DEF Holds, Before, Sent, Effects
  <1>3. CopyOK(mine, row)
    BY <1>1 DEF CopyOK, ThreadOK, Working, Removing
  <1>4. ThreadOK(mine, row, wire, effects)
    BY <1>1, <1>2, <1>3 DEF ThreadOK, HolderOK
  <1> QED
    BY <1>1, <1>2, <1>4, Serving, ThreadOnly

LEMMA OpFacts ==
    ASSUME ReleaseInv, NEW t \in Threads, thread[t].op \in Operation,
           NEW phase \in {"intent", "staged", "committed"},
           NEW at \in {"commit", "finalize"}
    PROVE  LET o == [thread[t].op EXCEPT !.phase = phase]
               r == [thread[t] EXCEPT !.at = at, !.op = o] IN
           /\ r \in ThreadRow /\ r.at = at /\ r.prep = thread[t].prep /\ r.fresh = thread[t].fresh
           /\ r.reply = thread[t].reply /\ r.op = o /\ o \in Operation
           /\ o.kind = thread[t].op.kind /\ o.subject = thread[t].op.subject
  <1> DEFINE o == [thread[t].op EXCEPT !.phase = phase]
             r == [thread[t] EXCEPT !.at = at, !.op = o]
  <1>1. o \in Operation /\ o.kind = thread[t].op.kind /\ o.subject = thread[t].op.subject
    BY DEF Operation
  <1>2. thread[t] \in ThreadRow
    BY DEF ReleaseInv, ReleaseTyped
  <1> HIDE DEF o
  <1>3. /\ r \in ThreadRow /\ r.at = at /\ r.prep = thread[t].prep /\ r.fresh = thread[t].fresh
        /\ r.reply = thread[t].reply /\ r.op = o
    BY <1>1, <1>2 DEF ThreadRow
  <1> QED
    BY <1>1, <1>3 DEF o

LEMMA DestroyKeeps ==
    ASSUME ReleaseInv, NEW t \in Threads, BeginDestroy(t) \/ Stage(t) \/ RollBack(t) \/ Finalize(t)
    PROVE  StepOK
  <1>1. thread[t].at \in {"begin", "stage", "commit", "finalize"} /\ thread[t].at # "idle"
        /\ thread[t] \in ThreadRow /\ UNCHANGED <<row, job, service, wire, effects>>
    BY DEF BeginDestroy, Stage, RollBack, Finalize, ReleaseInv, ReleaseTyped
  <1>2. CASE Rest(t)
    BY <1>1, <1>2, RestKeeps
  <1>3. CASE BeginDestroy(t) /\ Goto(t, "stage")
    <2>1. thread' = [thread EXCEPT ![t] = At(t, "stage")] /\ thread[t].at \in Removing
      BY <1>3 DEF Goto, At, BeginDestroy, Removing
    <2>2. /\ At(t, "stage") \in ThreadRow /\ At(t, "stage").at = "stage"
          /\ At(t, "stage").prep = thread[t].prep /\ At(t, "stage").op = thread[t].op
          /\ At(t, "stage").fresh = thread[t].fresh /\ At(t, "stage").reply = thread[t].reply
      BY AtFacts
    <2>3. thread[t].op \in Operation
      BY <2>1 DEF ReleaseInv, ThreadsOK, ThreadOK, CopyOK
    <2> QED
      BY <1>1, <2>1, <2>2, <2>3, RemovalMoved
  <1>4. CASE Stage(t)
    <2>1. thread[t].at \in Removing /\ thread[t].op \in Operation
      BY <1>4 DEF Stage, Removing, ReleaseInv, ThreadsOK, ThreadOK, CopyOK
    <2> DEFINE o == [thread[t].op EXCEPT !.phase = "staged"]
               mine == [thread[t] EXCEPT !.at = "commit", !.op = o]
    <2>2. thread' = [thread EXCEPT ![t] = mine]
      BY <1>4 DEF Stage, Advance
    <2>3. /\ mine \in ThreadRow /\ mine.at = "commit" /\ mine.prep = thread[t].prep /\ mine.fresh = thread[t].fresh
          /\ mine.reply = thread[t].reply /\ mine.op = o /\ o \in Operation
          /\ o.kind = thread[t].op.kind /\ o.subject = thread[t].op.subject
      BY <2>1, OpFacts
    <2> HIDE DEF mine, o
    <2> QED
      BY <1>1, <2>1, <2>2, <2>3, RemovalMoved
  <1> QED
    BY <1>2, <1>3, <1>4 DEF BeginDestroy, RollBack, Finalize

\* A row that nothing outside the machine is known of goes away.
LEMMA RowRemoved ==
    ASSUME ReleaseInv, NEW p \in Preps, Exists(p), row[p].state \notin Active, ~OutcomeIn(row[p]),
           row' = [row EXCEPT ![p] = NoRow], UNCHANGED <<job, wire, effects>>
    PROVE  /\ row' \in [Preps -> Row] /\ RowsOK' /\ LedgerOK' /\ Outlives
           /\ \A e \in Effects : Moves(e)
  <1>1. /\ row' \in [Preps -> Row] /\ row'[p] = NoRow /\ \A q \in Preps \ {p} : row'[q] = row[q]
    BY NoRowFacts DEF ReleaseInv, ReleaseTyped
  <1>2. \A e \in Effects : /\ ~Leases(NoRow, e) /\ ~Closes(NoRow, e)
                           /\ ~Leases(row[p], e) /\ ~Closes(row[p], e)
    BY NoRowFacts DEF Leases, LeaseState, Closes, ClosedStates, Receipt, OutcomeIn, Active, External, NoPrep
  <1>3. \A e \in Effects : (Leased(e)' <=> Leased(e)) /\ (Closed(e)' <=> Closed(e))
    BY <1>1, <1>2 DEF Leased, Closed
  <1>4. \A e \in Effects : Moves(e)
    BY <1>3 DEF Moves, Entry
  <1>5. LedgerOK'
    BY <1>3 DEF ReleaseInv, LedgerOK
  <1>6. RowsOK'
    BY <1>1, <1>2 DEF ReleaseInv, RowsOK, Exists
  <1>7. Outlives
    BY <1>1, OutcomeThere DEF Outlives, Exists
  <1> QED
    BY <1>1, <1>4, <1>5, <1>6, <1>7

\* All rows go away with the release or with the job.
LEMMA AllRemoved ==
    ASSUME ReleaseInv, \A p \in Preps : row[p].state \notin Active,
           row' = [p \in Preps |-> NoRow], job' \in {"tombstoned", "purged"},
           job' # "tombstoned" => \A p \in Preps : ~OutcomeIn(row[p]),
           UNCHANGED <<wire, effects>>
    PROVE  /\ row' \in [Preps -> Row] /\ RowsOK' /\ LedgerOK' /\ Outlives
           /\ \A e \in Effects : Moves(e)
  <1>1. row' \in [Preps -> Row] /\ \A p \in Preps : row'[p] = NoRow
    BY NoRowFacts
  <1>2. \A e \in Effects : ~Leased(e) /\ ~Leased(e)' /\ Closed(e)'
    BY <1>1, NoRowFacts DEF Leased, Leases, LeaseState, Closed, Active, NoPrep
  <1>3. \A e \in Effects : Moves(e)
    BY <1>2 DEF Moves, Entry
  <1>4. LedgerOK' /\ RowsOK' /\ Outlives
    BY <1>1, <1>2, NoRowFacts DEF ReleaseInv, LedgerOK, RowsOK, Outlives, Leases, LeaseState, NoPrep
  <1> QED
    BY <1>1, <1>3, <1>4

LEMMA CommitKeeps ==
    ASSUME ReleaseInv, NEW t \in Threads, CommitDestroy(t)
    PROVE  StepOK
  <1> DEFINE o == thread[t].op
             p == o.subject
             committed == [o EXCEPT !.phase = "committed"]
             mine == IF o \in ops THEN [thread[t] EXCEPT !.at = "finalize", !.op = committed] ELSE Resting
  <1>1. /\ thread[t].at = "commit" /\ thread[t].at \in Removing /\ thread[t].at # "idle"
        /\ UNCHANGED <<service, wire, effects>> /\ thread[t].fresh /\ row' = RowsAfter(o) /\ MayCommit(t)
    BY DEF CommitDestroy, Removing, MayCommit
  <1>2. /\ o \in Operation /\ o.kind \in {"orphan", "delete", "release", "purge"} /\ thread[t].reply = "none"
        /\ o.kind \in {"orphan", "delete"} => p \in Preps
        /\ o.kind \in {"release", "purge"} => p = Job
        /\ o.kind = "delete" => ~OutcomeIn(row[p])
        /\ o.kind = "purge" => \A q \in Preps : ~OutcomeIn(row[q])
    BY <1>1 DEF ReleaseInv, ThreadsOK, ThreadOK, CopyOK, Operation
  <1>3. service = "up" /\ service' = "up"
    BY <1>1, Serving
  <1>4. /\ mine \in ThreadRow /\ \A f \in Effects : ~Holds(mine, f)
        /\ \A rows, sent, done : ThreadOK(mine, rows, sent, done)
    <2>1. CASE o \in ops
      <3>1. mine \in ThreadRow /\ mine.at = "finalize" /\ mine.reply = "none"
        BY <1>2, <2>1, OpFacts
      <3> QED
        BY <3>1 DEF ThreadOK, CopyOK, HolderOK, Holds, Before, Sent, Working, Removing
    <2>2. CASE o \notin ops
      BY <2>2, RestingFacts
    <2> QED
      BY <2>1, <2>2
  <1>5. \A u \in Threads : /\ thread[u] \in ThreadRow /\ thread[u].prep \in Preps \cup {Job}
                           /\ ThreadOK(thread[u], row, wire, effects)
    BY DEF ReleaseInv, ReleaseTyped, ThreadRow, ThreadsOK
  <1> DEFINE touched == IF p = Job THEN Preps ELSE {p}
  <1>6. thread' = [u \in Threads |-> IF u = t THEN mine
                                     ELSE IF thread[u].prep \in touched \cup {Job} THEN Lost(thread[u])
                                     ELSE thread[u]]
    BY DEF CommitDestroy, Stale, Lost
  <1> HIDE DEF mine
  <1>7. /\ thread' \in [Threads -> ThreadRow] /\ thread'[t] = mine
        /\ \A u \in Threads \ {t} : thread'[u] \in {thread[u], Lost(thread[u])}
    BY <1>4, <1>5, <1>6, LostFacts
  <1>8. ASSUME \A u \in Threads \ {t} : ThreadOK(thread'[u], row', wire', effects')
        PROVE  ThreadsOK'
    BY <1>3, <1>4, <1>7, <1>8, ThreadsWritten
  <1>9. CASE o.kind \in {"release", "purge"}
    <2>1. \A q \in Preps : row[q].state \notin Active
      BY <1>1, <1>9 DEF MayCommit, Rows, Exists, Active, NoPrep
    <2>2. row' = [q \in Preps |-> NoRow]
      BY <1>1, <1>9 DEF RowsAfter
    <2>3. job' = (IF o.kind = "release" THEN "tombstoned" ELSE "purged")
      BY <1>9 DEF CommitDestroy
    <2>4. /\ row' \in [Preps -> Row] /\ RowsOK' /\ LedgerOK' /\ Outlives
          /\ \A e \in Effects : Moves(e)
      BY <1>1, <1>2, <1>9, <2>1, <2>2, <2>3, AllRemoved
    <2>5. ASSUME NEW u \in Threads \ {t} PROVE ThreadOK(thread'[u], row', wire', effects')
      <3>1. thread'[u] = Lost(thread[u])
        BY <1>2, <1>5, <1>6, <1>9
      <3>2. \A f \in Effects : ~Holds(thread[u], f)
        BY <1>5, <2>1 DEF ThreadOK, HolderOK, Leases, LeaseState, Active
      <3>3. CopyOK(Lost(thread[u]), row')
        BY <1>5, LostFacts DEF ThreadOK, CopyOK
      <3>4. \A f \in Effects : HolderOK(Lost(thread[u]), f, row', wire', effects')
        BY <1>5, <3>2, LostFacts DEF HolderOK, Holds
      <3> QED
        BY <1>5, <3>1, <3>3, <3>4, LostFacts DEF ThreadOK
    <2> QED
      BY <1>1, <1>7, <1>8, <2>3, <2>4, <2>5 DEF StepOK, ReleaseInv, ReleaseTyped
  <1>10. CASE o.kind \in {"orphan", "delete"}
    <2>1. p \in Preps /\ touched = {p} /\ job' = job
      BY <1>2, <1>10, JobAssumption DEF CommitDestroy
    <2>2. Exists(p) /\ (o.kind = "delete" => row[p].state \notin Active)
          /\ (o.kind = "orphan" => row[p].state = "PREPARING")
      BY <1>1, <1>10 DEF MayCommit, Exists, NoPrep, Active
    <2>3. \A e \in Effects : ~Leases(row[p], e)
      BY <1>10, <2>2 DEF Leases, LeaseState, Active
    <2>4. PICK new : row' = [row EXCEPT ![p] = new]
      BY <1>1, <1>10 DEF RowsAfter
    <2>5. /\ row' \in [Preps -> Row] /\ RowsOK' /\ LedgerOK' /\ Outlives
          /\ \A e \in Effects : Moves(e)
      <3>1. CASE o.kind = "delete"
        <4>1. row' = [row EXCEPT ![p] = NoRow]
          BY <1>1, <3>1 DEF RowsAfter
        <4> QED
          BY <1>1, <1>2, <2>1, <2>2, <3>1, <4>1, RowRemoved
      <3>2. CASE o.kind = "orphan"
        <4>1. row' = [row EXCEPT ![p] = [row[p] EXCEPT !.state = "FAILED"]]
          BY <1>1, <3>2 DEF RowsAfter
        <4>2. /\ "FAILED" \in State
              /\ \A e \in Effects : "FAILED" # LeaseState(e) /\ row[p].state \notin ClosedStates(e)
          BY <2>2, <3>2 DEF State, Deletable, LeaseState, ClosedStates
        <4>3. MayWrite(p, [row[p] EXCEPT !.state = "FAILED"])
          BY <2>1, <2>2, <2>3, <4>2, PlainMove
        <4> QED
          BY <1>1, <2>1, <4>1, <4>3, RowWritten
      <3> QED
        BY <1>10, <3>1, <3>2
    <2>6. ASSUME NEW u \in Threads \ {t} PROVE ThreadOK(thread'[u], row', wire', effects')
      <3>1. \A e \in Effects : Leases(row[p], e) => ~Holds(thread[u], e)
        BY <2>3
      <3>2. thread'[u] = IF thread[u].prep \in {p, Job} THEN Lost(thread[u]) ELSE thread[u]
        BY <1>6, <2>1
      <3> QED
        BY <1>1, <2>1, <2>4, <3>1, <3>2, OthersLose
    <2> QED
      BY <1>1, <1>7, <1>8, <2>1, <2>5, <2>6 DEF StepOK, ReleaseInv, ReleaseTyped
  <1> QED
    BY <1>2, <1>9, <1>10

-----------------------------------------------------------------------------
(* Crashes and recovery                                                      *)

LEMMA CrashKeeps ==
    ASSUME ReleaseInv, Crash
    PROVE  StepOK
  <1>1. thread' = [t \in Threads |-> Resting] /\ service' = "down" /\ UNCHANGED <<row, job, wire, effects>>
    BY DEF Crash
  <1>2. thread' \in [Threads -> ThreadRow] /\ ThreadsOK'
    BY <1>1, RestingFacts DEF ThreadsOK
  <1>3. RowsOK' /\ LedgerOK' /\ \A e \in Effects : Moves(e)
    BY <1>1 DEF ReleaseInv, RowsOK, LedgerOK, Moves, Entry, Leased, Closed
  <1>4. Outlives
    BY <1>1, OutcomeThere DEF Outlives, Exists
  <1> QED
    BY <1>1, <1>2, <1>3, <1>4 DEF StepOK, ReleaseInv, ReleaseTyped

LEMMA RecoverJournalKeeps ==
    ASSUME ReleaseInv, RecoverJournal
    PROVE  StepOK
  <1>1. UNCHANGED <<row, job, thread, wire, effects>> /\ service = "down" /\ service' = "recovering"
    BY DEF RecoverJournal
  <1>2. ThreadsOK'
    BY <1>1, RestingFacts DEF ReleaseInv, ThreadsOK
  <1>3. RowsOK' /\ LedgerOK' /\ \A e \in Effects : Moves(e)
    BY <1>1 DEF ReleaseInv, RowsOK, LedgerOK, Moves, Entry, Leased, Closed
  <1>4. Outlives
    BY <1>1, OutcomeThere DEF Outlives, Exists
  <1> QED
    BY <1>1, <1>2, <1>3, <1>4 DEF StepOK, ReleaseInv, ReleaseTyped

LEMMA RecoveredFacts ==
    ASSUME NEW r \in Row
    PROVE  /\ Recovered(r) \in Row /\ Recovered(r).seed = r.seed /\ Recovered(r).pub = r.pub
           /\ Recovered(r).state = (IF r.state = "PREPARING" THEN "FAILED"
                                    ELSE IF r.state \in {"SEEDING_CHECK", "SEEDING", "PUBLISHING"} THEN "UNKNOWN"
                                    ELSE r.state)
           /\ r.state = NoPrep => Recovered(r) = r
  BY DEF Recovered, Row, State, Deletable, External, NoPrep

\* Nobody holds anything, so what was leased is closed.
LEMMA RecoverInterruptedKeeps ==
    ASSUME ReleaseInv, RecoverInterrupted
    PROVE  StepOK
  <1>1. /\ UNCHANGED <<job, thread, wire, effects>> /\ service = "recovering" /\ service' = "up"
        /\ row' = [p \in Preps |-> Recovered(row[p])]
    BY DEF RecoverInterrupted
  <1>2. \A p \in Preps : row[p] \in Row /\ row'[p] = Recovered(row[p])
    BY <1>1 DEF ReleaseInv, ReleaseTyped
  <1>3. row' \in [Preps -> Row]
    BY <1>1, <1>2, RecoveredFacts
  <1>4. ThreadsOK'
    BY <1>1, RestingFacts DEF ReleaseInv, ThreadsOK
  <1>5. \A e \in Effects, p \in Preps :
          /\ ~Leases(row'[p], e)
          /\ Leases(row[p], e) \/ Closes(row[p], e) => Closes(row'[p], e)
    BY <1>2, RecoveredFacts DEF Leases, LeaseState, Closes, ClosedStates, Receipt, Effects
  <1>6. \A e \in Effects : /\ ~Leased(e)' /\ (Leased(e) \/ Closed(e) => Closed(e)')
    BY <1>1, <1>5 DEF Leased, Closed
  <1>7. \A e \in Effects : Moves(e)
    BY <1>1, <1>6 DEF Moves, Entry
  <1>8. LedgerOK'
    BY <1>1, <1>6 DEF ReleaseInv, LedgerOK
  <1>9. RowsOK'
    <2>1. \A p \in Preps : row'[p].state = NoPrep <=> row[p].state = NoPrep
      BY <1>2, RecoveredFacts DEF NoPrep
    <2> QED
      BY <1>1, <1>2, <1>5, <2>1, RecoveredFacts DEF ReleaseInv, RowsOK
  <1>10. Outlives
    BY <1>2, RecoveredFacts, OutcomeThere DEF Outlives, Exists, NoPrep
  <1> QED
    BY <1>1, <1>3, <1>4, <1>7, <1>8, <1>9, <1>10 DEF StepOK, ReleaseInv, ReleaseTyped

-----------------------------------------------------------------------------
(* The theorems                                                              *)

LEMMA InitHolds == Init => ReleaseInv
  <1> SUFFICES ASSUME Init PROVE ReleaseInv
    OBVIOUS
  <1>1. ReleaseTyped
    BY NoRowFacts, RestingFacts DEF Init, ReleaseTyped, Effects
  <1>2. RowsOK
    BY NoRowFacts, StateFacts DEF Init, RowsOK, Leases
  <1>3. ThreadsOK
    BY RestingFacts DEF Init, ThreadsOK
  <1>4. LedgerOK
    BY DEF Init, LedgerOK, Effects
  <1> QED
    BY <1>1, <1>2, <1>3, <1>4 DEF ReleaseInv

LEMMA StepKeeps ==
    ASSUME ReleaseInv, Next
    PROVE  StepOK
  <1>1. ASSUME NEW p \in Preps, Create(p) PROVE StepOK
    BY <1>1, CreateKeeps
  <1>2. ASSUME NEW t \in Threads, Arrive(t) PROVE StepOK
    BY <1>2, StartsKeep, RemovalsKeep DEF Arrive
  <1>3. ASSUME NEW t \in Threads, Step(t) PROVE StepOK
    BY <1>3, ClaimBuildKeeps, BuildingKeeps, FinishBuildKeeps, CleanBuildKeeps, DupeCheckKeeps,
       ClaimsKeep, SendsKeep, RecordSeedKeeps, RecheckKeeps, RebindKeeps, RecordPublicationKeeps,
       DestroyKeeps, CommitKeeps DEF Step
  <1>4. CASE Remote
    BY <1>4, AnswerKeeps, LateAnswerKeeps DEF Remote, Effects
  <1> QED
    BY <1>1, <1>2, <1>3, <1>4, CrashKeeps, RecoverJournalKeeps, RecoverInterruptedKeeps DEF Next

LEMMA Stutters ==
    ASSUME ReleaseInv, UNCHANGED rvars
    PROVE  StepOK
  <1>1. UNCHANGED <<row, job, thread, service, wire, effects>>
    BY DEF rvars
  <1>2. ThreadsOK' /\ RowsOK' /\ LedgerOK' /\ \A e \in Effects : Moves(e)
    BY <1>1 DEF ReleaseInv, ThreadsOK, RowsOK, LedgerOK, Moves, Entry, Leased, Closed
  <1>3. Outlives
    BY <1>1, OutcomeThere DEF Outlives, Exists
  <1> QED
    BY <1>1, <1>2, <1>3 DEF StepOK, ReleaseInv, ReleaseTyped

LEMMA AddLedger ==
    /\ Ledger("SEEDING", {"UNKNOWN"}, SeedOf) = Entry("add")
    /\ Ledger("SEEDING", {"UNKNOWN"}, SeedOf)' = Entry("add")'
  BY DEF Ledger, SeedOf, Entry, Leased, Closed, Leases, LeaseState, Closes, ClosedStates, Receipt

LEMMA PublishLedger ==
    /\ Ledger("PUBLISHING", {"UNKNOWN", "PUBLISHED"}, PubOf) = Entry("publish")
    /\ Ledger("PUBLISHING", {"UNKNOWN", "PUBLISHED"}, PubOf)' = Entry("publish")'
  BY DEF Ledger, PubOf, Entry, Leased, Closed, Leases, LeaseState, Closes, ClosedStates, Receipt

LEMMA CountsAreNaturals ==
    ASSUME ReleaseInv, NEW e \in Effects
    PROVE  wire[e] \in Nat /\ effects[e] \in Nat /\ wire[e] + effects[e] <= 1
  BY DEF ReleaseInv, ReleaseTyped, LedgerOK

LEMMA AddMoves ==
    ASSUME ReleaseInv, ReleaseInv', Moves("add")
    PROVE  [Adding!EffectNext]_(Adding!vars)
  <1>1. wire["add"] \in Nat /\ effects["add"] \in Nat /\ wire'["add"] \in Nat /\ effects'["add"] \in Nat
    BY DEF ReleaseInv, ReleaseTyped, Effects
  <1> QED
    BY <1>1, AddLedger
    DEF Moves, Adding!EffectNext, Adding!vars, Adding!Lease, Adding!Send, Adding!Land, Adding!GiveBack, Adding!Close

LEMMA PublishMoves ==
    ASSUME ReleaseInv, ReleaseInv', Moves("publish")
    PROVE  [Publishing!EffectNext]_(Publishing!vars)
  <1>1. wire["publish"] \in Nat /\ effects["publish"] \in Nat /\ wire'["publish"] \in Nat /\ effects'["publish"] \in Nat
    BY DEF ReleaseInv, ReleaseTyped, Effects
  <1> QED
    BY <1>1, PublishLedger
    DEF Moves, Publishing!EffectNext, Publishing!vars, Publishing!Lease, Publishing!Send, Publishing!Land,
        Publishing!GiveBack, Publishing!Close

LEMMA LedgersBegin ==
    ASSUME Init
    PROVE  Adding!EffectInit /\ Publishing!EffectInit
  <1>1. \A e \in Effects : Entry(e) = "clear"
    BY NoRowFacts, StateFacts
    DEF Init, Entry, Leased, Leases, LeaseState, Closed, Closes, ClosedStates, Receipt, Effects
  <1>2. wire["add"] = 0 /\ wire["publish"] = 0 /\ effects["add"] = 0 /\ effects["publish"] = 0
    BY DEF Init
  <1> QED
    BY <1>1, <1>2, AddLedger, PublishLedger DEF Effects, Adding!EffectInit, Publishing!EffectInit

(* For any number of preparations and threads, with crashes, failing writes  *)
(* and answers that are lost or late, both remote effects follow the         *)
(* at-most-once ledger: the torrent is added once and announced once, and    *)
(* what says that it may have been is never lost.                            *)
THEOREM BothEffectsHappenOnce == ReleaseSpec => EffectsHappenOnce
  <1>1. ReleaseInv /\ [Next]_rvars =>
          /\ ReleaseInv' /\ [Adding!EffectNext]_(Adding!vars) /\ [Publishing!EffectNext]_(Publishing!vars)
    BY StepKeeps, Stutters, AddMoves, PublishMoves DEF StepOK, Effects
  <1> QED
    BY <1>1, InitHolds, LedgersBegin, PTL
    DEF ReleaseSpec, EffectsHappenOnce, Adding!AtMostOnce, Publishing!AtMostOnce

(* A preparation that something outside the machine may be known of goes     *)
(* away with the tombstone of the release only.                              *)
THEOREM OutcomesOutlive == ReleaseSpec => OutcomeOutlivesRow
  <1>1. ReleaseInv /\ [Next]_rvars => ReleaseInv'
    BY StepKeeps, Stutters DEF StepOK
  <1>2. ReleaseInv /\ [Next]_rvars =>
          [\A p \in Preps : HasOutcome(p) /\ row'[p].state = NoPrep => job' = "tombstoned"]_rvars
    BY StepKeeps DEF StepOK, Outlives, HasOutcome, OutcomeIn
  <1> QED
    BY <1>1, <1>2, InitHolds, PTL DEF ReleaseSpec, OutcomeOutlivesRow
-----------------------------------------------------------------------------
(* The files.  A thread that builds, checks or cleans up a kit has its row   *)
(* to itself; an unfinished operation keeps its rows from becoming active,   *)
(* and while the process serves one thread goes on with it.                  *)

\* The state a row must stay in while a thread works on its kit.
Claims(r, s) ==
    \/ /\ s = "PREPARING"
       /\ \/ r.at \in {"building", "built", "failed"}
          \/ r.at \in {"stage", "commit"} /\ r.op.kind = "orphan"
    \/ s = "SEEDING_CHECK" /\ r.at = "duping"

Carries(r, o) == r.at \in {"stage", "commit"} /\ r.op = o

OpOK(o, rows) ==
    /\ o \in Operation
    /\ o.kind \in {"orphan", "delete"} => o.subject \in Preps /\ o.kits = {o.subject}
    /\ o.kind = "purge" => o.kits # {}
    /\ o.kind \in {"release", "purge"} => \A p \in Preps : rows[p].state \notin Active
    /\ o.kind = "delete" => rows[o.subject].state \notin Active
    /\ o.kind = "orphan" /\ o.phase # "committed" => rows[o.subject].state = "PREPARING"

OpsOK(os, rows) ==
    /\ \A o \in os : OpOK(o, rows)
    /\ \A o, q \in os : o # q => o.kits \cap q.kits = {} /\ ~(o.kind = "release" /\ q.kind = "release")

Quarantined(p, os) == \E o \in os : o.phase = "staged" /\ p \in o.kits

RowFiles(p, r, k, os) ==
    /\ r.state \notin {NoPrep, "NOT_PREPARED", "PREPARING", "FAILED"} => r.kitPath
    /\ r.kitPath /\ r.state \notin {"PREPARING", "FAILED"} => p \in k \/ Quarantined(p, os)

PayloadOK(there, j, os) ==
    there \/ j # "completed" \/ \E o \in os : o.kind = "release" /\ o.phase = "staged"

TaskOK(r, rows, k, os) ==
    /\ \A s \in {"PREPARING", "SEEDING_CHECK"} : Claims(r, s) => r.fresh /\ rows[r.prep].state = s
    /\ r.at = "built" => r.prep \in k
    /\ r.at = "begin" => /\ r.op.phase = "intent" /\ r.op.kind # "orphan"
                         /\ r.op.kind = "delete" => r.op.kits = {r.op.subject}
                         /\ r.op.kind = "purge" => r.op.kits # {}
    /\ r.at = "stage" => r.op \in os /\ r.op.phase = "intent"
    /\ r.at = "commit" => \/ r.op \in os /\ r.op.phase = "staged"
                          \/ r.op.kits = {} /\ r.op.kind \in {"delete", "purge"} /\ r.op.phase = "intent"
    /\ r.at = "finalize" => r.op.phase = "committed"

Undisputed(th, os) ==
    /\ \A t, u \in Threads, s \in {"PREPARING", "SEEDING_CHECK"} :
         Claims(th[t], s) /\ Claims(th[u], s) /\ th[t].prep = th[u].prep => t = u
    /\ \A t, u \in Threads, o \in os : Carries(th[t], o) /\ Carries(th[u], o) => t = u

Attended(th, os, up) ==
    /\ up = "up" => \A o \in os : o.phase # "committed" => \E t \in Threads : Carries(th[t], o)
    /\ up = "recovering" => os = {}

FilesInv ==
    /\ OpsOK(ops, row) /\ PayloadOK(payload, job, ops) /\ payload \in BOOLEAN
    /\ \A p \in Preps : RowFiles(p, row[p], kit, ops)
    /\ \A t \in Threads : TaskOK(thread[t], row, kit, ops)
    /\ Undisputed(thread, ops) /\ Attended(thread, ops, service)

LEMMA PhaseFacts ==
    ASSUME NEW o \in Operation, NEW phase \in {"intent", "staged", "committed"}
    PROVE  /\ [o EXCEPT !.phase = phase] \in Operation /\ [o EXCEPT !.phase = phase].phase = phase
           /\ [o EXCEPT !.phase = phase].kind = o.kind /\ [o EXCEPT !.phase = phase].subject = o.subject
           /\ [o EXCEPT !.phase = phase].kits = o.kits
  BY DEF Operation

\* Whoever claims a row works on a preparation.
LEMMA ClaimFacts ==
    ASSUME ReleaseInv, FilesInv, NEW t \in Threads, NEW s \in {"PREPARING", "SEEDING_CHECK"}, Claims(thread[t], s)
    PROVE  thread[t].prep \in Preps /\ thread[t].fresh /\ row[thread[t].prep].state = s /\ s \in Active
<1>1. CopyOK(thread[t], row) /\ TaskOK(thread[t], row, kit, ops)
  BY DEF ReleaseInv, ThreadsOK, ThreadOK, FilesInv
<1>2. thread[t].prep \in Preps
  BY <1>1 DEF Claims, CopyOK, Working, Removing
<1> QED BY <1>1, <1>2 DEF TaskOK, Active

\* A claim is not given up by who loses a copy of something else.
LEMMA TaskStays ==
    ASSUME NEW r, NEW q, q.at = r.at, q.op = r.op, q.prep = r.prep,
           NEW rows, NEW rows2, NEW k, NEW k2, NEW os, NEW os2, TaskOK(r, rows, k, os),
           \A s \in {"PREPARING", "SEEDING_CHECK"} : Claims(r, s) => q.fresh = r.fresh /\ rows2[r.prep].state = rows[r.prep].state,
           r.at = "built" => (r.prep \in k => r.prep \in k2),
           r.at \in {"stage", "commit"} => (r.op \in os => r.op \in os2)
    PROVE  TaskOK(q, rows2, k2, os2)
<1>1. \A s : Claims(q, s) <=> Claims(r, s)
  BY DEF Claims
<1> QED BY <1>1 DEF TaskOK

\* No thread takes up anything new.
LEMMA NothingTaken ==
    ASSUME FilesInv, NEW th, \A u \in Threads : th[u].at = thread[u].at /\ th[u].op = thread[u].op /\ th[u].prep = thread[u].prep
    PROVE  Undisputed(th, ops) /\ Attended(th, ops, service)
<1>1. \A u \in Threads : \A s : Claims(th[u], s) <=> Claims(thread[u], s)
  BY DEF Claims
<1>2. \A u \in Threads : \A o : Carries(th[u], o) <=> Carries(thread[u], o)
  BY DEF Carries
<1>3. Undisputed(thread, ops) /\ Attended(thread, ops, service)
  BY DEF FilesInv
<1>4. Undisputed(th, ops)
  BY <1>1, <1>2, <1>3 DEF Undisputed
<1>5. Attended(th, ops, service)
  BY <1>2, <1>3 DEF Attended
<1> QED BY <1>4, <1>5

(* Thread t goes on; the others stay where they are.  What it claims it has  *)
(* claimed before or nobody else claims, and it carries what others do not.  *)
LEMMA Taken ==
    ASSUME ReleaseInv, FilesInv, NEW t \in Threads, NEW th, NEW os,
           \A u \in Threads \ {t} : th[u].at = thread[u].at /\ th[u].op = thread[u].op /\ th[u].prep = thread[u].prep,
           \A s \in {"PREPARING", "SEEDING_CHECK"} : Claims(th[t], s) =>
               \A u \in Threads \ {t} : ~(Claims(thread[u], s) /\ thread[u].prep = th[t].prep),
           \A o \in os : Carries(th[t], o) => \A u \in Threads \ {t} : ~Carries(thread[u], o),
           \A o \in os \ ops : \A u \in Threads \ {t} : ~Carries(thread[u], o),
           \A o \in os : o.phase # "committed" => Carries(th[t], o) \/ (o \in ops /\ ~Carries(thread[t], o)),
           service = "up"
    PROVE  Undisputed(th, os) /\ Attended(th, os, "up")
<1>1. \A u \in Threads \ {t} : \A s : Claims(th[u], s) <=> Claims(thread[u], s)
  BY DEF Claims
<1>2. \A u \in Threads \ {t} : \A o : Carries(th[u], o) <=> Carries(thread[u], o)
  BY DEF Carries
<1>3. ASSUME NEW u \in Threads, NEW v \in Threads, NEW s \in {"PREPARING", "SEEDING_CHECK"},
             Claims(th[u], s), Claims(th[v], s), th[u].prep = th[v].prep
      PROVE  u = v
  <2>1. CASE u # t /\ v # t
    BY <1>1, <1>3, <2>1 DEF FilesInv, Undisputed
  <2>2. CASE u = t \/ v = t
    BY <1>1, <1>3, <2>2
  <2> QED BY <2>1, <2>2
<1>4. ASSUME NEW u \in Threads, NEW v \in Threads, NEW o \in os, Carries(th[u], o), Carries(th[v], o) PROVE u = v
  <2>1. CASE u # t /\ v # t
    BY <1>2, <1>4, <2>1 DEF FilesInv, Undisputed
  <2>2. CASE u = t \/ v = t
    BY <1>2, <1>4, <2>2
  <2> QED BY <2>1, <2>2
<1>5. ASSUME NEW o \in os, o.phase # "committed" PROVE \E u \in Threads : Carries(th[u], o)
  <2>1. CASE Carries(th[t], o)
    BY <2>1
  <2>2. CASE o \in ops /\ ~Carries(thread[t], o)
    <3>1. \E u \in Threads : Carries(thread[u], o)
      BY <1>5, <2>2 DEF FilesInv, Attended
    <3> QED BY <1>2, <2>2, <3>1
  <2> QED BY <1>5, <2>1, <2>2
<1> QED BY <1>3, <1>4, <1>5 DEF Undisputed, Attended

\* A thread does no more than go on without taking up anything.
LEMMA QuietKeeps ==
    ASSUME ReleaseInv, FilesInv, NEW t \in Threads, NEW mine, thread' = [thread EXCEPT ![t] = mine],
           TaskOK(mine, row, kit', ops), service = "up",
           \A s \in {"PREPARING", "SEEDING_CHECK"} : Claims(mine, s) => Claims(thread[t], s) /\ mine.prep = thread[t].prep,
           \A o \in ops : Carries(mine, o) <=> Carries(thread[t], o),
           kit \subseteq kit', UNCHANGED <<row, job, payload, ops, service>>
    PROVE  FilesInv'
<1>1. thread'[t] = mine /\ \A u \in Threads \ {t} : thread'[u] = thread[u]
  BY DEF ReleaseInv, ReleaseTyped
<1>2. \A s \in {"PREPARING", "SEEDING_CHECK"} : Claims(mine, s) =>
        \A u \in Threads \ {t} : ~(Claims(thread[u], s) /\ thread[u].prep = mine.prep)
  BY DEF FilesInv, Undisputed
<1>3. \A o \in ops : Carries(mine, o) => \A u \in Threads \ {t} : ~Carries(thread[u], o)
  BY DEF FilesInv, Undisputed
<1>4. Undisputed(thread', ops) /\ Attended(thread', ops, "up")
  <2>1. \A u \in Threads \ {t} :
          thread'[u].at = thread[u].at /\ thread'[u].op = thread[u].op /\ thread'[u].prep = thread[u].prep
    BY <1>1
  <2>2. \A o \in ops : o.phase # "committed" =>
          Carries(thread'[t], o) \/ (o \in ops /\ ~Carries(thread[t], o))
    BY <1>1
  <2>3. \A o \in ops \ ops : \A u \in Threads \ {t} : ~Carries(thread[u], o)
    OBVIOUS
  <2>4. /\ \A s \in {"PREPARING", "SEEDING_CHECK"} : Claims(thread'[t], s) =>
               \A u \in Threads \ {t} : ~(Claims(thread[u], s) /\ thread[u].prep = thread'[t].prep)
        /\ \A o \in ops : Carries(thread'[t], o) => \A u \in Threads \ {t} : ~Carries(thread[u], o)
    BY <1>1, <1>2, <1>3
  <2> QED BY <2>1, <2>2, <2>3, <2>4, Taken
<1>5. ASSUME NEW u \in Threads PROVE TaskOK(thread'[u], row, kit', ops)
  <2>1. CASE u = t
    BY <1>1, <2>1
  <2>2. CASE u # t
    BY <1>1, <2>2 DEF FilesInv, TaskOK
  <2> QED BY <2>1, <2>2
<1>6. /\ OpsOK(ops', row') /\ PayloadOK(payload', job', ops') /\ payload' \in BOOLEAN
      /\ \A p \in Preps : RowFiles(p, row'[p], kit', ops')
  BY DEF FilesInv, RowFiles
<1> QED BY <1>4, <1>5, <1>6 DEF FilesInv

\* A thread that rests.
LEMMA RestingTakesNothing ==
    /\ Resting.at = "idle"
    /\ \A rows, k, os : TaskOK(Resting, rows, k, os)
    /\ \A s : ~Claims(Resting, s)
    /\ \A o : ~Carries(Resting, o)
<1>1. Resting.at = "idle"
  BY RestingFacts
<1> QED BY <1>1 DEF TaskOK, Claims, Carries

LEMMA RestKeepsFiles ==
    ASSUME ReleaseInv, FilesInv, NEW t \in Threads, Rest(t), thread[t].at \notin {"idle", "stage", "commit"},
           UNCHANGED <<row, job, kit, payload, ops, service>>
    PROVE  FilesInv'
<1>1. \A o \in ops : Carries(Resting, o) <=> Carries(thread[t], o)
  BY RestingTakesNothing DEF Carries
<1>2. thread' = [thread EXCEPT ![t] = Resting] /\ service = "up"
  BY Serving DEF Rest
<1>3. TaskOK(Resting, row, kit, ops) /\ \A s : ~Claims(Resting, s)
  BY RestingTakesNothing
<1> QED BY <1>1, <1>2, <1>3, QuietKeeps

\* Who works on a row with a current copy of it has it to itself.
LEMMA SoleClaim ==
    ASSUME ReleaseInv, FilesInv, NEW t \in Threads, thread[t].at \in Working, thread[t].fresh,
           NEW u \in Threads \ {t}, NEW s \in {"PREPARING", "SEEDING_CHECK"}, Claims(thread[u], s)
    PROVE  thread[u].prep # thread[t].prep
<1> SUFFICES ASSUME thread[u].prep = thread[t].prep PROVE FALSE
  OBVIOUS
<1>1. row[thread[t].prep].state = s
  BY ClaimFacts
<1>2. s \in StatesAt(thread[t].at)
  BY <1>1 DEF ReleaseInv, ThreadsOK, ThreadOK, CopyOK
<1>3. Claims(thread[t], s)
  BY <1>2 DEF StatesAt, Claims, Working
<1> QED BY <1>3 DEF FilesInv, Undisputed

Built == {NoPrep, "NOT_PREPARED", "PREPARING", "FAILED"}

\* One write of thread t to the row it works on.
LEMMA WriteKeepsFiles ==
    ASSUME ReleaseInv, FilesInv, NEW t \in Threads, thread[t].at \in Working, Current(t),
           NEW new, NEW mine, PrepWritten(t, new, mine), UNCHANGED Local,
           RowFiles(thread[t].prep, new, kit, ops),
           TaskOK(mine, row', kit, ops), mine.prep = thread[t].prep \/ mine = Resting,
           mine.at \notin {"stage", "commit"}
    PROVE  FilesInv'
<1> DEFINE p == thread[t].prep
<1>1. p \in Preps /\ thread[t].fresh
  BY DEF Current, ReleaseInv, ThreadsOK, ThreadOK, CopyOK
<1>2. row'[p] = new /\ \A q \in Preps \ {p} : row'[q] = row[q]
  BY <1>1 DEF PrepWritten, ReleaseInv, ReleaseTyped
<1>3. /\ thread'[t] = mine
      /\ \A u \in Threads \ {t} :
           thread'[u] = IF thread[u].prep \in {p, Job} THEN Lost(thread[u]) ELSE thread[u]
  BY DEF PrepWritten, Stale, Lost
<1>4. \A u \in Threads \ {t} :
        /\ thread'[u].at = thread[u].at /\ thread'[u].op = thread[u].op /\ thread'[u].prep = thread[u].prep
        /\ thread[u].prep \notin {p, Job} => thread'[u].fresh = thread[u].fresh
  BY <1>3, LostFacts DEF ReleaseInv, ReleaseTyped
<1>5. service = "up" /\ UNCHANGED <<job, kit, payload, ops, service>>
  BY Serving DEF Local, Working
<1>6. ASSUME NEW o \in ops PROVE OpOK(o, row')
  <2>1. OpOK(o, row) /\ o.kind \notin {"purge", "release"} /\ (o.kind = "delete" => o.subject # p)
    BY DEF FilesInv, OpsOK, Current, NoDestructiveIntent
  <2>2. CASE o.kind = "orphan" /\ o.phase # "committed"
    <3>1. PICK u \in Threads : Carries(thread[u], o)
      BY <1>5, <2>2 DEF FilesInv, Attended
    <3>2. u # t /\ Claims(thread[u], "PREPARING")
      BY <2>2, <3>1 DEF Carries, Claims, Working
    <3>3. thread[u].prep # p /\ thread[u].prep = o.subject
      BY <1>1, <3>1, <3>2, SoleClaim DEF ReleaseInv, ThreadsOK, ThreadOK, CopyOK, Removing, Carries
    <3> QED BY <1>2, <2>1, <2>2, <3>3 DEF OpOK
  <2>3. CASE ~(o.kind = "orphan" /\ o.phase # "committed")
    BY <1>2, <2>1, <2>3 DEF OpOK
  <2> QED BY <2>2, <2>3
<1>7. \A q \in Preps : RowFiles(q, row'[q], kit, ops)
  BY <1>2 DEF FilesInv
<1>8. ASSUME NEW u \in Threads PROVE TaskOK(thread'[u], row', kit, ops)
  <2>1. CASE u = t
    BY <1>3, <2>1
  <2>2. CASE u # t
    <3>1. \A s \in {"PREPARING", "SEEDING_CHECK"} : Claims(thread[u], s) =>
             thread[u].prep \in Preps \ {p} /\ thread[u].prep # Job
      BY <1>1, <2>2, SoleClaim, ClaimFacts, JobAssumption
    <3>2. TaskOK(thread[u], row, kit, ops)
      BY DEF FilesInv
    <3> QED BY <1>2, <1>4, <2>2, <3>1, <3>2, TaskStays
  <2> QED BY <2>1, <2>2
<1>9. Undisputed(thread', ops) /\ Attended(thread', ops, "up")
  <2>1. \A s \in {"PREPARING", "SEEDING_CHECK"} : Claims(mine, s) =>
          \A u \in Threads \ {t} : ~(Claims(thread[u], s) /\ thread[u].prep = mine.prep)
    BY <1>1, SoleClaim, RestingTakesNothing
  <2>2. \A o : ~Carries(mine, o) /\ ~Carries(thread[t], o)
    BY DEF Carries, Working
  <2> QED BY <1>3, <1>4, <1>5, <2>1, <2>2, Taken
<1> QED BY <1>5, <1>6, <1>7, <1>8, <1>9 DEF FilesInv, OpsOK

\* A kit that counts goes on counting while its row moves on.
LEMMA StillLive ==
    ASSUME FilesInv, NEW p \in Preps, row[p].state \notin Built, NEW new, new.kitPath = row[p].kitPath
    PROVE  RowFiles(p, new, kit, ops)
  BY DEF FilesInv, RowFiles, Built

LEMMA MoveKeepsFiles ==
    ASSUME ReleaseInv, FilesInv, NEW t \in Threads, thread[t].at \in Working, Current(t), NEW s \in State,
           NEW mine, PrepMoves(t, s, mine), UNCHANGED Local,
           s \in {"PREPARING", "FAILED"} \/ row[thread[t].prep].state \notin Built,
           \/ mine = Resting
           \/ /\ mine.at \in {"building", "duping", "seeding", "rechecking", "binding"}
              /\ mine.prep = thread[t].prep /\ mine.fresh = thread[t].fresh
              /\ mine.at = "building" => s = "PREPARING"
              /\ mine.at = "duping" => s = "SEEDING_CHECK"
    PROVE  FilesInv'
<1> DEFINE p == thread[t].prep
           new == [row[p] EXCEPT !.state = s]
<1>1. p \in Preps /\ row[p] \in Row /\ thread[t].fresh
  BY Known DEF Current
<1>2. new.state = s /\ new.kitPath = row[p].kitPath
  BY <1>1 DEF Row
<1>3. PrepWritten(t, new, mine) /\ row'[p].state = s
  BY <1>1, <1>2 DEF PrepMoves, PrepWritten, ReleaseInv, ReleaseTyped
<1> HIDE DEF new
<1>4. RowFiles(p, new, kit, ops)
  BY <1>1, <1>2, StillLive DEF RowFiles
<1>5. TaskOK(mine, row', kit, ops)
  BY <1>1, <1>3, RestingTakesNothing DEF TaskOK, Claims
<1>6. mine.at \notin {"stage", "commit"}
  BY RestingTakesNothing
<1> QED BY <1>3, <1>4, <1>5, <1>6, WriteKeepsFiles

LEMMA RefusedKeepsFiles ==
    ASSUME ReleaseInv, FilesInv, NEW t \in Threads, NEW allowed, Refused(t, allowed),
           thread[t].at \notin {"idle", "stage", "commit"}, UNCHANGED <<job, kit, payload, ops, service>>
    PROVE  FilesInv'
<1>1. Rest(t) /\ UNCHANGED <<row, job, kit, payload, ops, service>>
  BY DEF Refused
<1> QED BY <1>1, RestKeepsFiles

\* Claiming a row, or recording what became of the work on it.
LEMMA ClaimsKeepFiles ==
    ASSUME ReleaseInv, FilesInv, NEW t \in Threads,
           \/ ClaimBuild(t) \/ ClaimDupeCheck(t) \/ FinishDupeCheck(t) \/ ClaimSeeding(t)
           \/ ClaimPublication(t) \/ Recheck(t)
    PROVE  FilesInv'
<1>1. /\ thread[t].at \in {"build", "dupe", "duping", "seed", "publish", "rechecking"} /\ UNCHANGED Local
      /\ thread[t].at \in Working
  BY DEF ClaimBuild, ClaimDupeCheck, FinishDupeCheck, ClaimSeeding, ClaimPublication, Recheck, Working
<1>2. ASSUME NEW allowed, Refused(t, allowed) PROVE FilesInv'
  BY <1>1, <1>2, RefusedKeepsFiles DEF Local
<1>3. Current(t) => row[thread[t].prep].state \in StatesAt(thread[t].at)
  BY <1>1, Known
<1>4. \A at \in {"building", "duping", "seeding", "rechecking", "binding"} :
        At(t, at).at = at /\ At(t, at).prep = thread[t].prep /\ At(t, at).fresh = thread[t].fresh
  BY AtFacts
<1>5. {"PREPARING", "SEEDING_CHECK", "READY_TO_PUBLISH", "NEEDS_REVIEW", "UNKNOWN", "SEEDING", "PUBLISHING"} \subseteq State
  BY DEF State, Active, Deletable, External
<1>6. CASE ClaimBuild(t)
  <2>1. CASE MayMove(t, "PREPARING") /\ PrepMoves(t, "PREPARING", At(t, "building"))
    BY <1>1, <1>4, <1>5, <2>1, MoveKeepsFiles DEF MayMove
  <2> QED BY <1>2, <1>6, <2>1 DEF ClaimBuild
<1>7. CASE ClaimDupeCheck(t)
  <2>1. CASE MayMove(t, "SEEDING_CHECK") /\ PrepMoves(t, "SEEDING_CHECK", At(t, "duping"))
    <3>1. Current(t) /\ row[thread[t].prep].state \notin Built
      BY <1>3, <1>7, <2>1 DEF MayMove, ClaimDupeCheck, StatesAt, Built, NoPrep
    <3> QED BY <1>1, <1>4, <1>5, <2>1, <3>1, MoveKeepsFiles
  <2> QED BY <1>2, <1>7, <2>1 DEF ClaimDupeCheck
<1>8. CASE FinishDupeCheck(t)
  <2>1. ASSUME NEW s \in {"READY_TO_PUBLISH", "NEEDS_REVIEW", "UNKNOWN"}, MayMove(t, s), PrepMoves(t, s, Resting)
        PROVE  FilesInv'
    <3>1. Current(t) /\ row[thread[t].prep].state \notin Built
      BY <1>3, <1>8, <2>1 DEF MayMove, FinishDupeCheck, StatesAt, Built, NoPrep
    <3> QED BY <1>1, <1>5, <2>1, <3>1, MoveKeepsFiles
  <2> QED BY <1>2, <1>8, <2>1 DEF FinishDupeCheck
<1>9. CASE ClaimSeeding(t)
  <2>1. CASE MaySeed(t) /\ PrepMoves(t, "SEEDING", At(t, "seeding"))
    <3>1. Current(t) /\ row[thread[t].prep].state \notin Built
      BY <2>1 DEF MaySeed, Built, NoPrep
    <3> QED BY <1>1, <1>4, <1>5, <2>1, <3>1, MoveKeepsFiles
  <2> QED BY <1>2, <1>9, <2>1 DEF ClaimSeeding
<1>10. CASE ClaimPublication(t)
  <2>1. CASE MayPublish(t) /\ PrepMoves(t, "PUBLISHING", At(t, "rechecking"))
    <3>1. Current(t) /\ row[thread[t].prep].state \notin Built
      BY <2>1 DEF MayPublish, Built, NoPrep
    <3> QED BY <1>1, <1>4, <1>5, <2>1, <3>1, MoveKeepsFiles
  <2> QED BY <1>2, <1>10, <2>1 DEF ClaimPublication
<1>11. CASE Recheck(t)
  <2>1. ASSUME NEW s \in {"NEEDS_REVIEW", "UNKNOWN"}, MayMove(t, s), PrepMoves(t, s, Resting)
        PROVE  FilesInv'
    <3>1. Current(t) /\ row[thread[t].prep].state \notin Built
      BY <1>3, <1>11, <2>1 DEF MayMove, Recheck, StatesAt, Built, NoPrep
    <3> QED BY <1>1, <1>5, <2>1, <3>1, MoveKeepsFiles
  <2>2. CASE MayMove(t, "PUBLISHING") /\ PrepMoves(t, "PUBLISHING", At(t, "binding"))
    <3>1. Current(t) /\ row[thread[t].prep].state \notin Built
      BY <1>3, <1>11, <2>2 DEF MayMove, Recheck, StatesAt, Built, NoPrep
    <3> QED BY <1>1, <1>4, <1>5, <2>2, <3>1, MoveKeepsFiles
  <2> QED BY <1>2, <1>11, <2>1, <2>2 DEF Recheck
<1> QED BY <1>6, <1>7, <1>8, <1>9, <1>10, <1>11

LEMMA GoingOnKeepsFiles ==
    ASSUME ReleaseInv, FilesInv, NEW t \in Threads, NEW mine, thread' = [thread EXCEPT ![t] = mine],
           mine.at \in {"build", "dupe", "seed", "publish", "added", "published", "sending", "begin"},
           thread[t].at \notin {"stage", "commit"}, service = "up",
           mine.at = "begin" => TaskOK(mine, row, kit, ops),
           UNCHANGED <<row, job, kit, payload, ops, service>>
    PROVE  FilesInv'
<1>1. TaskOK(mine, row, kit, ops) /\ \A s : ~Claims(mine, s)
  BY DEF TaskOK, Claims
<1>2. \A o : ~Carries(mine, o) /\ ~Carries(thread[t], o)
  BY DEF Carries
<1> QED BY <1>1, <1>2, QuietKeeps

\* Sending, waiting for the answer and the record of it.
LEMMA RemoteKeepsFiles ==
    ASSUME ReleaseInv, FilesInv, NEW t \in Threads,
           SendAdd(t) \/ SendPublication(t) \/ RecordSeed(t) \/ RecordPublication(t) \/ Rebind(t)
    PROVE  FilesInv'
<1>1. /\ thread[t].at \in {"seeding", "added", "binding", "sending", "published"} /\ thread[t].at \in Working
      /\ UNCHANGED <<job, kit, payload, ops, service>>
  <2>1. thread[t].at \in {"seeding", "added", "binding", "sending", "published"}
    BY DEF SendAdd, SendPublication, RecordSeed, RecordPublication, Rebind
  <2>2. UNCHANGED <<job, kit, payload, ops, service>>
    BY DEF SendAdd, SendPublication, Send, RecordSeed, RecordPublication, Rebind, Local
  <2> QED BY <2>1, <2>2 DEF Working
<1>2. service = "up"
  BY <1>1, Serving
<1>3. ASSUME NEW allowed, Refused(t, allowed) PROVE FilesInv'
  BY <1>1, <1>3, RefusedKeepsFiles
<1>4. ASSUME NEW at \in {"added", "published", "sending"}, Goto(t, at), UNCHANGED row PROVE FilesInv'
  <2>1. thread' = [thread EXCEPT ![t] = At(t, at)] /\ At(t, at).at = at
    BY <1>4, AtFacts DEF Goto, At
  <2> QED BY <1>1, <1>2, <1>4, <2>1, GoingOnKeepsFiles
<1>5. ASSUME NEW new, UNCHANGED Local, new.kitPath = row[thread[t].prep].kitPath, Current(t), PrepWritten(t, new, Resting)
      PROVE  FilesInv'
  <2>1. thread[t].prep \in Preps /\ row[thread[t].prep].state \notin Built
    BY <1>1, <1>5, Known DEF StatesAt, Built, NoPrep
  <2>2. RowFiles(thread[t].prep, new, kit, ops)
    BY <1>5, <2>1, StillLive
  <2> QED BY <1>1, <1>5, <2>2, RestingTakesNothing, WriteKeepsFiles
<1>6. CASE SendAdd(t) \/ SendPublication(t)
  BY <1>4, <1>6 DEF SendAdd, SendPublication, Send
<1>7. CASE RecordSeed(t) \/ RecordPublication(t)
  <2>1. ASSUME NEW s, NEW outcome,
               \/ PrepWritten(t, [row[thread[t].prep] EXCEPT !.state = s, !.seed = outcome], Resting)
               \/ PrepWritten(t, [row[thread[t].prep] EXCEPT !.state = s, !.pub = outcome], Resting),
               MayMove(t, s)
        PROVE  FilesInv'
    <3>1. Current(t) /\ UNCHANGED Local
      BY <1>7, <2>1 DEF MayMove, RecordSeed, RecordPublication
    <3>2. row[thread[t].prep] \in Row
      BY <1>1, <3>1, Known
    <3>3. /\ [row[thread[t].prep] EXCEPT !.state = s, !.seed = outcome].kitPath = row[thread[t].prep].kitPath
          /\ [row[thread[t].prep] EXCEPT !.state = s, !.pub = outcome].kitPath = row[thread[t].prep].kitPath
      BY <3>2 DEF Row
    <3> QED BY <1>5, <2>1, <3>1, <3>3
  <2>2. CASE RecordSeed(t)
    <3>1. ASSUME NEW outcome \in AddOutcomes(t), NEW s, s = IF outcome = "unknown" THEN "UNKNOWN" ELSE thread[t].was,
                 MayMove(t, s), PrepWritten(t, [row[thread[t].prep] EXCEPT !.state = s, !.seed = outcome], Resting)
          PROVE  FilesInv'
      BY <2>1, <3>1
    <3> QED BY <1>3, <2>2, <3>1 DEF RecordSeed
  <2>3. CASE RecordPublication(t)
    <3>1. ASSUME NEW outcome \in PublicationOutcomes(t), NEW s, s = PublicationTarget(outcome),
                 MayMove(t, s), PrepWritten(t, [row[thread[t].prep] EXCEPT !.state = s, !.pub = outcome], Resting)
          PROVE  FilesInv'
      BY <2>1, <3>1
    <3> QED BY <1>3, <2>3, <3>1 DEF RecordPublication
  <2> QED BY <1>7, <2>2, <2>3
<1>8. CASE Rebind(t)
  <2>1. CASE MayMove(t, "FAILED") /\ PrepMoves(t, "FAILED", Resting)
    <3>1. "FAILED" \in State /\ UNCHANGED Local
      BY <1>8 DEF State, Deletable, Rebind
    <3> QED BY <1>1, <2>1, <3>1, MoveKeepsFiles DEF MayMove
  <2> QED BY <1>3, <1>4, <1>8, <2>1 DEF Rebind
<1> QED BY <1>6, <1>7, <1>8

\* A new row counts on no kit.
LEMMA CreateKeepsFiles ==
    ASSUME ReleaseInv, FilesInv, NEW p \in Preps, Create(p)
    PROVE  FilesInv'
<1>1. row' = [row EXCEPT ![p] = [NoRow EXCEPT !.state = "NOT_PREPARED"]] /\ row[p].state = NoPrep
  BY DEF Create
<1>2. /\ row'[p].state = "NOT_PREPARED" /\ ~row'[p].kitPath
      /\ \A q \in Preps \ {p} : row'[q] = row[q]
  BY <1>1 DEF NoRow, ReleaseInv, ReleaseTyped
<1>3. \A u \in Threads : /\ thread'[u].at = thread[u].at /\ thread'[u].op = thread[u].op
                         /\ thread'[u].prep = thread[u].prep
                         /\ thread[u].prep \notin {p, Job} => thread'[u].fresh = thread[u].fresh
  <2>1. \A u \in Threads : thread'[u] = IF thread[u].prep \in {p, Job} THEN Lost(thread[u]) ELSE thread[u]
    BY DEF Create, Lost
  <2> QED BY <2>1, LostFacts DEF ReleaseInv, ReleaseTyped
<1>4. UNCHANGED <<job, kit, payload, ops, service>>
  BY DEF Create, Local
<1>5. OpsOK(ops, row')
  <2>1. ASSUME NEW o \in ops PROVE OpOK(o, row')
    <3>1. OpOK(o, row) /\ o.kind \notin {"purge", "release"} /\ o.subject # p
      BY DEF Create, FilesInv, OpsOK
    <3> QED BY <1>2, <3>1 DEF OpOK
  <2> QED BY <2>1 DEF FilesInv, OpsOK
<1>6. \A q \in Preps : RowFiles(q, row'[q], kit, ops)
  BY <1>2 DEF FilesInv, RowFiles
<1>7. ASSUME NEW u \in Threads PROVE TaskOK(thread'[u], row', kit, ops)
  <2>1. \A s \in {"PREPARING", "SEEDING_CHECK"} : Claims(thread[u], s) =>
           thread[u].prep \in Preps \ {p} /\ thread[u].prep # Job
    BY <1>1, ClaimFacts, JobAssumption DEF NoPrep
  <2>2. TaskOK(thread[u], row, kit, ops)
    BY DEF FilesInv
  <2> QED BY <1>2, <1>3, <2>1, <2>2, TaskStays
<1>8. Undisputed(thread', ops) /\ Attended(thread', ops, service)
  BY <1>3, NothingTaken
<1> QED BY <1>4, <1>5, <1>6, <1>7, <1>8 DEF FilesInv

LEMMA StartsKeepFiles ==
    ASSUME ReleaseInv, FilesInv, NEW t \in Threads, NEW p \in Preps,
           StartBuild(t, p) \/ StartDupeCheck(t, p) \/ StartSeed(t, p) \/ StartPublish(t, p)
    PROVE  FilesInv'
<1>1. UNCHANGED <<row, job, kit, payload, ops, service>>
  BY DEF StartBuild, StartDupeCheck, StartSeed, StartPublish, Local
<1>2. PICK at \in {"build", "dupe", "seed", "publish"}, was \in State \cup {NoPrep} : Begin(t, at, p, was)
  <2>1. row[p].state \in State \cup {NoPrep} /\ NoPrep \in State \cup {NoPrep}
    BY ThereIsState
  <2> QED BY <2>1 DEF StartBuild, StartDupeCheck, StartSeed, StartPublish
<1>3. thread' = [thread EXCEPT ![t] = Begun(at, p, was)] /\ service = "up" /\ thread[t].at = "idle"
  BY <1>2 DEF Begin, Begun
<1>4. Begun(at, p, was).at = at
  BY BegunFacts
<1> QED BY <1>1, <1>3, <1>4, GoingOnKeepsFiles

\* A deletion begins; it has an operation of the journal when there are files to move.
LEMMA BeginsKeepsFiles ==
    ASSUME ReleaseInv, FilesInv, NEW t \in Threads, NEW kind \in {"delete", "release", "purge"},
           NEW subject \in Preps \cup {Job}, NEW kits \in SUBSET Preps, NEW needsOp,
           StartDestroy(t, kind, subject, kits, needsOp),
           needsOp => /\ kind = "delete" => kits = {subject}
                      /\ kind = "purge" => kits # {},
           ~needsOp => kits = {} /\ kind \in {"delete", "purge"}
    PROVE  FilesInv'
<1> DEFINE o == [kind |-> kind, subject |-> subject, phase |-> "intent", kits |-> kits]
           at == IF needsOp THEN "begin" ELSE "commit"
           mine == Begins(at, kind, subject, kits)
<1>1. /\ thread' = [thread EXCEPT ![t] = mine] /\ service = "up" /\ thread[t].at = "idle"
      /\ UNCHANGED <<row, job, kit, payload, ops, service>>
  BY DEF StartDestroy, Begins, Local
<1>2. mine.at = at /\ mine.op = o
  BY DEF Begins, Resting
<1>3. o.kind = kind /\ o.subject = subject /\ o.phase = "intent" /\ o.kits = kits
  OBVIOUS
<1> HIDE DEF o, mine
<1>4. CASE needsOp
  <2>1. TaskOK(mine, row, kit, ops)
    BY <1>2, <1>3, <1>4 DEF TaskOK, Claims
  <2> QED BY <1>1, <1>2, <1>4, <2>1, GoingOnKeepsFiles
<1>5. CASE ~needsOp
  <2>1. TaskOK(mine, row, kit, ops) /\ \A s : ~Claims(mine, s)
    BY <1>2, <1>3, <1>5 DEF TaskOK, Claims
  <2>2. \A q \in ops : ~Carries(mine, q) /\ ~Carries(thread[t], q)
    BY <1>1, <1>2, <1>3, <1>5 DEF Carries, FilesInv, OpsOK, OpOK
  <2> QED BY <1>1, <2>1, <2>2, QuietKeeps
<1> QED BY <1>4, <1>5

LEMMA RemovalsKeepFiles ==
    ASSUME ReleaseInv, FilesInv, NEW t \in Threads,
           (\E p \in Preps : StartDelete(t, p)) \/ StartReleaseDelete(t) \/ StartPurge(t)
    PROVE  FilesInv'
<1>1. KitsOfJob \in SUBSET Preps
  BY DEF KitsOfJob, Rows
<1>2. ASSUME NEW p \in Preps, StartDelete(t, p) PROVE FilesInv'
  <2>1. CASE row[p].kitPath
    <3>1. StartDestroy(t, "delete", p, {p}, row[p].kitPath)
      BY <1>2, <2>1 DEF StartDelete
    <3> QED BY <2>1, <3>1, BeginsKeepsFiles
  <2>2. CASE ~row[p].kitPath
    <3>1. StartDestroy(t, "delete", p, {}, row[p].kitPath)
      BY <1>2, <2>2 DEF StartDelete
    <3> QED BY <2>2, <3>1, BeginsKeepsFiles
  <2> QED BY <2>1, <2>2
<1>3. CASE StartReleaseDelete(t)
  BY <1>1, <1>3, BeginsKeepsFiles DEF StartReleaseDelete
<1>4. CASE StartPurge(t)
  BY <1>1, <1>4, BeginsKeepsFiles DEF StartPurge
<1> QED BY <1>2, <1>3, <1>4

-----------------------------------------------------------------------------
(* Building, and beginning the removal of what a failed build left           *)

LEMMA BuildKeepsFiles ==
    ASSUME ReleaseInv, FilesInv, NEW t \in Threads, BuildKit(t) \/ BuildFails(t) \/ FinishBuild(t)
    PROVE  FilesInv'
<1>1. thread[t].at \in {"building", "built"} /\ thread[t].at \in Working /\ service = "up"
  BY Serving DEF BuildKit, BuildFails, FinishBuild, Working
<1>2. /\ \A s : Claims(thread[t], s) <=> s = "PREPARING"
      /\ thread[t].prep \in Preps /\ thread[t].fresh /\ row[thread[t].prep].state = "PREPARING"
  <2>1. \A s : Claims(thread[t], s) <=> s = "PREPARING"
    BY <1>1 DEF Claims
  <2> QED BY <2>1, ClaimFacts
<1>3. CASE BuildKit(t)
  <2> DEFINE mine == At(t, "built")
  <2>1. /\ thread' = [thread EXCEPT ![t] = mine] /\ kit' = kit \cup {thread[t].prep}
        /\ UNCHANGED <<row, job, payload, ops, service>>
    BY <1>3 DEF BuildKit, Goto, At
  <2>2. mine.at = "built" /\ mine.prep = thread[t].prep /\ mine.fresh = thread[t].fresh
    BY AtFacts
  <2>3. \A s \in {"PREPARING", "SEEDING_CHECK"} : Claims(mine, s) => s = "PREPARING"
    BY <2>2 DEF Claims
  <2>4. TaskOK(mine, row, kit', ops)
    BY <1>2, <2>1, <2>2, <2>3 DEF TaskOK
  <2>5. \A o : ~Carries(mine, o) /\ ~Carries(thread[t], o)
    BY <1>1, <2>2 DEF Carries
  <2> HIDE DEF mine
  <2> QED BY <1>1, <1>2, <2>1, <2>2, <2>3, <2>4, <2>5, QuietKeeps
<1>4. CASE BuildFails(t)
  <2> DEFINE mine == [thread[t] EXCEPT !.at = "failed", !.fresh = TRUE]
  <2>1. thread' = [thread EXCEPT ![t] = mine] /\ UNCHANGED <<row, job, kit, payload, ops, service>>
    BY <1>2, <1>4 DEF BuildFails, Local
  <2>2. mine.at = "failed" /\ mine.prep = thread[t].prep /\ mine.fresh
    BY DEF ReleaseInv, ReleaseTyped, ThreadRow
  <2> HIDE DEF mine
  <2>3. \A s \in {"PREPARING", "SEEDING_CHECK"} : Claims(mine, s) => s = "PREPARING"
    BY <2>2 DEF Claims
  <2>4. TaskOK(mine, row, kit, ops)
    BY <1>2, <2>2, <2>3 DEF TaskOK
  <2>5. \A o : ~Carries(mine, o) /\ ~Carries(thread[t], o)
    BY <1>1, <2>2 DEF Carries
  <2> QED BY <1>1, <1>2, <2>1, <2>2, <2>3, <2>4, <2>5, QuietKeeps
<1>5. CASE FinishBuild(t)
  <2> DEFINE new == [row[thread[t].prep] EXCEPT !.state = "READY", !.kitPath = TRUE]
  <2>1. PrepWritten(t, new, Resting) /\ UNCHANGED Local /\ Current(t)
    BY <1>5 DEF FinishBuild, MayMove
  <2>2. RowFiles(thread[t].prep, new, kit, ops)
    <3>1. thread[t].prep \in kit
      BY <1>5 DEF FinishBuild, FilesInv, TaskOK
    <3>2. new.kitPath
      BY <1>1, <2>1, Known DEF Row
    <3> QED BY <3>1, <3>2 DEF RowFiles
  <2> HIDE DEF new
  <2> QED BY <1>1, <2>1, <2>2, RestingTakesNothing, WriteKeepsFiles
<1> QED BY <1>3, <1>4, <1>5

(* A thread begins an operation of its own; its kits are nobody else's.      *)
LEMMA OpBegun ==
    ASSUME ReleaseInv, FilesInv, NEW t \in Threads, NEW o, o \in Operation, o.phase = "intent", OpOK(o, row),
           o.kits # {} \/ o.kind = "release",
           \A q \in ops : q.kits \cap o.kits = {} /\ ~(q.kind = "release" /\ o.kind = "release"),
           NEW mine, mine.at = "stage", mine.op = o, thread' = [thread EXCEPT ![t] = mine],
           thread[t].at \notin {"stage", "commit"},
           o.kind = "orphan" => /\ Claims(thread[t], "PREPARING")
                                /\ mine.prep = thread[t].prep /\ mine.fresh = thread[t].fresh,
           ops' = ops \cup {o}, UNCHANGED <<row, job, kit, payload, service>>, service = "up"
    PROVE  FilesInv'
<1>1. thread'[t] = mine /\ \A u \in Threads \ {t} : thread'[u] = thread[u]
  BY DEF ReleaseInv, ReleaseTyped
<1>2. o \notin ops
  OBVIOUS
<1>3. \A u \in Threads : ~Carries(thread[u], o)
  BY <1>2 DEF Carries, FilesInv, TaskOK
<1>4. OpsOK(ops', row)
  BY DEF FilesInv, OpsOK
<1>5. PayloadOK(payload, job, ops') /\ \A p \in Preps : RowFiles(p, row[p], kit, ops')
  BY DEF FilesInv, PayloadOK, RowFiles, Quarantined
<1>6. /\ \A s : Claims(mine, s) => s = "PREPARING" /\ o.kind = "orphan"
      /\ \A q : Carries(mine, q) <=> q = o
      /\ \A q : ~Carries(thread[t], q)
  BY DEF Claims, Carries
<1>7. ASSUME NEW u \in Threads PROVE TaskOK(thread'[u], row, kit, ops')
  <2>1. CASE u = t
    <3>1. o.kind = "orphan" => mine.fresh /\ row[mine.prep].state = "PREPARING"
      BY ClaimFacts
    <3> QED BY <1>1, <1>6, <2>1, <3>1 DEF TaskOK
  <2>2. CASE u # t
    BY <1>1, <2>2 DEF FilesInv, TaskOK
  <2> QED BY <2>1, <2>2
<1>8. Undisputed(thread', ops') /\ Attended(thread', ops', "up")
  <2> DEFINE th == thread'
             os == ops'
  <2>1. th[t] = mine /\ \A u \in Threads \ {t} : th[u] = thread[u]
    BY <1>1
  <2>2. os = ops \cup {o}
    OBVIOUS
  <2> HIDE DEF th, os
  <2>3. \A s \in {"PREPARING", "SEEDING_CHECK"} : Claims(th[t], s) =>
          \A u \in Threads \ {t} : ~(Claims(thread[u], s) /\ thread[u].prep = th[t].prep)
    BY <1>6, <2>1 DEF FilesInv, Undisputed
  <2>4. \A q \in os : Carries(th[t], q) => \A u \in Threads \ {t} : ~Carries(thread[u], q)
    BY <1>3, <1>6, <2>1
  <2>5. \A q \in os \ ops : \A u \in Threads \ {t} : ~Carries(thread[u], q)
    BY <1>3, <2>2
  <2>6. \A q \in os : q.phase # "committed" => Carries(th[t], q) \/ (q \in ops /\ ~Carries(thread[t], q))
    BY <1>6, <2>1, <2>2
  <2>7. \A u \in Threads \ {t} : th[u].at = thread[u].at /\ th[u].op = thread[u].op /\ th[u].prep = thread[u].prep
    BY <2>1
  <2>8. Undisputed(th, os) /\ Attended(th, os, "up")
    BY <2>3, <2>4, <2>5, <2>6, <2>7, Taken
  <2> QED BY <2>8 DEF th, os
<1> QED BY <1>4, <1>5, <1>7, <1>8 DEF FilesInv

LEMMA CleanKeepsFiles ==
    ASSUME ReleaseInv, FilesInv, NEW t \in Threads, CleanBuild(t)
    PROVE  FilesInv'
<1> DEFINE p == thread[t].prep
           o == [kind |-> "orphan", subject |-> p, phase |-> "intent", kits |-> {p}]
<1>1. /\ thread[t].at = "failed" /\ thread[t].at \in Working /\ service = "up"
      /\ UNCHANGED <<job, kit, payload, service, wire, effects, crashes>>
  BY Serving DEF CleanBuild, Working
<1>2. Claims(thread[t], "PREPARING")
  BY <1>1 DEF Claims
<1>3. p \in Preps /\ row[p].state = "PREPARING"
  BY <1>2, ClaimFacts
<1>4. CASE p \notin kit /\ FailBuild(t, Resting) /\ UNCHANGED ops
  <2>1. "FAILED" \in State /\ UNCHANGED Local
    BY <1>1, <1>4 DEF State, Deletable, Local
  <2> QED BY <1>1, <1>4, <2>1, MoveKeepsFiles DEF FailBuild
<1>5. CASE /\ p \in kit /\ \A other \in ops : p \notin other.kits
           /\ ops' = ops \cup {o} /\ thread' = [thread EXCEPT ![t].at = "stage", ![t].op = o]
           /\ UNCHANGED row
  <2> DEFINE mine == [thread[t] EXCEPT !.at = "stage", !.op = o]
  <2>1. thread' = [thread EXCEPT ![t] = mine]
    BY <1>5
  <2>2. o \in Operation /\ o.kind = "orphan" /\ o.subject = p /\ o.phase = "intent" /\ o.kits = {p}
    BY <1>3 DEF Operation
  <2>3. ops' = ops \cup {o}
    BY <1>5
  <2> HIDE DEF o
  <2>4. mine.at = "stage" /\ mine.op = o /\ mine.prep = p /\ mine.fresh = thread[t].fresh
    BY DEF ReleaseInv, ReleaseTyped, ThreadRow
  <2> HIDE DEF mine
  <2>5. OpOK(o, row)
    BY <1>3, <2>2 DEF OpOK
  <2>6. \A q \in ops : q.kits \cap o.kits = {} /\ ~(q.kind = "release" /\ o.kind = "release")
    BY <1>5, <2>2
  <2>7. thread[t].at \notin {"stage", "commit"} /\ UNCHANGED <<row, job, kit, payload, service>>
    BY <1>1, <1>5
  <2> QED BY <1>1, <1>2, <2>1, <2>2, <2>3, <2>4, <2>5, <2>6, <2>7, OpBegun
<1>6. ASSUME NEW allowed, Refused(t, allowed), UNCHANGED ops PROVE FilesInv'
  BY <1>1, <1>6, RefusedKeepsFiles
<1> QED BY <1>4, <1>5, <1>6 DEF CleanBuild

LEMMA BeginKeepsFiles ==
    ASSUME ReleaseInv, FilesInv, NEW t \in Threads, BeginDestroy(t)
    PROVE  FilesInv'
<1> DEFINE o == thread[t].op
<1>1. thread[t].at = "begin" /\ service = "up" /\ UNCHANGED <<row, job, kit, payload, service>>
  BY Serving DEF BeginDestroy
<1>2. CopyOK(thread[t], row) /\ TaskOK(thread[t], row, kit, ops)
  BY DEF ReleaseInv, ThreadsOK, ThreadOK, FilesInv
<1>3. CASE MayBegin(t) /\ ops' = ops \cup {o} /\ Goto(t, "stage")
  <2>1. /\ o \in Operation /\ thread[t].prep = o.subject /\ o.phase = "intent" /\ o.kind # "orphan"
        /\ o.kind = "delete" => o.subject \in Preps /\ o.kits = {o.subject}
        /\ o.kind = "purge" => o.kits # {}
        /\ o.kind \in {"release", "purge"} => o.subject = Job
    BY <1>1, <1>2 DEF CopyOK, TaskOK, Removing
  <2>2. o.kind \in {"delete", "release", "purge"}
    BY <2>1 DEF Operation
  <2>3. o.kind \in {"release", "purge"} => \A p \in Preps : row[p].state \notin Active
    BY <1>3, <2>1 DEF MayBegin, Subjects, Rows, Exists, Active, NoPrep
  <2>4. o.kind = "delete" => row[o.subject].state \notin Active
    BY <1>3, <2>1, JobAssumption DEF MayBegin, Subjects
  <2>5. OpOK(o, row)
    BY <2>1, <2>2, <2>3, <2>4 DEF OpOK
  <2>6. \A q \in ops : q.kits \cap o.kits = {} /\ ~(q.kind = "release" /\ o.kind = "release")
    BY <1>3 DEF MayBegin
  <2>7. o.kits # {} \/ o.kind = "release"
    BY <2>1, <2>2
  <2>8. thread' = [thread EXCEPT ![t] = At(t, "stage")] /\ At(t, "stage").at = "stage" /\ At(t, "stage").op = o
    BY <1>3, AtFacts DEF Goto, At
  <2> QED BY <1>1, <1>3, <2>1, <2>2, <2>5, <2>6, <2>7, <2>8, OpBegun
<1>4. CASE Rest(t) /\ UNCHANGED ops
  BY <1>1, <1>4, RestKeepsFiles
<1> QED BY <1>3, <1>4 DEF BeginDestroy

-----------------------------------------------------------------------------
(* An operation goes on, is committed, rolled back or closed                 *)

Apart(os) == \A a, b \in os : a # b => a.kits \cap b.kits = {} /\ ~(a.kind = "release" /\ b.kind = "release")

\* What the others carry is still there.
Carried(t, os) == \A u \in Threads \ {t} : thread[u].at \in {"stage", "commit"} /\ thread[u].op \in ops => thread[u].op \in os

\* The others stay where they are.
OthersStand(th, t) == \A u \in Threads \ {t} :
    th[u].at = thread[u].at /\ th[u].op = thread[u].op /\ th[u].prep = thread[u].prep

\* A later phase of the unfinished operation o, or nothing.
Later(later, o) == \A q \in later :
    /\ o \in ops /\ q # o /\ q.kits = o.kits /\ q.kind = o.kind /\ q.phase # "intent"
    /\ \A r \in later : r = q

\* Thread t, now at r, carries what its operation has become, and claims nothing new.
GoesOn(r, t, later) ==
    /\ \A s \in {"PREPARING", "SEEDING_CHECK"} : Claims(r, s) => Claims(thread[t], s) /\ r.prep = thread[t].prep
    /\ \A q \in ops \cup later : Carries(r, q) => q \in later
    /\ \A q \in later : q.phase # "committed" => Carries(r, q)

(* Thread t has done a step of the operation o it carries: o is gone, and    *)
(* nothing or a later phase of it has taken its place.                       *)
LEMMA OpMoved ==
    ASSUME ReleaseInv, FilesInv, NEW t \in Threads, NEW o, thread[t].op = o, service = "up",
           o \in ops /\ o.phase # "committed" => Carries(thread[t], o),
           NEW later, Later(later, o), NEW th, OthersStand(th, t), GoesOn(th[t], t, later),
           NEW os, os = (ops \ {o}) \cup later
    PROVE  Undisputed(th, os) /\ Attended(th, os, "up") /\ Apart(os) /\ Carried(t, os)
<1>1. \A q \in later : q \notin ops
  BY DEF Later, FilesInv, OpsOK, OpOK, Operation
<1>2. \A q \in later, u \in Threads : ~Carries(thread[u], q)
  BY <1>1 DEF Later, Carries, FilesInv, TaskOK
<1>3. Apart(os)
  <2> SUFFICES ASSUME NEW a \in os, NEW b \in os, a # b
               PROVE  a.kits \cap b.kits = {} /\ ~(a.kind = "release" /\ b.kind = "release")
    BY DEF Apart
  <2>1. \A c, d \in ops : c # d => c.kits \cap d.kits = {} /\ ~(c.kind = "release" /\ d.kind = "release")
    BY DEF FilesInv, OpsOK
  <2> QED BY <2>1 DEF Later
<1>4. \A u \in Threads \ {t} : thread[u].at \in {"stage", "commit"} /\ thread[u].op \in ops => thread[u].op # o
  <2> SUFFICES ASSUME NEW u \in Threads \ {t}, thread[u].at \in {"stage", "commit"}, o \in ops, thread[u].op = o
               PROVE  FALSE
    OBVIOUS
  <2>1. o.phase # "committed"
    BY DEF FilesInv, TaskOK
  <2>2. Carries(thread[t], o) /\ Carries(thread[u], o)
    BY <2>1 DEF Carries
  <2> QED BY <2>2 DEF FilesInv, Undisputed
<1>5. \A s \in {"PREPARING", "SEEDING_CHECK"} : Claims(th[t], s) =>
        \A u \in Threads \ {t} : ~(Claims(thread[u], s) /\ thread[u].prep = th[t].prep)
  BY DEF GoesOn, FilesInv, Undisputed
<1>6. \A q \in os : Carries(th[t], q) => \A u \in Threads \ {t} : ~Carries(thread[u], q)
  BY <1>2 DEF GoesOn
<1>7. \A q \in os \ ops : \A u \in Threads \ {t} : ~Carries(thread[u], q)
  BY <1>2
<1>8. \A q \in os : q.phase # "committed" => Carries(th[t], q) \/ (q \in ops /\ ~Carries(thread[t], q))
  BY DEF GoesOn, Carries
<1>9. Undisputed(th, os) /\ Attended(th, os, "up")
  BY <1>5, <1>6, <1>7, <1>8, Taken DEF OthersStand
<1> QED BY <1>3, <1>4, <1>9 DEF Carried

\* Nobody claims a row whose kit an operation is about to move, but its own thread.
LEMMA UnclaimedKits ==
    ASSUME ReleaseInv, FilesInv, NEW o \in ops, o.phase # "committed", NEW t \in Threads, Carries(thread[t], o),
           NEW u \in Threads \ {t}, Claims(thread[u], "PREPARING")
    PROVE  thread[u].prep \notin o.kits
<1> SUFFICES ASSUME thread[u].prep \in o.kits PROVE FALSE
  OBVIOUS
<1>1. OpOK(o, row) /\ thread[u].prep \in Preps /\ row[thread[u].prep].state = "PREPARING"
  BY ClaimFacts DEF FilesInv, OpsOK
<1>2. o.kind = "orphan" /\ thread[u].prep = o.subject
  BY <1>1 DEF OpOK, Operation, Active
<1>3. Claims(thread[t], "PREPARING") /\ thread[t].prep = o.subject
  BY <1>2 DEF Claims, Carries, ReleaseInv, ThreadsOK, ThreadOK, CopyOK, Removing
<1> QED BY <1>2, <1>3 DEF FilesInv, Undisputed

LEMMA StageKeepsFiles ==
    ASSUME ReleaseInv, FilesInv, NEW t \in Threads, Stage(t)
    PROVE  FilesInv'
<1> DEFINE o == thread[t].op
           q == [o EXCEPT !.phase = "staged"]
           mine == [thread[t] EXCEPT !.at = "commit", !.op = q]
<1>1. /\ thread[t].at = "stage" /\ service = "up" /\ kit' = kit \ o.kits
      /\ payload' = (payload /\ o.kind # "release") /\ UNCHANGED <<row, job, service>>
      /\ ops' = (ops \ {o}) \cup {q}
  BY Serving DEF Stage, Advance
<1>2. thread' = [thread EXCEPT ![t] = mine]
  BY DEF Stage, Advance
<1>3. o \in ops /\ o.phase = "intent" /\ Carries(thread[t], o) /\ OpOK(o, row) /\ o \in Operation
  BY <1>1 DEF FilesInv, TaskOK, Carries, OpsOK, OpOK
<1>4. /\ q \in Operation /\ q.phase = "staged" /\ q.kits = o.kits /\ q.kind = o.kind /\ q.subject = o.subject
  BY <1>3, PhaseFacts
<1> HIDE DEF q
<1>5. mine.at = "commit" /\ mine.op = q /\ mine.prep = thread[t].prep /\ mine.fresh = thread[t].fresh
  BY DEF ReleaseInv, ReleaseTyped, ThreadRow
<1> HIDE DEF mine
<1>6. thread'[t] = mine /\ \A u \in Threads \ {t} : thread'[u] = thread[u]
  BY <1>2 DEF ReleaseInv, ReleaseTyped
<1>7. /\ \A s : Claims(mine, s) => Claims(thread[t], s)
      /\ \A r : Carries(mine, r) <=> r = q
  BY <1>1, <1>4, <1>5 DEF Claims, Carries
<1>8. Undisputed(thread', ops') /\ Attended(thread', ops', "up") /\ Apart(ops') /\ Carried(t, ops')
  <2>1. Later({q}, o)
    BY <1>3, <1>4 DEF Later
  <2>2. OthersStand(thread', t)
    BY <1>6 DEF OthersStand
  <2>3. GoesOn(thread'[t], t, {q})
    BY <1>5, <1>6, <1>7 DEF GoesOn
  <2> QED BY <1>1, <1>3, <2>1, <2>2, <2>3, OpMoved
<1>9. OpsOK(ops', row)
  <2>1. OpOK(q, row)
    BY <1>3, <1>4 DEF OpOK
  <2> QED BY <1>1, <1>8, <2>1 DEF Apart, FilesInv, OpsOK
<1>10. PayloadOK(payload', job, ops') /\ payload' \in BOOLEAN
  BY <1>1, <1>3, <1>4 DEF FilesInv, PayloadOK
<1>11. ASSUME NEW p \in Preps PROVE RowFiles(p, row[p], kit', ops')
  BY <1>1, <1>3, <1>4 DEF FilesInv, RowFiles, Quarantined
<1>12. ASSUME NEW u \in Threads PROVE TaskOK(thread'[u], row, kit', ops')
  <2>1. CASE u = t
    <3>1. TaskOK(thread[t], row, kit, ops)
      BY DEF FilesInv
    <3>2. TaskOK(mine, row, kit', ops')
      BY <1>1, <1>4, <1>5, <1>7, <3>1 DEF TaskOK
    <3> QED BY <1>6, <2>1, <3>2
  <2>2. CASE u # t
    <3>1. thread[u].at = "built" => thread[u].prep \notin o.kits
      BY <1>3, <2>2, UnclaimedKits DEF Claims
    <3>2. TaskOK(thread[u], row, kit, ops)
      BY DEF FilesInv
    <3>3. TaskOK(thread[u], row, kit', ops')
      BY <1>1, <1>8, <2>2, <3>1, <3>2, TaskStays DEF Carried
    <3> QED BY <1>6, <2>2, <3>3
  <2> QED BY <2>1, <2>2
<1> QED BY <1>1, <1>8, <1>9, <1>10, <1>11, <1>12 DEF FilesInv

\* Closing an operation: rolled back from the quarantine, or finished.
LEMMA CloseKeepsFiles ==
    ASSUME ReleaseInv, FilesInv, NEW t \in Threads, RollBack(t) \/ Finalize(t)
    PROVE  FilesInv'
<1> DEFINE o == thread[t].op
<1>1. /\ thread[t].at \in {"commit", "finalize"} /\ service = "up" /\ UNCHANGED <<row, job, service>>
      /\ thread' = [thread EXCEPT ![t] = Resting] /\ ops' \in {ops, ops \ {o}}
  BY Serving DEF RollBack, Finalize, Rest
<1>2. thread'[t] = Resting /\ \A u \in Threads \ {t} : thread'[u] = thread[u]
  BY <1>1 DEF ReleaseInv, ReleaseTyped
<1>3. TaskOK(thread[t], row, kit, ops)
  BY DEF FilesInv
<1>4. o \in ops /\ o.phase # "committed" => Carries(thread[t], o) /\ o \notin ops'
  BY <1>1, <1>3 DEF TaskOK, Carries, RollBack, Finalize
<1>5. /\ kit \subseteq kit' /\ payload' \in BOOLEAN /\ (payload => payload')
      /\ o \in ops /\ o.phase = "staged" => o.kits \subseteq kit' /\ (o.kind = "release" => payload')
  <2>1. payload \in BOOLEAN
    BY DEF FilesInv
  <2>2. CASE RollBack(t)
    BY <2>1, <2>2 DEF RollBack
  <2>3. CASE Finalize(t)
    BY <1>3, <2>1, <2>3 DEF Finalize, TaskOK
  <2> QED BY <2>2, <2>3
<1>6. Undisputed(thread', ops \ {o}) /\ Attended(thread', ops \ {o}, "up") /\ Apart(ops \ {o}) /\ Carried(t, ops \ {o})
  <2>1. Later({}, o)
    BY DEF Later
  <2>2. OthersStand(thread', t)
    BY <1>2 DEF OthersStand
  <2>3. GoesOn(thread'[t], t, {})
    BY <1>2, RestingTakesNothing DEF GoesOn
  <2>4. ops \ {o} = (ops \ {o}) \cup {}
    OBVIOUS
  <2> QED BY <1>1, <1>4, <2>1, <2>2, <2>3, <2>4, OpMoved
<1>7. Undisputed(thread', ops') /\ Attended(thread', ops', "up") /\ Apart(ops') /\ Carried(t, ops')
  <2>1. CASE ops' = ops /\ o \in ops
    <3>1. o.phase = "committed"
      BY <1>4, <2>1
    <3>2. Undisputed(thread', ops)
      BY <1>2, RestingTakesNothing DEF FilesInv, Undisputed, Claims, Carries
    <3>3. Attended(thread', ops, "up")
      BY <1>6, <3>1, <1>1 DEF Attended
    <3>4. Apart(ops) /\ Carried(t, ops)
      BY DEF FilesInv, OpsOK, Apart, Carried
    <3> QED BY <2>1, <3>2, <3>3, <3>4
  <2>2. CASE ops' = ops \ {o}
    BY <1>6, <2>2
  <2> QED BY <1>1, <2>1, <2>2
<1>8. OpsOK(ops', row)
  BY <1>1, <1>7 DEF FilesInv, OpsOK, Apart
<1>9. PayloadOK(payload', job, ops')
  BY <1>1, <1>5 DEF FilesInv, PayloadOK
<1>10. ASSUME NEW p \in Preps PROVE RowFiles(p, row[p], kit', ops')
  BY <1>1, <1>5 DEF FilesInv, RowFiles, Quarantined
<1>11. ASSUME NEW u \in Threads PROVE TaskOK(thread'[u], row, kit', ops')
  <2>1. CASE u = t
    BY <1>2, <2>1, RestingTakesNothing
  <2>2. CASE u # t
    <3>1. TaskOK(thread[u], row, kit, ops)
      BY DEF FilesInv
    <3>2. TaskOK(thread[u], row, kit', ops')
      BY <1>5, <1>7, <2>2, <3>1, TaskStays DEF Carried
    <3> QED BY <1>2, <2>2, <3>2
  <2> QED BY <2>1, <2>2
<1> QED BY <1>1, <1>5, <1>7, <1>8, <1>9, <1>10, <1>11 DEF FilesInv

\* What the domain transaction does to the rows.
Touched(o) == IF o.subject = Job THEN Preps ELSE {o.subject}

LEMMA CommitRows ==
    ASSUME ReleaseInv, FilesInv, NEW t \in Threads, CommitDestroy(t)
    PROVE  LET o == thread[t].op IN
           /\ o \in Operation /\ thread[t].prep = o.subject
           /\ o \in ops \/ o.kind \in {"delete", "purge"}
           /\ o \in ops => OpOK(o, row) /\ o.phase = "staged"
           /\ o.kind \in {"orphan", "delete"} => o.subject \in Preps /\ Touched(o) = {o.subject}
           /\ o.kind \in {"release", "purge"} => Touched(o) = Preps
           /\ o.kind \in {"release", "purge"} => \A p \in Preps : row[p].state \notin Active
           /\ o.kind = "delete" => row[o.subject].state \notin Active
           /\ o.kind = "orphan" => row[o.subject].state = "PREPARING" /\ Claims(thread[t], "PREPARING")
           /\ \A p \in Preps : p \notin Touched(o) => row'[p] = row[p]
           /\ \A p \in Touched(o) : row'[p].state \in {NoPrep, "FAILED"} /\ (row'[p].kitPath => row'[p].state = "FAILED")
<1> DEFINE o == thread[t].op
<1>1. CopyOK(thread[t], row) /\ TaskOK(thread[t], row, kit, ops) /\ thread[t].at = "commit" /\ MayCommit(t) /\ row' = RowsAfter(o)
  BY DEF ReleaseInv, ThreadsOK, ThreadOK, FilesInv, CommitDestroy
<1>2. /\ o \in Operation /\ thread[t].prep = o.subject
      /\ o.kind \in {"orphan", "delete"} => o.subject \in Preps
      /\ o.kind \in {"release", "purge"} => o.subject = Job
  BY <1>1 DEF CopyOK, Removing
<1>3. /\ o \in ops \/ o.kind \in {"delete", "purge"}
      /\ o \in ops => OpOK(o, row) /\ o.phase = "staged"
  <2>1. o \in ops => OpOK(o, row)
    BY DEF FilesInv, OpsOK
  <2> QED BY <1>1, <2>1 DEF TaskOK, OpOK
<1>4. /\ o.kind \in {"orphan", "delete"} => Touched(o) = {o.subject}
      /\ o.kind \in {"release", "purge"} => Touched(o) = Preps
  BY <1>2, JobAssumption DEF Touched
<1>5. /\ o.kind \in {"release", "purge"} => \A p \in Preps : row[p].state \notin Active
      /\ o.kind = "delete" => row[o.subject].state \notin Active
      /\ o.kind = "orphan" => row[o.subject].state = "PREPARING" /\ Claims(thread[t], "PREPARING")
  BY <1>1 DEF MayCommit, Rows, Exists, Active, NoPrep, Claims
<1>6. row \in [Preps -> Row] /\ NoRow.state = NoPrep /\ ~NoRow.kitPath
  BY DEF ReleaseInv, ReleaseTyped, NoRow
<1>7. CASE o.kind = "orphan"
  <2>1. row' = [row EXCEPT ![o.subject].state = "FAILED"]
    BY <1>1, <1>7 DEF RowsAfter
  <2>2. row'[o.subject].state = "FAILED" /\ \A p \in Preps \ {o.subject} : row'[p] = row[p]
    BY <1>2, <1>6, <1>7, <2>1 DEF Row
  <2> QED BY <1>2, <1>3, <1>4, <1>5, <1>7, <2>2
<1>8. CASE o.kind = "delete"
  <2>1. row' = [row EXCEPT ![o.subject] = NoRow]
    BY <1>1, <1>8 DEF RowsAfter
  <2>2. row'[o.subject] = NoRow /\ \A p \in Preps \ {o.subject} : row'[p] = row[p]
    BY <1>2, <1>6, <1>8, <2>1
  <2> QED BY <1>2, <1>3, <1>4, <1>5, <1>6, <1>8, <2>2
<1>9. CASE o.kind \in {"release", "purge"}
  <2>1. row' = [p \in Preps |-> NoRow]
    BY <1>1, <1>9 DEF RowsAfter
  <2> QED BY <1>2, <1>3, <1>4, <1>5, <1>6, <1>9, <2>1
<1> QED BY <1>2, <1>7, <1>8, <1>9 DEF Operation

LEMMA CommitKeepsFiles ==
    ASSUME ReleaseInv, FilesInv, NEW t \in Threads, CommitDestroy(t)
    PROVE  FilesInv'
<1> DEFINE o == thread[t].op
           done == [o EXCEPT !.phase = "committed"]
           mine == IF o \in ops THEN [thread[t] EXCEPT !.at = "finalize", !.op = done] ELSE Resting
           later == IF o \in ops THEN {done} ELSE {}
<1>1. /\ thread[t].at = "commit" /\ service = "up" /\ UNCHANGED <<kit, payload, service>>
      /\ ops' = (ops \ {o}) \cup later /\ thread' = Stale(Touched(o), t, mine)
      /\ job' = CASE o.kind = "release" -> "tombstoned" [] o.kind = "purge" -> "purged" [] OTHER -> job
  BY Serving DEF CommitDestroy, Touched
<1>2. /\ o \in Operation /\ thread[t].prep = o.subject
      /\ o \in ops \/ o.kind \in {"delete", "purge"}
      /\ o \in ops => OpOK(o, row) /\ o.phase = "staged"
      /\ o.kind \in {"orphan", "delete"} => o.subject \in Preps /\ Touched(o) = {o.subject}
      /\ o.kind \in {"release", "purge"} => Touched(o) = Preps
      /\ o.kind \in {"release", "purge"} => \A p \in Preps : row[p].state \notin Active
      /\ o.kind = "delete" => row[o.subject].state \notin Active
      /\ o.kind = "orphan" => row[o.subject].state = "PREPARING" /\ Claims(thread[t], "PREPARING")
  BY CommitRows
<1>3. /\ \A p \in Preps : p \notin Touched(o) => row'[p] = row[p]
      /\ \A p \in Touched(o) : row'[p].state \in {NoPrep, "FAILED"} /\ (row'[p].kitPath => row'[p].state = "FAILED")
  BY CommitRows
<1>4. /\ done \in Operation /\ done.phase = "committed" /\ done.kits = o.kits /\ done.kind = o.kind
      /\ done.subject = o.subject
  BY <1>2, PhaseFacts
<1>5. mine.at \in {"finalize", "idle"} /\ (mine.at = "finalize" => mine.op = done)
  BY RestingFacts DEF ReleaseInv, ReleaseTyped, ThreadRow
<1>6. /\ thread'[t] = mine
      /\ \A u \in Threads \ {t} :
           thread'[u] = IF thread[u].prep \in Touched(o) \cup {Job} THEN Lost(thread[u]) ELSE thread[u]
  BY <1>1 DEF Stale, Lost
<1>7. \A u \in Threads \ {t} :
        /\ thread'[u].at = thread[u].at /\ thread'[u].op = thread[u].op /\ thread'[u].prep = thread[u].prep
        /\ thread[u].prep \notin Touched(o) \cup {Job} => thread'[u].fresh = thread[u].fresh
  BY <1>6, LostFacts DEF ReleaseInv, ReleaseTyped
<1>8. later # {} => o \in ops /\ later = {done}
  OBVIOUS
<1>9. o \in ops => later = {done}
  OBVIOUS
<1> HIDE DEF done, mine, later
<1>10. Undisputed(thread', ops') /\ Attended(thread', ops', "up") /\ Apart(ops') /\ Carried(t, ops')
  <2>1. Later(later, o)
    BY <1>2, <1>4, <1>8 DEF Later
  <2>2. OthersStand(thread', t)
    BY <1>7 DEF OthersStand
  <2>3. GoesOn(thread'[t], t, later)
    BY <1>4, <1>5, <1>6, <1>8 DEF GoesOn, Claims, Carries
  <2>4. o \in ops => Carries(thread[t], o)
    BY <1>1 DEF Carries
  <2> QED BY <1>1, <2>1, <2>2, <2>3, <2>4, OpMoved
<1>11. ASSUME NEW q \in ops' PROVE OpOK(q, row')
  <2>1. CASE q \in later
    BY <1>2, <1>3, <1>4, <1>8, <2>1 DEF OpOK, Active, NoPrep
  <2>2. CASE q \in ops \ {o}
    <3>1. OpOK(q, row) /\ (o \in ops => q.kits \cap o.kits = {})
      BY <2>2 DEF FilesInv, OpsOK
    <3>2. \A p \in Preps : row'[p].state \in Active => row[p].state \in Active
      BY <1>3 DEF Active, NoPrep
    <3>3. q.kind = "orphan" /\ q.phase # "committed" => q.subject \notin Touched(o)
      BY <1>2, <3>1 DEF OpOK, Active, Operation
    <3> QED BY <1>3, <3>1, <3>2, <3>3 DEF OpOK
  <2> QED BY <1>1, <2>1, <2>2
<1>12. PayloadOK(payload, job', ops')
  BY <1>1 DEF FilesInv, PayloadOK
<1>13. ASSUME NEW p \in Preps PROVE RowFiles(p, row'[p], kit, ops')
  <2>1. CASE p \in Touched(o)
    BY <1>3, <2>1 DEF RowFiles
  <2>2. CASE p \notin Touched(o)
    <3>1. o \in ops => p \notin o.kits
      BY <1>2, <2>2 DEF OpOK, Operation
    <3> QED BY <1>1, <1>3, <2>2, <3>1 DEF FilesInv, RowFiles, Quarantined
  <2> QED BY <2>1, <2>2
<1>14. ASSUME NEW u \in Threads PROVE TaskOK(thread'[u], row', kit, ops')
  <2>1. CASE u = t
    BY <1>4, <1>5, <1>6, <2>1 DEF TaskOK, Claims
  <2>2. CASE u # t
    <3>1. ASSUME NEW s \in {"PREPARING", "SEEDING_CHECK"}, Claims(thread[u], s)
          PROVE  thread[u].prep \in Preps /\ thread[u].prep \notin Touched(o) \cup {Job}
      <4>1. thread[u].prep \in Preps /\ row[thread[u].prep].state = s /\ s \in Active
        BY <3>1, ClaimFacts
      <4>2. o.kind = "orphan" => thread[u].prep # o.subject
        BY <1>2, <2>2, <3>1, <4>1 DEF FilesInv, Undisputed
      <4> QED BY <1>2, <4>1, <4>2, JobAssumption DEF Operation
    <3>2. TaskOK(thread[u], row, kit, ops)
      BY DEF FilesInv
    <3> QED BY <1>3, <1>7, <1>10, <2>2, <3>1, <3>2, TaskStays DEF Carried
  <2> QED BY <2>1, <2>2
<1>15. OpsOK(ops', row')
  BY <1>10, <1>11 DEF OpsOK, Apart
<1> QED BY <1>1, <1>10, <1>12, <1>13, <1>14, <1>15 DEF FilesInv

-----------------------------------------------------------------------------
(* Answers, crashes and recovery                                             *)

LEMMA AnswersKeepFiles ==
    ASSUME ReleaseInv, FilesInv, Remote
    PROVE  FilesInv'
<1>1. UNCHANGED <<row, job, kit, payload, ops, service>>
  BY DEF Remote, Answer, LateAnswer
<1>2. \A u \in Threads : /\ thread'[u].at = thread[u].at /\ thread'[u].op = thread[u].op
                         /\ thread'[u].prep = thread[u].prep /\ thread'[u].fresh = thread[u].fresh
  <2>1. ASSUME NEW e \in {"add", "publish"}, NEW t \in Threads, NEW reply \in {"accepted", "refused"}, Answer(e, t, reply)
        PROVE  \A u \in Threads : /\ thread'[u].at = thread[u].at /\ thread'[u].op = thread[u].op
                                  /\ thread'[u].prep = thread[u].prep /\ thread'[u].fresh = thread[u].fresh
    BY <2>1 DEF Answer, ReleaseInv, ReleaseTyped, ThreadRow
  <2>2. ASSUME NEW e \in {"add", "publish"}, LateAnswer(e) PROVE UNCHANGED thread
    BY <2>2 DEF LateAnswer
  <2> QED BY <2>1, <2>2 DEF Remote
<1>3. ASSUME NEW u \in Threads PROVE TaskOK(thread'[u], row, kit, ops)
  <2>1. TaskOK(thread[u], row, kit, ops)
    BY DEF FilesInv
  <2> QED BY <1>2, <2>1, TaskStays
<1>4. Undisputed(thread', ops) /\ Attended(thread', ops, service)
  BY <1>2, NothingTaken
<1> QED BY <1>1, <1>3, <1>4 DEF FilesInv

\* With every thread at rest nothing is claimed.
LEMMA AllRest ==
    ASSUME NEW th, \A t \in Threads : th[t] = Resting
    PROVE  /\ \A t \in Threads : \A rows, k, os : TaskOK(th[t], rows, k, os)
           /\ \A os : Undisputed(th, os)
  BY RestingTakesNothing DEF Undisputed

LEMMA CrashKeepsFiles ==
    ASSUME ReleaseInv, FilesInv, Crash
    PROVE  FilesInv'
<1>1. /\ UNCHANGED <<row, job, kit, payload, ops>> /\ service' = "down"
      /\ \A t \in Threads : thread'[t] = Resting
  BY DEF Crash
<1>2. (\A t \in Threads : TaskOK(thread'[t], row, kit, ops)) /\ Undisputed(thread', ops)
  BY <1>1, AllRest
<1>3. Attended(thread', ops, "down")
  BY DEF Attended
<1> QED BY <1>1, <1>2, <1>3 DEF FilesInv

LEMMA JournalKeepsFiles ==
    ASSUME ReleaseInv, FilesInv, RecoverJournal
    PROVE  FilesInv'
<1>1. /\ UNCHANGED <<row, job, thread>> /\ service' = "recovering" /\ ops' = {}
      /\ \A t \in Threads : thread[t] = Resting
      /\ kit' = kit \cup UNION {o.kits : o \in {q \in ops : q.phase # "committed"}}
      /\ payload' = (payload \/ \E o \in {q \in ops : q.phase # "committed"} : o.kind = "release")
  BY DEF RecoverJournal, ReleaseInv, ThreadsOK
<1>2. (\A t \in Threads : TaskOK(thread'[t], row, kit', {})) /\ Undisputed(thread', {})
  BY <1>1, AllRest
<1>3. Attended(thread', {}, "recovering") /\ OpsOK({}, row)
  BY DEF Attended, OpsOK
<1>4. PayloadOK(payload', job, {}) /\ payload' \in BOOLEAN
  BY <1>1 DEF FilesInv, PayloadOK
<1>5. ASSUME NEW p \in Preps PROVE RowFiles(p, row[p], kit', {})
  BY <1>1 DEF FilesInv, RowFiles, Quarantined
<1> QED BY <1>1, <1>2, <1>3, <1>4, <1>5 DEF FilesInv

LEMMA InterruptedKeepsFiles ==
    ASSUME ReleaseInv, FilesInv, RecoverInterrupted
    PROVE  FilesInv'
<1>1. /\ UNCHANGED <<job, payload, ops, thread>> /\ service = "recovering" /\ service' = "up"
      /\ kit' = kit \ {p \in Preps : row[p].state = "PREPARING"}
      /\ \A p \in Preps : row'[p] = Recovered(row[p])
  BY DEF RecoverInterrupted
<1>2. ops = {} /\ \A t \in Threads : thread[t] = Resting
  BY <1>1 DEF FilesInv, Attended, ReleaseInv, ThreadsOK
<1>3. (\A t \in Threads : TaskOK(thread[t], row', kit', {})) /\ Undisputed(thread, {})
  BY <1>2, AllRest
<1>4. Attended(thread, {}, "up") /\ OpsOK({}, row')
  BY DEF Attended, OpsOK
<1>5. ASSUME NEW p \in Preps PROVE RowFiles(p, row'[p], kit', {})
  <2>1. row[p] \in Row /\ RowFiles(p, row[p], kit, {})
    BY <1>2 DEF ReleaseInv, ReleaseTyped, FilesInv
  <2>2. /\ Recovered(row[p]).kitPath = row[p].kitPath
        /\ row[p].state = "PREPARING" => Recovered(row[p]).state = "FAILED"
        /\ row[p].state \in {NoPrep, "NOT_PREPARED", "FAILED"} => Recovered(row[p]).state = row[p].state
    BY <2>1 DEF Recovered, Row, NoPrep
  <2> QED BY <1>1, <2>1, <2>2 DEF RowFiles, Quarantined, NoPrep
<1>6. PayloadOK(payload, job, {}) /\ payload \in BOOLEAN
  BY <1>2 DEF FilesInv
<1> QED BY <1>1, <1>2, <1>3, <1>4, <1>5, <1>6 DEF FilesInv

LEMMA InitFiles == Init => FilesInv
<1> SUFFICES ASSUME Init PROVE FilesInv
  OBVIOUS
<1>1. (\A t \in Threads : TaskOK(thread[t], row, kit, ops)) /\ Undisputed(thread, ops)
  BY AllRest DEF Init
<1>2. OpsOK(ops, row) /\ PayloadOK(payload, job, ops) /\ payload \in BOOLEAN /\ Attended(thread, ops, service)
  BY DEF Init, OpsOK, PayloadOK, Attended
<1>3. \A p \in Preps : RowFiles(p, row[p], kit, ops)
  BY DEF Init, RowFiles, NoRow
<1> QED BY <1>1, <1>2, <1>3 DEF FilesInv

LEMMA FilesStep ==
    ASSUME ReleaseInv, FilesInv, [Next]_rvars
    PROVE  FilesInv'
<1>1. ASSUME NEW t \in Threads, Arrive(t) PROVE FilesInv'
  BY <1>1, StartsKeepFiles, RemovalsKeepFiles DEF Arrive
<1>2. ASSUME NEW t \in Threads, Step(t) PROVE FilesInv'
  BY <1>2, ClaimsKeepFiles, BuildKeepsFiles, CleanKeepsFiles, RemoteKeepsFiles, BeginKeepsFiles,
     StageKeepsFiles, CommitKeepsFiles, CloseKeepsFiles DEF Step
<1>3. CASE UNCHANGED rvars
  BY <1>3 DEF rvars, FilesInv
<1>4. ASSUME NEW p \in Preps, Create(p) PROVE FilesInv'
  BY <1>4, CreateKeepsFiles
<1>5. CASE Remote \/ Crash \/ RecoverJournal \/ RecoverInterrupted
  BY <1>5, AnswersKeepFiles, CrashKeepsFiles, JournalKeepsFiles, InterruptedKeepsFiles
<1> QED BY <1>1, <1>2, <1>3, <1>4, <1>5 DEF Next

\* An active row, which only a live preparation of a completed job is, has its files.
LEMMA ActiveHasFiles ==
    ASSUME ReleaseInv, FilesInv, NEW p \in Preps, row[p].state \in {"SEEDING_CHECK", "SEEDING", "PUBLISHING"}
    PROVE  p \in kit /\ payload
<1>1. p \in kit \/ Quarantined(p, ops)
  BY DEF FilesInv, RowFiles, NoPrep
<1>2. row[p].state \in Active /\ job = "completed"
  BY DEF Active, ReleaseInv, RowsOK, NoPrep
<1>3. ASSUME NEW o \in ops, o.phase = "staged" PROVE p \notin o.kits /\ o.kind # "release"
  BY <1>2, <1>3 DEF FilesInv, OpsOK, OpOK, Operation
<1> QED BY <1>1, <1>2, <1>3 DEF Quarantined, FilesInv, PayloadOK

LEMMA FilesInPlace == ReleaseInv /\ FilesInv => FilesStayInPlace
<1> SUFFICES ASSUME ReleaseInv, FilesInv PROVE FilesStayInPlace
  OBVIOUS
<1>1. LiveKitExists
  BY DEF LiveKitExists, FilesInv, RowFiles, Quarantined
<1>2. ASSUME NEW t \in Threads, thread[t].at = "duping"
      PROVE  thread[t].prep \in Preps /\ row[thread[t].prep].state = "SEEDING_CHECK"
  <2>1. Claims(thread[t], "SEEDING_CHECK")
    BY <1>2 DEF Claims
  <2> QED BY <2>1, ClaimFacts
<1>3. ASSUME NEW t \in Threads, thread[t].at \in {"seeding", "added"}
      PROVE  thread[t].prep \in Preps /\ row[thread[t].prep].state = "SEEDING"
  <2>1. "add" \in Effects /\ Holds(thread[t], "add") /\ LeaseState("add") = "SEEDING"
    BY <1>3 DEF Holds, Before, Sent, Effects, LeaseState
  <2> QED BY <2>1, HolderLeases DEF Leases
<1>4. ASSUME NEW t \in Threads, thread[t].at \in {"rechecking", "binding", "sending", "published"}
      PROVE  thread[t].prep \in Preps /\ row[thread[t].prep].state = "PUBLISHING"
  <2>1. "publish" \in Effects /\ Holds(thread[t], "publish") /\ LeaseState("publish") = "PUBLISHING"
    BY <1>4 DEF Holds, Before, Sent, Effects, LeaseState
  <2> QED BY <2>1, HolderLeases DEF Leases
<1>5. RemoteWorkKeepsItsFiles
  BY <1>2, <1>3, <1>4, ActiveHasFiles DEF RemoteWorkKeepsItsFiles
<1> QED BY <1>1, <1>5 DEF FilesStayInPlace

(* With any number of preparations and threads: whatever is removed, rolled  *)
(* back or recovered meanwhile, who works with a remote system has the kit   *)
(* and the release in place, and no row counts on a kit that is gone.        *)
THEOREM FilesOutlastTheWork == ReleaseSpec => []FilesStayInPlace
<1>1. Init => ReleaseInv /\ FilesInv
  BY InitHolds, InitFiles
<1>2. ReleaseInv /\ FilesInv /\ [Next]_rvars => (ReleaseInv /\ FilesInv)'
  BY StepKeeps, Stutters, FilesStep DEF StepOK
<1>3. ReleaseInv /\ FilesInv => FilesStayInPlace
  BY FilesInPlace
<1> QED BY <1>1, <1>2, <1>3, PTL DEF ReleaseSpec
=============================================================================
