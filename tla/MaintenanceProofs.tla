------------------------- MODULE MaintenanceProofs -------------------------
(* The journal of destructive operations tells the truth about the disk, and *)
(* an operation is all or nothing, for any threads, processes, operations,   *)
(* crashes and surroundings in which no request recovers in the middle of a  *)
(* cleanup of its own process.                                               *)
EXTENDS Maintenance, TLAPS

Uncommitted == {"INTENT", "DETACHED"}
Working == {"stage", "move", "moved", "commit", "rollback", "restore", "restored",
            "finalize", "delete", "deleting", "deleted"}
RowFields == {"phase", "targets", "owner"}
ThreadFields == {"at", "op", "i", "targets", "todo", "call"}

RowOK(row) == DOMAIN row = RowFields /\ row.phase \in Phase

PlaceOK(p, d) ==
    /\ DOMAIN d = {"at", "op", "fresh"}
    /\ d.at \in {"origin", "quarantine", "partial", "gone"}
    /\ d.at = "origin" => d = Home
    /\ d.at # "origin" => d.op \in Ops /\ p \in Targets(d.op)

(* What has become of a target fits the phase of the operation that has      *)
(* moved it.                                                                 *)
PlaceFits(d, j) ==
    /\ d.at = "quarantine" => j[d.op].phase \in {"INTENT", "DETACHED", "COMMITTED"}
    /\ d.at = "partial" => j[d.op].phase = "COMMITTED"
    /\ d.at = "gone" => j[d.op].phase \in {"COMMITTED", "FINALIZED"}

(* While a thread is at a place, the operation it works on is in a phase     *)
(* that no other thread changes.                                             *)
PhaseFits(r, j) ==
    /\ r.at \in {"stage", "move", "moved"} => j[r.op].phase = "INTENT"
    /\ r.at = "commit" => j[r.op].phase = "DETACHED"
    /\ r.at = "rollback" => j[r.op].phase \in {"INTENT", "DETACHED", "FINALIZED", "ROLLED_BACK"}
    /\ r.at \in {"restore", "restored"} => j[r.op].phase \in Uncommitted
    /\ r.at \in {"finalize", "delete", "deleting", "deleted"} => j[r.op].phase = "COMMITTED"

IndexFits(r) ==
    LET n == Len(TargetsOf[r.op]) IN
    /\ r.at \in {"move", "delete"} => r.i \in 1..(n + 1)
    /\ r.at = "restore" => r.i \in 0..n
    /\ r.at \in {"moved", "restored", "deleting", "deleted"} => r.i \in 1..n

WorkOK(t, r, j) ==
    /\ r.op \in Ops
    /\ j[r.op].owner = ProcessOf[t]
    /\ PhaseFits(r, j) /\ IndexFits(r)

ThreadOK(t, r, j) ==
    /\ DOMAIN r = ThreadFields
    /\ r.call \in {"request", "start", "late"}
    /\ r.at \in Working \cup {"idle", "down", "recover"}
    /\ r.at \in {"idle", "down"} => r.call = "request"
    /\ r.at = "recover" => r.call # "request"
    /\ r.todo \subseteq Ops /\ \A o \in r.todo : j[o].phase # "NONE"
    /\ r.at \in Working => WorkOK(t, r, j)

(* What the loops over the targets have done to those they have passed.      *)
Holds(d, o)     == d.at = "quarantine" /\ d.op = o
Detached(r, d, k) == Holds(d[TargetsOf[r.op][k]], r.op)
Reaped(r, d, k)   == d[TargetsOf[r.op][k]].at = "gone"

Passed(r, d) ==
    LET n == Len(TargetsOf[r.op]) IN
    /\ r.at = "move" => \A k \in 1..n : k < r.i => Detached(r, d, k)
    /\ r.at = "moved" => \A k \in 1..n : k <= r.i => Detached(r, d, k)
    /\ r.at = "commit" => \A k \in 1..n : Detached(r, d, k)
    /\ r.at = "restore" => \A k \in 1..n : k > r.i => ~Detached(r, d, k)
    /\ r.at = "restored" => \A k \in 1..n : k >= r.i => ~Detached(r, d, k)
    /\ r.at \in {"delete", "deleting"} => \A k \in 1..n : k < r.i => Reaped(r, d, k)
    /\ r.at = "deleted" => \A k \in 1..n : k <= r.i => Reaped(r, d, k)
    /\ r.at = "deleting" => d[TargetsOf[r.op][r.i]].at = "partial" /\ d[TargetsOf[r.op][r.i]].op = r.op

(* No two threads work on one operation: a starting process has one thread,  *)
(* and of the threads of a process one recovers late.                        *)
Alone(th) ==
    /\ \A s, t \in Threads : s # t /\ th[s].at \in Working /\ th[t].at \in Working => th[s].op # th[t].op
    /\ \A s, t \in Threads : s # t /\ ProcessOf[s] = ProcessOf[t] /\ th[t].call = "start" => th[s].at = "down"
    /\ \A s, t \in Threads : s # t /\ ProcessOf[s] = ProcessOf[t] /\ th[t].call = "late" => th[s].call # "late"

(* What a late recovery and a request may have in hand lies apart.           *)
Serves(t, r, b, w) ==
    /\ r.call = "late" => ProcessOf[t] \notin b /\ t \in w.builders
    /\ r.call = "request" /\ r.at \in Working =>
         /\ t \in w.runners[r.op]
         /\ KindOf[r.op] = "purge" /\ w.builders # {} => ProcessOf[t] \in b

RowIsTrue(o, j, d) ==
    /\ j[o].phase = "COMMITTED" => \A p \in Targets(o) : d[p].at # "origin"
    /\ j[o].phase = "FINALIZED" => \A p \in Targets(o) : d[p].at = "gone"

(* Unfinished operations have no target in common.                           *)
Apart(j) ==
    \A o, q \in Ops : o # q /\ j[o].phase \in Unfinished /\ j[q].phase \in Unfinished
                        => Targets(o) \cap Targets(q) = {}

JournalOK(j) == DOMAIN j = Ops /\ (\A o \in Ops : RowOK(j[o])) /\ Apart(j)
DiskOK(j, d) ==
    /\ DOMAIN d = Paths
    /\ \A p \in Paths : PlaceOK(p, d[p]) /\ PlaceFits(d[p], j)
    /\ \A o \in Ops : RowIsTrue(o, j, d)
ThreadsOK(j, d, th) ==
    /\ DOMAIN th = Threads
    /\ \A t \in Threads : ThreadOK(t, th[t], j) /\ Passed(th[t], d)
ServiceOK(th, b, w) == Alone(th) /\ \A t \in Threads : Serves(t, th[t], b, w)

MInv ==
    /\ world \in World /\ LateElsewhere
    /\ JournalOK(journal) /\ DiskOK(journal, disk)
    /\ ThreadsOK(journal, disk, thread) /\ ServiceOK(thread, built, world)

-----------------------------------------------------------------------------
(* Facts about targets and what an invariant state says of one thread        *)

LEMMA TargetFacts ==
    ASSUME NEW o \in Ops
    PROVE  /\ Len(TargetsOf[o]) \in Nat /\ DOMAIN TargetsOf[o] = 1..Len(TargetsOf[o])
           /\ \A k \in 1..Len(TargetsOf[o]) : TargetsOf[o][k] \in Paths /\ TargetsOf[o][k] \in Targets(o)
           /\ \A p \in Targets(o) : p \in Paths /\ \E k \in 1..Len(TargetsOf[o]) : p = TargetsOf[o][k]
<1>1. TargetsOf[o] \in Seq(Paths)
  BY TargetAssumption
<1>2. Len(TargetsOf[o]) \in Nat /\ DOMAIN TargetsOf[o] = 1..Len(TargetsOf[o])
  BY <1>1, SMT
<1>3. \A k \in 1..Len(TargetsOf[o]) : TargetsOf[o][k] \in Paths
  BY <1>1, SMT
<1> QED BY <1>2, <1>3 DEF Targets

\* A home is what stands at its origin.
LEMMA HomeFacts ==
    ASSUME NEW p, NEW d, PlaceOK(p, d)
    PROVE  d = Home <=> d.at = "origin"
  BY DEF PlaceOK, Home

\* The journal agrees in what the threads and the disk rely on.
SamePhases(j, k) == DOMAIN k = Ops /\ \A o \in Ops : RowOK(k[o]) /\ k[o].phase = j[o].phase

\* Phases and disk stay; each thread stays with its lease or is accounted for.
LEMMA StandsStill ==
    ASSUME MInv, SamePhases(journal, journal'), UNCHANGED disk, DOMAIN thread' = Threads,
           \A s \in Threads :
              \/ /\ thread'[s] = thread[s]
                 /\ thread[s].at \in Working => journal'[thread[s].op].owner = journal[thread[s].op].owner
              \/ ThreadOK(s, thread'[s], journal') /\ Passed(thread'[s], disk)
    PROVE  JournalOK(journal') /\ DiskOK(journal', disk') /\ ThreadsOK(journal', disk', thread')
<1>1. JournalOK(journal')
  BY DEF MInv, SamePhases, JournalOK, Apart
<1>2. DiskOK(journal', disk')
  BY DEF MInv, SamePhases, DiskOK, RowIsTrue, PlaceOK, PlaceFits
<1>3. ASSUME NEW s \in Threads PROVE ThreadOK(s, thread'[s], journal') /\ Passed(thread'[s], disk')
  <2>1. ThreadOK(s, thread[s], journal) /\ Passed(thread[s], disk)
    BY DEF MInv, ThreadsOK
  <2>2. CASE thread'[s] = thread[s] /\ (thread[s].at \in Working => journal'[thread[s].op].owner = journal[thread[s].op].owner)
    <3>1. thread[s].at \in Working => WorkOK(s, thread[s], journal')
      BY <2>1, <2>2 DEF ThreadOK, WorkOK, PhaseFits, SamePhases
    <3>2. \A o \in thread[s].todo : journal'[o].phase # "NONE"
      BY <2>1 DEF ThreadOK, SamePhases
    <3> QED BY <2>1, <2>2, <3>1, <3>2 DEF ThreadOK
  <2> QED BY <2>2
<1> QED BY <1>1, <1>2, <1>3 DEF ThreadsOK

\* Nobody takes up work, and who is down stays down.
LEMMA NobodyBegins ==
    ASSUME MInv, UNCHANGED <<world, built>>,
           \A s \in Threads :
              /\ \/ thread'[s].call = thread[s].call
                 \/ thread'[s].call = "request" /\ thread'[s].at \notin Working
              /\ thread'[s].at \in Working => thread[s].at \in Working /\ thread'[s].op = thread[s].op
              /\ thread[s].at = "down" => thread'[s].at = "down"
    PROVE  ServiceOK(thread', built', world') /\ world' \in World /\ LateElsewhere'
<1>1. Alone(thread')
  BY DEF MInv, ServiceOK, Alone
<1>2. ASSUME NEW s \in Threads PROVE Serves(s, thread'[s], built', world')
  BY DEF MInv, ServiceOK, Serves
<1> QED BY <1>1, <1>2 DEF MInv, LateElsewhere, ServiceOK
(* What a thread does to the places of its own operation leaves the threads  *)
(* alone that work on another.                                               *)
Spares(o, d, e) ==
    \A p \in Paths :
        \/ e[p].at = d[p].at /\ e[p].op = d[p].op
        \/ /\ d[p].at = "origin" \/ (d[p].at # "gone" /\ d[p].op = o)
           /\ e[p].at = "origin" \/ e[p].op = o

LEMMA OthersUndisturbed ==
    ASSUME MInv, NEW o \in Ops, Spares(o, disk, disk'), DOMAIN journal' = Ops,
           \A q \in Ops : journal[q].phase # "NONE" => journal'[q].phase # "NONE",
           \A q \in Ops : q # o => journal'[q] = journal[q],
           NEW s \in Threads, thread'[s] = thread[s],
           thread[s].at \in Working => thread[s].op # o
    PROVE  ThreadOK(s, thread'[s], journal') /\ Passed(thread'[s], disk')
<1>1. ThreadOK(s, thread[s], journal) /\ Passed(thread[s], disk)
  BY DEF MInv, ThreadsOK
<1>2. ThreadOK(s, thread'[s], journal')
  BY <1>1 DEF ThreadOK, WorkOK, PhaseFits
<1>3. CASE thread[s].at \notin Working
  <2>1. Passed(thread'[s], disk')
    BY <1>3 DEF Passed, Working
  <2> QED BY <1>2, <2>1
<1>4. CASE thread[s].at \in Working
  <2> DEFINE q == thread[s].op
  <2>1. q \in Ops /\ q # o
    BY <1>1, <1>4 DEF ThreadOK, WorkOK
  <2>2. \A k \in 1..Len(TargetsOf[q]) : TargetsOf[q][k] \in Paths
    BY <2>1, TargetFacts
  <2>3. ASSUME NEW p \in Paths
        PROVE  /\ Holds(disk'[p], q) <=> Holds(disk[p], q)
               /\ disk[p].at = "gone" => disk'[p].at = "gone"
               /\ disk[p].at = "partial" /\ disk[p].op = q => disk'[p].at = "partial" /\ disk'[p].op = q
    BY <2>1 DEF Spares, Holds
  <2>4. \A k \in 1..Len(TargetsOf[q]) :
           /\ Detached(thread'[s], disk', k) <=> Detached(thread[s], disk, k)
           /\ Reaped(thread[s], disk, k) => Reaped(thread'[s], disk', k)
    BY <2>2, <2>3 DEF Detached, Reaped
  <2>5. thread[s].at = "deleting" => thread[s].i \in 1..Len(TargetsOf[q])
    BY <1>1, <1>4 DEF ThreadOK, WorkOK, IndexFits
  <2>6. thread[s].at = "deleting" =>
          disk'[TargetsOf[q][thread[s].i]].at = "partial" /\ disk'[TargetsOf[q][thread[s].i]].op = q
    BY <1>1, <2>2, <2>3, <2>5 DEF Passed
  <2>7. Passed(thread'[s], disk')
    BY <1>1, <2>4, <2>6 DEF Passed
  <2> QED BY <1>2, <2>7
<1> QED BY <1>3, <1>4

\* A thread at work has its operation, its lease, and the operation for itself.
LEMMA WorkFacts ==
    ASSUME MInv, NEW t \in Threads, thread[t].at \in Working
    PROVE  /\ thread[t].op \in Ops
           /\ WorkOK(t, thread[t], journal) /\ Passed(thread[t], disk)
           /\ DOMAIN thread = Threads /\ DOMAIN thread[t] = ThreadFields
           /\ \A s \in Threads : s # t /\ thread[s].at \in Working => thread[s].op # thread[t].op
  BY DEF MInv, ThreadsOK, ThreadOK, WorkOK, ServiceOK, Alone

\* The same thread goes to another place of the same operation.
Moves(t, place, index) ==
    /\ DOMAIN thread' = Threads /\ \A s \in Threads : s # t => thread'[s] = thread[s]
    /\ DOMAIN thread'[t] = ThreadFields
    /\ thread'[t].at = place /\ thread'[t].op = thread[t].op /\ thread'[t].i = index
    /\ thread'[t].todo = thread[t].todo /\ thread'[t].call = thread[t].call

LEMMA GotoMoves ==
    ASSUME MInv, NEW t \in Threads, NEW place, Goto(t, place)
    PROVE  Moves(t, place, thread[t].i)
<1>1. DOMAIN thread = Threads /\ DOMAIN thread[t] = ThreadFields
  BY DEF MInv, ThreadsOK, ThreadOK
<1> QED BY <1>1 DEF Goto, Moves, ThreadFields

LEMMA MovesAtWork ==
    ASSUME MInv, NEW t \in Threads, NEW place \in Working, NEW index, thread[t].at \in Working,
           Moves(t, place, index), SamePhases(journal, journal'),
           \A o \in Ops : journal'[o].owner = journal[o].owner,
           UNCHANGED <<disk, built, world>>,
           PhaseFits(thread'[t], journal), IndexFits(thread'[t]), Passed(thread'[t], disk)
    PROVE  MInv'
<1>1. ThreadOK(t, thread[t], journal) /\ thread[t].op \in Ops
  BY WorkFacts DEF MInv, ThreadsOK
<1>2. ThreadOK(t, thread'[t], journal')
  <2>1. thread'[t].at \in Working => WorkOK(t, thread'[t], journal')
    BY <1>1 DEF Moves, ThreadOK, WorkOK, PhaseFits, SamePhases
  <2>2. \A o \in thread'[t].todo : journal'[o].phase # "NONE"
    BY <1>1 DEF Moves, ThreadOK, SamePhases
  <2> QED BY <1>1, <2>1, <2>2 DEF Moves, ThreadOK, Working
<1>3. \A s \in Threads :
        \/ /\ thread'[s] = thread[s]
           /\ thread[s].at \in Working => journal'[thread[s].op].owner = journal[thread[s].op].owner
        \/ ThreadOK(s, thread'[s], journal') /\ Passed(thread'[s], disk)
  <2>1. \A s \in Threads : thread[s].at \in Working => thread[s].op \in Ops
    BY WorkFacts
  <2> QED BY <1>2, <2>1 DEF Moves
<1>4. JournalOK(journal') /\ DiskOK(journal', disk') /\ ThreadsOK(journal', disk', thread')
  BY <1>3, StandsStill DEF Moves
<1>5. ServiceOK(thread', built', world') /\ world' \in World /\ LateElsewhere'
  BY NobodyBegins DEF Moves, Working
<1> QED BY <1>4, <1>5 DEF MInv
\* A thread changes the row and the places of the operation it works on.
LEMMA OwnStep ==
    ASSUME MInv, NEW t \in Threads, thread[t].at \in Working,
           DOMAIN thread' = Threads, \A s \in Threads : s # t => thread'[s] = thread[s],
           ThreadOK(t, thread'[t], journal'), Passed(thread'[t], disk'),
           thread'[t].call = thread[t].call,
           thread'[t].at \in Working => thread'[t].op = thread[t].op,
           Spares(thread[t].op, disk, disk'), DOMAIN journal' = Ops,
           \A q \in Ops : q # thread[t].op => journal'[q] = journal[q],
           RowOK(journal'[thread[t].op]), journal'[thread[t].op].phase # "NONE",
           journal'[thread[t].op].phase \in Unfinished => journal[thread[t].op].phase \in Unfinished,
           DiskOK(journal', disk'), UNCHANGED <<built, world>>
    PROVE  MInv'
<1> DEFINE o == thread[t].op
<1>1. o \in Ops /\ \A s \in Threads : s # t /\ thread[s].at \in Working => thread[s].op # o
  BY WorkFacts
<1>2. \A q \in Ops : journal[q].phase # "NONE" => journal'[q].phase # "NONE"
  OBVIOUS
<1>3. ASSUME NEW s \in Threads, s # t
      PROVE  ThreadOK(s, thread'[s], journal') /\ Passed(thread'[s], disk')
  BY <1>1, <1>2, <1>3, OthersUndisturbed
<1>4. ThreadsOK(journal', disk', thread')
  BY <1>3 DEF ThreadsOK
<1>5. JournalOK(journal')
  BY DEF MInv, JournalOK, Apart
<1>6. ServiceOK(thread', built', world') /\ world' \in World /\ LateElsewhere'
  BY NobodyBegins DEF Working
<1> QED BY <1>4, <1>5, <1>6 DEF MInv

\* The caller's list is saved, with a new phase.
LEMMA SavePhaseFacts ==
    ASSUME MInv, NEW t \in Threads, thread[t].at \in Working, NEW phase \in Phase, SavePhase(t, phase)
    PROVE  /\ DOMAIN journal' = Ops /\ \A q \in Ops : q # thread[t].op => journal'[q] = journal[q]
           /\ RowOK(journal'[thread[t].op]) /\ journal'[thread[t].op].phase = phase
           /\ journal'[thread[t].op].owner = journal[thread[t].op].owner
<1>1. thread[t].op \in Ops /\ DOMAIN journal = Ops /\ \A q \in Ops : DOMAIN journal[q] = RowFields
  BY WorkFacts DEF MInv, JournalOK, RowOK
<1> QED BY <1>1 DEF SavePhase, RowOK, RowFields

LEMMA SaveTargetFacts ==
    ASSUME MInv, NEW t \in Threads, thread[t].at \in Working, NEW state, NEW place, NEW step,
           SaveTarget(t, state, place, step)
    PROVE  /\ SamePhases(journal, journal') /\ \A q \in Ops : journal'[q].owner = journal[q].owner
           /\ Moves(t, place, thread[t].i + step)
<1>1. /\ thread[t].op \in Ops /\ DOMAIN journal = Ops /\ \A q \in Ops : RowOK(journal[q])
      /\ DOMAIN thread = Threads /\ DOMAIN thread[t] = ThreadFields
  BY WorkFacts DEF MInv, JournalOK
<1>2. Moves(t, place, thread[t].i + step)
  BY <1>1 DEF SaveTarget, Moves, ThreadFields
<1>3. DOMAIN journal' = Ops /\ \A q \in Ops : RowOK(journal'[q]) /\ journal'[q].phase = journal[q].phase
        /\ journal'[q].owner = journal[q].owner
  BY <1>1 DEF SaveTarget, RowOK, RowFields
<1> QED BY <1>2, <1>3 DEF SamePhases

LEMMA ClaimAtFacts ==
    ASSUME MInv, NEW t \in Threads, thread[t].at \in Working, NEW place, NEW index,
           ClaimAt(t, thread[t].op, place, index)
    PROVE  /\ SamePhases(journal, journal') /\ \A q \in Ops : journal'[q].owner = journal[q].owner
           /\ Moves(t, place, index)
<1>1. /\ thread[t].op \in Ops /\ DOMAIN journal = Ops /\ \A q \in Ops : RowOK(journal[q])
      /\ DOMAIN thread = Threads /\ DOMAIN thread[t] = ThreadFields
      /\ journal[thread[t].op].owner = ProcessOf[t]
  BY WorkFacts DEF MInv, JournalOK, WorkOK
<1>2. Moves(t, place, index)
  BY <1>1 DEF ClaimAt, Moves, ThreadFields
<1>3. DOMAIN journal' = Ops /\ \A q \in Ops : RowOK(journal'[q]) /\ journal'[q].phase = journal[q].phase
        /\ journal'[q].owner = journal[q].owner
  BY <1>1 DEF ClaimAt, RowOK, RowFields
<1> QED BY <1>2, <1>3 DEF SamePhases

\* A thread that has returned works on nothing.
LEMMA ReturnFacts ==
    ASSUME MInv, NEW t \in Threads, thread[t].at \in Working, Return(t),
           \A q \in Ops : journal[q].phase # "NONE" => journal'[q].phase # "NONE"
    PROVE  /\ DOMAIN thread' = Threads /\ \A s \in Threads : s # t => thread'[s] = thread[s]
           /\ ThreadOK(t, thread'[t], journal') /\ Passed(thread'[t], disk')
           /\ thread'[t].call = thread[t].call /\ thread'[t].at \notin Working
<1>1. DOMAIN thread = Threads /\ ThreadOK(t, thread[t], journal)
  BY DEF MInv, ThreadsOK
<1>2. DOMAIN thread' = Threads /\ \A s \in Threads : s # t => thread'[s] = thread[s]
  BY <1>1 DEF Return
<1>3. CASE thread[t].call = "request"
  <2>1. thread'[t] = Resting
    BY <1>1, <1>3 DEF Return
  <2> QED BY <1>2, <1>3, <2>1 DEF Resting, ThreadOK, ThreadFields, Passed, Working
<1>4. CASE thread[t].call # "request"
  <2>1. /\ DOMAIN thread'[t] = ThreadFields /\ thread'[t].at = "recover"
        /\ thread'[t].call = thread[t].call /\ thread'[t].todo = thread[t].todo
    BY <1>1, <1>4 DEF Return, ThreadOK, ThreadFields
  <2>2. ThreadOK(t, thread'[t], journal')
    BY <1>1, <1>4, <2>1 DEF ThreadOK, Working
  <2>3. Passed(thread'[t], disk')
    BY <2>1 DEF Passed
  <2> QED BY <1>2, <2>1, <2>2, <2>3 DEF Working
<1> QED BY <1>3, <1>4

\* Threads of a process that has died work on nothing.
LEMMA DownIsFree == \A s \in Threads : \A j, d : ThreadOK(s, Down, j) /\ Passed(Down, d) /\ Down.at = "down" /\ Down.call = "request"
  BY DEF Down, Resting, ThreadOK, ThreadFields, Passed, Working

LEMMA RestingIsFree == \A s \in Threads : \A j, d : ThreadOK(s, Resting, j) /\ Passed(Resting, d) /\ Resting.at = "idle" /\ Resting.call = "request"
  BY DEF Resting, ThreadOK, ThreadFields, Passed, Working

\* What the leases of a dead process leave in the journal.
LEMMA FreeLeasesFacts ==
    ASSUME MInv, NEW p, FreeLeases(p)
    PROVE  SamePhases(journal, journal') /\ \A q \in Ops : journal[q].owner # p => journal'[q] = journal[q]
<1>1. DOMAIN journal = Ops /\ \A q \in Ops : RowOK(journal[q])
  BY DEF MInv, JournalOK
<1> QED BY <1>1 DEF FreeLeases, SamePhases, RowOK, RowFields

LEMMA AbandonKeeps ==
    ASSUME MInv, NEW t \in Threads, thread[t].at \in Working, Abandon(t), UNCHANGED <<disk, built, world>>
    PROVE  MInv'
<1> DEFINE p == ProcessOf[t]
<1>1. \A s \in Threads : thread[s].at \in Working => thread[s].op \in Ops /\ journal[thread[s].op].owner = ProcessOf[s]
  BY WorkFacts DEF WorkOK
<1>2. SamePhases(journal, journal')
  BY FreeLeasesFacts DEF Abandon, SamePhases, MInv, JournalOK
<1>3. DOMAIN thread' = Threads
  BY DEF Abandon
<1>4. \A s \in Threads : thread'[s] = IF s = t /\ thread[t].call # "start" THEN Resting
          ELSE IF ProcessOf[s] = p /\ thread[t].call = "start" THEN Down ELSE thread[s]
  BY DEF Abandon
<1>5. ASSUME NEW s \in Threads
      PROVE  \/ /\ thread'[s] = thread[s]
                /\ thread[s].at \in Working => journal'[thread[s].op].owner = journal[thread[s].op].owner
             \/ ThreadOK(s, thread'[s], journal') /\ Passed(thread'[s], disk)
  <2>1. CASE thread'[s] \in {Resting, Down}
    BY <2>1, DownIsFree, RestingIsFree
  <2>2. CASE thread'[s] = thread[s] /\ thread[t].call = "start" /\ ProcessOf[s] # p
    BY <1>1, <2>2, FreeLeasesFacts DEF Abandon
  <2>3. CASE thread'[s] = thread[s] /\ thread[t].call # "start"
    BY <2>3 DEF Abandon
  <2> QED BY <1>4, <2>1, <2>2, <2>3
<1>6. JournalOK(journal') /\ DiskOK(journal', disk') /\ ThreadsOK(journal', disk', thread')
  BY <1>2, <1>3, <1>5, StandsStill
<1>7. ServiceOK(thread', built', world') /\ world' \in World /\ LateElsewhere'
  <2>1. ASSUME NEW s \in Threads
        PROVE  /\ \/ thread'[s].call = thread[s].call
                  \/ thread'[s].call = "request" /\ thread'[s].at \notin Working
               /\ thread'[s].at \in Working => thread[s].at \in Working /\ thread'[s].op = thread[s].op
               /\ thread[s].at = "down" => thread'[s].at = "down"
    BY <1>4, DownIsFree, RestingIsFree DEF Working
  <2> QED BY <2>1, NobodyBegins
<1> QED BY <1>6, <1>7 DEF MInv
-----------------------------------------------------------------------------
(* The steps of a thread that works on an operation: staging                 *)

\* A path of the operation in hand.
LEMMA PathFacts ==
    ASSUME MInv, NEW t \in Threads, thread[t].at \in Working,
           thread[t].i \in 1..Len(TargetsOf[thread[t].op])
    PROVE  /\ Path(t) \in Paths /\ Path(t) \in Targets(thread[t].op)
           /\ Path(t) = TargetsOf[thread[t].op][thread[t].i]
           /\ PlaceOK(Path(t), disk[Path(t)]) /\ PlaceFits(disk[Path(t)], journal)
<1>1. thread[t].op \in Ops
  BY WorkFacts
<1>2. Path(t) \in Paths /\ Path(t) \in Targets(thread[t].op)
  BY <1>1, TargetFacts DEF Path
<1> QED BY <1>2 DEF Path, MInv, DiskOK

\* To give up staging is to roll back.
LEMMA UndoKeeps ==
    ASSUME MInv, NEW t \in Threads, thread[t].at \in {"stage", "move", "moved", "commit"}, Undo(t),
           UNCHANGED <<journal, disk, built, world>>
    PROVE  MInv'
<1>1. thread[t].at \in Working /\ WorkOK(t, thread[t], journal)
  BY WorkFacts DEF Working
<1>2. Moves(t, "rollback", thread[t].i)
  BY GotoMoves DEF Undo
<1>3. PhaseFits(thread'[t], journal) /\ IndexFits(thread'[t]) /\ Passed(thread'[t], disk)
  BY <1>1, <1>2 DEF Moves, WorkOK, PhaseFits, IndexFits, Passed
<1>4. SamePhases(journal, journal')
  BY DEF MInv, JournalOK, SamePhases
<1>5. "rollback" \in Working
  BY DEF Working
<1> QED BY <1>1, <1>2, <1>3, <1>4, <1>5, MovesAtWork

LEMMA StageKeeps ==
    ASSUME MInv, NEW t \in Threads, Stage(t), UNCHANGED world
    PROVE  MInv'
<1>1. thread[t].at \in Working /\ thread[t].at = "stage"
  BY DEF Stage, Working
<1>2. CASE ClaimAt(t, thread[t].op, "move", 1)
  <2>1. /\ SamePhases(journal, journal') /\ \A q \in Ops : journal'[q].owner = journal[q].owner
        /\ Moves(t, "move", 1)
    BY <1>1, <1>2, ClaimAtFacts
  <2>2. thread[t].op \in Ops /\ WorkOK(t, thread[t], journal) /\ Len(TargetsOf[thread[t].op]) \in Nat
    BY <1>1, WorkFacts, TargetFacts
  <2>3. PhaseFits(thread'[t], journal)
    BY <1>1, <2>1, <2>2 DEF Moves, WorkOK, PhaseFits
  <2>4. IndexFits(thread'[t])
    BY <2>1, <2>2 DEF Moves, IndexFits
  <2>5. Passed(thread'[t], disk)
    BY <2>1, <2>2 DEF Moves, Passed
  <2>6. "move" \in Working /\ UNCHANGED <<disk, built, world>>
    BY DEF Working, Stage
  <2> QED BY <1>1, <2>1, <2>3, <2>4, <2>5, <2>6, MovesAtWork
<1>3. CASE Undo(t) /\ UNCHANGED journal
  BY <1>1, <1>3, UndoKeeps DEF Stage
<1> QED BY <1>2, <1>3 DEF Stage

\* The disk after one place has changed.
LEMMA OnePlace ==
    ASSUME MInv, NEW t \in Threads, thread[t].at \in Working, NEW p \in Targets(thread[t].op),
           DOMAIN disk' = Paths, \A q \in Paths : q # p => disk'[q] = disk[q],
           PlaceOK(p, disk'[p]), disk'[p].at # "origin" => disk'[p].op = thread[t].op,
           PlaceFits(disk'[p], journal),
           disk[p].at = "origin" \/ (disk[p].at # "gone" /\ disk[p].op = thread[t].op),
           journal[thread[t].op].phase \in Unfinished,
           journal[thread[t].op].phase = "COMMITTED" => disk'[p].at # "origin"
    PROVE  DiskOK(journal, disk') /\ Spares(thread[t].op, disk, disk')
<1> DEFINE o == thread[t].op
<1>1. o \in Ops /\ p \in Paths
  BY WorkFacts, TargetFacts
<1>2. Spares(o, disk, disk')
  <2>1. \A q \in Paths : q # p => disk'[q].at = disk[q].at /\ disk'[q].op = disk[q].op
    OBVIOUS
  <2> QED BY <2>1 DEF Spares
<1>3. ASSUME NEW q \in Ops PROVE RowIsTrue(q, journal, disk')
  <2>1. RowIsTrue(q, journal, disk)
    BY DEF MInv, DiskOK
  <2>2. \A x \in Targets(q) : x \in Paths
    BY TargetFacts
  <2>3. CASE p \notin Targets(q)
    BY <2>1, <2>2, <2>3 DEF RowIsTrue
  <2>4. CASE p \in Targets(q)
    <3>1. journal[q].phase # "FINALIZED"
      <4>1. journal[q].phase = "FINALIZED" => disk[p].at = "gone"
        BY <2>1, <2>4 DEF RowIsTrue
      <4> QED BY <4>1
    <3>2. journal[q].phase = "COMMITTED" => q = o
      BY <1>1, <2>4 DEF MInv, JournalOK, Apart, Unfinished
    <3>3. journal[q].phase = "COMMITTED" => \A x \in Targets(q) : disk'[x].at # "origin"
      BY <2>1, <2>2, <3>2 DEF RowIsTrue
    <3> QED BY <3>1, <3>3 DEF RowIsTrue
  <2> QED BY <2>3, <2>4
<1>4. \A q \in Paths : PlaceOK(q, disk'[q]) /\ PlaceFits(disk'[q], journal)
  BY DEF MInv, DiskOK
<1> QED BY <1>2, <1>3, <1>4 DEF DiskOK

\* A thread that has changed one place goes on.
LEMMA PlaceStep ==
    ASSUME MInv, NEW t \in Threads, thread[t].at \in Working, NEW place \in Working, NEW index,
           Moves(t, place, index), UNCHANGED <<journal, built, world>>,
           DiskOK(journal, disk'), Spares(thread[t].op, disk, disk'),
           PhaseFits(thread'[t], journal), IndexFits(thread'[t]), Passed(thread'[t], disk')
    PROVE  MInv'
<1>1. ThreadOK(t, thread[t], journal) /\ thread[t].op \in Ops
  BY WorkFacts DEF MInv, ThreadsOK
<1>2. ThreadOK(t, thread'[t], journal')
  BY <1>1 DEF Moves, ThreadOK, WorkOK, PhaseFits, Working
<1>3. RowOK(journal[thread[t].op]) /\ journal[thread[t].op].phase # "NONE" /\ DOMAIN journal = Ops
  BY <1>1 DEF MInv, JournalOK, ThreadOK, WorkOK, PhaseFits, Working, Uncommitted
<1> QED BY <1>2, <1>3, OwnStep DEF Moves
LEMMA MoveKeeps ==
    ASSUME MInv, NEW t \in Threads, Move(t), UNCHANGED world
    PROVE  MInv'
<1> DEFINE o == thread[t].op
           p == Path(t)
<1>1. thread[t].at \in Working /\ thread[t].at = "move" /\ thread[t].i <= Len(TargetsOf[o])
  BY DEF Move, Working
<1>2. /\ o \in Ops /\ WorkOK(t, thread[t], journal) /\ Passed(thread[t], disk)
      /\ Len(TargetsOf[o]) \in Nat /\ \A k \in 1..Len(TargetsOf[o]) : TargetsOf[o][k] \in Paths
  BY <1>1, WorkFacts, TargetFacts
<1>3. thread[t].i \in 1..Len(TargetsOf[o]) /\ journal[o].phase = "INTENT"
  BY <1>1, <1>2 DEF WorkOK, IndexFits, PhaseFits
<1>4. /\ p \in Paths /\ p \in Targets(o) /\ p = TargetsOf[o][thread[t].i]
      /\ PlaceOK(p, disk[p]) /\ PlaceFits(disk[p], journal) /\ DOMAIN disk = Paths
  BY <1>1, <1>3, PathFacts DEF MInv, DiskOK
<1>5. UNCHANGED <<journal, built, world>> /\ "moved" \in Working
  BY DEF Move, Working
<1>6. SamePhases(journal, journal')
  BY <1>5 DEF MInv, JournalOK, SamePhases
<1>7. CASE Undo(t) /\ UNCHANGED disk
  BY <1>1, <1>5, <1>7, UndoKeeps
<1>8. CASE Goto(t, "moved")
  <2>1. Moves(t, "moved", thread[t].i)
    BY <1>8, GotoMoves
  <2>2. PhaseFits(thread'[t], journal) /\ IndexFits(thread'[t])
    BY <1>3, <2>1 DEF Moves, PhaseFits, IndexFits
  <2>3. ASSUME Holds(disk'[p], o), \A k \in 1..Len(TargetsOf[o]) : Detached(thread[t], disk, k) => Detached(thread[t], disk', k)
        PROVE  Passed(thread'[t], disk')
    <3>1. \A k \in 1..Len(TargetsOf[o]) : k < thread[t].i => Detached(thread[t], disk', k)
      BY <1>1, <1>2, <2>3 DEF Passed
    <3>3. Detached(thread[t], disk', thread[t].i)
      BY <1>4, <2>3 DEF Detached
    <3>4. \A k \in 1..Len(TargetsOf[o]) : k <= thread[t].i => k < thread[t].i \/ k = thread[t].i
      BY <1>2, <1>3
    <3>2. \A k \in 1..Len(TargetsOf[o]) : k <= thread[t].i => Detached(thread[t], disk', k)
      BY <3>1, <3>3, <3>4
    <3> QED BY <2>1, <3>2 DEF Moves, Passed, Detached
  <2>4. CASE disk[p] = Home /\ disk' = [disk EXCEPT ![p].at = "quarantine", ![p].op = o]
    <3>1. /\ DOMAIN disk' = Paths /\ \A q \in Paths : q # p => disk'[q] = disk[q]
          /\ DOMAIN disk'[p] = {"at", "op", "fresh"} /\ disk'[p].at = "quarantine" /\ disk'[p].op = o
      BY <1>4, <2>4 DEF PlaceOK
    <3>2. PlaceOK(p, disk'[p]) /\ PlaceFits(disk'[p], journal)
      BY <1>2, <1>3, <1>4, <3>1 DEF PlaceOK, PlaceFits
    <3>3. disk[p].at = "origin"
      BY <2>4 DEF Home
    <3>4. DiskOK(journal, disk') /\ Spares(o, disk, disk')
      BY <1>1, <1>3, <1>4, <3>1, <3>2, <3>3, OnePlace DEF Unfinished
    <3>5. Passed(thread'[t], disk')
      <4>1. Holds(disk'[p], o)
        BY <3>1 DEF Holds
      <4>2. \A k \in 1..Len(TargetsOf[o]) : Detached(thread[t], disk, k) => Detached(thread[t], disk', k)
        BY <1>2, <3>1, <4>1 DEF Detached
      <4> QED BY <2>3, <4>1, <4>2
    <3> QED BY <1>1, <1>5, <2>1, <2>2, <3>4, <3>5, PlaceStep
  <2>5. CASE InQuarantine(p, o) /\ UNCHANGED disk
    <3>1. Holds(disk'[p], o)
      BY <1>3, <1>4, <2>5 DEF InQuarantine, PlaceFits, Holds
    <3>2. Passed(thread'[t], disk)
      <4>1. \A k \in 1..Len(TargetsOf[o]) : Detached(thread[t], disk, k) => Detached(thread[t], disk', k)
        BY <2>5
      <4>2. Passed(thread'[t], disk')
        BY <2>3, <3>1, <4>1
      <4> QED BY <2>5, <4>2
    <3>3. \A q \in Ops : journal'[q].owner = journal[q].owner
      BY <1>5
    <3> QED BY <1>1, <1>5, <1>6, <2>1, <2>2, <2>5, <3>2, <3>3, MovesAtWork
  <2> QED BY <1>1, <1>8, <2>4, <2>5, <1>7 DEF Move
<1> QED BY <1>7, <1>8 DEF Move

LEMMA MovedKeeps ==
    ASSUME MInv, NEW t \in Threads, Moved(t), UNCHANGED world
    PROVE  MInv'
<1> DEFINE o == thread[t].op
<1>1. thread[t].at \in Working /\ thread[t].at = "moved"
  BY DEF Moved, Working
<1>2. o \in Ops /\ WorkOK(t, thread[t], journal) /\ Passed(thread[t], disk) /\ Len(TargetsOf[o]) \in Nat
  BY <1>1, WorkFacts, TargetFacts
<1>3. thread[t].i \in 1..Len(TargetsOf[o]) /\ journal[o].phase = "INTENT"
  BY <1>1, <1>2 DEF WorkOK, IndexFits, PhaseFits
<1>4. UNCHANGED <<disk, built, world>> /\ "move" \in Working
  BY DEF Moved, Working
<1>5. CASE SaveTarget(t, "DETACHED", "move", 1)
  <2>1. /\ SamePhases(journal, journal') /\ \A q \in Ops : journal'[q].owner = journal[q].owner
        /\ Moves(t, "move", thread[t].i + 1)
    BY <1>1, <1>5, SaveTargetFacts
  <2>2. PhaseFits(thread'[t], journal) /\ IndexFits(thread'[t])
    BY <1>2, <1>3, <2>1 DEF Moves, PhaseFits, IndexFits
  <2>3. Passed(thread'[t], disk)
    <3>1. \A k \in 1..Len(TargetsOf[o]) : k < thread[t].i + 1 => Detached(thread[t], disk, k)
      BY <1>1, <1>2, <1>3 DEF Passed
    <3> QED BY <2>1, <3>1 DEF Moves, Passed, Detached
  <2> QED BY <1>1, <1>4, <2>1, <2>2, <2>3, MovesAtWork
<1>6. CASE Undo(t) /\ UNCHANGED journal
  BY <1>1, <1>4, <1>6, UndoKeeps
<1> QED BY <1>5, <1>6 DEF Moved

\* A thread gives the operation in hand a new phase, and goes on or returns.
LEMMA PhaseStep ==
    ASSUME MInv, NEW t \in Threads, thread[t].at \in Working,
           DOMAIN thread' = Threads, \A s \in Threads : s # t => thread'[s] = thread[s],
           ThreadOK(t, thread'[t], journal'), Passed(thread'[t], disk'),
           thread'[t].call = thread[t].call,
           thread'[t].at \in Working => thread'[t].op = thread[t].op,
           DOMAIN journal' = Ops, \A q \in Ops : q # thread[t].op => journal'[q] = journal[q],
           RowOK(journal'[thread[t].op]), journal'[thread[t].op].phase # "NONE",
           journal'[thread[t].op].phase \in Unfinished => journal[thread[t].op].phase \in Unfinished,
           RowIsTrue(thread[t].op, journal', disk),
           \A p \in Targets(thread[t].op) : disk[p].at # "origin" /\ disk[p].op = thread[t].op => PlaceFits(disk[p], journal'),
           UNCHANGED <<disk, built, world>>
    PROVE  MInv'
<1> DEFINE o == thread[t].op
<1>1. o \in Ops
  BY WorkFacts
<1>2. \A p \in Paths : PlaceOK(p, disk[p]) /\ PlaceFits(disk[p], journal)
  BY DEF MInv, DiskOK
<1>3. ASSUME NEW p \in Paths PROVE PlaceFits(disk[p], journal')
  <2>1. CASE disk[p].at # "origin" /\ disk[p].op = o
    BY <1>2, <2>1 DEF PlaceOK
  <2>2. CASE disk[p].at # "origin" /\ disk[p].op # o
    BY <1>2, <2>2 DEF PlaceOK, PlaceFits
  <2>3. CASE disk[p].at = "origin"
    BY <2>3 DEF PlaceFits
  <2> QED BY <2>1, <2>2, <2>3
<1>4. \A q \in Ops : RowIsTrue(q, journal', disk)
  BY DEF MInv, DiskOK, RowIsTrue
<1>5. DiskOK(journal', disk')
  BY <1>2, <1>3, <1>4 DEF MInv, DiskOK, PlaceOK, PlaceFits, RowIsTrue
<1>6. Spares(o, disk, disk')
  BY DEF Spares
<1> QED BY <1>5, <1>6, OwnStep

LEMMA DetachKeeps ==
    ASSUME MInv, NEW t \in Threads, Detach(t), UNCHANGED world
    PROVE  MInv'
<1> DEFINE o == thread[t].op
<1>1. thread[t].at \in Working /\ thread[t].at = "move" /\ thread[t].i > Len(TargetsOf[o])
  BY DEF Detach, Working
<1>2. o \in Ops /\ WorkOK(t, thread[t], journal) /\ Passed(thread[t], disk) /\ Len(TargetsOf[o]) \in Nat
  BY <1>1, WorkFacts, TargetFacts
<1>3. journal[o].phase = "INTENT" /\ thread[t].i \in 1..(Len(TargetsOf[o]) + 1)
  BY <1>1, <1>2 DEF WorkOK, PhaseFits, IndexFits
<1>4. UNCHANGED <<disk, built, world>>
  BY DEF Detach
<1>5. CASE SavePhase(t, "DETACHED") /\ Goto(t, "commit")
  <2>1. /\ DOMAIN journal' = Ops /\ \A q \in Ops : q # o => journal'[q] = journal[q]
        /\ RowOK(journal'[o]) /\ journal'[o].phase = "DETACHED" /\ journal'[o].owner = journal[o].owner
    <3>1. "DETACHED" \in Phase
      BY DEF Phase
    <3> QED BY <1>1, <1>5, <3>1, SavePhaseFacts
  <2>2. Moves(t, "commit", thread[t].i)
    BY <1>5, GotoMoves
  <2>3. ThreadOK(t, thread'[t], journal')
    <3>1. ThreadOK(t, thread[t], journal)
      BY DEF MInv, ThreadsOK
    <3>2. WorkOK(t, thread'[t], journal')
      BY <1>2, <2>1, <2>2 DEF Moves, WorkOK, PhaseFits, IndexFits
    <3>3. \A q \in thread'[t].todo : journal'[q].phase # "NONE"
      BY <2>1, <2>2, <3>1 DEF Moves, ThreadOK
    <3> QED BY <1>1, <2>2, <3>1, <3>2, <3>3 DEF Moves, ThreadOK, Working
  <2>4. Passed(thread'[t], disk')
    <3>1. \A k \in 1..Len(TargetsOf[o]) : Detached(thread[t], disk, k)
      BY <1>1, <1>2, <1>3 DEF Passed
    <3> QED BY <1>4, <2>2, <3>1 DEF Moves, Passed, Detached
  <2>5. RowIsTrue(o, journal', disk)
    BY <2>1 DEF RowIsTrue
  <2>6. \A p \in Targets(o) : disk[p].at # "origin" /\ disk[p].op = o => PlaceFits(disk[p], journal')
    <3>1. \A p \in Targets(o) : PlaceFits(disk[p], journal)
      BY <1>2, TargetFacts DEF MInv, DiskOK
    <3> QED BY <1>3, <2>1, <3>1 DEF PlaceFits
  <2> QED BY <1>1, <1>3, <1>4, <2>1, <2>2, <2>3, <2>4, <2>5, <2>6, PhaseStep DEF Moves, Unfinished
<1>6. CASE Undo(t) /\ UNCHANGED journal
  BY <1>1, <1>4, <1>6, UndoKeeps
<1> QED BY <1>5, <1>6 DEF Detach
-----------------------------------------------------------------------------
(* The domain transaction, and what undoes or finishes the operation         *)

LEMMA CommitKeeps ==
    ASSUME MInv, NEW t \in Threads, Commit(t), UNCHANGED world
    PROVE  MInv'
<1> DEFINE o == thread[t].op
<1>1. thread[t].at \in Working /\ thread[t].at = "commit"
  BY DEF Commit, Working
<1>2. o \in Ops /\ WorkOK(t, thread[t], journal) /\ Passed(thread[t], disk) /\ DOMAIN journal = Ops /\ RowOK(journal[o])
  BY <1>1, WorkFacts DEF MInv, JournalOK
<1>3. journal[o].phase = "DETACHED"
  BY <1>1, <1>2 DEF WorkOK, PhaseFits
<1>4. UNCHANGED <<disk, built, world>>
  BY DEF Commit
<1>5. CASE journal' = [journal EXCEPT ![o].phase = "COMMITTED"] /\ Goto(t, "finalize")
  <2>1. /\ DOMAIN journal' = Ops /\ \A q \in Ops : q # o => journal'[q] = journal[q]
        /\ RowOK(journal'[o]) /\ journal'[o].phase = "COMMITTED" /\ journal'[o].owner = journal[o].owner
    BY <1>2, <1>5 DEF RowOK, RowFields, Phase
  <2>2. Moves(t, "finalize", thread[t].i)
    BY <1>5, GotoMoves
  <2>3. ThreadOK(t, thread'[t], journal')
    <3>1. ThreadOK(t, thread[t], journal)
      BY DEF MInv, ThreadsOK
    <3>2. WorkOK(t, thread'[t], journal')
      BY <1>2, <2>1, <2>2 DEF Moves, WorkOK, PhaseFits, IndexFits
    <3>3. \A q \in thread'[t].todo : journal'[q].phase # "NONE"
      BY <2>1, <2>2, <3>1 DEF Moves, ThreadOK
    <3> QED BY <1>1, <2>2, <3>1, <3>2, <3>3 DEF Moves, ThreadOK, Working
  <2>4. Passed(thread'[t], disk')
    BY <2>2 DEF Moves, Passed
  <2>5. RowIsTrue(o, journal', disk)
    <3>1. \A k \in 1..Len(TargetsOf[o]) : disk[TargetsOf[o][k]].at # "origin"
      BY <1>1, <1>2 DEF Passed, Detached, Holds
    <3>2. \A p \in Targets(o) : disk[p].at # "origin"
      BY <1>2, <3>1, TargetFacts
    <3> QED BY <2>1, <3>2 DEF RowIsTrue
  <2>6. \A p \in Targets(o) : disk[p].at # "origin" /\ disk[p].op = o => PlaceFits(disk[p], journal')
    BY <2>1 DEF PlaceFits
  <2> QED BY <1>1, <1>3, <1>4, <2>1, <2>2, <2>3, <2>4, <2>5, <2>6, PhaseStep DEF Moves, Unfinished
<1>6. CASE Undo(t) /\ UNCHANGED journal
  BY <1>1, <1>4, <1>6, UndoKeeps
<1> QED BY <1>5, <1>6 DEF Commit

\* A call that finds its operation settled returns.
LEMMA ReturnKeeps ==
    ASSUME MInv, NEW t \in Threads, thread[t].at \in Working, Return(t), UNCHANGED <<journal, disk, built, world>>
    PROVE  MInv'
<1>1. /\ DOMAIN thread' = Threads /\ \A s \in Threads : s # t => thread'[s] = thread[s]
      /\ ThreadOK(t, thread'[t], journal') /\ Passed(thread'[t], disk')
      /\ thread'[t].call = thread[t].call /\ thread'[t].at \notin Working
  BY ReturnFacts
<1>2. SamePhases(journal, journal')
  BY DEF MInv, JournalOK, SamePhases
<1>3. JournalOK(journal') /\ DiskOK(journal', disk') /\ ThreadsOK(journal', disk', thread')
  BY <1>1, <1>2, StandsStill
<1>4. ServiceOK(thread', built', world') /\ world' \in World /\ LateElsewhere'
  BY <1>1, NobodyBegins DEF Working
<1> QED BY <1>3, <1>4 DEF MInv

LEMMA RollbackKeeps ==
    ASSUME MInv, NEW t \in Threads, Rollback(t), UNCHANGED world
    PROVE  MInv'
<1> DEFINE o == thread[t].op
<1>1. thread[t].at \in Working /\ thread[t].at = "rollback"
  BY DEF Rollback, Working
<1>2. o \in Ops /\ WorkOK(t, thread[t], journal) /\ Len(TargetsOf[o]) \in Nat
  BY <1>1, WorkFacts, TargetFacts
<1>4. UNCHANGED <<disk, built, world>>
  BY DEF Rollback
<1>5. CASE journal[o].phase \in Uncommitted /\ ClaimAt(t, o, "restore", Len(TargetsOf[o]))
  <2>1. /\ SamePhases(journal, journal') /\ \A q \in Ops : journal'[q].owner = journal[q].owner
        /\ Moves(t, "restore", Len(TargetsOf[o]))
    BY <1>1, <1>5, ClaimAtFacts
  <2>2. PhaseFits(thread'[t], journal) /\ IndexFits(thread'[t]) /\ Passed(thread'[t], disk)
    BY <1>2, <1>5, <2>1 DEF Moves, PhaseFits, IndexFits, Passed
  <2>3. "restore" \in Working
    BY DEF Working
  <2> QED BY <1>1, <1>4, <2>1, <2>2, <2>3, MovesAtWork
<1>6. CASE Return(t) /\ UNCHANGED <<journal, refused>>
  BY <1>1, <1>4, <1>6, ReturnKeeps
<1>7. CASE Abandon(t)
  BY <1>1, <1>4, <1>7, AbandonKeeps
<1> QED BY <1>5, <1>6, <1>7 DEF Rollback, Uncommitted

LEMMA RestoreKeeps ==
    ASSUME MInv, NEW t \in Threads, Restore(t), UNCHANGED world
    PROVE  MInv'
<1> DEFINE o == thread[t].op
           p == Path(t)
<1>1. thread[t].at \in Working /\ thread[t].at = "restore" /\ thread[t].i > 0
  BY DEF Restore, Working
<1>2. /\ o \in Ops /\ WorkOK(t, thread[t], journal) /\ Passed(thread[t], disk)
      /\ Len(TargetsOf[o]) \in Nat /\ \A k \in 1..Len(TargetsOf[o]) : TargetsOf[o][k] \in Paths
  BY <1>1, WorkFacts, TargetFacts
<1>3. thread[t].i \in 1..Len(TargetsOf[o]) /\ journal[o].phase \in Uncommitted
  BY <1>1, <1>2 DEF WorkOK, IndexFits, PhaseFits
<1>4. /\ p \in Paths /\ p \in Targets(o) /\ p = TargetsOf[o][thread[t].i]
      /\ PlaceOK(p, disk[p]) /\ PlaceFits(disk[p], journal) /\ DOMAIN disk = Paths
  BY <1>1, <1>3, PathFacts DEF MInv, DiskOK
<1>5. UNCHANGED <<built, world>> /\ "restored" \in Working
  BY DEF Restore, Working
<1>6. CASE Goto(t, "restored") /\ UNCHANGED <<journal, refused>>
  <2>1. Moves(t, "restored", thread[t].i)
    BY <1>6, GotoMoves
  <2>2. PhaseFits(thread'[t], journal) /\ IndexFits(thread'[t])
    BY <1>3, <2>1 DEF Moves, PhaseFits, IndexFits
  <2>3. ASSUME ~Holds(disk'[p], o), \A k \in 1..Len(TargetsOf[o]) : Detached(thread[t], disk', k) => Detached(thread[t], disk, k)
        PROVE  Passed(thread'[t], disk')
    <3>1. \A k \in 1..Len(TargetsOf[o]) : k > thread[t].i => ~Detached(thread[t], disk', k)
      BY <1>1, <1>2, <2>3 DEF Passed
    <3>2. ~Detached(thread[t], disk', thread[t].i)
      BY <1>4, <2>3 DEF Detached
    <3>3. \A k \in 1..Len(TargetsOf[o]) : k >= thread[t].i => k > thread[t].i \/ k = thread[t].i
      BY <1>2, <1>3
    <3>4. \A k \in 1..Len(TargetsOf[o]) : k >= thread[t].i => ~Detached(thread[t], disk', k)
      BY <3>1, <3>2, <3>3
    <3> QED BY <2>1, <3>4 DEF Moves, Passed, Detached
  <2>4. CASE disk[p].at = "quarantine" /\ disk[p].op = o /\ disk' = [disk EXCEPT ![p] = Home]
    <3>1. /\ DOMAIN disk' = Paths /\ \A q \in Paths : q # p => disk'[q] = disk[q]
          /\ disk'[p] = Home /\ disk'[p].at = "origin"
      BY <1>4, <2>4 DEF Home
    <3>2. PlaceOK(p, disk'[p]) /\ PlaceFits(disk'[p], journal)
      BY <3>1 DEF PlaceOK, PlaceFits, Home
    <3>4. DiskOK(journal, disk') /\ Spares(o, disk, disk')
      BY <1>1, <1>3, <1>4, <2>4, <3>1, <3>2, OnePlace DEF Unfinished, Uncommitted
    <3>5. Passed(thread'[t], disk')
      <4>1. ~Holds(disk'[p], o)
        BY <3>1 DEF Holds
      <4>2. \A k \in 1..Len(TargetsOf[o]) : Detached(thread[t], disk', k) => Detached(thread[t], disk, k)
        BY <1>2, <3>1, <4>1 DEF Detached
      <4> QED BY <2>3, <4>1, <4>2
    <3> QED BY <1>1, <1>5, <1>6, <2>1, <2>2, <3>4, <3>5, PlaceStep
  <2>5. CASE disk[p] = Home /\ UNCHANGED disk
    <3>1. ~Holds(disk'[p], o)
      BY <2>5 DEF Home, Holds
    <3>2. Passed(thread'[t], disk)
      <4>1. \A k \in 1..Len(TargetsOf[o]) : Detached(thread[t], disk', k) => Detached(thread[t], disk, k)
        BY <2>5
      <4>2. Passed(thread'[t], disk')
        BY <2>3, <3>1, <4>1
      <4> QED BY <2>5, <4>2
    <3>3. \A q \in Ops : journal'[q].owner = journal[q].owner
      BY <1>6
    <3>4. SamePhases(journal, journal')
      BY <1>6 DEF MInv, JournalOK, SamePhases
    <3> QED BY <1>1, <1>5, <1>6, <2>1, <2>2, <2>5, <3>2, <3>3, <3>4, MovesAtWork
  <2>6. CASE Abandon(t) /\ UNCHANGED disk
    BY <1>1, <1>5, <2>6, AbandonKeeps
  <2> QED BY <2>4, <2>5, <2>6 DEF Restore
<1>7. CASE Abandon(t) /\ UNCHANGED disk
  BY <1>1, <1>5, <1>7, AbandonKeeps
<1> QED BY <1>6, <1>7 DEF Restore

LEMMA RestoredKeeps ==
    ASSUME MInv, NEW t \in Threads, Restored(t), UNCHANGED world
    PROVE  MInv'
<1> DEFINE o == thread[t].op
<1>1. thread[t].at \in Working /\ thread[t].at = "restored"
  BY DEF Restored, Working
<1>2. o \in Ops /\ WorkOK(t, thread[t], journal) /\ Passed(thread[t], disk) /\ Len(TargetsOf[o]) \in Nat
  BY <1>1, WorkFacts, TargetFacts
<1>3. thread[t].i \in 1..Len(TargetsOf[o]) /\ journal[o].phase \in Uncommitted
  BY <1>1, <1>2 DEF WorkOK, IndexFits, PhaseFits
<1>4. UNCHANGED <<disk, built, world>> /\ "restore" \in Working
  BY DEF Restored, Working
<1>5. CASE SaveTarget(t, "RESTORED", "restore", -1)
  <2>1. /\ SamePhases(journal, journal') /\ \A q \in Ops : journal'[q].owner = journal[q].owner
        /\ Moves(t, "restore", thread[t].i + (-1))
    BY <1>1, <1>5, SaveTargetFacts
  <2>2. PhaseFits(thread'[t], journal) /\ IndexFits(thread'[t])
    BY <1>2, <1>3, <2>1 DEF Moves, PhaseFits, IndexFits
  <2>3. Passed(thread'[t], disk)
    <3>1. \A k \in 1..Len(TargetsOf[o]) : k > thread[t].i + (-1) => ~Detached(thread[t], disk, k)
      BY <1>1, <1>2, <1>3 DEF Passed
    <3> QED BY <2>1, <3>1 DEF Moves, Passed, Detached
  <2> QED BY <1>1, <1>4, <2>1, <2>2, <2>3, MovesAtWork
<1>6. CASE Abandon(t)
  BY <1>1, <1>4, <1>6, AbandonKeeps
<1> QED BY <1>5, <1>6 DEF Restored

LEMMA RolledBackKeeps ==
    ASSUME MInv, NEW t \in Threads, RolledBack(t), UNCHANGED world
    PROVE  MInv'
<1> DEFINE o == thread[t].op
<1>1. thread[t].at \in Working /\ thread[t].at = "restore" /\ thread[t].i = 0
  BY DEF RolledBack, Working
<1>2. o \in Ops /\ WorkOK(t, thread[t], journal) /\ Passed(thread[t], disk)
  BY <1>1, WorkFacts
<1>3. journal[o].phase \in Uncommitted
  BY <1>1, <1>2 DEF WorkOK, PhaseFits
<1>4. UNCHANGED <<disk, built, world>>
  BY DEF RolledBack
<1>5. CASE SavePhase(t, "ROLLED_BACK") /\ Return(t)
  <2>1. /\ DOMAIN journal' = Ops /\ \A q \in Ops : q # o => journal'[q] = journal[q]
        /\ RowOK(journal'[o]) /\ journal'[o].phase = "ROLLED_BACK"
    <3>1. "ROLLED_BACK" \in Phase
      BY DEF Phase
    <3> QED BY <1>1, <1>5, <3>1, SavePhaseFacts
  <2>2. /\ DOMAIN thread' = Threads /\ \A s \in Threads : s # t => thread'[s] = thread[s]
        /\ ThreadOK(t, thread'[t], journal') /\ Passed(thread'[t], disk')
        /\ thread'[t].call = thread[t].call /\ thread'[t].at \notin Working
    BY <1>1, <1>5, <2>1, ReturnFacts
  <2>3. RowIsTrue(o, journal', disk)
    BY <2>1 DEF RowIsTrue
  <2>4. \A p \in Targets(o) : disk[p].at # "origin" /\ disk[p].op = o => PlaceFits(disk[p], journal')
    <3>1. \A p \in Targets(o) : PlaceFits(disk[p], journal)
      BY <1>2, TargetFacts DEF MInv, DiskOK
    <3>2. \A k \in 1..Len(TargetsOf[o]) : ~Holds(disk[TargetsOf[o][k]], o)
      BY <1>1, <1>2, TargetFacts DEF Passed, Detached
    <3>3. \A p \in Targets(o) : ~Holds(disk[p], o)
      BY <1>2, <3>2, TargetFacts
    <3> QED BY <1>3, <3>1, <3>3 DEF PlaceFits, Holds, Uncommitted
  <2> QED BY <1>1, <1>4, <2>1, <2>2, <2>3, <2>4, PhaseStep DEF Unfinished
<1>6. CASE Abandon(t)
  BY <1>1, <1>4, <1>6, AbandonKeeps
<1> QED BY <1>5, <1>6 DEF RolledBack
LEMMA FinalizeKeeps ==
    ASSUME MInv, NEW t \in Threads, Finalize(t), UNCHANGED world
    PROVE  MInv'
<1> DEFINE o == thread[t].op
<1>1. thread[t].at \in Working /\ thread[t].at = "finalize"
  BY DEF Finalize, Working
<1>2. o \in Ops /\ WorkOK(t, thread[t], journal) /\ Len(TargetsOf[o]) \in Nat
  BY <1>1, WorkFacts, TargetFacts
<1>3. UNCHANGED <<disk, built, world>>
  BY DEF Finalize
<1>4. CASE ClaimAt(t, o, "delete", 1)
  <2>1. /\ SamePhases(journal, journal') /\ \A q \in Ops : journal'[q].owner = journal[q].owner
        /\ Moves(t, "delete", 1)
    BY <1>1, <1>4, ClaimAtFacts
  <2>2. PhaseFits(thread'[t], journal) /\ IndexFits(thread'[t]) /\ Passed(thread'[t], disk)
    BY <1>1, <1>2, <2>1 DEF Moves, WorkOK, PhaseFits, IndexFits, Passed
  <2>3. "delete" \in Working
    BY DEF Working
  <2> QED BY <1>1, <1>3, <2>1, <2>2, <2>3, MovesAtWork
<1>5. CASE Return(t) /\ UNCHANGED <<journal, refused>>
  BY <1>1, <1>3, <1>5, ReturnKeeps
<1>6. CASE Abandon(t)
  BY <1>1, <1>3, <1>6, AbandonKeeps
<1> QED BY <1>4, <1>5, <1>6 DEF Finalize

LEMMA DeleteKeeps ==
    ASSUME MInv, NEW t \in Threads, Delete(t), UNCHANGED world
    PROVE  MInv'
<1> DEFINE o == thread[t].op
           p == Path(t)
<1>1. thread[t].at \in Working /\ thread[t].at = "delete" /\ thread[t].i <= Len(TargetsOf[o])
  BY DEF Delete, Working
<1>2. /\ o \in Ops /\ WorkOK(t, thread[t], journal) /\ Passed(thread[t], disk)
      /\ Len(TargetsOf[o]) \in Nat /\ \A k \in 1..Len(TargetsOf[o]) : TargetsOf[o][k] \in Paths
  BY <1>1, WorkFacts, TargetFacts
<1>3. thread[t].i \in 1..Len(TargetsOf[o]) /\ journal[o].phase = "COMMITTED"
  BY <1>1, <1>2 DEF WorkOK, IndexFits, PhaseFits
<1>4. /\ p \in Paths /\ p \in Targets(o) /\ p = TargetsOf[o][thread[t].i]
      /\ PlaceOK(p, disk[p]) /\ PlaceFits(disk[p], journal) /\ DOMAIN disk = Paths
  BY <1>1, <1>3, PathFacts DEF MInv, DiskOK
<1>5. UNCHANGED <<built, world>> /\ {"deleting", "deleted"} \subseteq Working
  BY DEF Delete, Working
<1>6. \A k \in 1..Len(TargetsOf[o]) : k < thread[t].i => Reaped(thread[t], disk, k)
  BY <1>1, <1>2 DEF Passed
<1>7. \A k \in 1..Len(TargetsOf[o]) : k <= thread[t].i => k < thread[t].i \/ k = thread[t].i
  BY <1>2, <1>3
<1>8. CASE /\ disk[p].at = "quarantine" /\ disk[p].op = o
           /\ disk' = [disk EXCEPT ![p].at = IF world.deleteInSteps THEN "partial" ELSE "gone"]
           /\ Goto(t, IF world.deleteInSteps THEN "deleting" ELSE "deleted")
           /\ UNCHANGED <<journal, refused>>
  <2> DEFINE place == IF world.deleteInSteps THEN "deleting" ELSE "deleted"
  <2>1. Moves(t, place, thread[t].i) /\ place \in Working
    BY <1>5, <1>8, GotoMoves
  <2>2. PhaseFits(thread'[t], journal) /\ IndexFits(thread'[t])
    BY <1>3, <2>1 DEF Moves, PhaseFits, IndexFits
  <2>3. /\ DOMAIN disk' = Paths /\ \A q \in Paths : q # p => disk'[q] = disk[q]
        /\ DOMAIN disk'[p] = {"at", "op", "fresh"} /\ disk'[p].op = o
        /\ disk'[p].at = IF world.deleteInSteps THEN "partial" ELSE "gone"
    BY <1>4, <1>8 DEF PlaceOK
  <2>4. PlaceOK(p, disk'[p]) /\ PlaceFits(disk'[p], journal)
    BY <1>2, <1>3, <1>4, <2>3 DEF PlaceOK, PlaceFits
  <2>5. DiskOK(journal, disk') /\ Spares(o, disk, disk')
    BY <1>1, <1>3, <1>4, <1>8, <2>3, <2>4, OnePlace DEF Unfinished
  <2>6. Passed(thread'[t], disk')
    <3>1. \A k \in 1..Len(TargetsOf[o]) : Reaped(thread[t], disk, k) => Reaped(thread[t], disk', k)
      BY <1>2, <1>8, <2>3 DEF Reaped
    <3>2. CASE world.deleteInSteps
      <4>1. \A k \in 1..Len(TargetsOf[o]) : k < thread[t].i => Reaped(thread'[t], disk', k)
        BY <1>6, <2>1, <3>1 DEF Moves, Reaped
      <4>2. disk'[TargetsOf[o][thread[t].i]].at = "partial" /\ disk'[TargetsOf[o][thread[t].i]].op = o
        BY <1>4, <2>3, <3>2
      <4>3. thread'[t].at = "deleting" /\ thread'[t].op = o /\ thread'[t].i = thread[t].i
        BY <2>1, <3>2 DEF Moves
      <4> QED BY <4>1, <4>2, <4>3 DEF Passed
    <3>3. CASE ~world.deleteInSteps
      <4>1. Reaped(thread[t], disk', thread[t].i)
        BY <1>4, <2>3, <3>3 DEF Reaped
      <4>2. \A k \in 1..Len(TargetsOf[o]) : k <= thread[t].i => Reaped(thread[t], disk', k)
        BY <1>6, <1>7, <3>1, <4>1
      <4> QED BY <2>1, <3>3, <4>2 DEF Moves, Passed, Reaped
    <3> QED BY <3>2, <3>3
  <2> HIDE DEF place
  <2> QED BY <1>1, <1>5, <1>8, <2>1, <2>2, <2>5, <2>6, PlaceStep
<1>9. CASE /\ ~InQuarantine(p, o) /\ ~AtOrigin(p)
           /\ Goto(t, "deleted")
           /\ UNCHANGED <<journal, disk, refused>>
  <2>1. Moves(t, "deleted", thread[t].i)
    BY <1>9, GotoMoves
  <2>2. PhaseFits(thread'[t], journal) /\ IndexFits(thread'[t])
    BY <1>3, <2>1 DEF Moves, PhaseFits, IndexFits
  <2>3. disk[p].at = "gone"
    <3>1. disk[p].at # "origin"
      BY <1>9 DEF AtOrigin
    <3>2. disk[p].at \in {"quarantine", "partial"} => disk[p].op # o
      BY <1>9 DEF InQuarantine
    <3>3. disk[p].at \in {"quarantine", "partial"} => /\ disk[p].op \in Ops /\ p \in Targets(disk[p].op)
                                                      /\ journal[disk[p].op].phase \in Unfinished
      BY <1>4 DEF PlaceOK, PlaceFits, Unfinished
    <3>4. \A q \in Ops : q # o /\ journal[q].phase \in Unfinished => p \notin Targets(q)
      BY <1>2, <1>3, <1>4 DEF MInv, JournalOK, Apart, Unfinished
    <3> QED BY <1>4, <3>1, <3>2, <3>3, <3>4 DEF PlaceOK
  <2>4. Passed(thread'[t], disk)
    <3>1. Reaped(thread[t], disk, thread[t].i)
      BY <1>4, <2>3 DEF Reaped
    <3>2. \A k \in 1..Len(TargetsOf[o]) : k <= thread[t].i => Reaped(thread[t], disk, k)
      BY <1>6, <1>7, <3>1
    <3> QED BY <2>1, <3>2 DEF Moves, Passed, Reaped
  <2>5. SamePhases(journal, journal') /\ \A q \in Ops : journal'[q].owner = journal[q].owner
    BY <1>9 DEF MInv, JournalOK, SamePhases
  <2> QED BY <1>1, <1>5, <1>9, <2>1, <2>2, <2>4, <2>5, MovesAtWork
<1>10. CASE Abandon(t) /\ UNCHANGED disk
  BY <1>1, <1>5, <1>10, AbandonKeeps
<1> QED BY <1>8, <1>9, <1>10 DEF Delete

LEMMA DeletingKeeps ==
    ASSUME MInv, NEW t \in Threads, Deleting(t), UNCHANGED world
    PROVE  MInv'
<1> DEFINE o == thread[t].op
           p == Path(t)
<1>1. thread[t].at \in Working /\ thread[t].at = "deleting"
  BY DEF Deleting, Working
<1>2. /\ o \in Ops /\ WorkOK(t, thread[t], journal) /\ Passed(thread[t], disk)
      /\ Len(TargetsOf[o]) \in Nat /\ \A k \in 1..Len(TargetsOf[o]) : TargetsOf[o][k] \in Paths
  BY <1>1, WorkFacts, TargetFacts
<1>3. thread[t].i \in 1..Len(TargetsOf[o]) /\ journal[o].phase = "COMMITTED"
  BY <1>1, <1>2 DEF WorkOK, IndexFits, PhaseFits
<1>4. /\ p \in Paths /\ p \in Targets(o) /\ p = TargetsOf[o][thread[t].i]
      /\ PlaceOK(p, disk[p]) /\ DOMAIN disk = Paths /\ disk[p].at = "partial" /\ disk[p].op = o
  BY <1>1, <1>2, <1>3, PathFacts DEF MInv, DiskOK, Passed
<1>5. UNCHANGED <<journal, built, world>> /\ "deleted" \in Working /\ Goto(t, "deleted")
  BY DEF Deleting, Working
<1>6. Moves(t, "deleted", thread[t].i)
  BY <1>5, GotoMoves
<1>7. PhaseFits(thread'[t], journal) /\ IndexFits(thread'[t])
  BY <1>3, <1>6 DEF Moves, PhaseFits, IndexFits
<1>8. /\ DOMAIN disk' = Paths /\ \A q \in Paths : q # p => disk'[q] = disk[q]
      /\ DOMAIN disk'[p] = {"at", "op", "fresh"} /\ disk'[p].op = o /\ disk'[p].at = "gone"
  BY <1>4 DEF PlaceOK, Deleting
<1>9. PlaceOK(p, disk'[p]) /\ PlaceFits(disk'[p], journal)
  BY <1>2, <1>3, <1>4, <1>8 DEF PlaceOK, PlaceFits
<1>10. DiskOK(journal, disk') /\ Spares(o, disk, disk')
  BY <1>1, <1>3, <1>4, <1>8, <1>9, OnePlace DEF Unfinished
<1>11. Passed(thread'[t], disk')
  <2>1. \A k \in 1..Len(TargetsOf[o]) : k < thread[t].i => Reaped(thread[t], disk, k)
    BY <1>1, <1>2 DEF Passed
  <2>2. \A k \in 1..Len(TargetsOf[o]) : Reaped(thread[t], disk, k) => Reaped(thread[t], disk', k)
    BY <1>2, <1>8 DEF Reaped
  <2>3. Reaped(thread[t], disk', thread[t].i)
    BY <1>4, <1>8 DEF Reaped
  <2>4. \A k \in 1..Len(TargetsOf[o]) : k <= thread[t].i => k < thread[t].i \/ k = thread[t].i
    BY <1>2, <1>3
  <2>5. \A k \in 1..Len(TargetsOf[o]) : k <= thread[t].i => Reaped(thread[t], disk', k)
    BY <2>1, <2>2, <2>3, <2>4
  <2> QED BY <1>6, <2>5 DEF Moves, Passed, Reaped
<1> QED BY <1>1, <1>5, <1>6, <1>7, <1>10, <1>11, PlaceStep

LEMMA DeletedKeeps ==
    ASSUME MInv, NEW t \in Threads, Deleted(t), UNCHANGED world
    PROVE  MInv'
<1> DEFINE o == thread[t].op
<1>1. thread[t].at \in Working /\ thread[t].at = "deleted"
  BY DEF Deleted, Working
<1>2. o \in Ops /\ WorkOK(t, thread[t], journal) /\ Passed(thread[t], disk) /\ Len(TargetsOf[o]) \in Nat
  BY <1>1, WorkFacts, TargetFacts
<1>3. thread[t].i \in 1..Len(TargetsOf[o]) /\ journal[o].phase = "COMMITTED"
  BY <1>1, <1>2 DEF WorkOK, IndexFits, PhaseFits
<1>4. UNCHANGED <<disk, built, world>> /\ "delete" \in Working
  BY DEF Deleted, Working
<1>5. CASE SaveTarget(t, "DELETED", "delete", 1)
  <2>1. /\ SamePhases(journal, journal') /\ \A q \in Ops : journal'[q].owner = journal[q].owner
        /\ Moves(t, "delete", thread[t].i + 1)
    BY <1>1, <1>5, SaveTargetFacts
  <2>2. PhaseFits(thread'[t], journal) /\ IndexFits(thread'[t])
    BY <1>2, <1>3, <2>1 DEF Moves, PhaseFits, IndexFits
  <2>3. Passed(thread'[t], disk)
    <3>1. \A k \in 1..Len(TargetsOf[o]) : k < thread[t].i + 1 => Reaped(thread[t], disk, k)
      BY <1>1, <1>2, <1>3 DEF Passed
    <3> QED BY <2>1, <3>1 DEF Moves, Passed, Reaped
  <2> QED BY <1>1, <1>4, <2>1, <2>2, <2>3, MovesAtWork
<1>6. CASE Abandon(t)
  BY <1>1, <1>4, <1>6, AbandonKeeps
<1> QED BY <1>5, <1>6 DEF Deleted

LEMMA FinalizedKeeps ==
    ASSUME MInv, NEW t \in Threads, Finalized(t), UNCHANGED world
    PROVE  MInv'
<1> DEFINE o == thread[t].op
<1>1. thread[t].at \in Working /\ thread[t].at = "delete" /\ thread[t].i > Len(TargetsOf[o])
  BY DEF Finalized, Working
<1>2. o \in Ops /\ WorkOK(t, thread[t], journal) /\ Passed(thread[t], disk) /\ Len(TargetsOf[o]) \in Nat
  BY <1>1, WorkFacts, TargetFacts
<1>3. journal[o].phase = "COMMITTED" /\ thread[t].i \in 1..(Len(TargetsOf[o]) + 1)
  BY <1>1, <1>2 DEF WorkOK, PhaseFits, IndexFits
<1>4. UNCHANGED <<disk, built, world>>
  BY DEF Finalized
<1>5. CASE SavePhase(t, "FINALIZED") /\ Return(t)
  <2>1. /\ DOMAIN journal' = Ops /\ \A q \in Ops : q # o => journal'[q] = journal[q]
        /\ RowOK(journal'[o]) /\ journal'[o].phase = "FINALIZED"
    <3>1. "FINALIZED" \in Phase
      BY DEF Phase
    <3> QED BY <1>1, <1>5, <3>1, SavePhaseFacts
  <2>2. /\ DOMAIN thread' = Threads /\ \A s \in Threads : s # t => thread'[s] = thread[s]
        /\ ThreadOK(t, thread'[t], journal') /\ Passed(thread'[t], disk')
        /\ thread'[t].call = thread[t].call /\ thread'[t].at \notin Working
    BY <1>1, <1>5, <2>1, ReturnFacts
  <2>3. \A p \in Targets(o) : disk[p].at = "gone"
    <3>1. \A k \in 1..Len(TargetsOf[o]) : Reaped(thread[t], disk, k)
      BY <1>1, <1>2, <1>3 DEF Passed
    <3> QED BY <1>2, <3>1, TargetFacts DEF Reaped
  <2>4. RowIsTrue(o, journal', disk)
    BY <2>1, <2>3 DEF RowIsTrue
  <2>5. \A p \in Targets(o) : disk[p].at # "origin" /\ disk[p].op = o => PlaceFits(disk[p], journal')
    BY <2>1, <2>3 DEF PlaceFits
  <2> QED BY <1>1, <1>4, <2>1, <2>2, <2>4, <2>5, PhaseStep DEF Unfinished
<1>6. CASE Abandon(t)
  BY <1>1, <1>4, <1>6, AbandonKeeps
<1> QED BY <1>5, <1>6 DEF Finalized
-----------------------------------------------------------------------------
(* What is begun, recovered and lost                                         *)

LEMMA BeginKeeps ==
    ASSUME MInv, NEW t \in Threads, NEW o \in Ops, Begin(t, o), UNCHANGED world
    PROVE  MInv'
<1>1. /\ DOMAIN thread = Threads /\ DOMAIN journal = Ops
      /\ \A s \in Threads : ThreadOK(s, thread[s], journal) /\ Passed(thread[s], disk)
      /\ \A q \in Ops : RowOK(journal[q])
  BY DEF MInv, ThreadsOK, JournalOK
<1>2. /\ thread[t].at = "idle" /\ journal[o].phase = "NONE" /\ UNCHANGED <<disk, built, world>>
      /\ t \in world.runners[o] /\ (KindOf[o] = "purge" /\ world.builders # {} => ProcessOf[t] \in built)
      /\ \A i \in DOMAIN TargetsOf[o] : disk[TargetsOf[o][i]] = Home
      /\ \A q \in Ops : journal[q].phase \in Unfinished => ~Overlap(o, q)
  BY DEF Begin
<1>3. /\ DOMAIN journal' = Ops /\ \A q \in Ops : q # o => journal'[q] = journal[q]
      /\ RowOK(journal'[o]) /\ journal'[o].phase = "INTENT" /\ journal'[o].owner = ProcessOf[t]
  BY <1>1 DEF Begin, RowOK, RowFields, Phase
<1>4. /\ DOMAIN thread' = Threads /\ \A s \in Threads : s # t => thread'[s] = thread[s]
      /\ DOMAIN thread'[t] = ThreadFields /\ thread'[t].at = "stage" /\ thread'[t].op = o
      /\ thread'[t].todo = thread[t].todo /\ thread'[t].call = thread[t].call
  BY <1>1 DEF Begin, ThreadOK, ThreadFields
<1>5. \A s \in Threads : thread[s].at \in Working => thread[s].op # o
  BY <1>1, <1>2 DEF ThreadOK, WorkOK, PhaseFits, Working, Uncommitted
<1>6. ThreadOK(t, thread'[t], journal')
  <2>1. WorkOK(t, thread'[t], journal')
    BY <1>3, <1>4 DEF WorkOK, PhaseFits, IndexFits
  <2>2. \A q \in thread'[t].todo : journal'[q].phase # "NONE"
    BY <1>1, <1>3, <1>4 DEF ThreadOK
  <2> QED BY <1>1, <1>4, <2>1, <2>2 DEF ThreadOK, Working
<1>7. Passed(thread'[t], disk')
  BY <1>4 DEF Passed
<1>8. ASSUME NEW s \in Threads, s # t PROVE ThreadOK(s, thread'[s], journal') /\ Passed(thread'[s], disk')
  <2>1. Spares(o, disk, disk')
    BY <1>2 DEF Spares
  <2>2. \A q \in Ops : journal[q].phase # "NONE" => journal'[q].phase # "NONE"
    BY <1>2, <1>3
  <2> QED BY <1>3, <1>4, <1>5, <1>8, <2>1, <2>2, OthersUndisturbed
<1>9. ThreadsOK(journal', disk', thread')
  BY <1>4, <1>6, <1>7, <1>8 DEF ThreadsOK
<1>10. Apart(journal')
  <2>1. \A q \in Ops : q # o /\ journal[q].phase \in Unfinished => Targets(o) \cap Targets(q) = {}
    BY <1>2 DEF Overlap, Targets
  <2> QED BY <1>3, <2>1 DEF MInv, JournalOK, Apart
<1>11. JournalOK(journal')
  BY <1>1, <1>3, <1>10 DEF JournalOK
<1>12. DiskOK(journal', disk')
  <2>1. DiskOK(journal, disk)
    BY DEF MInv
  <2>2. ASSUME NEW p \in Paths PROVE PlaceOK(p, disk'[p]) /\ PlaceFits(disk'[p], journal')
    <3>1. PlaceOK(p, disk[p]) /\ PlaceFits(disk[p], journal)
      BY <2>1 DEF DiskOK
    <3>2. disk[p].at # "origin" => disk[p].op \in Ops /\ disk[p].op # o
      BY <1>2, <3>1 DEF PlaceOK, PlaceFits
    <3>3. PlaceFits(disk[p], journal')
      BY <1>3, <3>1, <3>2 DEF PlaceFits
    <3> QED BY <1>2, <3>1, <3>3
  <2>3. ASSUME NEW q \in Ops PROVE RowIsTrue(q, journal', disk')
    BY <1>2, <1>3, <2>1 DEF DiskOK, RowIsTrue
  <2> QED BY <1>2, <2>1, <2>2, <2>3 DEF DiskOK
<1>13. Alone(thread')
  <2>1. Alone(thread)
    BY DEF MInv, ServiceOK
  <2>2. \A s \in Threads : thread'[s].call = thread[s].call /\ (thread[s].at = "down" => thread'[s].at = "down")
    BY <1>2, <1>4
  <2>3. \A s \in Threads : s # t /\ thread'[s].at \in Working => thread'[s].op # o
    BY <1>4, <1>5
  <2> QED BY <1>4, <2>1, <2>2, <2>3 DEF Alone
<1>14. \A s \in Threads : Serves(s, thread'[s], built', world')
  BY <1>1, <1>2, <1>4 DEF MInv, ServiceOK, Serves, ThreadOK
<1>15. world' \in World /\ LateElsewhere'
  BY <1>2 DEF MInv, LateElsewhere
<1> QED BY <1>9, <1>11, <1>12, <1>13, <1>14, <1>15 DEF MInv, ServiceOK

\* What is unfinished has been begun.
LEMMA AbandonedFacts == ASSUME MInv PROVE Abandoned \subseteq Ops /\ \A o \in Abandoned : journal[o].phase # "NONE"
  BY DEF Abandoned, Unfinished

\* A thread that begins to recover.
LEMMA BeginsToRecover ==
    ASSUME MInv, NEW t \in Threads, NEW call \in {"start", "late"},
           thread' = [thread EXCEPT ![t] = [Resting EXCEPT !.at = "recover", !.todo = Abandoned, !.call = call]],
           UNCHANGED <<journal, disk, world, built>>
    PROVE  /\ JournalOK(journal') /\ DiskOK(journal', disk') /\ ThreadsOK(journal', disk', thread')
           /\ world' \in World /\ LateElsewhere'
           /\ \A s \in Threads : s # t => thread'[s] = thread[s]
           /\ thread'[t].at = "recover" /\ thread'[t].call = call
<1>1. DOMAIN thread = Threads
  BY DEF MInv, ThreadsOK
<1>2. DOMAIN thread' = Threads /\ \A s \in Threads : s # t => thread'[s] = thread[s]
  BY <1>1
<1>3. /\ DOMAIN thread'[t] = ThreadFields /\ thread'[t].at = "recover" /\ thread'[t].call = call
      /\ thread'[t].todo = Abandoned
  BY <1>1 DEF Resting, ThreadFields
<1>4. ThreadOK(t, thread'[t], journal') /\ Passed(thread'[t], disk)
  BY <1>3, AbandonedFacts DEF ThreadOK, Passed, Working
<1>5. SamePhases(journal, journal')
  BY DEF MInv, JournalOK, SamePhases
<1>6. JournalOK(journal') /\ DiskOK(journal', disk') /\ ThreadsOK(journal', disk', thread')
  BY <1>2, <1>4, <1>5, StandsStill
<1>7. world' \in World /\ LateElsewhere'
  BY DEF MInv, LateElsewhere
<1> QED BY <1>2, <1>3, <1>6, <1>7

LEMMA StartKeeps ==
    ASSUME MInv, NEW t \in Threads, Start(t), UNCHANGED world
    PROVE  MInv'
<1>1. /\ JournalOK(journal') /\ DiskOK(journal', disk') /\ ThreadsOK(journal', disk', thread')
      /\ world' \in World /\ LateElsewhere'
      /\ \A s \in Threads : s # t => thread'[s] = thread[s]
      /\ thread'[t].at = "recover" /\ thread'[t].call = "start"
  BY BeginsToRecover DEF Start
<1>2. \A s \in Threads : ProcessOf[s] = ProcessOf[t] => thread[s].at = "down" /\ thread[s].call = "request"
  BY DEF Start, MInv, ThreadsOK, ThreadOK
<1>3. Alone(thread')
  BY <1>1, <1>2 DEF MInv, ServiceOK, Alone, Working
<1>4. \A s \in Threads : Serves(s, thread'[s], built', world')
  BY <1>1 DEF MInv, ServiceOK, Serves, Start
<1> QED BY <1>1, <1>3, <1>4 DEF MInv, ServiceOK

LEMMA RecoverLateKeeps ==
    ASSUME MInv, NEW t \in Threads, RecoverLate(t), UNCHANGED world
    PROVE  MInv'
<1>1. /\ JournalOK(journal') /\ DiskOK(journal', disk') /\ ThreadsOK(journal', disk', thread')
      /\ world' \in World /\ LateElsewhere'
      /\ \A s \in Threads : s # t => thread'[s] = thread[s]
      /\ thread'[t].at = "recover" /\ thread'[t].call = "late"
  BY BeginsToRecover DEF RecoverLate
<1>2. \A s \in Threads : ProcessOf[s] = ProcessOf[t] => thread[s].call # "late"
  BY DEF RecoverLate
<1>3. Alone(thread')
  <2>1. thread[t].at = "idle" /\ Alone(thread)
    BY DEF RecoverLate, MInv, ServiceOK
  <2> QED BY <1>1, <1>2, <2>1 DEF Alone, Working
<1>4. \A s \in Threads : Serves(s, thread'[s], built', world')
  BY <1>1 DEF MInv, ServiceOK, Serves, RecoverLate
<1> QED BY <1>1, <1>3, <1>4 DEF MInv, ServiceOK

\* Nobody works on an operation a recovering process may claim.
LEMMA NobodyElse ==
    ASSUME MInv, NEW t \in Threads, thread[t].at = "recover", NEW o \in Ops, Leased(t, o),
           NEW s \in Threads, thread[s].at \in Working
    PROVE  thread[s].op # o
<1> SUFFICES ASSUME thread[s].op = o PROVE FALSE
  OBVIOUS
<1>1. s # t
  BY DEF Working
<1>2. ProcessOf[s] = ProcessOf[t]
  <2>1. journal[o].owner = ProcessOf[s]
    BY WorkFacts DEF WorkOK
  <2>2. ProcessOf[s] # Nobody
    BY ProcessAssumption, NobodyAssumption
  <2> QED BY <2>1, <2>2 DEF Leased
<1>3. thread[t].call = "late"
  <2>1. thread[t].call \in {"start", "late"}
    BY DEF MInv, ThreadsOK, ThreadOK
  <2>2. thread[t].call = "start" => thread[s].at = "down"
    BY <1>1, <1>2 DEF MInv, ServiceOK, Alone
  <2> QED BY <2>1, <2>2 DEF Working
<1>4. thread[s].call = "request"
  <2>1. thread[s].call # "late"
    BY <1>1, <1>2, <1>3 DEF MInv, ServiceOK, Alone
  <2>2. thread[s].call = "start" => thread[t].at = "down"
    BY <1>1, <1>2 DEF MInv, ServiceOK, Alone
  <2>3. thread[s].call \in {"request", "start", "late"}
    BY DEF MInv, ThreadsOK, ThreadOK
  <2> QED BY <2>1, <2>2, <2>3
<1>5. ProcessOf[t] \notin built /\ t \in world.builders
  BY <1>3 DEF MInv, ServiceOK, Serves
<1>6. s \in world.runners[o] /\ (KindOf[o] = "purge" /\ world.builders # {} => ProcessOf[s] \in built)
  BY <1>4 DEF MInv, ServiceOK, Serves
<1>7. KindOf[o] = "cleanup"
  BY <1>2, <1>5, <1>6, KindAssumption
<1> QED BY <1>2, <1>5, <1>6, <1>7 DEF MInv, LateElsewhere
LEMMA RecoverNextKeeps ==
    ASSUME MInv, NEW t \in Threads, RecoverNext(t), UNCHANGED world
    PROVE  MInv'
<1>1. /\ DOMAIN thread = Threads /\ DOMAIN journal = Ops /\ DOMAIN thread[t] = ThreadFields
      /\ \A s \in Threads : ThreadOK(s, thread[s], journal) /\ Passed(thread[s], disk)
      /\ \A q \in Ops : RowOK(journal[q])
      /\ thread[t].at = "recover" /\ thread[t].todo \subseteq Ops
  BY DEF MInv, ThreadsOK, ThreadOK, JournalOK, RecoverNext
<1>2. UNCHANGED <<disk, built, world>>
  BY DEF RecoverNext
<1>3. PICK o \in thread[t].todo :
         IF Leased(t, o)
         THEN /\ journal' = [journal EXCEPT ![o].owner = ProcessOf[t]]
              /\ thread' = [thread EXCEPT ![t].todo = @ \ {o}, ![t].op = o,
                   ![t].at = IF journal[o].phase = "COMMITTED" THEN "finalize" ELSE "rollback"]
         ELSE /\ thread' = [thread EXCEPT ![t].todo = @ \ {o}]
              /\ UNCHANGED journal
  BY DEF RecoverNext
<1>4. o \in Ops /\ journal[o].phase # "NONE"
  BY <1>1 DEF ThreadOK
<1>5. CASE Leased(t, o)
  <2>1. \A s \in Threads : thread[s].at \in Working => thread[s].op # o
    BY <1>1, <1>4, <1>5, NobodyElse
  <2>2. /\ SamePhases(journal, journal') /\ journal'[o].owner = ProcessOf[t]
        /\ \A q \in Ops : q # o => journal'[q] = journal[q]
    BY <1>1, <1>3, <1>4, <1>5 DEF SamePhases, RowOK, RowFields
  <2>3. /\ DOMAIN thread' = Threads /\ \A s \in Threads : s # t => thread'[s] = thread[s]
        /\ DOMAIN thread'[t] = ThreadFields /\ thread'[t].op = o /\ thread'[t].call = thread[t].call
        /\ thread'[t].todo = thread[t].todo \ {o}
        /\ thread'[t].at = IF journal[o].phase = "COMMITTED" THEN "finalize" ELSE "rollback"
    BY <1>1, <1>3, <1>5 DEF ThreadFields
  <2>4. thread'[t].at \in {"finalize", "rollback"}
    BY <2>3
  <2>5. ThreadOK(t, thread'[t], journal') /\ Passed(thread'[t], disk)
    <3>1. journal'[o].phase = journal[o].phase /\ journal[o].phase \in Phase
      BY <1>1, <1>4, <2>2 DEF SamePhases, RowOK
    <3>2. WorkOK(t, thread'[t], journal')
      BY <1>4, <2>2, <2>3, <3>1 DEF WorkOK, PhaseFits, IndexFits, Phase
    <3>3. \A q \in thread'[t].todo : journal'[q].phase # "NONE"
      BY <1>1, <2>2, <2>3 DEF ThreadOK, SamePhases
    <3>4. Passed(thread'[t], disk)
      BY <2>4 DEF Passed
    <3> QED BY <1>1, <2>3, <2>4, <3>2, <3>3, <3>4 DEF ThreadOK, Working
  <2>6. \A s \in Threads :
          \/ /\ thread'[s] = thread[s]
             /\ thread[s].at \in Working => journal'[thread[s].op].owner = journal[thread[s].op].owner
          \/ ThreadOK(s, thread'[s], journal') /\ Passed(thread'[s], disk)
    <3>1. \A s \in Threads : thread[s].at \in Working => thread[s].op \in Ops
      BY WorkFacts
    <3> QED BY <2>1, <2>2, <2>3, <2>5, <3>1
  <2>7. JournalOK(journal') /\ DiskOK(journal', disk') /\ ThreadsOK(journal', disk', thread')
    BY <1>2, <2>2, <2>3, <2>6, StandsStill
  <2>8. Alone(thread')
    <3>1. Alone(thread)
      BY DEF MInv, ServiceOK
    <3>2. \A s \in Threads : s # t /\ thread'[s].at \in Working => thread'[s].op # o
      BY <2>1, <2>3
    <3>3. \A s \in Threads : thread'[s].call = thread[s].call /\ (thread[s].at = "down" => thread'[s].at = "down")
      BY <1>1, <2>3
    <3> QED BY <2>3, <3>1, <3>2, <3>3 DEF Alone
  <2>9. \A s \in Threads : Serves(s, thread'[s], built', world')
    <3>1. thread[t].call # "request"
      BY <1>1 DEF ThreadOK
    <3> QED BY <1>2, <2>3, <3>1 DEF MInv, ServiceOK, Serves
  <2>10. world' \in World /\ LateElsewhere'
    BY <1>2 DEF MInv, LateElsewhere
  <2> QED BY <2>7, <2>8, <2>9, <2>10 DEF MInv, ServiceOK
<1>6. CASE ~Leased(t, o)
  <2>1. /\ DOMAIN thread' = Threads /\ \A s \in Threads : s # t => thread'[s] = thread[s]
        /\ DOMAIN thread'[t] = ThreadFields /\ thread'[t].call = thread[t].call
        /\ thread'[t].todo = thread[t].todo \ {o} /\ thread'[t].at = thread[t].at
    BY <1>1, <1>3, <1>6 DEF ThreadFields
  <2>2. UNCHANGED journal
    BY <1>3, <1>6
  <2>3. ThreadOK(t, thread'[t], journal') /\ Passed(thread'[t], disk)
    BY <1>1, <2>1, <2>2 DEF ThreadOK, Passed, Working
  <2>4. SamePhases(journal, journal')
    BY <1>1, <2>2 DEF SamePhases
  <2>5. JournalOK(journal') /\ DiskOK(journal', disk') /\ ThreadsOK(journal', disk', thread')
    BY <1>2, <2>1, <2>2, <2>3, <2>4, StandsStill
  <2>6. ServiceOK(thread', built', world') /\ world' \in World /\ LateElsewhere'
    BY <1>1, <1>2, <2>1, NobodyBegins DEF Working
  <2> QED BY <2>5, <2>6 DEF MInv
<1> QED BY <1>5, <1>6

LEMMA RecoveredKeeps ==
    ASSUME MInv, NEW t \in Threads, Recovered(t), UNCHANGED world
    PROVE  MInv'
<1>1. thread[t].at = "recover" /\ UNCHANGED <<journal, disk, world>> /\ DOMAIN thread' = Threads
  BY DEF Recovered
<1>2. \A s \in Threads : thread'[s] = IF s = t \/ (thread[t].call = "start" /\ ProcessOf[s] = ProcessOf[t])
                                       THEN Resting ELSE thread[s]
  BY DEF Recovered
<1>3. built' = IF thread[t].call = "late" THEN built \cup {ProcessOf[t]} ELSE built
  BY DEF Recovered
<1>4. SamePhases(journal, journal')
  BY <1>1 DEF MInv, JournalOK, SamePhases
<1>5. JournalOK(journal') /\ DiskOK(journal', disk') /\ ThreadsOK(journal', disk', thread')
  <2>1. ASSUME NEW s \in Threads
        PROVE  \/ /\ thread'[s] = thread[s]
                  /\ thread[s].at \in Working => journal'[thread[s].op].owner = journal[thread[s].op].owner
               \/ ThreadOK(s, thread'[s], journal') /\ Passed(thread'[s], disk)
    BY <1>1, <1>2, RestingIsFree
  <2> QED BY <1>1, <1>4, <2>1, StandsStill
<1>6. Alone(thread')
  <2>1. Alone(thread)
    BY DEF MInv, ServiceOK
  <2>2. \A s \in Threads : thread'[s] = Resting \/ thread'[s] = thread[s]
    BY <1>2
  <2>3. Resting.at = "idle" /\ Resting.call = "request"
    BY DEF Resting
  <2>4. ASSUME NEW r \in Threads, NEW s \in Threads, r # s, ProcessOf[r] = ProcessOf[s], thread'[s].call = "start"
        PROVE  thread'[r].at = "down"
    <3>1. thread'[s] = thread[s] /\ s # t
      BY <1>2, <2>3, <2>4
    <3>2. thread[r].at = "down"
      BY <2>1, <2>4, <3>1 DEF Alone
    <3>3. ~(thread[t].call = "start" /\ ProcessOf[r] = ProcessOf[t])
      BY <1>2, <2>3, <2>4
    <3>4. r # t
      BY <1>1, <3>2
    <3> QED BY <1>2, <3>2, <3>3, <3>4
  <2>5. \A s \in Threads : thread'[s].at \in Working => thread'[s] = thread[s]
    BY <2>2, <2>3 DEF Working
  <2>6. \A r, s \in Threads : r # s /\ thread'[r].at \in Working /\ thread'[s].at \in Working
                                => thread'[r].op # thread'[s].op
    BY <2>1, <2>5 DEF Alone
  <2>7. \A r, s \in Threads : r # s /\ ProcessOf[r] = ProcessOf[s] /\ thread'[s].call = "late" => thread'[r].call # "late"
    BY <2>1, <2>2, <2>3 DEF Alone
  <2> QED BY <2>4, <2>6, <2>7 DEF Alone
<1>7. ASSUME NEW s \in Threads PROVE Serves(s, thread'[s], built', world')
  <2>1. Serves(s, thread[s], built, world)
    BY DEF MInv, ServiceOK
  <2>2. CASE thread'[s] = Resting
    BY <2>2 DEF Resting, Serves, Working
  <2>3. CASE thread'[s] = thread[s] /\ s # t
    <3>1. thread[t].call = "late" /\ thread[s].call = "late" => ProcessOf[s] # ProcessOf[t]
      BY <2>3 DEF MInv, ServiceOK, Alone
    <3> QED BY <1>1, <1>3, <2>1, <2>3, <3>1 DEF Serves
  <2> QED BY <1>2, <2>2, <2>3
<1>8. world' \in World /\ LateElsewhere'
  BY <1>1 DEF MInv, LateElsewhere
<1> QED BY <1>5, <1>6, <1>7, <1>8 DEF MInv, ServiceOK

LEMMA CrashKeeps ==
    ASSUME MInv, NEW p \in Processes, Crash(p), UNCHANGED world
    PROVE  MInv'
<1>1. UNCHANGED <<disk, world>> /\ DOMAIN thread' = Threads /\ built' = built \ {p}
  BY DEF Crash
<1>2. \A s \in Threads : thread'[s] = IF ProcessOf[s] = p THEN Down ELSE thread[s]
  BY DEF Crash
<1>3. SamePhases(journal, journal') /\ \A q \in Ops : journal[q].owner # p => journal'[q] = journal[q]
  BY FreeLeasesFacts DEF Crash
<1>4. JournalOK(journal') /\ DiskOK(journal', disk') /\ ThreadsOK(journal', disk', thread')
  <2>1. ASSUME NEW s \in Threads
        PROVE  \/ /\ thread'[s] = thread[s]
                  /\ thread[s].at \in Working => journal'[thread[s].op].owner = journal[thread[s].op].owner
               \/ ThreadOK(s, thread'[s], journal') /\ Passed(thread'[s], disk)
    <3>1. CASE ProcessOf[s] = p
      BY <1>2, <3>1, DownIsFree
    <3>2. CASE ProcessOf[s] # p
      <4>1. thread[s].at \in Working => thread[s].op \in Ops /\ journal[thread[s].op].owner = ProcessOf[s]
        BY WorkFacts DEF WorkOK
      <4> QED BY <1>2, <1>3, <3>2, <4>1
    <3> QED BY <3>1, <3>2
  <2> QED BY <1>1, <1>3, <2>1, StandsStill
<1>5. Down.at = "down" /\ Down.call = "request"
  BY DownIsFree DEF Down, Resting
<1>6. Alone(thread')
  <2>1. Alone(thread)
    BY DEF MInv, ServiceOK
  <2>2. \A s \in Threads : thread'[s].at \in Working => thread'[s] = thread[s]
    BY <1>2, <1>5 DEF Working
  <2>3. \A s \in Threads : thread'[s].call # "request" => thread'[s] = thread[s] /\ ProcessOf[s] # p
    BY <1>2, <1>5
  <2> QED BY <1>2, <2>1, <2>2, <2>3 DEF Alone
<1>7. ASSUME NEW s \in Threads PROVE Serves(s, thread'[s], built', world')
  <2>1. Serves(s, thread[s], built, world)
    BY DEF MInv, ServiceOK
  <2> QED BY <1>1, <1>2, <1>5, <2>1 DEF Serves, Working
<1>8. world' \in World /\ LateElsewhere'
  BY <1>1 DEF MInv, LateElsewhere
<1> QED BY <1>4, <1>6, <1>7, <1>8 DEF MInv, ServiceOK

\* The job and the directories the worker makes.
LEMMA AroundKeeps ==
    ASSUME MInv, RestartJob \/ EndJob \/ UseWorkspace \/ UNCHANGED mvars, UNCHANGED world
    PROVE  MInv'
<1>1. UNCHANGED <<journal, thread, built, world>>
  BY DEF RestartJob, EndJob, UseWorkspace, mvars
<1>2. CASE UNCHANGED disk
  BY <1>1, <1>2 DEF MInv, LateElsewhere
<1>3. CASE ~AtOrigin(Workspace) /\ disk' = [disk EXCEPT ![Workspace].fresh = TRUE]
  <2>1. DOMAIN disk = Paths /\ \A p \in Paths : PlaceOK(p, disk[p])
    BY DEF MInv, DiskOK
  <2>2. /\ DOMAIN disk' = Paths
        /\ \A p \in Paths : /\ DOMAIN disk'[p] = DOMAIN disk[p]
                            /\ disk'[p].at = disk[p].at /\ disk'[p].op = disk[p].op
                            /\ disk[p].at = "origin" => disk'[p] = disk[p]
    BY <1>3, <2>1 DEF PlaceOK, AtOrigin
  <2>3. \A p \in Paths : PlaceOK(p, disk'[p]) /\ PlaceFits(disk'[p], journal)
    BY <2>1, <2>2 DEF MInv, DiskOK, PlaceOK, PlaceFits
  <2>4. \A o \in Ops : RowIsTrue(o, journal, disk')
    BY <2>2, TargetFacts DEF MInv, DiskOK, RowIsTrue
  <2>5. ASSUME NEW s \in Threads PROVE Passed(thread[s], disk')
    <3>1. ThreadOK(s, thread[s], journal) /\ Passed(thread[s], disk)
      BY DEF MInv, ThreadsOK
    <3>2. CASE thread[s].at \notin Working
      BY <3>2 DEF Passed, Working
    <3>3. CASE thread[s].at \in Working
      <4>1. thread[s].op \in Ops /\ IndexFits(thread[s])
        BY <3>1, <3>3 DEF ThreadOK, WorkOK
      <4>2. \A k \in 1..Len(TargetsOf[thread[s].op]) : TargetsOf[thread[s].op][k] \in Paths
        BY <4>1, TargetFacts
      <4>3. \A k \in 1..Len(TargetsOf[thread[s].op]) :
               /\ Detached(thread[s], disk', k) <=> Detached(thread[s], disk, k)
               /\ Reaped(thread[s], disk', k) <=> Reaped(thread[s], disk, k)
        BY <2>2, <4>2 DEF Detached, Reaped, Holds
      <4>4. thread[s].at = "deleting" => TargetsOf[thread[s].op][thread[s].i] \in Paths
        BY <4>1, <4>2 DEF IndexFits
      <4> QED BY <2>2, <3>1, <4>3, <4>4 DEF Passed
    <3> QED BY <3>2, <3>3
  <2>6. DiskOK(journal', disk')
    BY <1>1, <2>2, <2>3, <2>4 DEF DiskOK
  <2>7. ThreadsOK(journal', disk', thread')
    BY <1>1, <2>5 DEF MInv, ThreadsOK
  <2> QED BY <1>1, <2>6, <2>7 DEF MInv, LateElsewhere
<1> QED BY <1>2, <1>3 DEF RestartJob, EndJob, UseWorkspace, mvars

-----------------------------------------------------------------------------
(* The journal                                                               *)

LEMMA InitIsTrue == ASSUME MaintenanceInit, LateElsewhere PROVE MInv
<1>1. world \in World
  BY WorldAssumption DEF MaintenanceInit
<1>2. JournalOK(journal)
  BY DEF MaintenanceInit, NoOperation, JournalOK, RowOK, RowFields, Phase, Apart, Unfinished
<1>3. DiskOK(journal, disk)
  BY DEF MaintenanceInit, NoOperation, Home, DiskOK, PlaceOK, PlaceFits, RowIsTrue
<1>4. ThreadsOK(journal, disk, thread)
  BY RestingIsFree DEF MaintenanceInit, ThreadsOK
<1>5. ServiceOK(thread, built, world)
  BY DEF MaintenanceInit, Resting, ServiceOK, Alone, Serves, Working
<1> QED BY <1>1, <1>2, <1>3, <1>4, <1>5 DEF MInv

LEMMA StepIsTrue == ASSUME MInv, MaintenanceNext, UNCHANGED world PROVE MInv'
<1>1. ASSUME NEW t \in Threads, NEW o \in Ops, Begin(t, o) PROVE MInv'
  BY <1>1, BeginKeeps
<1>2. ASSUME NEW t \in Threads, Start(t) \/ RecoverLate(t) PROVE MInv'
  BY <1>2, StartKeeps, RecoverLateKeeps
<1>3. ASSUME NEW t \in Threads, ThreadStep(t) PROVE MInv'
  BY <1>3, StageKeeps, MoveKeeps, MovedKeeps, DetachKeeps, CommitKeeps, RollbackKeeps, RestoreKeeps,
     RestoredKeeps, RolledBackKeeps, FinalizeKeeps, DeleteKeeps, DeletingKeeps, DeletedKeeps,
     FinalizedKeeps, RecoverNextKeeps, RecoveredKeeps DEF ThreadStep
<1>4. ASSUME NEW p \in Processes, Crash(p) PROVE MInv'
  BY <1>4, CrashKeeps
<1>5. CASE RestartJob \/ EndJob \/ UseWorkspace
  BY <1>5, AroundKeeps
<1> QED BY <1>1, <1>2, <1>3, <1>4, <1>5 DEF MaintenanceNext

\* The invariant, in the surroundings it is about.
LEMMA JournalInvariant == MaintenanceSpec => [](LateElsewhere => MInv)
<1>1. MaintenanceInit => (LateElsewhere => MInv)
  BY InitIsTrue
<1>2. (LateElsewhere => MInv) /\ [MaintenanceNext /\ UNCHANGED world]_<<mvars, world>> => (LateElsewhere => MInv)'
  <2> SUFFICES ASSUME LateElsewhere => MInv, [MaintenanceNext /\ UNCHANGED world]_<<mvars, world>>, LateElsewhere'
               PROVE  MInv'
    OBVIOUS
  <2>1. UNCHANGED world
    BY DEF mvars
  <2>2. MInv
    BY <2>1 DEF LateElsewhere
  <2>3. MaintenanceNext \/ UNCHANGED mvars
    OBVIOUS
  <2> QED BY <2>1, <2>2, <2>3, StepIsTrue, AroundKeeps
<1> QED BY <1>1, <1>2, PTL DEF MaintenanceSpec

(* Whatever crashes, and whatever goes on around the journal, what it says   *)
(* is what the disk holds (MaintenanceJournal stage, rollback, finalize and  *)
(* recover).                                                                 *)
THEOREM JournalTellsTheTruth == MaintenanceSpec => []JournalIsTrue
<1>1. (LateElsewhere => MInv) => JournalIsTrue
  <2> SUFFICES ASSUME MInv PROVE JournalIsTrue
    BY DEF JournalIsTrue
  <2>1. ASSUME NEW o \in Ops, NEW p \in Paths, journal[o].phase = "ROLLED_BACK" PROVE ~InQuarantine(p, o)
    BY <2>1 DEF MInv, DiskOK, PlaceFits, InQuarantine
  <2>2. ASSUME NEW o \in Ops PROVE RowIsTrue(o, journal, disk)
    BY DEF MInv, DiskOK
  <2> QED BY <2>1, <2>2 DEF JournalIsTrue, CommittedIsDetached, RowIsTrue
<1> QED BY JournalInvariant, <1>1, PTL

-----------------------------------------------------------------------------
(* All or nothing                                                            *)

Destroyed(d) == d.at \in {"partial", "gone"}
Verdict(j) == [o \in Ops |-> Outcome(j[o].phase)]
Fate(d) == [p \in Paths |-> IF Destroyed(d[p]) THEN "destroyed" ELSE "kept"]
Promised == [Promise!PromiseNext]_<<Verdict(journal), Fate(disk)>>

SameFate(d, e) == \A p \in Paths : Destroyed(e[p]) <=> Destroyed(d[p])
SameVerdict(j, k, o) == Outcome(k[o].phase) = Outcome(j[o].phase)

\* What no verdict and no file knows of.
LEMMA NothingHappens ==
    ASSUME \A o \in Ops : SameVerdict(journal, journal', o), SameFate(disk, disk')
    PROVE  Promised
<1>1. Verdict(journal)' = Verdict(journal)
  BY DEF Verdict, SameVerdict
<1>2. Fate(disk)' = Fate(disk)
  BY DEF Fate, SameFate
<1> QED BY <1>1, <1>2 DEF Promised

\* One operation is begun or decided.
LEMMA OneVerdict ==
    ASSUME NEW o \in Ops, \A q \in Ops : q # o => SameVerdict(journal, journal', q), SameFate(disk, disk'),
           \/ /\ Outcome(journal[o].phase) = "none" /\ Outcome(journal'[o].phase) = "open"
              /\ \A p \in Targets(o) : ~Destroyed(disk[p])
           \/ Outcome(journal[o].phase) = "open" /\ Outcome(journal'[o].phase) \in {"removed", "undone"}
    PROVE  Promised
<1> DEFINE v == Outcome(journal'[o].phase)
<1>1. Verdict(journal)' = [Verdict(journal) EXCEPT ![o] = v]
  BY DEF Verdict, SameVerdict
<1>2. Fate(disk)' = Fate(disk)
  BY DEF Fate, SameFate
<1>3. Verdict(journal)[o] = Outcome(journal[o].phase)
  BY DEF Verdict
<1>4. CASE Verdict(journal)[o] = "none" /\ v = "open" /\ \A p \in Targets(o) : ~Destroyed(disk[p])
  <2>1. \A p \in Paths : Promise!Names(o, p) => Fate(disk)[p] = "kept"
    BY <1>4 DEF Promise!Names, Targets, Fate
  <2>2. Promise!Open(o)
    BY <1>1, <1>2, <1>4, <2>1 DEF Promise!Open, Verdict, Fate, Destroyed
  <2> QED BY <2>2 DEF Promised, Promise!PromiseNext
<1>5. CASE Verdict(journal)[o] = "open" /\ v \in {"removed", "undone"}
  <2>1. Promise!Settle(o, v)
    BY <1>1, <1>2, <1>5 DEF Promise!Settle, Verdict, Fate, Destroyed
  <2> QED BY <1>5, <2>1 DEF Promised, Promise!PromiseNext
<1> QED BY <1>3, <1>4, <1>5

\* What a committed operation names is destroyed.
LEMMA OneDestroyed ==
    ASSUME \A q \in Ops : SameVerdict(journal, journal', q), NEW o \in Ops, journal[o].phase = "COMMITTED",
           NEW p \in Targets(o), p \in Paths, ~Destroyed(disk[p]), Destroyed(disk'[p]),
           \A q \in Paths : q # p => disk'[q] = disk[q]
    PROVE  Promised
<1>1. Verdict(journal)' = Verdict(journal) /\ Verdict(journal)[o] = "removed"
  BY DEF Verdict, SameVerdict, Outcome
<1>2. Fate(disk)' = [Fate(disk) EXCEPT ![p] = "destroyed"] /\ Fate(disk)[p] = "kept"
  BY DEF Fate
<1>3. Promise!Names(o, p)
  BY DEF Promise!Names, Targets
<1>4. Promise!Destroy(p)
  BY <1>1, <1>2, <1>3 DEF Promise!Destroy, Verdict, Fate, Destroyed
<1> QED BY <1>4 DEF Promised, Promise!PromiseNext

\* The calls that write no phase.
LEMMA PhasesStay ==
    ASSUME MInv, NEW t \in Threads,
           \/ Stage(t) \/ Move(t) \/ Moved(t) \/ Rollback(t) \/ Restore(t) \/ Restored(t)
           \/ Finalize(t) \/ Delete(t) \/ Deleting(t) \/ Deleted(t) \/ RecoverNext(t) \/ Recovered(t)
           \/ Abandon(t) \/ Start(t) \/ RecoverLate(t)
    PROVE  SamePhases(journal, journal')
<1>1. DOMAIN journal = Ops /\ \A o \in Ops : RowOK(journal[o])
  BY DEF MInv, JournalOK
<1>2. CASE UNCHANGED journal
  BY <1>1, <1>2 DEF SamePhases
<1>3. CASE Abandon(t)
  BY <1>2, <1>3, FreeLeasesFacts DEF Abandon
<1>4. ASSUME NEW place, NEW index, thread[t].at \in Working, ClaimAt(t, thread[t].op, place, index)
      PROVE  SamePhases(journal, journal')
  BY <1>4, ClaimAtFacts
<1>5. ASSUME NEW state, NEW place, NEW step, thread[t].at \in Working, SaveTarget(t, state, place, step)
      PROVE  SamePhases(journal, journal')
  BY <1>5, SaveTargetFacts
<1>6. CASE Stage(t) \/ Move(t) \/ Moved(t)
  BY <1>2, <1>4, <1>5, <1>6 DEF Stage, Move, Moved, Working
<1>7. CASE Rollback(t) \/ Restore(t) \/ Restored(t)
  BY <1>2, <1>3, <1>4, <1>5, <1>7 DEF Rollback, Restore, Restored, Working
<1>8. CASE Finalize(t) \/ Delete(t) \/ Deleting(t) \/ Deleted(t)
  BY <1>2, <1>3, <1>4, <1>5, <1>8 DEF Finalize, Delete, Deleting, Deleted, Working
<1>9. CASE RecoverNext(t)
  <2>1. ASSUME NEW o \in Ops, journal' = [journal EXCEPT ![o].owner = ProcessOf[t]]
        PROVE  SamePhases(journal, journal')
    BY <1>1, <2>1 DEF SamePhases, RowOK, RowFields
  <2>2. thread[t].todo \subseteq Ops
    BY DEF MInv, ThreadsOK, ThreadOK
  <2>3. UNCHANGED journal \/ \E o \in thread[t].todo : journal' = [journal EXCEPT ![o].owner = ProcessOf[t]]
    BY <1>9 DEF RecoverNext
  <2> QED BY <1>2, <2>1, <2>2, <2>3
<1>10. CASE Recovered(t) \/ Start(t) \/ RecoverLate(t)
  BY <1>2, <1>10 DEF Recovered, Start, RecoverLate
<1> QED BY <1>3, <1>6, <1>7, <1>8, <1>9, <1>10

\* The steps that rename, and those that leave the disk alone.
LEMMA NothingDestroyed ==
    ASSUME MInv, NEW t \in Threads, Move(t) \/ Restore(t) \/ UNCHANGED disk
    PROVE  SameFate(disk, disk')
<1>1. DOMAIN disk = Paths /\ \A p \in Paths : PlaceOK(p, disk[p])
  BY DEF MInv, DiskOK
<1>2. CASE UNCHANGED disk
  BY <1>2 DEF SameFate
<1>3. CASE disk[Path(t)] = Home /\ disk' = [disk EXCEPT ![Path(t)].at = "quarantine", ![Path(t)].op = thread[t].op]
  BY <1>1, <1>3 DEF SameFate, Destroyed, Home, PlaceOK
<1>4. CASE disk[Path(t)].at = "quarantine" /\ disk' = [disk EXCEPT ![Path(t)] = Home]
  BY <1>1, <1>4 DEF SameFate, Destroyed, Home
<1> QED BY <1>2, <1>3, <1>4 DEF Move, Restore

LEMMA SamePhasesSettleNothing ==
    ASSUME SamePhases(journal, journal') PROVE \A o \in Ops : SameVerdict(journal, journal', o)
  BY DEF SamePhases, SameVerdict

LEMMA DeleteIsPromised == ASSUME MInv, NEW t \in Threads, Delete(t) \/ Deleting(t) PROVE Promised
<1> DEFINE o == thread[t].op
           p == Path(t)
<1>1. thread[t].at \in Working /\ \A q \in Ops : SameVerdict(journal, journal', q)
  BY PhasesStay, SamePhasesSettleNothing DEF Delete, Deleting, Working
<1>2. o \in Ops /\ WorkOK(t, thread[t], journal) /\ Passed(thread[t], disk) /\ Len(TargetsOf[o]) \in Nat
  BY <1>1, WorkFacts, TargetFacts
<1>3. thread[t].i \in 1..Len(TargetsOf[o]) /\ journal[o].phase = "COMMITTED"
  BY <1>2 DEF WorkOK, IndexFits, PhaseFits, Delete, Deleting
<1>4. /\ p \in Paths /\ p \in Targets(o) /\ p = TargetsOf[o][thread[t].i] /\ PlaceOK(p, disk[p])
      /\ DOMAIN disk = Paths
  BY <1>1, <1>3, PathFacts DEF MInv, DiskOK
<1>5. CASE UNCHANGED disk
  BY <1>1, <1>5, NothingDestroyed, NothingHappens
<1>6. CASE /\ disk[p].at = "quarantine"
           /\ disk' = [disk EXCEPT ![p].at = IF world.deleteInSteps THEN "partial" ELSE "gone"]
  <2>1. ~Destroyed(disk[p]) /\ Destroyed(disk'[p]) /\ \A q \in Paths : q # p => disk'[q] = disk[q]
    BY <1>4, <1>6 DEF Destroyed, PlaceOK
  <2> QED BY <1>1, <1>2, <1>3, <1>4, <2>1, OneDestroyed
<1>7. CASE Deleting(t)
  <2>1. disk[p].at = "partial" /\ disk' = [disk EXCEPT ![p].at = "gone"]
    BY <1>2, <1>4, <1>7 DEF Deleting, Passed
  <2>2. SameFate(disk, disk')
    BY <1>4, <2>1 DEF SameFate, Destroyed, PlaceOK
  <2> QED BY <1>1, <2>2, NothingHappens
<1> QED BY <1>5, <1>6, <1>7 DEF Delete

\* The steps that write a phase.
LEMMA PhaseIsPromised ==
    ASSUME MInv, NEW t \in Threads, Detach(t) \/ Commit(t) \/ RolledBack(t) \/ Finalized(t)
    PROVE  Promised
<1> DEFINE o == thread[t].op
<1>1. thread[t].at \in Working /\ SameFate(disk, disk')
  BY NothingDestroyed DEF Detach, Commit, RolledBack, Finalized, Working
<1>2. o \in Ops /\ WorkOK(t, thread[t], journal) /\ DOMAIN journal = Ops /\ \A q \in Ops : RowOK(journal[q])
  BY <1>1, WorkFacts DEF MInv, JournalOK
<1>3. ASSUME SamePhases(journal, journal') PROVE Promised
  BY <1>1, <1>3, SamePhasesSettleNothing, NothingHappens
<1>4. CASE UNCHANGED journal
  BY <1>2, <1>3, <1>4 DEF SamePhases
<1>5. CASE Abandon(t)
  BY <1>3, <1>5, PhasesStay
<1>6. ASSUME NEW phase \in Phase, SavePhase(t, phase)
      PROVE  journal'[o].phase = phase /\ \A q \in Ops : q # o => SameVerdict(journal, journal', q)
  BY <1>1, <1>6, SavePhaseFacts DEF SameVerdict
<1>7. CASE Detach(t) /\ SavePhase(t, "DETACHED")
  <2>1. journal[o].phase = "INTENT" /\ "DETACHED" \in Phase
    BY <1>2, <1>7 DEF Detach, WorkOK, PhaseFits, Phase
  <2>2. \A q \in Ops : SameVerdict(journal, journal', q)
    BY <1>6, <1>7, <2>1 DEF SameVerdict, Outcome
  <2> QED BY <1>1, <2>2, NothingHappens
<1>8. CASE Finalized(t) /\ SavePhase(t, "FINALIZED")
  <2>1. journal[o].phase = "COMMITTED" /\ "FINALIZED" \in Phase
    BY <1>2, <1>8 DEF Finalized, WorkOK, PhaseFits, Phase
  <2>2. \A q \in Ops : SameVerdict(journal, journal', q)
    BY <1>6, <1>8, <2>1 DEF SameVerdict, Outcome
  <2> QED BY <1>1, <2>2, NothingHappens
<1>9. CASE RolledBack(t) /\ SavePhase(t, "ROLLED_BACK")
  <2>1. journal[o].phase \in Uncommitted /\ "ROLLED_BACK" \in Phase
    BY <1>2, <1>9 DEF RolledBack, WorkOK, PhaseFits, Phase
  <2>2. Outcome(journal[o].phase) = "open" /\ Outcome(journal'[o].phase) = "undone"
    BY <1>6, <1>9, <2>1 DEF Outcome, Uncommitted
  <2> QED BY <1>1, <1>2, <1>6, <1>9, <2>1, <2>2, OneVerdict
<1>10. CASE Committable(o) /\ journal' = [journal EXCEPT ![o].phase = "COMMITTED"]
  <2>1. journal'[o].phase = "COMMITTED" /\ \A q \in Ops : q # o => journal'[q] = journal[q]
    BY <1>2, <1>10 DEF RowOK, RowFields
  <2>2. Outcome(journal[o].phase) = "open" /\ Outcome(journal'[o].phase) = "removed"
    BY <1>10, <2>1 DEF Committable, Outcome
  <2>3. \A q \in Ops : q # o => SameVerdict(journal, journal', q)
    BY <2>1 DEF SameVerdict
  <2> QED BY <1>1, <1>2, <2>2, <2>3, OneVerdict
<1> QED BY <1>4, <1>5, <1>7, <1>8, <1>9, <1>10 DEF Detach, Commit, RolledBack, Finalized

LEMMA BeginIsPromised == ASSUME MInv, NEW t \in Threads, NEW o \in Ops, Begin(t, o) PROVE Promised
<1>1. DOMAIN journal = Ops /\ SameFate(disk, disk')
  BY NothingDestroyed DEF Begin, MInv, JournalOK
<1>2. journal'[o].phase = "INTENT" /\ \A q \in Ops : q # o => SameVerdict(journal, journal', q)
  BY <1>1 DEF Begin, SameVerdict
<1>3. Outcome(journal[o].phase) = "none" /\ Outcome(journal'[o].phase) = "open"
  BY <1>2 DEF Begin, Outcome
<1>4. \A p \in Targets(o) : ~Destroyed(disk[p])
  BY DEF Begin, Targets, Home, Destroyed
<1> QED BY <1>1, <1>2, <1>3, <1>4, OneVerdict

LEMMA StepIsPromised == ASSUME MInv, MaintenanceNext PROVE Promised
<1>1. ASSUME NEW t \in Threads,
             \/ Stage(t) \/ Move(t) \/ Moved(t) \/ Rollback(t) \/ Restore(t) \/ Restored(t) \/ Finalize(t)
             \/ Deleted(t) \/ RecoverNext(t) \/ Recovered(t) \/ Start(t) \/ RecoverLate(t)
      PROVE  Promised
  <2>1. Move(t) \/ Restore(t) \/ UNCHANGED disk
    BY <1>1 DEF Stage, Moved, Rollback, Restored, Finalize, Deleted, RecoverNext, Recovered, Start, RecoverLate
  <2>2. SameFate(disk, disk') /\ SamePhases(journal, journal')
    BY <1>1, <2>1, NothingDestroyed, PhasesStay
  <2> QED BY <2>2, SamePhasesSettleNothing, NothingHappens
<1>2. ASSUME NEW t \in Threads, ThreadStep(t) \/ Start(t) \/ RecoverLate(t) PROVE Promised
  BY <1>1, <1>2, DeleteIsPromised, PhaseIsPromised DEF ThreadStep
<1>3. ASSUME NEW p \in Processes, Crash(p) PROVE Promised
  <2>1. SamePhases(journal, journal') /\ UNCHANGED disk
    BY <1>3, FreeLeasesFacts DEF Crash
  <2>2. SameFate(disk, disk')
    BY <2>1 DEF SameFate
  <2> QED BY <2>1, <2>2, SamePhasesSettleNothing, NothingHappens
<1>4. CASE RestartJob \/ EndJob \/ UseWorkspace
  <2>1. UNCHANGED journal
    BY <1>4 DEF RestartJob, EndJob, UseWorkspace
  <2>2. DOMAIN disk = Paths /\ \A p \in Paths : PlaceOK(p, disk[p])
    BY DEF MInv, DiskOK
  <2>3. SameFate(disk, disk')
    BY <1>4, <2>2 DEF RestartJob, EndJob, UseWorkspace, SameFate, Destroyed, PlaceOK
  <2> QED BY <2>1, <2>3, NothingHappens DEF SameVerdict
<1> QED BY <1>2, <1>3, <1>4, BeginIsPromised DEF MaintenanceNext

(* Where no cleanup is begun in a process whose requests recover late, the   *)
(* journal keeps its promise: an operation is decided once, for good, and    *)
(* nothing is destroyed that no committed operation names, whatever crashes  *)
(* (maintenance.py, MaintenanceJournal).                                     *)
THEOREM JournalKeepsPromise == MaintenanceSpec /\ LateElsewhere => KeepsPromise
<1>1. MaintenanceInit => Promise!PromiseInit
  BY DEF MaintenanceInit, NoOperation, Home, Promise!PromiseInit, Outcome
<1>2. (LateElsewhere => MInv) /\ LateElsewhere /\ [MaintenanceNext /\ UNCHANGED world]_<<mvars, world>>
        => Promised /\ LateElsewhere'
  <2> SUFFICES ASSUME MInv, LateElsewhere, [MaintenanceNext /\ UNCHANGED world]_<<mvars, world>>
               PROVE  Promised /\ LateElsewhere'
    OBVIOUS
  <2>1. UNCHANGED world
    BY DEF mvars
  <2>2. LateElsewhere'
    BY <2>1 DEF LateElsewhere
  <2>3. CASE MaintenanceNext
    BY <2>2, <2>3, StepIsPromised
  <2>4. CASE UNCHANGED mvars
    BY <2>2, <2>4, NothingHappens DEF mvars, SameVerdict, SameFate
  <2> QED BY <2>3, <2>4
<1>3. Promised <=> [Promise!PromiseNext]_<<[o \in Ops |-> Outcome(journal[o].phase)],
                      [p \in Paths |-> IF disk[p].at \in {"partial", "gone"} THEN "destroyed" ELSE "kept"]>>
  BY DEF Promised, Verdict, Fate, Destroyed
<1> QED BY JournalInvariant, <1>1, <1>2, <1>3, PTL DEF MaintenanceSpec, KeepsPromise, Promise!AllOrNothing
=============================================================================
