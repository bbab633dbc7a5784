---------------------------- MODULE Maintenance ----------------------------
(***************************************************************************)
(* MaintenanceJournal (src/bdencode/maintenance.py) and its callers: the   *)
(* API's cleanup and purge routes and the worker's cleanup of a completed  *)
(* job.  An operation is journaled, its targets are renamed into a         *)
(* quarantine one by one, a domain transaction marks it COMMITTED, and     *)
(* only then the quarantine is deleted.  Threads of several processes run  *)
(* operations, a process may die between any two steps, and a starting     *)
(* process first recovers what was left behind.                            *)
(*                                                                         *)
(* One database transaction or one rename is one step.  The checks of size *)
(* and identity that come before a rename are part of its step.  Leases    *)
(* are taken on one host, where the owner is known to be dead or alive, so *)
(* their expiry plays no part.  A job stands for the domain record that    *)
(* the operations belong to.                                               *)
(***************************************************************************)
EXTENDS Integers, Sequences

CONSTANTS
    Threads, Processes, ProcessOf,  \* who runs operations
    Ops, Paths, TargetsOf, KindOf,  \* the operations that may be begun
    Workspace,      \* the path a job that runs again creates anew
    MaxCrashes,     \* bound on crashes of a process
    Worlds          \* the surroundings to consider

ASSUME ProcessAssumption == ProcessOf \in [Threads -> Processes]
ASSUME TargetAssumption == TargetsOf \in [Ops -> Seq(Paths)]
ASSUME KindAssumption == KindOf \in [Ops -> {"cleanup", "purge"}]
ASSUME CrashAssumption == MaxCrashes \in Nat

\* What goes on around the journal: is a recursive deletion interruptible, may
\* the operator retry or restart the job, which threads serve requests that
\* build the release service, and which may begin an operation.
World == [deleteInSteps : BOOLEAN, jobRestarts : BOOLEAN,
          builders : SUBSET Threads, runners : [Ops -> SUBSET Threads]]
ASSUME WorldAssumption == Worlds \subseteq World

VARIABLES
    journal,  \* operation -> its row in maintenance_operations
    disk,     \* path -> where its content is
    job,      \* the domain record: completed, failed, active again, or gone
    changed,  \* operations whose job has changed version since they began
    thread,   \* thread -> where it stands
    built,    \* processes that have built their release service
    crashes,  \* how many crashes there were
    refused,  \* processes whose last recovery raised an exception
    world     \* the surroundings, which stay as they are

mvars == <<journal, disk, job, changed, thread, built, crashes, refused>>

Phase == {"NONE", "INTENT", "DETACHED", "COMMITTED", "FINALIZED", "ROLLED_BACK"}
TargetState == {"PLANNED", "DETACHED", "RESTORED", "DELETED"}
Unfinished == {"INTENT", "DETACHED", "COMMITTED"}

JobOf(o) == IF KindOf[o] = "cleanup" THEN {"completed"} ELSE {"completed", "failed"}

Nobody == "nobody"  \* the owner of a lease whose process has died
ASSUME NobodyAssumption == Nobody \notin Processes

Operation == [phase : Phase, targets : Seq(TargetState),
              owner : Processes \cup {Nobody}]

\* fresh: a new directory stands where the content used to be.
Place == [at : {"origin", "quarantine", "partial", "gone"},
          op : Ops \cup {Nobody}, fresh : BOOLEAN]

Home == [at |-> "origin", op |-> Nobody, fresh |-> FALSE]

\* Where a thread stands.  recovering: the operations its recover() call has
\* still to look at; main: whether that is the start of the process.
ThreadRow == [at : {"down", "idle", "recover", "stage", "move", "moved", "detach", "commit",
                    "rollback", "restore", "restored", "undo",
                    "finalize", "delete", "deleting", "deleted", "finish"},
              op : Ops \cup {Nobody}, i : Nat, targets : Seq(TargetState),
              todo : SUBSET Ops, call : {"request", "start", "late"}]

Resting == [at |-> "idle", op |-> Nobody, i |-> 0, targets |-> <<>>,
            todo |-> {}, call |-> "request"]

Down == [Resting EXCEPT !.at = "down"]

-----------------------------------------------------------------------------
(* Helpers                                                                 *)

Path(t) == TargetsOf[thread[t].op][thread[t].i]

AtOrigin(p) == disk[p].at = "origin" \/ disk[p].fresh

InQuarantine(p, o) == disk[p].at \in {"quarantine", "partial"} /\ disk[p].op = o

Goto(t, place) == thread' = [thread EXCEPT ![t].at = place]

\* The call of t on an operation is over; a recovery goes on with the next.
Return(t) ==
    thread' = [thread EXCEPT ![t] =
                 IF thread[t].call = "request" THEN Resting
                 ELSE [@ EXCEPT !.at = "recover", !.op = Nobody, !.i = 0,
                                !.targets = <<>>]]

\* The lease of a process that has died is nobody's.
FreeLeases(p) ==
    journal' = [o \in Ops |-> IF journal[o].owner = p
                              THEN [journal[o] EXCEPT !.owner = Nobody] ELSE journal[o]]

\* An exception in rollback or finalize.  A request gives up, and so does a
\* late recovery; a starting process fails to start, and ends.
Abandon(t) ==
    LET p == ProcessOf[t] IN
    /\ thread' = [s \in Threads |->
          IF s = t /\ thread[t].call # "start" THEN Resting
          ELSE IF ProcessOf[s] = p /\ thread[t].call = "start" THEN Down
          ELSE thread[s]]
    /\ IF thread[t].call = "start" THEN FreeLeases(p) ELSE UNCHANGED journal
    /\ refused' = IF thread[t].call = "request" THEN refused ELSE refused \cup {p}

\* An exception in stage or in the domain transaction: roll back and raise.
Undo(t) == Goto(t, "rollback") /\ UNCHANGED refused

\* Variant: the lease of a living process is taken over.
LeaseTaken(t, o) == journal[o].phase # "NONE"

Leased(t, o) == journal[o].owner \in {ProcessOf[t], Nobody}

\* _claim and the local copy of the targets the caller goes on with.
ClaimAt(t, o, place, index) ==
    /\ journal' = [journal EXCEPT ![o].owner = ProcessOf[t]]
    /\ thread' = [thread EXCEPT ![t].at = place, ![t].op = o, ![t].i = index,
                                ![t].targets = journal[o].targets]

\* _save_targets: the whole list of the caller, under its lease.
SaveTarget(t, state, place, step) ==
    LET list == [thread[t].targets EXCEPT ![thread[t].i] = state] IN
    /\ journal' = [journal EXCEPT ![thread[t].op].targets = list]
    /\ thread' = [thread EXCEPT ![t].at = place, ![t].i = @ + step,
                                ![t].targets = list]

SavePhase(t, phase) ==
    journal' = [journal EXCEPT ![thread[t].op].targets = thread[t].targets,
                               ![thread[t].op].phase = phase]

Owns(t) == journal[thread[t].op].owner = ProcessOf[t]

-----------------------------------------------------------------------------
(* begin and stage                                                         *)

Overlap(o, q) ==
    \E i \in DOMAIN TargetsOf[o], k \in DOMAIN TargetsOf[q] :
        TargetsOf[o][i] = TargetsOf[q][k]

Begin(t, o) ==
    /\ t \in world.runners[o]
    /\ thread[t].at = "idle"
    /\ journal[o].phase = "NONE"
    /\ job \in JobOf(o)
    /\ KindOf[o] = "purge" /\ world.builders # {} => ProcessOf[t] \in built
    /\ \A i \in DOMAIN TargetsOf[o] : disk[TargetsOf[o][i]] = Home
    /\ \A q \in Ops : journal[q].phase \in Unfinished => ~Overlap(o, q)
    /\ journal' = [journal EXCEPT ![o] =
          [phase |-> "INTENT", targets |-> [i \in DOMAIN TargetsOf[o] |-> "PLANNED"],
           owner |-> ProcessOf[t]]]
    /\ changed' = changed \ {o}
    /\ thread' = [thread EXCEPT ![t].at = "stage", ![t].op = o]
    /\ UNCHANGED <<disk, job, crashes, built, refused>>

Stage(t) ==
    LET o == thread[t].op IN
    /\ thread[t].at = "stage"
    /\ \/ /\ Leased(t, o) /\ journal[o].phase = "INTENT"
          /\ ClaimAt(t, o, "move", 1)
          /\ UNCHANGED refused
       \/ /\ ~(Leased(t, o) /\ journal[o].phase = "INTENT")
          /\ Undo(t)
          /\ UNCHANGED journal
    /\ UNCHANGED <<disk, job, changed, crashes, built>>

\* One target: renamed, or found where an earlier attempt has renamed it to.
Move(t) ==
    LET o == thread[t].op p == Path(t) IN
    /\ thread[t].at = "move"
    /\ thread[t].i <= Len(TargetsOf[o])
    /\ \/ /\ disk[p] = Home
          /\ disk' = [disk EXCEPT ![p].at = "quarantine", ![p].op = o]
          /\ Goto(t, "moved")
          /\ UNCHANGED refused
       \/ /\ InQuarantine(p, o) /\ ~AtOrigin(p)
          /\ Goto(t, "moved")
          /\ UNCHANGED <<disk, refused>>
       \/ /\ \/ ~(disk[p] = Home) /\ ~(InQuarantine(p, o) /\ ~AtOrigin(p))
             \/ p = Workspace /\ o \in changed  \* the contents may differ
          /\ Undo(t)
          /\ UNCHANGED disk
    /\ UNCHANGED <<journal, job, changed, crashes, built>>

Moved(t) ==
    LET o == thread[t].op IN
    /\ thread[t].at = "moved"
    /\ IF Owns(t) /\ disk[Path(t)].at = "quarantine" /\ disk[Path(t)].op = o
       THEN SaveTarget(t, "DETACHED", "move", 1) /\ UNCHANGED refused
       ELSE Undo(t) /\ UNCHANGED journal
    /\ UNCHANGED <<disk, job, changed, crashes, built>>

Detach(t) ==
    LET o == thread[t].op IN
    /\ thread[t].at = "move"
    /\ thread[t].i > Len(TargetsOf[o])
    /\ IF Owns(t) THEN SavePhase(t, "DETACHED") /\ Goto(t, "commit") /\ UNCHANGED refused
       ELSE Undo(t) /\ UNCHANGED journal
    /\ UNCHANGED <<disk, job, changed, crashes, built>>

-----------------------------------------------------------------------------
(* The domain transaction                                                  *)

\* _mark_maintenance_committed and the domain's own checks.  The version is
\* optional in a purge request.
Committable(o) ==
    /\ journal[o].phase = "DETACHED"
    /\ \A i \in DOMAIN TargetsOf[o] : journal[o].targets[i] = "DETACHED"
    /\ job \in JobOf(o)
    /\ o \in changed => KindOf[o] = "purge"

Commit(t) ==
    LET o == thread[t].op IN
    /\ thread[t].at = "commit"
    /\ \/ /\ Committable(o)
          /\ journal' = [journal EXCEPT ![o].phase = "COMMITTED"]
          /\ job' = IF KindOf[o] = "purge" THEN "gone" ELSE job
          /\ Goto(t, "finalize")
          /\ UNCHANGED refused
       \/ /\ ~Committable(o) \/ o \in changed
          /\ Undo(t)
          /\ UNCHANGED <<journal, job>>
    /\ UNCHANGED <<disk, changed, crashes, built>>

-----------------------------------------------------------------------------
(* rollback: the targets in reverse order                                  *)

Rollback(t) ==
    LET o == thread[t].op IN
    /\ thread[t].at = "rollback"
    /\ \/ /\ Leased(t, o) /\ journal[o].phase \in {"INTENT", "DETACHED"}
          /\ ClaimAt(t, o, "restore", Len(TargetsOf[o]))
          /\ UNCHANGED refused
       \/ /\ Leased(t, o) /\ journal[o].phase = "ROLLED_BACK"
          /\ Return(t)
          /\ UNCHANGED <<journal, refused>>
       \/ /\ ~Leased(t, o) \/ journal[o].phase \in {"COMMITTED", "FINALIZED"}
          /\ Abandon(t)
    /\ UNCHANGED <<disk, job, changed, crashes, built>>

\* Variant: only targets with a receipt are restored.
RestoreReceipted(t) ==
    LET o == thread[t].op p == Path(t) IN
    /\ thread[t].at = "restore"
    /\ thread[t].i > 0
    /\ disk' = IF thread[t].targets[thread[t].i] = "DETACHED"
               THEN [disk EXCEPT ![p] = Home] ELSE disk
    /\ Goto(t, "restored")
    /\ UNCHANGED <<journal, job, changed, crashes, built, refused>>

Restore(t) ==
    LET o == thread[t].op p == Path(t) IN
    /\ thread[t].at = "restore"
    /\ thread[t].i > 0
    /\ \/ /\ disk[p].at = "quarantine" /\ disk[p].op = o /\ ~disk[p].fresh
          /\ disk' = [disk EXCEPT ![p] = Home]
          /\ Goto(t, "restored")
          /\ UNCHANGED <<journal, refused>>
       \/ /\ disk[p] = Home
          /\ Goto(t, "restored")
          /\ UNCHANGED <<journal, disk, refused>>
       \/ /\ ~(disk[p].at = "quarantine" /\ disk[p].op = o /\ ~disk[p].fresh)
          /\ disk[p] # Home
          /\ Abandon(t)
          /\ UNCHANGED disk
    /\ UNCHANGED <<job, changed, crashes, built>>

Restored(t) ==
    /\ thread[t].at = "restored"
    /\ IF Owns(t) THEN SaveTarget(t, "RESTORED", "restore", -1) /\ UNCHANGED refused
       ELSE Abandon(t)
    /\ UNCHANGED <<disk, job, changed, crashes, built>>

RolledBack(t) ==
    /\ thread[t].at = "restore"
    /\ thread[t].i = 0
    /\ IF Owns(t) THEN SavePhase(t, "ROLLED_BACK") /\ Return(t) /\ UNCHANGED refused
       ELSE Abandon(t)
    /\ UNCHANGED <<disk, job, changed, crashes, built>>

-----------------------------------------------------------------------------
(* finalize                                                                *)

Finalize(t) ==
    LET o == thread[t].op IN
    /\ thread[t].at = "finalize"
    /\ \/ /\ Leased(t, o) /\ journal[o].phase = "COMMITTED"
          /\ ClaimAt(t, o, "delete", 1)
          /\ UNCHANGED refused
       \/ /\ Leased(t, o) /\ journal[o].phase = "FINALIZED"
          /\ Return(t)
          /\ UNCHANGED <<journal, refused>>
       \/ /\ ~Leased(t, o) \/ journal[o].phase \notin {"COMMITTED", "FINALIZED"}
          /\ Abandon(t)
    /\ UNCHANGED <<disk, job, changed, crashes, built>>

\* Variant: a target that was deleted before the crash is missing.
DeleteOnce(t) ==
    LET o == thread[t].op p == Path(t) IN
    /\ thread[t].at = "delete"
    /\ thread[t].i <= Len(TargetsOf[o])
    /\ IF disk[p].at = "quarantine" /\ disk[p].op = o /\ ~disk[p].fresh
       THEN /\ disk' = [disk EXCEPT ![p].at = "gone"]
            /\ Goto(t, "deleted")
            /\ UNCHANGED <<journal, refused>>
       ELSE Abandon(t) /\ UNCHANGED disk
    /\ UNCHANGED <<job, changed, crashes, built>>

\* A quarantined tree must be complete, and nothing may stand at its origin.
Delete(t) ==
    LET o == thread[t].op p == Path(t) IN
    /\ thread[t].at = "delete"
    /\ thread[t].i <= Len(TargetsOf[o])
    /\ \/ /\ disk[p].at = "quarantine" /\ disk[p].op = o /\ ~disk[p].fresh
          /\ disk' = [disk EXCEPT ![p].at = IF world.deleteInSteps THEN "partial" ELSE "gone"]
          /\ Goto(t, IF world.deleteInSteps THEN "deleting" ELSE "deleted")
          /\ UNCHANGED <<journal, refused>>
       \/ /\ ~InQuarantine(p, o) /\ ~AtOrigin(p)
          /\ Goto(t, "deleted")
          /\ UNCHANGED <<journal, disk, refused>>
       \/ /\ AtOrigin(p) \/ (disk[p].at = "partial" /\ disk[p].op = o)
          /\ Abandon(t)
          /\ UNCHANGED disk
    /\ UNCHANGED <<job, changed, crashes, built>>

Deleting(t) ==
    /\ thread[t].at = "deleting"
    /\ disk' = [disk EXCEPT ![Path(t)].at = "gone"]
    /\ Goto(t, "deleted")
    /\ UNCHANGED <<journal, job, changed, crashes, built, refused>>

Deleted(t) ==
    /\ thread[t].at = "deleted"
    /\ IF Owns(t) THEN SaveTarget(t, "DELETED", "delete", 1) /\ UNCHANGED refused
       ELSE Abandon(t)
    /\ UNCHANGED <<disk, job, changed, crashes, built>>

Finalized(t) ==
    /\ thread[t].at = "delete"
    /\ thread[t].i > Len(TargetsOf[thread[t].op])
    /\ IF Owns(t) THEN SavePhase(t, "FINALIZED") /\ Return(t) /\ UNCHANGED refused
       ELSE Abandon(t)
    /\ UNCHANGED <<disk, job, changed, crashes, built>>

-----------------------------------------------------------------------------
(* recover, the start of a process and its death                           *)

Abandoned == {o \in Ops : journal[o].phase \in Unfinished}

\* The journal is built and recovered before the process serves anything.
Start(t) ==
    /\ \A s \in Threads : ProcessOf[s] = ProcessOf[t] => thread[s].at = "down"
    /\ thread' = [thread EXCEPT ![t] = [Resting EXCEPT !.at = "recover",
                                          !.todo = Abandoned, !.call = "start"]]
    /\ refused' = refused \ {ProcessOf[t]}
    /\ UNCHANGED <<journal, disk, job, changed, crashes, built>>

\* The first request that needs the release service builds it, and its
\* constructor recovers once more.
RecoverLate(t) ==
    /\ t \in world.builders
    /\ ProcessOf[t] \notin built
    /\ thread[t].at = "idle"
    /\ \A s \in Threads : ProcessOf[s] = ProcessOf[t] => thread[s].call # "late"
    /\ thread' = [thread EXCEPT ![t] = [Resting EXCEPT !.at = "recover",
                                          !.todo = Abandoned, !.call = "late"]]
    /\ UNCHANGED <<journal, disk, job, changed, crashes, built, refused>>

\* Variant: what is not committed is left for later.
RecoverNextCommitted(t) ==
    /\ thread[t].at = "recover"
    /\ \E o \in thread[t].todo :
         IF Leased(t, o) /\ journal[o].phase = "COMMITTED"
         THEN /\ journal' = [journal EXCEPT ![o].owner = ProcessOf[t]]
              /\ thread' = [thread EXCEPT ![t].todo = @ \ {o}, ![t].op = o,
                                          ![t].at = "finalize"]
         ELSE /\ thread' = [thread EXCEPT ![t].todo = @ \ {o}]
              /\ UNCHANGED journal
    /\ UNCHANGED <<disk, job, changed, crashes, built, refused>>

RecoverNext(t) ==
    /\ thread[t].at = "recover"
    /\ \E o \in thread[t].todo :
         IF Leased(t, o)
         THEN /\ journal' = [journal EXCEPT ![o].owner = ProcessOf[t]]
              /\ thread' = [thread EXCEPT ![t].todo = @ \ {o}, ![t].op = o,
                   ![t].at = IF journal[o].phase = "COMMITTED"
                             THEN "finalize" ELSE "rollback"]
         ELSE /\ thread' = [thread EXCEPT ![t].todo = @ \ {o}]
              /\ UNCHANGED journal
    /\ UNCHANGED <<disk, job, changed, crashes, built, refused>>

Recovered(t) ==
    /\ thread[t].at = "recover"
    /\ thread[t].todo = {}
    /\ thread' = [s \in Threads |->
          IF s = t \/ (thread[t].call = "start" /\ ProcessOf[s] = ProcessOf[t])
          THEN Resting ELSE thread[s]]
    /\ built' = IF thread[t].call = "late" THEN built \cup {ProcessOf[t]} ELSE built
    /\ UNCHANGED <<journal, disk, job, changed, crashes, refused>>

Crash(p) ==
    /\ crashes < MaxCrashes
    /\ crashes' = crashes + 1
    /\ built' = built \ {p}
    /\ thread' = [t \in Threads |-> IF ProcessOf[t] = p THEN Down ELSE thread[t]]
    /\ FreeLeases(p)
    /\ UNCHANGED <<disk, job, changed, refused>>

-----------------------------------------------------------------------------
(* The job meanwhile: a retry or restart ignores the journal.              *)

RestartJob ==
    /\ world.jobRestarts
    /\ job = "failed"
    /\ job' = "active"
    /\ changed' = Ops
    /\ UNCHANGED <<journal, disk, thread, crashes, built, refused>>

EndJob ==
    /\ job = "active"
    /\ job' \in {"failed", "completed"}
    /\ UNCHANGED <<journal, disk, changed, thread, crashes, built, refused>>

\* The worker makes the directories it misses.
UseWorkspace ==
    /\ job = "active"
    /\ ~AtOrigin(Workspace)
    /\ disk' = [disk EXCEPT ![Workspace].fresh = TRUE]
    /\ UNCHANGED <<journal, job, changed, thread, crashes, built, refused>>

-----------------------------------------------------------------------------
NoOperation == [phase |-> "NONE", targets |-> <<>>, owner |-> Nobody]

MaintenanceInit ==
    /\ journal = [o \in Ops |-> NoOperation]
    /\ disk = [p \in Paths |-> Home]
    /\ job \in {"completed", "failed"}
    /\ changed = {}
    /\ thread = [t \in Threads |-> Resting]
    /\ crashes = 0
    /\ built = {}
    /\ refused = {}
    /\ world \in Worlds

ThreadStep(t) ==
    \/ Stage(t) \/ Move(t) \/ Moved(t) \/ Detach(t) \/ Commit(t)
    \/ Rollback(t) \/ Restore(t) \/ Restored(t) \/ RolledBack(t)
    \/ Finalize(t) \/ Delete(t) \/ Deleting(t) \/ Deleted(t) \/ Finalized(t)
    \/ RecoverNext(t) \/ Recovered(t)

MaintenanceNext ==
    \/ \E t \in Threads : \/ \E o \in Ops : Begin(t, o)
                          \/ Start(t) \/ RecoverLate(t) \/ ThreadStep(t)
    \/ \E p \in Processes : Crash(p)
    \/ RestartJob \/ EndJob \/ UseWorkspace

MaintenanceSpec ==
    MaintenanceInit /\ [][MaintenanceNext /\ UNCHANGED world]_<<mvars, world>>

\* Every thread goes on and systemd starts a dead process again.
FairMaintenanceSpec ==
    /\ MaintenanceSpec
    /\ \A t \in Threads : WF_mvars(ThreadStep(t))
    /\ \A p \in Processes :
         WF_mvars(\E t \in Threads : ProcessOf[t] = p /\ Start(t))
-----------------------------------------------------------------------------
(* Properties                                                              *)

Targets(o) == {TargetsOf[o][i] : i \in DOMAIN TargetsOf[o]}

\* Nothing but crashes disturbs the journal: no deletion is interrupted half-way,
\* the job does not run again and no request recovers late.
Calm == ~world.deleteInSteps /\ ~world.jobRestarts /\ world.builders = {}

\* No cleanup is begun in a process whose requests recover late.
LateElsewhere ==
    \A o \in Ops : \A t \in world.runners[o], b \in world.builders :
        KindOf[o] = "cleanup" => ProcessOf[t] # ProcessOf[b]

\* Once the database says a target is removed its content is out of sight.
CommittedIsDetached ==
    \A o \in Ops : journal[o].phase \in {"COMMITTED", "FINALIZED"} =>
        \A p \in Targets(o) : disk[p].at # "origin"

\* What the journal says is what the disk holds, whatever crashed: an operation
\* that was rolled back has nothing left in its quarantine, a committed one has
\* nothing left at its origin, and a finished one has freed the space.  Only a
\* recovery in the middle of a cleanup of the same process may break this.
JournalIsTrue ==
    LateElsewhere =>
        /\ CommittedIsDetached
        /\ \A o \in Ops :
             /\ journal[o].phase = "ROLLED_BACK" => \A p \in Paths : ~InQuarantine(p, o)
             /\ journal[o].phase = "FINALIZED" => \A p \in Targets(o) : disk[p].at = "gone"

\* A process that has died serves again: its recovery, which must restore
\* every uncommitted detach and reap every committed one before the process
\* takes a request (maintenance.py, MaintenanceJournal), gets through, at the
\* latest when systemd has started it once more.
ServiceReturns == \A t \in Threads : thread[t].at = "down" ~> thread[t].at = "idle"

\* The same where nothing but crashes disturbs the journal.
ServiceReturnsCalm ==
    \A t \in Threads : Calm /\ thread[t].at = "down" ~> thread[t].at = "idle"

\* The journal keeps its promise: all or nothing, decided once.
Outcome(phase) ==
    IF phase = "NONE" THEN "none"
    ELSE IF phase \in {"INTENT", "DETACHED"} THEN "open"
    ELSE IF phase = "ROLLED_BACK" THEN "undone" ELSE "removed"

Promise == INSTANCE MaintenancePromise WITH
    outcome <- [o \in Ops |-> Outcome(journal[o].phase)],
    data <- [p \in Paths |-> IF disk[p].at \in {"partial", "gone"}
                             THEN "destroyed" ELSE "kept"]

\* Nothing is destroyed that no committed operation names, and a verdict on
\* an operation is never taken back.
KeepsPromise == Promise!AllOrNothing

\* What was begun is settled, whatever crashes in between.
OperationsSettle ==
    \A o \in Ops : Calm /\ journal[o].phase \in Unfinished
                     ~> journal[o].phase \in {"FINALIZED", "ROLLED_BACK"}
=============================================================================
