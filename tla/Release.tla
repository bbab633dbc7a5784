------------------------------ MODULE Release ------------------------------
(***************************************************************************)
(* ReleaseStore and ReleaseService (src/bdencode/release_store.py and      *)
(* release_service.py) with the API's deletion of a release and of a job:  *)
(* the preparations of one job for one tracker profile.  A preparation is  *)
(* built into an upload kit, checked for duplicates, added to qBittorrent  *)
(* and published on the tracker by threads of the API process.  The two    *)
(* remote systems may carry out a request whose answer is never read, and  *)
(* the process may die between any two steps.                              *)
(*                                                                         *)
(* A transaction, a rename or a network call is one step.  Versions are    *)
(* only ever compared for equality with a version read earlier, so a       *)
(* thread keeps whether its copy is current instead of a number.  All      *)
(* preparations have the same payload and so the same infohash.  A request *)
(* that is refused before its first write changes nothing and is left out. *)
(* The journal of destructive maintenance is reduced to its phases; how it *)
(* survives crashes is the subject of Maintenance.                         *)
(***************************************************************************)
EXTENDS Integers, FiniteSets

CONSTANTS
    Preps,          \* preparations
    Threads,        \* threads of the API that serve release requests
    Job,            \* the job, as the subject of a destructive operation
    MaxCrashes,     \* bound on crashes of the API
    StoreErrors     \* may a write of the database fail?

ASSUME JobAssumption == Job \notin Preps
ASSUME ThreadAssumption == IsFiniteSet(Threads)
ASSUME BoundAssumption == MaxCrashes \in Nat
ASSUME SwitchAssumption == StoreErrors \in BOOLEAN

VARIABLES
    row,      \* preparation -> its row
    job,      \* completed, tombstoned (release deleted) or purged
    kit,      \* preparations whose kit directory is in place
    payload,  \* is the completed release in place?
    ops,      \* unfinished operations of the maintenance journal
    thread,   \* thread -> where it stands
    service,  \* down, recovering or up
    wire,     \* remote effect -> requests that may still be carried out
    effects,  \* remote effect -> how often it happened
    crashes

rvars == <<row, job, kit, payload, ops, thread, service, wire, effects, crashes>>

Active == {"PREPARING", "SEEDING_CHECK", "SEEDING", "PUBLISHING"}
Deletable == {"NOT_PREPARED", "READY", "READY_TO_PUBLISH", "NEEDS_REVIEW", "FAILED"}
External == {"UNKNOWN", "PUBLISHED"}
State == Active \cup Deletable \cup External

NoPrep == "ABSENT"  \* no such row

Outcome == {"none", "accepted", "rejected", "unknown"}

Row == [state : State \cup {NoPrep}, kitPath : BOOLEAN, seed : Outcome, pub : Outcome]

NoRow == [state |-> NoPrep, kitPath |-> FALSE, seed |-> "none", pub |-> "none"]

Transitions ==
    [NOT_PREPARED     |-> {"PREPARING", "FAILED"},
     PREPARING        |-> {"READY", "NEEDS_REVIEW", "FAILED"},
     NEEDS_REVIEW     |-> {"PREPARING", "SEEDING_CHECK", "FAILED"},
     READY            |-> {"SEEDING_CHECK", "SEEDING", "READY_TO_PUBLISH", "FAILED"},
     SEEDING_CHECK    |-> {"READY_TO_PUBLISH", "NEEDS_REVIEW", "UNKNOWN", "FAILED"},
     READY_TO_PUBLISH |-> {"SEEDING", "PUBLISHING", "NEEDS_REVIEW", "UNKNOWN", "FAILED"},
     SEEDING          |-> {"READY", "READY_TO_PUBLISH", "UNKNOWN"},
     PUBLISHING       |-> {"PUBLISHED", "NEEDS_REVIEW", "UNKNOWN", "FAILED"},
     FAILED           |-> {"PREPARING"},
     UNKNOWN          |-> {},
     PUBLISHED        |-> {}]

Operation == [kind : {"delete", "orphan", "release", "purge"}, subject : Preps \cup {Job},
              phase : {"intent", "staged", "committed"}, kits : SUBSET Preps]

NoOp == [kind |-> "none", subject |-> Job, phase |-> "intent", kits |-> {}]

\* fresh: the version this thread will present is still the row's (for Job:
\* the versions of all rows); was: the state seed() goes back to; reply: what
\* the remote system answered, if it did.
ThreadRow == [at : {"idle", "build", "building", "built", "failed", "dupe", "duping",
                    "seed", "seeding", "added", "publish", "rechecking", "binding",
                    "sending", "published", "begin", "stage", "commit", "finalize"},
              prep : Preps \cup {Job}, fresh : BOOLEAN, was : State \cup {NoPrep},
              reply : {"none", "accepted", "refused"}, op : Operation \cup {NoOp}]

Resting == [at |-> "idle", prep |-> Job, fresh |-> FALSE, was |-> NoPrep,
            reply |-> "none", op |-> NoOp]

-----------------------------------------------------------------------------
(* Helpers                                                                 *)

Exists(p) == row[p].state # NoPrep

\* _payload_artifact, as far as it depends on what the operations change.
PayloadBound == job = "completed" /\ payload

\* verify_upload_kit on the recorded path.
KitVerified(p) == row[p].kitPath => p \in kit

\* Variant: the claims do not look at the maintenance journal.
NoDestructiveIntentUnread(p) == TRUE

\* _assert_no_destructive_maintenance
NoDestructiveIntent(p) ==
    \A o \in ops : /\ o.kind \notin {"purge", "release"}
                   /\ o.kind = "delete" => o.subject # p

\* transition(), claim_seeding() and claim_publication() before their own checks.
Current(t) == /\ thread[t].fresh
              /\ Exists(thread[t].prep)
              /\ NoDestructiveIntent(thread[t].prep)

MayMove(t, target) ==
    LET state == row[thread[t].prep].state
    IN  Current(t) /\ (target = state \/ target \in Transitions[state])

\* After a write to the rows of ps every other copy of them is out of date.
Stale(ps, t, mine) ==
    [u \in Threads |->
        IF u = t THEN mine
        ELSE IF thread[u].prep \in ps \cup {Job} THEN [thread[u] EXCEPT !.fresh = FALSE]
        ELSE thread[u]]

Goto(t, at) == thread' = [thread EXCEPT ![t].at = at]

Rest(t) == thread' = [thread EXCEPT ![t] = Resting]

\* One write of thread t to the row it works on.
PrepWritten(t, new, mine) ==
    /\ row' = [row EXCEPT ![thread[t].prep] = new]
    /\ thread' = Stale({thread[t].prep}, t, mine)

PrepMoves(t, target, mine) == PrepWritten(t, [row[thread[t].prep] EXCEPT !.state = target], mine)

At(t, at) == [thread[t] EXCEPT !.at = at]

\* The exception of a refused or failed write leaves the handler.
Refused(t, allowed) == (~allowed \/ StoreErrors) /\ Rest(t) /\ UNCHANGED row

Begin(t, at, p, was) ==
    /\ service = "up"
    /\ thread[t].at = "idle"
    /\ thread' = [thread EXCEPT ![t] = [Resting EXCEPT !.at = at, !.prep = p,
                                                       !.fresh = TRUE, !.was = was]]

Local == <<job, kit, payload, ops, service, wire, effects, crashes>>

-----------------------------------------------------------------------------
(* create and build                                                        *)

Create(p) ==
    /\ service = "up"
    /\ row[p].state = NoPrep
    /\ \A o \in ops : o.kind \notin {"purge", "release"} /\ o.subject # p
    /\ PayloadBound
    /\ row' = [row EXCEPT ![p] = [NoRow EXCEPT !.state = "NOT_PREPARED"]]
    /\ thread' = [u \in Threads |-> IF thread[u].prep \in {p, Job}
                                    THEN [thread[u] EXCEPT !.fresh = FALSE]
                                    ELSE thread[u]]
    /\ UNCHANGED Local

StartBuild(t, p) ==
    /\ Exists(p)
    /\ "PREPARING" \in Transitions[row[p].state]
    /\ PayloadBound /\ KitVerified(p)
    /\ Begin(t, "build", p, NoPrep)
    /\ UNCHANGED <<row, Local>>

ClaimBuild(t) ==
    /\ thread[t].at = "build"
    /\ \/ MayMove(t, "PREPARING") /\ PrepMoves(t, "PREPARING", At(t, "building"))
       \/ Refused(t, MayMove(t, "PREPARING"))
    /\ UNCHANGED Local

\* build_upload_kit renames the finished kit into place, if nothing is there.
BuildKit(t) ==
    /\ thread[t].at = "building"
    /\ PayloadBound
    /\ thread[t].prep \notin kit
    /\ kit' = kit \cup {thread[t].prep}
    /\ Goto(t, "built")
    /\ UNCHANGED <<row, job, payload, ops, service, wire, effects, crashes>>

\* Any exception on the way; the handler reads the row again.
BuildFails(t) ==
    /\ \/ thread[t].at = "building"
       \/ thread[t].at = "built" /\ (StoreErrors \/ ~MayMove(t, "READY"))
    /\ thread' = [thread EXCEPT ![t] =
           IF row[thread[t].prep].state = "PREPARING"
           THEN [@ EXCEPT !.at = "failed", !.fresh = TRUE] ELSE Resting]
    /\ UNCHANGED <<row, Local>>

FinishBuild(t) ==
    /\ thread[t].at = "built"
    /\ MayMove(t, "READY")
    /\ PrepWritten(t, [row[thread[t].prep] EXCEPT !.state = "READY", !.kitPath = TRUE], Resting)
    /\ UNCHANGED Local

\* fail_build
FailBuild(t, mine) ==
    /\ Current(t)
    /\ row[thread[t].prep].state = "PREPARING"
    /\ PrepMoves(t, "FAILED", mine)

\* Without a kit directory there is nothing to clean; with one the handler
\* begins an operation for it.
CleanBuild(t) ==
    LET p == thread[t].prep
        o == [kind |-> "orphan", subject |-> p, phase |-> "intent", kits |-> {p}]
    IN  /\ thread[t].at = "failed"
        /\ \/ p \notin kit /\ FailBuild(t, Resting) /\ UNCHANGED ops
           \/ /\ p \in kit
              /\ \A other \in ops : p \notin other.kits
              /\ ops' = ops \cup {o}
              /\ thread' = [thread EXCEPT ![t].at = "stage", ![t].op = o]
              /\ UNCHANGED row
           \/ Refused(t, p \in kit => \A other \in ops : p \notin other.kits) /\ UNCHANGED ops
        /\ UNCHANGED <<job, kit, payload, service, wire, effects, crashes>>

-----------------------------------------------------------------------------
(* dupe_check and seed                                                     *)

StartDupeCheck(t, p) ==
    /\ row[p].state = "READY"
    /\ PayloadBound /\ row[p].kitPath
    /\ Begin(t, "dupe", p, NoPrep)
    /\ UNCHANGED <<row, Local>>

ClaimDupeCheck(t) ==
    /\ thread[t].at = "dupe"
    /\ \/ MayMove(t, "SEEDING_CHECK") /\ PrepMoves(t, "SEEDING_CHECK", At(t, "duping"))
       \/ Refused(t, MayMove(t, "SEEDING_CHECK"))
    /\ UNCHANGED Local

\* CLEAR, DUPLICATE, or neither.
FinishDupeCheck(t) ==
    /\ thread[t].at = "duping"
    /\ \E target \in {"READY_TO_PUBLISH", "NEEDS_REVIEW", "UNKNOWN"} :
           \/ MayMove(t, target) /\ PrepMoves(t, target, Resting)
           \/ Refused(t, MayMove(t, target))
    /\ UNCHANGED Local

StartSeed(t, p) ==
    /\ row[p].state \in {"READY", "READY_TO_PUBLISH"}
    /\ row[p].seed # "accepted"
    /\ PayloadBound /\ row[p].kitPath /\ p \in kit
    /\ Begin(t, "seed", p, row[p].state)
    /\ UNCHANGED <<row, Local>>

\* Variant: claim_seeding takes only receipts for outcomes, not a lease lost in a crash.
MaySeedForgetful(t) ==
    LET p == thread[t].prep
    IN  /\ Current(t)
        /\ row[p].state \in {"READY", "READY_TO_PUBLISH"}
        /\ \A q \in Preps : row[q].state # "SEEDING" /\ row[q].seed \in {"none", "rejected"}

\* claim_seeding: no equivalent torrent has an outcome that may be an add.
MaySeed(t) ==
    LET p == thread[t].prep
    IN  /\ Current(t)
        /\ row[p].state \in {"READY", "READY_TO_PUBLISH"}
        /\ \A q \in Preps : /\ row[q].state # "SEEDING"
                            /\ q # p => row[q].state # "UNKNOWN"
                            /\ row[q].seed \in {"none", "rejected"}

ClaimSeeding(t) ==
    /\ thread[t].at = "seed"
    /\ \/ MaySeed(t) /\ PrepMoves(t, "SEEDING", At(t, "seeding"))
       \/ Refused(t, MaySeed(t))
    /\ UNCHANGED Local

Send(t, effect, at) ==
    /\ wire' = [wire EXCEPT ![effect] = @ + 1]
    /\ Goto(t, at)
    /\ UNCHANGED <<row, job, kit, payload, ops, service, effects, crashes>>

SendAdd(t) == thread[t].at = "seeding" /\ Send(t, "add", "added")

\* What the service reads: the answer, if it came; UNKNOWN for everything it
\* cannot tell.  A status other than 200 counts as REJECTED; that a proxy in
\* front of qBittorrent may have sent it is left out.
AddOutcomes(t) ==
    {"unknown"}
    \cup (IF thread[t].reply = "accepted" THEN {"accepted"} ELSE {})
    \cup (IF thread[t].reply = "refused" THEN {"rejected"} ELSE {})

RecordSeed(t) ==
    /\ thread[t].at \in {"seeding", "added"}
    /\ \E outcome \in AddOutcomes(t) :
           LET target == IF outcome = "unknown" THEN "UNKNOWN" ELSE thread[t].was
           IN  \/ /\ MayMove(t, target)
                  /\ PrepWritten(t, [row[thread[t].prep] EXCEPT !.state = target, !.seed = outcome],
                           Resting)
               \/ Refused(t, MayMove(t, target))
    /\ UNCHANGED Local

-----------------------------------------------------------------------------
(* publish                                                                 *)

StartPublish(t, p) ==
    /\ row[p].state = "READY_TO_PUBLISH"
    /\ PayloadBound /\ row[p].kitPath
    /\ Begin(t, "publish", p, NoPrep)
    /\ UNCHANGED <<row, Local>>

\* claim_publication: one active, successful or uncertain outcome for all.
MayPublish(t) ==
    LET p == thread[t].prep
    IN  /\ Current(t)
        /\ row[p].state = "READY_TO_PUBLISH"
        /\ row[p].pub \in {"none", "rejected"}
        /\ \A q \in Preps \ {p} : /\ row[q].state \notin {"PUBLISHING", "PUBLISHED", "UNKNOWN"}
                                  /\ row[q].pub \in {"none", "rejected"}

ClaimPublication(t) ==
    /\ thread[t].at = "publish"
    /\ \/ MayPublish(t) /\ PrepMoves(t, "PUBLISHING", At(t, "rechecking"))
       \/ Refused(t, MayPublish(t))
    /\ UNCHANGED Local

\* The duplicate check at publication time and the record of its result.
Recheck(t) ==
    /\ thread[t].at = "rechecking"
    /\ \/ \E target \in {"NEEDS_REVIEW", "UNKNOWN"} :
              MayMove(t, target) /\ PrepMoves(t, target, Resting)
       \/ MayMove(t, "PUBLISHING") /\ PrepMoves(t, "PUBLISHING", At(t, "binding"))
       \/ Refused(t, MayMove(t, "PUBLISHING"))
    /\ UNCHANGED Local

\* The last look at profile and payload before the upload.
Rebind(t) ==
    /\ thread[t].at = "binding"
    /\ \/ PayloadBound /\ Goto(t, "sending") /\ UNCHANGED row
       \/ MayMove(t, "FAILED") /\ PrepMoves(t, "FAILED", Resting)
       \/ Refused(t, MayMove(t, "FAILED"))
    /\ UNCHANGED Local

SendPublication(t) ==
    /\ thread[t].at = "sending"
    /\ thread[t].prep \in kit
    /\ Send(t, "publish", "published")

PublicationOutcomes(t) ==
    {"unknown"}
    \cup (IF thread[t].reply = "accepted" THEN {"accepted"} ELSE {})
    \cup (IF thread[t].reply = "refused" THEN {"rejected"} ELSE {})

PublicationTarget(outcome) ==
    CASE outcome = "accepted" -> "PUBLISHED"
      [] outcome = "rejected" -> "FAILED"
      [] outcome = "unknown"  -> "UNKNOWN"

RecordPublication(t) ==
    /\ thread[t].at \in {"sending", "published"}
    /\ \E outcome \in PublicationOutcomes(t) :
           LET target == PublicationTarget(outcome)
           IN  \/ /\ MayMove(t, target)
                  /\ PrepWritten(t, [row[thread[t].prep] EXCEPT !.state = target, !.pub = outcome],
                           Resting)
               \/ Refused(t, MayMove(t, target))
    /\ UNCHANGED Local

-----------------------------------------------------------------------------
(* Deleting a preparation, the completed release, or the job               *)

HasOutcome(p) == \/ row[p].state \in External
                 \/ row[p].seed \notin {"none", "rejected"}
                 \/ row[p].pub \notin {"none", "rejected"}

Rows == {p \in Preps : Exists(p)}

StartDestroy(t, kind, subject, kits, needsOp) ==
    LET o == [kind |-> kind, subject |-> subject, phase |-> "intent", kits |-> kits]
    IN  /\ service = "up"
        /\ thread[t].at = "idle"
        /\ thread' = [thread EXCEPT ![t] =
               [Resting EXCEPT !.at = IF needsOp THEN "begin" ELSE "commit",
                               !.prep = subject, !.fresh = TRUE, !.op = o]]
        /\ UNCHANGED <<row, Local>>

StartDelete(t, p) ==
    /\ row[p].state \in Deletable
    /\ ~HasOutcome(p)
    /\ KitVerified(p)
    /\ StartDestroy(t, "delete", p, IF row[p].kitPath THEN {p} ELSE {}, row[p].kitPath)

KitsOfJob == {p \in Rows : row[p].kitPath}

\* An outcome outside the machine needs the operator's explicit force, which
\* is always given here.
StartReleaseDelete(t) ==
    /\ PayloadBound
    /\ \A p \in Rows : KitVerified(p)
    /\ StartDestroy(t, "release", Job, KitsOfJob, TRUE)

\* Variant: the purge route does not look at the outcomes.
StartPurgeAnyway(t) ==
    /\ job # "purged"
    /\ \A p \in Rows : KitVerified(p)
    /\ StartDestroy(t, "purge", Job, KitsOfJob, KitsOfJob # {})

StartPurge(t) ==
    /\ job # "purged"
    /\ \A p \in Rows : ~HasOutcome(p) /\ KitVerified(p)
    /\ StartDestroy(t, "purge", Job, KitsOfJob, KitsOfJob # {})

Subjects(t) == IF thread[t].prep = Job THEN Rows ELSE {thread[t].prep}

\* The domain guard of begin() and the claims of other operations.
MayBegin(t) ==
    LET o == thread[t].op
    IN  /\ thread[t].fresh
        /\ job # "purged"
        /\ o.kind = "release" => job # "purged" /\ \A other \in ops : other.kind # "release"
        /\ \A p \in Subjects(t) : row[p].state \notin Active
        /\ \A other \in ops : other.kits \cap o.kits = {}

BeginDestroy(t) ==
    /\ thread[t].at = "begin"
    /\ \/ MayBegin(t) /\ ops' = ops \cup {thread[t].op} /\ Goto(t, "stage")
       \/ (~MayBegin(t) \/ StoreErrors) /\ Rest(t) /\ UNCHANGED ops
    /\ UNCHANGED <<row, job, kit, payload, service, wire, effects, crashes>>

\* Replace thread t's operation by the same one in a later phase.
Advance(t, phase, at) ==
    LET o == [thread[t].op EXCEPT !.phase = phase]
    IN  /\ ops' = (ops \ {thread[t].op}) \cup {o}
        /\ thread' = [thread EXCEPT ![t].at = at, ![t].op = o]

Stage(t) ==
    /\ thread[t].at = "stage"
    /\ thread[t].op.kits \subseteq kit
    /\ kit' = kit \ thread[t].op.kits
    /\ payload' = (payload /\ thread[t].op.kind # "release")
    /\ Advance(t, "staged", "commit")
    /\ UNCHANGED <<row, job, service, wire, effects, crashes>>

\* The domain transaction, which marks the operation COMMITTED.
MayCommit(t) ==
    LET o == thread[t].op
    IN  /\ thread[t].fresh
        /\ o.kind = "orphan" => /\ row[o.subject].state = "PREPARING"
                                /\ NoDestructiveIntent(o.subject)
        /\ o.kind = "delete" => row[o.subject].state \notin Active \cup {NoPrep}
        /\ o.kind \in {"release", "purge"} => \A p \in Rows : row[p].state \notin Active
        /\ o.kind = "release" => job = "completed"
        /\ o.kind = "purge" => job # "purged"

RowsAfter(o) ==
    CASE o.kind = "orphan" -> [row EXCEPT ![o.subject].state = "FAILED"]
      [] o.kind = "delete" -> [row EXCEPT ![o.subject] = NoRow]
      [] OTHER             -> [p \in Preps |-> NoRow]

CommitDestroy(t) ==
    LET o == thread[t].op
        committed == [o EXCEPT !.phase = "committed"]
        touched == IF o.subject = Job THEN Preps ELSE {o.subject}
    IN  /\ thread[t].at = "commit"
        /\ MayCommit(t)
        /\ row' = RowsAfter(o)
        /\ job' = CASE o.kind = "release" -> "tombstoned"
                    [] o.kind = "purge"   -> "purged"
                    [] OTHER              -> job
        /\ ops' = IF o \in ops THEN (ops \ {o}) \cup {committed} ELSE ops
        /\ thread' = Stale(touched, t,
                           IF o \in ops THEN [thread[t] EXCEPT !.at = "finalize", !.op = committed]
                           ELSE Resting)
        /\ UNCHANGED <<kit, payload, service, wire, effects, crashes>>

\* Variant: a rollback closes the operation and leaves the kit in the quarantine.
RollBackLeaving(t) ==
    /\ thread[t].at = "commit"
    /\ ~MayCommit(t) \/ StoreErrors
    /\ ops' = ops \ {thread[t].op}
    /\ Rest(t)
    /\ UNCHANGED <<row, job, kit, payload, service, wire, effects, crashes>>

\* A refused transaction rolls the operation back.
RollBack(t) ==
    LET o == thread[t].op
    IN  /\ thread[t].at = "commit"
        /\ ~MayCommit(t) \/ StoreErrors
        /\ kit' = IF o \in ops THEN kit \cup o.kits ELSE kit
        /\ payload' = (payload \/ (o \in ops /\ o.kind = "release"))
        /\ ops' = ops \ {o}
        /\ Rest(t)
        /\ UNCHANGED <<row, job, service, wire, effects, crashes>>

\* A failing finalize() is left to the next start.
Finalize(t) ==
    /\ thread[t].at = "finalize"
    /\ ops' \in {ops, ops \ {thread[t].op}}
    /\ Rest(t)
    /\ UNCHANGED <<row, job, kit, payload, service, wire, effects, crashes>>

-----------------------------------------------------------------------------
(* The remote systems, crashes and recovery                                *)

Waiting(effect) == {t \in Threads : /\ thread[t].at = (IF effect = "add" THEN "added" ELSE "published")
                                    /\ thread[t].reply = "none"}

\* The remote system carries out or refuses a request somebody waits for.
Answer(effect, t, reply) ==
    /\ t \in Waiting(effect)
    /\ wire' = [wire EXCEPT ![effect] = @ - 1]
    /\ effects' = IF reply = "accepted" THEN [effects EXCEPT ![effect] = @ + 1] ELSE effects
    /\ thread' = [thread EXCEPT ![t].reply = reply]
    /\ UNCHANGED <<row, job, kit, payload, ops, service, crashes>>

\* It carries out or loses one nobody waits for any more.
LateAnswer(effect) ==
    /\ wire[effect] > Cardinality(Waiting(effect))
    /\ wire' = [wire EXCEPT ![effect] = @ - 1]
    /\ effects' \in {effects, [effects EXCEPT ![effect] = @ + 1]}
    /\ UNCHANGED <<row, job, kit, payload, ops, thread, service, crashes>>

Crash ==
    /\ crashes < MaxCrashes
    /\ crashes' = crashes + 1
    /\ service' = "down"
    /\ thread' = [t \in Threads |-> Resting]
    /\ UNCHANGED <<row, job, kit, payload, ops, wire, effects>>

\* The first release request of a process builds the service.
RecoverJournal ==
    LET undone == {o \in ops : o.phase # "committed"}
    IN  /\ service = "down"
        /\ kit' = kit \cup UNION {o.kits : o \in undone}
        /\ payload' = (payload \/ \E o \in undone : o.kind = "release")
        /\ ops' = {}
        /\ service' = "recovering"
        /\ UNCHANGED <<row, job, thread, wire, effects, crashes>>

\* Variant: recovery takes the states of remote work only.
RecoveredRemote(r) ==
    IF r.state \in {"SEEDING_CHECK", "SEEDING", "PUBLISHING"}
    THEN [r EXCEPT !.state = "UNKNOWN"] ELSE r

\* recover_interrupted, with the removal of what interrupted builds left.
Recovered(r) ==
    CASE r.state = "PREPARING" -> [r EXCEPT !.state = "FAILED"]
      [] r.state \in {"SEEDING_CHECK", "SEEDING", "PUBLISHING"} -> [r EXCEPT !.state = "UNKNOWN"]
      [] OTHER -> r

RecoverInterrupted ==
    /\ service = "recovering"
    /\ kit' = kit \ {p \in Preps : row[p].state = "PREPARING"}
    /\ row' = [p \in Preps |-> Recovered(row[p])]
    /\ service' = "up"
    /\ UNCHANGED <<job, payload, ops, thread, wire, effects, crashes>>

-----------------------------------------------------------------------------
Init ==
    /\ row = [p \in Preps |-> NoRow]
    /\ job = "completed"
    /\ kit = {}
    /\ payload = TRUE
    /\ ops = {}
    /\ thread = [t \in Threads |-> Resting]
    /\ service = "down"
    /\ wire = [e \in {"add", "publish"} |-> 0]
    /\ effects = [e \in {"add", "publish"} |-> 0]
    /\ crashes = 0

Arrive(t) ==
    \/ \E p \in Preps : \/ StartBuild(t, p) \/ StartDupeCheck(t, p) \/ StartSeed(t, p)
                        \/ StartPublish(t, p) \/ StartDelete(t, p)
    \/ StartReleaseDelete(t) \/ StartPurge(t)

Step(t) ==
    \/ ClaimBuild(t) \/ BuildKit(t) \/ BuildFails(t) \/ FinishBuild(t) \/ CleanBuild(t)
    \/ ClaimDupeCheck(t) \/ FinishDupeCheck(t)
    \/ ClaimSeeding(t) \/ SendAdd(t) \/ RecordSeed(t)
    \/ ClaimPublication(t) \/ Recheck(t) \/ Rebind(t) \/ SendPublication(t) \/ RecordPublication(t)
    \/ BeginDestroy(t) \/ Stage(t) \/ CommitDestroy(t) \/ RollBack(t) \/ Finalize(t)

Remote == \E e \in {"add", "publish"} :
    \/ \E t \in Threads, reply \in {"accepted", "refused"} : Answer(e, t, reply)
    \/ LateAnswer(e)

Next ==
    \/ \E p \in Preps : Create(p)
    \/ \E t \in Threads : Arrive(t) \/ Step(t)
    \/ Remote
    \/ Crash \/ RecoverJournal \/ RecoverInterrupted

ReleaseSpec == Init /\ [][Next]_rvars

\* Every call a handler makes returns: the network calls have time limits.  A
\* dead process is started again (Restart=on-failure) and gets a request.
FairReleaseSpec ==
    /\ ReleaseSpec
    /\ \A t \in Threads : WF_rvars(Step(t))
    /\ WF_rvars(RecoverJournal) /\ WF_rvars(RecoverInterrupted)

-----------------------------------------------------------------------------
(* Properties                                                              *)

\* What the rows together say of a remote effect.
Ledger(leased, closedStates, receipt(_)) ==
    IF \E p \in Preps : row[p].state = leased THEN "leased"
    ELSE IF \/ job # "completed"
            \/ \E p \in Preps : \/ row[p].state \in closedStates
                               \/ receipt(p) \in {"accepted", "unknown"} THEN "closed"
    ELSE "clear"

SeedOf(p) == row[p].seed
PubOf(p) == row[p].pub

Adding == INSTANCE RemoteEffect WITH
    ledger <- Ledger("SEEDING", {"UNKNOWN"}, SeedOf),
    wire <- wire["add"] > 0, effect <- effects["add"] > 0

Publishing == INSTANCE RemoteEffect WITH
    ledger <- Ledger("PUBLISHING", {"UNKNOWN", "PUBLISHED"}, PubOf),
    wire <- wire["publish"] > 0, effect <- effects["publish"] > 0

\* Whatever is seeded, lost, recovered, deleted and retried in whatever order,
\* the torrent is added to qBittorrent at most once and announced on the tracker
\* at most once, and it is never forgotten that either may have happened
\* (claim_seeding, claim_publication, recover_interrupted, delete).
EffectsHappenOnce == Adding!AtMostOnce /\ Publishing!AtMostOnce

\* While a thread works with a remote system its row holds the lease, and no
\* maintenance has moved the kit or the completed release away
\* (_assert_no_destructive_maintenance against the guard of begin()).
RemoteWorkKeepsItsFiles ==
    \A t \in Threads :
        LET p == thread[t].prep
            holds(state) == row[p].state = state /\ p \in kit /\ payload
        IN  /\ thread[t].at = "duping" => holds("SEEDING_CHECK")
            /\ thread[t].at \in {"seeding", "added"} => holds("SEEDING")
            /\ thread[t].at \in {"rechecking", "binding", "sending", "published"}
                   => holds("PUBLISHING")

\* A kit that a row presents for use is in place, or in the quarantine of an
\* operation that will remove the row or bring the kit back.
LiveKitExists ==
    \A p \in Preps :
        row[p].kitPath /\ row[p].state \notin {"PREPARING", "FAILED"} =>
            p \in kit \/ \E o \in ops : o.phase = "staged" /\ p \in o.kits

\* The files of a release outlast every step that still counts on them.
FilesStayInPlace == RemoteWorkKeepsItsFiles /\ LiveKitExists

\* The record of a possible remote effect only goes away with the tombstone of
\* an explicit deletion of the release, never with a preparation or the job.
OutcomeOutlivesRow ==
    [][\A p \in Preps : HasOutcome(p) /\ row'[p].state = NoPrep => job' = "tombstoned"]_rvars

\* No preparation stays in the state of an operation nobody carries out.
LeasesSettle == \A p \in Preps : row[p].state \in Active ~> row[p].state \notin Active
=============================================================================
