---------------------------- MODULE MediaUpdate ----------------------------
(* The transactional refresh of the media tools: the script daily-update.sh, *)
(* the runtime journal of update_runtime.py and the package transaction of   *)
(* apt_transaction.py, with the recovery they share.  One label of the       *)
(* script is one durable step; it may fail or be killed at each.             *)
EXTENDS Host

VARIABLES
    journal,   \* /var/lib/bdencode/update-runtime/active.json
    apt,       \* the newest package transaction and the marker `active'
    dir        \* the directories of tool releases: none, partial or tested

media == <<journal, apt, dir>>

NoJournal == [state |-> "NONE"]
JournalStates == {"BEGUN", "APT_PREPARED", "STAGING", "ACTIVATING", "HEALTHY", "COMMITTED"}
AptRecoverable == {"APPLYING", "APPLIED", "VALIDATING", "ROLLING_BACK", "RECOVERY_REQUIRED"}
AptFinal       == {"ABORTED", "COMMITTED", "ROLLED_BACK"}

MediaInit ==
    /\ journal = NoJournal
    /\ apt = [id |-> NoRelease, state |-> "ABORTED", active |-> FALSE, old |-> 0]
    /\ dir = [r \in Releases |-> IF r = 0 THEN "tested" ELSE "none"]

HasJournal   == journal # NoJournal
MediaMarker  == HasJournal \/ apt.active
Journal(s)   == journal' = [journal EXCEPT !.state = s]
Apt(s)       == apt' = [apt EXCEPT !.state = s]

-----------------------------------------------------------------------------
(* daily-update.sh.  `published' is the marker of any transaction.           *)

\* The script has the lock; an unfinished transaction is recovered first.
UpdateStarts(published) ==
    /\ proc.who = "none" /\ boot = "done" /\ made < MaxReleases
    /\ proc' = [who |-> "update", at |-> IF published THEN "x-look" ELSE "u-begin",
                next |-> IF published THEN "u-begin" ELSE "exit", keep |-> FALSE]
    /\ UNCHANGED <<units, faults, database, runtime, packages, history, media>>

\* begin: the pre-state is durable before anything is stopped.
UpdateBegins ==
    /\ At("u-begin")
    /\ made' = made + 1
    /\ journal' = [state |-> "BEGUN", id |-> made + 1, prev |-> tools, cand |-> NoRelease,
                   activated |-> FALSE, changed |-> FALSE,
                   up |-> up, timers |-> timers]
    /\ Go("u-stop-api")
    /\ UNCHANGED <<units, faults, database, runtime, packages, validated, apt, dir>>

UpdateStopsApi ==
    /\ At("u-stop-api")
    /\ Stopped({"api"}) /\ Go("u-queue")
    /\ UNCHANGED <<queued, enabled, timers, native, boot, faults, database, runtime, packages, history, media>>

\* queue-idle: a job in progress or a pause defers the update.
UpdateLooksAtQueue ==
    /\ At("u-queue")
    /\ IF job \in {"active", "pause"}
         THEN proc' = [proc EXCEPT !.at = "r-look", !.next = "exit"]
         ELSE Go("u-stop-worker")
    /\ UNCHANGED <<units, faults, database, runtime, packages, history, media>>

UpdateStopsWorker ==
    /\ At("u-stop-worker")
    /\ Stopped({"worker"}) /\ Go("u-pause")
    /\ UNCHANGED <<queued, enabled, timers, native, boot, faults, database, runtime, packages, history, media>>

\* pause_apt_timers: stop the timers, then wait for what they started.
PauseTimers ==
    /\ At("u-pause") \/ At("r-pause")
    /\ timers' = FALSE
    /\ Go(IF At("u-pause") THEN "u-quiet" ELSE "r-quiet")
    /\ UNCHANGED <<up, queued, enabled, native, lane, boot, faults, database, runtime, packages, history, media>>

\* Variant: the timers are stopped, what they started is not waited for.
NativeIsIgnored ==
    /\ At("u-quiet") \/ At("r-quiet")
    /\ Go(IF At("u-quiet") THEN "u-prepare" ELSE "r-look")
    /\ UNCHANGED <<units, faults, database, runtime, packages, history, media>>

NativeIsOver ==
    /\ At("u-quiet") \/ At("r-quiet")
    /\ ~native
    /\ Go(IF At("u-quiet") THEN "u-prepare" ELSE "r-look")
    /\ UNCHANGED <<units, faults, database, runtime, packages, history, media>>

\* The simulation finds nothing to upgrade; its directory is removed again.
AptFindsNothing ==
    /\ At("u-prepare") /\ ~apt.active
    /\ Go("u-prepared")
    /\ UNCHANGED <<units, faults, database, runtime, packages, history, media>>

\* A vault of the old and the new archive of every package; then the marker
\* is published.
AptPrepare ==
    /\ At("u-prepare") /\ ~apt.active
    /\ apt' = [id |-> journal.id, state |-> "PREPARED", active |-> FALSE, old |-> pkgs]
    /\ Go("u-publish")
    /\ UNCHANGED <<units, faults, database, runtime, packages, history, journal, dir>>

AptPublish ==
    /\ At("u-publish")
    /\ apt' = [apt EXCEPT !.active = TRUE] /\ Go("u-prepared")
    /\ UNCHANGED <<units, faults, database, runtime, packages, history, journal, dir>>

\* apt-prepared of the journal.
UpdatePrepared ==
    /\ At("u-prepared")
    /\ journal' = [journal EXCEPT !.state = "APT_PREPARED", !.changed = apt.active]
    /\ Go(IF apt.active THEN "u-apply" ELSE "u-stage")
    /\ UNCHANGED <<units, faults, database, runtime, packages, history, apt, dir>>

AptApply ==
    /\ At("u-apply")
    /\ apt.state = "PREPARED"
    /\ Apt("APPLYING") /\ pkgs' = Mixed /\ Go("u-applied")
    /\ UNCHANGED <<units, faults, database, runtime, child, history, journal, dir>>

\* apt-get ended, versions and marks are verified.
AptApplied ==
    /\ At("u-applied")
    /\ Apt("APPLIED") /\ pkgs' = apt.id /\ Go("u-validate")
    /\ UNCHANGED <<units, faults, database, runtime, child, history, journal, dir>>

AptValidate ==
    /\ At("u-validate")
    /\ apt.state = "APPLIED"
    /\ Apt("VALIDATING") /\ Go("u-stage")
    /\ UNCHANGED <<units, faults, database, runtime, packages, history, journal, dir>>

UpdateStages ==
    /\ At("u-stage")
    /\ journal' = [journal EXCEPT !.state = "STAGING", !.cand = journal.id, !.activated = FALSE]
    /\ Go("u-build")
    /\ UNCHANGED <<units, faults, database, runtime, packages, history, apt, dir>>

\* The release is built in place and then exercised with the new packages.
UpdateBuilds ==
    /\ At("u-build")
    /\ dir' = [dir EXCEPT ![journal.cand] = "partial"] /\ Go("u-test")
    /\ UNCHANGED <<units, faults, database, runtime, packages, history, journal, apt>>

\* Without new packages the candidate may turn out to be what is installed.
UpdateTests ==
    /\ At("u-test")
    /\ dir' = [dir EXCEPT ![journal.cand] = "tested"]
    /\ \/ Go("u-activating")
       \/ ~journal.changed /\ Go("u-remove")
    /\ UNCHANGED <<units, faults, database, runtime, packages, history, journal, apt>>

UpdateRemoves ==
    /\ At("u-remove")
    /\ dir' = [dir EXCEPT ![journal.cand] = "none"] /\ Go("u-discard")
    /\ UNCHANGED <<units, faults, database, runtime, packages, history, journal, apt>>

CandidateDiscarded ==
    /\ At("u-discard")
    /\ journal' = [journal EXCEPT !.state = "APT_PREPARED", !.cand = NoRelease]
    /\ Go("u-start")
    /\ UNCHANGED <<units, faults, database, runtime, packages, history, apt, dir>>

Activating ==
    /\ At("u-activating")
    /\ journal' = [journal EXCEPT !.state = "ACTIVATING", !.activated = TRUE]
    /\ Go("u-switch")
    /\ UNCHANGED <<units, faults, database, runtime, packages, history, apt, dir>>

UpdateSwitches ==
    /\ At("u-switch")
    /\ tools' = journal.cand /\ Go("u-start")
    /\ UNCHANGED <<units, faults, database, app, host, packages, history, media>>

\* start_validation_services, under the lock and beside the markers.
ValidationStarts ==
    /\ At("u-start")
    /\ Started(journal.up) /\ Go("u-stop")
    /\ UNCHANGED <<queued, enabled, timers, native, boot, faults, database, runtime, packages, history, media>>

ValidationStops ==
    /\ At("u-stop")
    /\ Stopped(journal.up) /\ Go("u-healthy")
    /\ UNCHANGED <<queued, enabled, timers, native, boot, faults, database, runtime, packages, history, media>>

UpdateHealthy ==
    /\ At("u-healthy")
    /\ journal.state \in {"APT_PREPARED", "ACTIVATING"}
    /\ Journal("HEALTHY")
    /\ validated' = validated \cup {<<app, tools, pkgs>>}
    /\ Go(IF apt.active THEN "u-apt-commit" ELSE "u-commit")
    /\ UNCHANGED <<units, faults, database, runtime, packages, made, apt, dir>>

AptCommit ==
    /\ At("u-apt-commit")
    /\ apt.state \in {"APPLIED", "VALIDATING"}
    /\ Apt("COMMITTED") /\ Go("u-apt-clear")
    /\ UNCHANGED <<units, faults, database, runtime, packages, history, journal, dir>>

AptCommitted ==
    /\ At("u-apt-clear")
    /\ apt' = [apt EXCEPT !.active = FALSE] /\ Go("u-commit")
    /\ UNCHANGED <<units, faults, database, runtime, packages, history, journal, dir>>

UpdateCommits ==
    /\ At("u-commit")
    /\ journal.state = "HEALTHY"
    /\ Journal("COMMITTED")
    /\ proc' = [proc EXCEPT !.at = "r-look", !.next = "exit"]
    /\ UNCHANGED <<units, faults, database, runtime, packages, history, apt, dir>>

\* A step fails; the trap of the script recovers.
UpdateLabels == {"u-stop-api", "u-queue", "u-stop-worker", "u-quiet", "u-prepare", "u-publish",
                 "u-prepared", "u-applied", "u-validate", "u-stage", "u-build", "u-test", "u-remove",
                 "u-switch", "u-start", "u-stop", "u-healthy", "u-apt-commit", "u-commit"}

UpdateFails ==
    /\ proc.who = "update" /\ proc.at \in UpdateLabels
    /\ faults < MaxFaults /\ faults' = faults + 1
    /\ proc' = [proc EXCEPT !.at = "r-look", !.next = "exit"]
    /\ UNCHANGED <<units, database, runtime, packages, history, media>>

-----------------------------------------------------------------------------
(* RuntimeJournal.recover.                                                   *)

PackagesChanged  == journal.changed \/ (apt.active /\ apt.id = journal.id)
PackageCommitted == PackagesChanged /\ apt.id = journal.id /\ apt.state = "COMMITTED"

\* Variant: a healthy runtime is kept, whatever became of its packages.
KeepHealthy == HasJournal /\ journal.state \in {"HEALTHY", "COMMITTED"}

\* What a recovery would decide now.
KeepCandidate ==
    /\ HasJournal
    /\ journal.state \in {"HEALTHY", "COMMITTED"}
    /\ ~PackagesChanged \/ PackageCommitted

\* Variant: a recovery stops the services in every state.
RecoveryAlwaysStops ==
    /\ At("r-look")
    /\ IF ~MediaMarker THEN Go("r-end") ELSE Go("r-stop")
    /\ UNCHANGED <<units, faults, database, runtime, packages, history, media>>

\* Nothing to do; nothing was touched or all is committed; or the whole way.
RecoveryLooks ==
    /\ At("r-look")
    /\ IF ~MediaMarker THEN Go("r-end")
       ELSE IF HasJournal /\ journal.state \in {"BEGUN", "COMMITTED"} /\ ~apt.active THEN Go("r-timers")
       ELSE Go("r-stop")
    /\ UNCHANGED <<units, faults, database, runtime, packages, history, media>>

RecoveryStops ==
    /\ At("r-stop")
    /\ Stopped(Services)
    /\ proc' = [proc EXCEPT !.at = "r-back", !.keep = KeepCandidate]
    /\ UNCHANGED <<queued, enabled, timers, native, boot, faults, database, runtime, packages, history, media>>

\* The old pointer comes back before the old packages.
RecoveryGoesBack ==
    /\ At("r-back")
    /\ tools' = IF proc.keep THEN tools ELSE journal.prev
    /\ Go("r-apt")
    /\ UNCHANGED <<units, faults, database, app, host, packages, history, media>>

\* AptTransaction.recover and rollback.
AptRecovers ==
    /\ At("r-apt")
    /\ \/ /\ ~apt.active
          /\ Go("r-forth") /\ UNCHANGED <<apt, pkgs>>
       \/ /\ apt.active /\ apt.state = "PREPARED"
          /\ Apt("ABORTED") /\ Go("r-clear-apt") /\ UNCHANGED pkgs
       \/ /\ apt.active /\ apt.state \in AptFinal
          /\ Go("r-clear-apt") /\ UNCHANGED <<apt, pkgs>>
       \/ /\ apt.active /\ apt.state \in AptRecoverable
          /\ Apt("ROLLING_BACK") /\ pkgs' = Mixed /\ Go("r-rollback")
    /\ UNCHANGED <<units, faults, database, runtime, child, history, journal, dir>>

AptRolledBack ==
    /\ At("r-rollback")
    /\ pkgs' = apt.old /\ Apt("ROLLED_BACK") /\ Go("r-clear-apt")
    /\ UNCHANGED <<units, faults, database, runtime, child, history, journal, dir>>

\* The downgrade fails: the transaction says so and the recovery ends.
AptRollbackFails ==
    /\ At("r-rollback") /\ faults < MaxFaults
    /\ faults' = faults + 1
    /\ Apt("RECOVERY_REQUIRED") /\ End(FALSE)
    /\ UNCHANGED <<up, queued, enabled, timers, native, lane, database, runtime, packages, history, journal, dir>>

AptCleared ==
    /\ At("r-clear-apt")
    /\ apt' = [apt EXCEPT !.active = FALSE] /\ Go("r-forth")
    /\ UNCHANGED <<units, faults, database, runtime, packages, history, journal, dir>>

RecoveryGoesForth ==
    /\ At("r-forth")
    /\ tools' = IF ~proc.keep THEN tools
                ELSE IF journal.cand # NoRelease THEN journal.cand ELSE journal.prev
    /\ Go("r-doctor")
    /\ UNCHANGED <<units, faults, database, app, host, packages, history, media>>

\* The doctor passes; an uncommitted candidate that is not current is removed.
RecoveryDiscards ==
    /\ At("r-doctor")
    /\ dir' = IF ~proc.keep /\ journal.cand # NoRelease /\ journal.cand # tools
                THEN [dir EXCEPT ![journal.cand] = "none"] ELSE dir
    /\ Go("r-timers")
    /\ UNCHANGED <<units, faults, database, runtime, packages, history, journal, apt>>

\* A refused stop, a failing doctor, a unit that does not start.
RecoveryFails ==
    /\ proc.at \in {"r-quiet", "r-stop", "r-doctor", "r-units"} /\ faults < MaxFaults
    /\ faults' = faults + 1 /\ End(FALSE)
    /\ UNCHANGED <<up, queued, enabled, timers, native, lane, database, runtime, packages, history, media>>

\* restore_timer_state and restore_runtime_state; the gate of a boot restores
\* the timers only.
RestoreTimers ==
    /\ At("r-timers")
    /\ timers' = journal.timers
    /\ Go(IF proc.who = "gate" THEN "r-clear" ELSE "r-units")
    /\ UNCHANGED <<up, queued, enabled, native, lane, boot, faults, database, runtime, packages, history, media>>

RestoreUnits ==
    /\ At("r-units")
    /\ up' = journal.up
    /\ lane' = IF "worker" \notin journal.up THEN "off"
               ELSE IF "worker" \notin up THEN "idle" ELSE lane
    /\ Go("r-clear")
    /\ UNCHANGED <<queued, enabled, timers, native, boot, faults, database, runtime, packages, history, media>>

JournalCleared ==
    /\ At("r-clear")
    /\ journal' = NoJournal /\ Go("r-end")
    /\ UNCHANGED <<units, faults, database, runtime, packages, history, apt, dir>>

\* What called the recovery goes on.
RecoveryEnds ==
    /\ At("r-end")
    /\ IF proc.next = "u-begin"
         THEN proc' = [proc EXCEPT !.at = "u-begin", !.next = "exit"] /\ UNCHANGED boot
         ELSE IF proc.next = "i-begin"
         THEN proc' = [proc EXCEPT !.at = "i-begin", !.next = "exit"] /\ UNCHANGED boot
         ELSE End(TRUE)
    /\ UNCHANGED <<up, queued, enabled, timers, native, lane, faults, database, runtime, packages, history, media>>

UpdateNext ==
    \/ UpdateBegins \/ UpdateStopsApi \/ UpdateLooksAtQueue \/ UpdateStopsWorker
    \/ PauseTimers \/ NativeIsOver \/ AptFindsNothing \/ AptPrepare \/ AptPublish \/ UpdatePrepared
    \/ AptApply \/ AptApplied \/ AptValidate
    \/ UpdateStages \/ UpdateBuilds \/ UpdateTests \/ UpdateRemoves \/ CandidateDiscarded
    \/ Activating \/ UpdateSwitches \/ ValidationStarts \/ ValidationStops
    \/ UpdateHealthy \/ AptCommit \/ AptCommitted \/ UpdateCommits

RuntimeRecoveryNext ==
    \/ RecoveryLooks \/ RecoveryStops \/ RecoveryGoesBack
    \/ AptRecovers \/ AptRolledBack \/ AptCleared \/ RecoveryGoesForth \/ RecoveryDiscards
    \/ RestoreTimers \/ RestoreUnits \/ JournalCleared \/ RecoveryEnds
=============================================================================
