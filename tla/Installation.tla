---------------------------- MODULE Installation ----------------------------
(* The installer install.sh and its journal install_transaction.py: the      *)
(* queue is looked at while nothing is touched (OBSERVING), everything that  *)
(* will change is copied (PREPARED), the release is built, switched to and   *)
(* tried out, and only then kept (HEALTHY, COMMITTED); otherwise everything  *)
(* is put back (RESTORING, RESTORED).  One label is one durable step.        *)
EXTENDS Host

VARIABLE ins     \* the newest installer transaction and its two markers

InstallStates == {"OBSERVING", "PREPARED", "HEALTHY", "COMMITTED",
                  "RESTORING", "RESTORED", "RECOVERY_REQUIRED"}
RestorableStates == {"PREPARED", "RESTORING", "RECOVERY_REQUIRED"}

Planned == [kind |-> "planned"]
Database == [kind |-> "file", job |-> job, work |-> work, schema |-> schema]

InstallInit == ins = [state |-> "COMMITTED", active |-> FALSE, pending |-> FALSE, id |-> 0,
                      app |-> 0, tools |-> 0, host |-> 0, db |-> Planned,
                      up |-> {}, enabled |-> {}, timers |-> FALSE]

InstallMarker == ins.active \/ ins.pending
Ins(s) == ins' = [ins EXCEPT !.state = s]

-----------------------------------------------------------------------------
(* install.sh                                                                *)

\* The installer has the lock.  It first recovers an unfinished installation,
\* then an unfinished media update.
InstallStarts(published) ==
    /\ proc.who = "none" /\ boot \in {"done", "failed"} /\ made < MaxReleases
    /\ proc' = [who |-> "install", at |-> IF published THEN "x-look" ELSE "i-begin",
                next |-> IF published THEN "i-begin" ELSE "exit", keep |-> FALSE]
    /\ UNCHANGED <<units, faults, database, runtime, packages, history, ins>>

\* begin: the snapshot of all targets, then the marker.
InstallBegins ==
    /\ At("i-begin")
    /\ made' = made + 1
    /\ ins' = [state |-> "OBSERVING", active |-> TRUE, pending |-> FALSE, id |-> made + 1,
               app |-> app, tools |-> tools, host |-> host, db |-> Planned,
               up |-> up, enabled |-> enabled, timers |-> timers]
    /\ Go("i-stop-api")
    /\ UNCHANGED <<units, faults, database, runtime, packages, validated>>

InstallStopsApi ==
    /\ At("i-stop-api")
    /\ Stopped({"api"}) /\ Go("i-queue")
    /\ UNCHANGED <<queued, enabled, timers, native, boot, faults, database, runtime, packages, history, ins>>

Recover == proc' = [proc EXCEPT !.at = "x-look", !.next = "exit"]

\* queue_is_install_safe: a persisted pause is safe, a job in progress is not.
InstallLooksAtQueue ==
    /\ At("i-queue")
    /\ IF job = "active" THEN Recover ELSE Go("i-stop-worker")
    /\ UNCHANGED <<units, faults, database, runtime, packages, history, ins>>

InstallStopsWorker ==
    /\ At("i-stop-worker")
    /\ Stopped({"worker"}) /\ Go("i-pause")
    /\ UNCHANGED <<queued, enabled, timers, native, boot, faults, database, runtime, packages, history, ins>>

InstallPausesTimers ==
    /\ At("i-pause")
    /\ timers' = FALSE /\ Go("i-quiet")
    /\ UNCHANGED <<up, queued, enabled, native, lane, boot, faults, database, runtime, packages, history, ins>>

InstallIsAlone ==
    /\ At("i-quiet") /\ ~native
    /\ Go("i-snapshot")
    /\ UNCHANGED <<units, faults, database, runtime, packages, history, ins>>

\* prepare_mutation: the copy of the database is in the manifest before the
\* state says that anything may change.
SnapshotDatabase ==
    /\ At("i-snapshot")
    /\ ins' = [ins EXCEPT !.db = Database] /\ Go("i-prepare")
    /\ UNCHANGED <<units, faults, database, runtime, packages, history>>

InstallPrepares ==
    /\ At("i-prepare")
    /\ ins.state = "OBSERVING" /\ ins.active
    /\ Ins("PREPARED") /\ Go("i-config")
    /\ UNCHANGED <<units, faults, database, runtime, packages, history>>

\* The configuration is upgraded, the pins of the media packages are published.
InstallConfigures ==
    /\ At("i-config")
    /\ host' = Mixed /\ Go("i-apt")
    /\ UNCHANGED <<units, faults, database, app, tools, packages, history, ins>>

\* apt-get runs under a lock of its own; packages it has are not upgraded.
InstallApt ==
    /\ At("i-apt") /\ child # "running"
    /\ child' = "running" /\ Go("i-apt-wait")
    /\ UNCHANGED <<units, faults, database, runtime, pkgs, history, ins>>

InstallAptEnded ==
    /\ At("i-apt-wait") /\ child # "running"
    /\ IF child = "no" THEN Go("i-build") ELSE Recover
    /\ UNCHANGED <<units, faults, database, runtime, packages, history, ins>>

\* Backend, media tools, scanner and VMAF are built in directories of their
\* own, and the tests of the release pass.
InstallBuilds ==
    /\ At("i-build") /\ Go("i-web")
    /\ UNCHANGED <<units, faults, database, runtime, packages, history, ins>>

\* The web files are published beside the old ones.
InstallPublishesWeb ==
    /\ At("i-web") /\ Go("i-app")
    /\ UNCHANGED <<units, faults, database, runtime, packages, history, ins>>

SwitchApp ==
    /\ At("i-app")
    /\ app' = ins.id /\ Go("i-tools")
    /\ UNCHANGED <<units, faults, database, tools, host, packages, history, ins>>

SwitchTools ==
    /\ At("i-tools")
    /\ tools' = ins.id /\ Go("i-host")
    /\ UNCHANGED <<units, faults, database, app, host, packages, history, ins>>

\* The web pointer, configuration, units, credentials and the proxy.
InstallHost ==
    /\ At("i-host")
    /\ host' = ins.id /\ Go("i-init-db")
    /\ UNCHANGED <<units, faults, database, app, tools, packages, history, ins>>

InitDatabase ==
    /\ At("i-init-db")
    /\ schema' = app /\ Go("i-enable")
    /\ UNCHANGED <<units, faults, job, work, runtime, packages, history, ins>>

\* The doctor is content; units are enabled and started for validation.
InstallEnables ==
    /\ At("i-enable")
    /\ enabled' = enabled \cup Services /\ Go("i-start")
    /\ UNCHANGED <<up, queued, timers, native, lane, boot, faults, database, runtime, packages, history, ins>>

InstallValidates ==
    /\ At("i-start")
    /\ Started(Services) /\ Go("i-stop")
    /\ UNCHANGED <<queued, enabled, timers, native, boot, faults, database, runtime, packages, history, ins>>

InstallStops ==
    /\ At("i-stop")
    /\ Stopped(Services) /\ Go("i-healthy")
    /\ UNCHANGED <<queued, enabled, timers, native, boot, faults, database, runtime, packages, history, ins>>

\* From here on the installation is kept; `recover' finishes it.
InstallHealthy ==
    /\ At("i-healthy")
    /\ ins.state = "PREPARED" /\ ins.active
    /\ Ins("HEALTHY") /\ Recover
    /\ validated' = validated \cup {<<app, tools, pkgs>>}
    /\ UNCHANGED <<units, faults, database, runtime, packages, made>>

InstallLabels == {"i-stop-api", "i-queue", "i-stop-worker", "i-quiet", "i-snapshot", "i-config",
                  "i-apt", "i-build", "i-web", "i-app", "i-tools", "i-host", "i-init-db", "i-enable", "i-start", "i-healthy"}

\* A step fails; the trap of the script recovers.
InstallFails ==
    /\ proc.who = "install" /\ proc.at \in InstallLabels
    /\ faults < MaxFaults /\ faults' = faults + 1
    /\ Recover
    /\ UNCHANGED <<units, database, runtime, packages, history, ins>>

-----------------------------------------------------------------------------
(* InstallTransaction.recover                                                *)

RepairsPackages == ins.state # "OBSERVING"

\* Nothing is recovered beside the installer's apt-get or Debian's updater.
QuiesceChild ==
    /\ At("x-look")
    /\ IF ~InstallMarker THEN Go("x-end") /\ UNCHANGED timers
       ELSE child # "running" /\ timers' = FALSE /\ Go("x-native")
    /\ UNCHANGED <<up, queued, enabled, native, lane, boot, faults, database, runtime, packages, history, ins>>

QuiesceNative ==
    /\ At("x-native") /\ ~native
    /\ child' = IF RepairsPackages THEN "no" ELSE child
    /\ Go("x-decide")
    /\ UNCHANGED <<units, faults, database, runtime, pkgs, history, ins>>

\* Variant: a transaction that is restored is restored again.
DecideAgain ==
    /\ At("x-decide")
    /\ \/ /\ ins.state \in RestorableStates \cup {"RESTORED"}
          /\ Ins("RESTORING") /\ Go("x-stop-back")
       \/ /\ ins.active /\ ins.state = "OBSERVING"
          /\ Ins("RESTORED") /\ Go("x-publish")
       \/ /\ ins.active /\ ins.state = "HEALTHY"
          /\ Go("x-stop-keep") /\ UNCHANGED ins
       \/ /\ ins.state = "COMMITTED"
          /\ Go("x-publish") /\ UNCHANGED ins
    /\ UNCHANGED <<units, faults, database, runtime, packages, history>>

Decide ==
    /\ At("x-decide")
    /\ \/ /\ ins.active /\ ins.state \in RestorableStates
          /\ Ins("RESTORING") /\ Go("x-stop-back")
       \/ /\ ins.active /\ ins.state = "OBSERVING"
          /\ Ins("RESTORED") /\ Go("x-publish")
       \/ /\ ins.active /\ ins.state = "HEALTHY"
          /\ Go("x-stop-keep") /\ UNCHANGED ins
       \/ /\ ins.state \in {"RESTORED", "COMMITTED"}
          /\ Go("x-publish") /\ UNCHANGED ins
    /\ UNCHANGED <<units, faults, database, runtime, packages, history>>

\* stop_runtime
StopRuntime ==
    /\ At("x-stop-back") \/ At("x-stop-keep")
    /\ Stopped(Services) /\ timers' = FALSE
    /\ Go(IF At("x-stop-back") THEN "x-database" ELSE "x-keep")
    /\ UNCHANGED <<queued, enabled, native, boot, faults, database, runtime, packages, history, ins>>

\* Variant: the database keeps what the new backend made of it.
RestoreKeepsDatabase ==
    /\ At("x-database") /\ Go("x-host")
    /\ UNCHANGED <<units, faults, database, runtime, packages, history, ins>>

\* The old database comes back before the old backend.
RestoreDatabase ==
    /\ At("x-database")
    /\ ins.db # Planned
    /\ job' = ins.db.job /\ work' = ins.db.work /\ schema' = ins.db.schema
    /\ Go("x-host")
    /\ UNCHANGED <<units, faults, runtime, packages, history, ins>>

\* Variant: the files of the host are not restored.
RestoreForgetsHost ==
    /\ At("x-host") /\ Go("x-app")
    /\ UNCHANGED <<units, faults, database, runtime, packages, history, ins>>

\* The files of the host, then the two pointers.
RestoreHost ==
    /\ At("x-host")
    /\ host' = ins.host /\ Go("x-app")
    /\ UNCHANGED <<units, faults, database, app, tools, packages, history, ins>>

RestoreApp ==
    /\ At("x-app")
    /\ app' = ins.app /\ Go("x-tools")
    /\ UNCHANGED <<units, faults, database, tools, host, packages, history, ins>>

RestoreTools ==
    /\ At("x-tools")
    /\ tools' = ins.tools /\ Go("x-enable")
    /\ UNCHANGED <<units, faults, database, app, host, packages, history, ins>>

RestoreEnablement ==
    /\ At("x-enable")
    /\ enabled' = ins.enabled /\ Go("x-restored")
    /\ UNCHANGED <<up, queued, timers, native, lane, boot, faults, database, runtime, packages, history, ins>>

Restored ==
    /\ At("x-restored")
    /\ Ins("RESTORED") /\ Go("x-publish")
    /\ UNCHANGED <<units, faults, database, runtime, packages, history>>

\* A target cannot be restored: the transaction stays, for the next attempt.
RestoreFails ==
    /\ proc.at \in {"x-stop-back", "x-database", "x-host", "x-app", "x-tools", "x-enable"}
    /\ faults < MaxFaults /\ faults' = faults + 1
    /\ Ins("RECOVERY_REQUIRED") /\ End(FALSE)
    /\ UNCHANGED <<up, queued, enabled, timers, native, lane, database, runtime, packages, history>>

\* finalize_healthy_enablement: the application's units are all enabled.
KeepEnablement ==
    /\ At("x-keep")
    /\ enabled' = Services \cup (ins.enabled \cap {"timers"}) /\ Go("x-commit")
    /\ UNCHANGED <<up, queued, timers, native, lane, boot, faults, database, runtime, packages, history, ins>>

InstallCommits ==
    /\ At("x-commit")
    /\ Ins("COMMITTED") /\ Go("x-publish")
    /\ UNCHANGED <<units, faults, database, runtime, packages, history>>

\* The markers change hands: services-pending is there before active is gone.
PublishPending ==
    /\ At("x-publish")
    /\ ins' = [ins EXCEPT !.pending = TRUE] /\ Go("x-clear")
    /\ UNCHANGED <<units, faults, database, runtime, packages, history>>

ClearActive ==
    /\ At("x-clear")
    /\ ins' = [ins EXCEPT !.active = FALSE] /\ Go("x-units")
    /\ UNCHANGED <<units, faults, database, runtime, packages, history>>

\* restore_active_unit_states or start_healthy_units; in the gate of a boot
\* the start waits for the gate.
StartUnits ==
    /\ At("x-units")
    /\ LET wanted == IF ins.state = "COMMITTED" THEN Services ELSE ins.up
       IN  IF boot = "gate" THEN queued' = wanted /\ UNCHANGED <<up, lane>>
           ELSE /\ up' = wanted
                /\ lane' = IF "worker" \notin wanted THEN "off"
                           ELSE IF "worker" \notin up THEN "idle" ELSE lane
                /\ UNCHANGED queued
    /\ timers' = ins.timers
    /\ Go("x-done")
    /\ UNCHANGED <<enabled, native, boot, faults, database, runtime, packages, history, ins>>

ClearPending ==
    /\ At("x-done")
    /\ ins' = [ins EXCEPT !.pending = FALSE] /\ Go("x-end")
    /\ UNCHANGED <<units, faults, database, runtime, packages, history>>

\* What called the recovery goes on: with the media update (`unfinished'), or
\* with the work it came for.
InstallRecovered(unfinished) ==
    /\ At("x-end")
    /\ IF proc.next = "exit" THEN End(TRUE)
       ELSE IF unfinished THEN Go("r-pause") /\ UNCHANGED boot
       ELSE IF proc.next \in {"u-begin", "i-begin"}
            THEN proc' = [proc EXCEPT !.at = proc.next, !.next = "exit"] /\ UNCHANGED boot
       ELSE End(TRUE)
    /\ UNCHANGED <<up, queued, enabled, timers, native, lane, faults, database, runtime, packages, history, ins>>

InstallNext ==
    \/ InstallBegins \/ InstallStopsApi \/ InstallLooksAtQueue \/ InstallStopsWorker
    \/ InstallPausesTimers \/ InstallIsAlone \/ SnapshotDatabase \/ InstallPrepares
    \/ InstallConfigures \/ InstallApt \/ InstallAptEnded \/ InstallBuilds \/ InstallPublishesWeb
    \/ SwitchApp \/ SwitchTools
    \/ InstallHost \/ InitDatabase \/ InstallEnables \/ InstallValidates \/ InstallStops
    \/ InstallHealthy

InstallRecoveryNext ==
    \/ QuiesceChild \/ QuiesceNative \/ Decide \/ StopRuntime
    \/ RestoreDatabase \/ RestoreHost \/ RestoreApp \/ RestoreTools \/ RestoreEnablement
    \/ Restored \/ KeepEnablement \/ InstallCommits
    \/ PublishPending \/ ClearActive \/ StartUnits \/ ClearPending
=============================================================================
