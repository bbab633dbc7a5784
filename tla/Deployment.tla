---------------------------- MODULE Deployment ----------------------------
(* The installer and the media updater on one machine, with the recovery     *)
(* that systemd starts: the gate of a boot, which never waits for the lock,  *)
(* and the finalizer, which a path unit starts as long as a marker exists.   *)
EXTENDS MediaUpdate, Installation

deployment == <<proc, units, faults, database, runtime, packages, history, media, ins>>

\* The markers the worker and recovery-check look for.
Published == ins.active \/ MediaMarker

Init == HostInit /\ MediaInit /\ InstallInit

-----------------------------------------------------------------------------
(* update-recover.sh                                                         *)

RecoveryStarts(who) ==
    proc' = [who |-> who, at |-> "x-look", next |-> "finalize", keep |-> FALSE]

\* Variant: the path unit does not watch the marker services-pending.
FinalizerStartsForActive ==
    /\ Published
    /\ proc.who = "none" /\ boot \in {"done", "failed"}
    /\ RecoveryStarts("finalize")
    /\ UNCHANGED <<units, faults, database, runtime, packages, history, media, ins>>

\* The path unit sees a marker; the finalizer waits for the lock.
FinalizerStarts ==
    /\ Published \/ ins.pending
    /\ proc.who = "none" /\ boot \in {"done", "failed"}
    /\ RecoveryStarts("finalize")
    /\ UNCHANGED <<units, faults, database, runtime, packages, history, media, ins>>

GateStarts ==
    /\ boot = "gate" /\ proc.who = "none"
    /\ RecoveryStarts("gate")
    /\ UNCHANGED <<units, faults, database, runtime, packages, history, media, ins>>

-----------------------------------------------------------------------------
JobSteps   == Look(Published) \/ Claim(Published) \/ LeaveJob \/ Request
SystemSteps == BootUnits(Published) \/ NativeStart(Published) \/ NativeEnd \/ ChildEnds
Disturbances == WorkerDies(Published) \/ Kill \/ Reboot

Next ==
    \/ JobSteps /\ UNCHANGED <<media, ins>>
    \/ SystemSteps /\ UNCHANGED <<media, ins>>
    \/ Disturbances /\ UNCHANGED <<media, ins>>
    \/ UpdateStarts(Published \/ ins.pending) /\ UNCHANGED ins
    \/ InstallStarts(Published \/ ins.pending) /\ UNCHANGED media
    \/ (UpdateNext \/ RuntimeRecoveryNext) /\ UNCHANGED ins
    \/ (UpdateFails \/ AptRollbackFails \/ RecoveryFails) /\ UNCHANGED ins
    \/ (InstallNext \/ InstallRecoveryNext \/ InstallRecovered(HasJournal)) /\ UNCHANGED media
    \/ (InstallFails \/ RestoreFails) /\ UNCHANGED media
    \/ FinalizerStarts \/ GateStarts

\* A script that runs goes on, so do systemd and what it started; nobody has
\* to start an update, and nothing has to fail.
ScriptSteps ==
    \/ (UpdateNext \/ RuntimeRecoveryNext) /\ UNCHANGED ins
    \/ (InstallNext \/ InstallRecoveryNext \/ InstallRecovered(HasJournal)) /\ UNCHANGED media

Spec == Init /\ [][Next]_deployment
FairSpec ==
    /\ Spec
    /\ WF_deployment(ScriptSteps)
    /\ WF_deployment(FinalizerStarts) /\ WF_deployment(GateStarts)
    /\ WF_deployment(NativeEnd /\ UNCHANGED <<media, ins>>)
    /\ WF_deployment(ChildEnds /\ UNCHANGED <<media, ins>>)
    /\ WF_deployment(BootUnits(Published) /\ UNCHANGED <<media, ins>>)

-----------------------------------------------------------------------------
(* A job that the worker has in hand is left alone: only a fault stops the   *)
(* worker, and nothing of the installed software changes under it.           *)
(* claim_lane looks for the markers again under the lock, an updater gives   *)
(* up when the queue has a job in progress, and what it has touched by then  *)
(* is put back without stopping the worker.                                  *)
JobsAreLeftAlone ==
    [][lane = "working" =>
        /\ UNCHANGED Runtime
        /\ lane' = "off" => faults' # faults]_deployment

(* When no marker is left, what is installed is a combination that an        *)
(* updater has tried out, or the first one: after every crash the recoveries *)
(* put back all parts or keep all parts.  The directory the tools point to   *)
(* is there, and dpkg is not in the middle of anything.  A package           *)
(* transaction always has the journal that finishes it, so an emergency      *)
(* recovery never has to make one up.                                        *)
RestIsValidated ==
    /\ apt.active => HasJournal
    /\ ~Published =>
         /\ <<app, tools, pkgs>> \in validated
         /\ host = app /\ schema = app
         /\ tools = app \/ dir[tools] = "tested"
         /\ child # "half"

(* The backend that the pointer names never meets a database of a newer      *)
(* schema: the schema is migrated after the switch, and recover restores the *)
(* database before the pointer, so a crash between them leaves what can      *)
(* still be migrated.                                                        *)
OldBackendNeverSeesNewSchema == schema <= app

(* Between crashes no half of an update is ever used, in the software or in  *)
(* the database.                                                             *)
NoHalfIsUsed == RestIsValidated /\ OldBackendNeverSeesNewSchema

(* Two package managers never run at once: Debian's own updater, the one of  *)
(* the installer (which outlives a killed script) and the media transaction. *)
OnePackageManager ==
    Cardinality({m \in {1, 2, 3} :
        \/ m = 1 /\ native
        \/ m = 2 /\ child = "running"
        \/ m = 3 /\ At("u-applied")
        \/ m = 3 /\ At("r-rollback")}) <= 1

(* The result of a finished job is never lost to an updater, even when the   *)
(* installer puts back its copy of the database.                             *)
WorkIsKept == [][work' >= work]_deployment

(* Whatever was interrupted, the machine comes to rest without a marker and  *)
(* with its services up.                                                     *)
AtRest == ~Published /\ ~ins.pending /\ proc.who = "none" /\ enabled \cap Services \subseteq up
ServicesComeBack == <>[]AtRest

-----------------------------------------------------------------------------
(* The runtime on which the machine will settle, as its journals say.        *)

InstallGoesBack == ins.active /\ ins.state \in RestorableStates
PackagesGoBack  == apt.active /\ apt.state \in AptRecoverable

Settled == [
    app    |-> IF InstallGoesBack THEN ins.app ELSE app,
    host   |-> IF InstallGoesBack THEN ins.host ELSE host,
    schema |-> IF InstallGoesBack THEN ins.db.schema ELSE schema,
    pkgs   |-> IF PackagesGoBack /\ ~PackageCommitted THEN apt.old ELSE pkgs,
    tools  |-> IF InstallGoesBack THEN ins.tools
               ELSE IF ~HasJournal THEN tools
               ELSE IF KeepCandidate /\ journal.cand # NoRelease THEN journal.cand
               ELSE journal.prev ]

Atomic == INSTANCE AtomicRuntime
    WITH Parts <- {"app", "host", "schema", "pkgs", "tools"},
         Kits <- {{"app", "host", "schema", "tools"}, {"tools"}, {"pkgs", "tools"}},
         current <- Settled

(* The installer and the media updater implement an atomic change of the     *)
(* runtime, across failures, kills and reboots at every step.                *)
ImplementsAtomicRuntime == Atomic!Spec
=============================================================================
