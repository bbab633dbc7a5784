-------------------------------- MODULE Host --------------------------------
(* The machine on which BDEncode is installed, as its updaters see it: the   *)
(* deployment lock and the script that holds it, the units of systemd, the   *)
(* lane of the worker that claims jobs, the database, the pointers to the    *)
(* installed releases and the packages of Debian.  A release is a number;    *)
(* 0 is what is installed at first.                                          *)
EXTENDS Integers, FiniteSets

CONSTANTS MaxReleases,  \* releases an updater or the installer may build
          MaxFaults,    \* failures, kills and reboots
          MaxJobs       \* jobs the worker may finish

ASSUME HostAssumption == MaxReleases \in Nat /\ MaxFaults \in Nat /\ MaxJobs \in Nat

VARIABLES
    proc,       \* the script that holds the deployment lock and where it stands
    up,         \* the services that run
    queued,     \* the services whose start waits for the gate of a boot
    enabled,    \* the services, and Debian's timers, that start with the machine
    timers,     \* are the timers of Debian's own updater active?
    native,     \* does Debian's own updater run?
    lane,       \* what the worker does
    boot,       \* has the recovery gate of this boot passed?
    faults,
    job,        \* database: the one job of the queue
    work,       \* database: the number of jobs whose results are recorded
    schema,     \* database: the release whose schema it has
    app,        \* release of the backend
    tools,      \* release of the media tools
    host,       \* release of the host's configuration, units and web files
    pkgs,       \* version of the media packages
    child,      \* apt-get of the installer, which outlives its script
    made,       \* the newest release number
    validated   \* history: runtimes that passed the checks of their updater

units    == <<up, queued, enabled, timers, native, lane, boot>>
database == <<job, work, schema>>
runtime  == <<app, tools, host>>
packages == <<pkgs, child>>
history  == <<made, validated>>

Services == {"api", "worker"}
Releases == 0 .. MaxReleases
Mixed    == -1          \* partly one version, partly another
NoRelease == -1

(* Jobs as the deployment sees them: waiting to be claimed, claimed, or in   *)
(* one of the states in which the pipeline waits for the operator.           *)
Jobs == {"none", "waiting", "active", "pause"}

Nobody == [who |-> "none", at |-> "end", next |-> "exit", keep |-> FALSE]
Scripts == {"update", "install", "finalize", "gate"}

At(l)  == proc.who # "none" /\ proc.at = l
Go(l)  == proc' = [proc EXCEPT !.at = l]
Runtime == <<app, tools, host, pkgs, child, schema>>

HostInit ==
    /\ proc = Nobody
    /\ enabled \in {Services \cup {"timers"}, {"api"}}
    /\ up = enabled \cap Services /\ queued = {}
    /\ timers = ("timers" \in enabled)
    /\ native = FALSE
    /\ lane = IF "worker" \in up THEN "idle" ELSE "off"
    /\ boot = "done"
    /\ faults = 0
    /\ job = "none" /\ work = 0 /\ schema = 0
    /\ app = 0 /\ tools = 0 /\ host = 0
    /\ pkgs = 0 /\ child = "no"
    /\ made = 0 /\ validated = {<<0, 0, 0>>}

-----------------------------------------------------------------------------
(* The worker and the API.  `published' says whether a marker of a           *)
(* maintenance transaction exists.                                           *)

\* The first look of claim_lane, before the lock.
Look(published) ==
    /\ lane = "idle" /\ ~published
    /\ lane' = "looked"
    /\ UNCHANGED <<proc, up, queued, enabled, timers, native, boot, faults, database, runtime, packages, history>>

\* The rest of claim_lane under the shared lock: look again, then take the
\* job in progress or claim the next one.
Claim(published) ==
    /\ lane = "looked" /\ proc.who = "none"
    /\ \/ /\ ~published /\ job \in {"waiting", "active"}
          /\ lane' = "working" /\ job' = "active"
       \/ /\ published \/ job \notin {"waiting", "active"}
          /\ lane' = "idle" /\ UNCHANGED job
    /\ UNCHANGED <<proc, up, queued, enabled, timers, native, boot, faults, work, schema, runtime, packages, history>>

\* process_job ends: the job is done, or waits for the operator.
LeaveJob ==
    /\ lane = "working"
    /\ lane' = "idle"
    /\ \/ job' = "none" /\ work < MaxJobs /\ work' = work + 1
       \/ job' = "pause" /\ UNCHANGED work
    /\ UNCHANGED <<proc, up, queued, enabled, timers, native, boot, faults, schema, runtime, packages, history>>

\* The operator submits a job or answers the pause, through the API.
Request ==
    /\ "api" \in up
    /\ \/ job = "none" /\ work < MaxJobs /\ job' = "waiting"
       \/ job = "pause" /\ job' = "active"
    /\ UNCHANGED <<proc, units, faults, work, schema, runtime, packages, history>>

-----------------------------------------------------------------------------
(* systemd.                                                                  *)

Started(ss) == /\ up' = up \cup ss
               /\ lane' = IF "worker" \in ss /\ "worker" \notin up THEN "idle" ELSE lane
Stopped(ss) == /\ up' = up \ ss
               /\ lane' = IF "worker" \in ss THEN "off" ELSE lane

\* The worker dies; Restart=on-failure starts it again unless its condition
\* (recovery-check --runtime) forbids it: no marker, or a script at work
\* that holds the lock.
WorkerDies(published) ==
    /\ "worker" \in up /\ faults < MaxFaults
    /\ faults' = faults + 1
    /\ IF published /\ proc.who = "none"
         THEN Stopped({"worker"})
         ELSE lane' = "idle" /\ UNCHANGED up
    /\ UNCHANGED <<proc, queued, enabled, timers, native, boot, database, runtime, packages, history>>

\* After a boot whose gate passed, the enabled units start, under the same
\* condition.
BootUnits(published) ==
    /\ boot = "passed"
    /\ IF published /\ proc.who = "none"
         THEN UNCHANGED <<up, lane>> ELSE Started(queued)
    /\ boot' = "done" /\ queued' = {}
    /\ UNCHANGED <<proc, enabled, timers, native, faults, database, runtime, packages, history>>

\* apt-daily: started by its timer if the condition recovery-check --apt and
\* the order after the gate allow it.
NativeStart(published) ==
    /\ timers /\ ~native /\ ~published /\ boot = "done" /\ child # "running"
    /\ native' = TRUE
    /\ UNCHANGED <<proc, up, queued, enabled, timers, lane, boot, faults, database, runtime, packages, history>>

NativeEnd ==
    /\ native /\ native' = FALSE
    /\ UNCHANGED <<proc, up, queued, enabled, timers, lane, boot, faults, database, runtime, packages, history>>

\* The installer's apt-get ends; without its script it may leave packages
\* unconfigured.
ChildEnds ==
    /\ child = "running"
    /\ child' \in {"no", "half"}
    /\ UNCHANGED <<proc, units, faults, database, runtime, pkgs, history>>

-----------------------------------------------------------------------------
(* The end of a script that did not finish.                                  *)

\* SIGKILL: the lock is free, everything else is as it was.  (The gate of a
\* boot fails by its steps only.)
Kill ==
    /\ proc.who \notin {"none", "gate"} /\ faults < MaxFaults
    /\ faults' = faults + 1
    /\ proc' = Nobody
    /\ UNCHANGED <<units, database, runtime, packages, history>>

\* The machine goes down and comes up; nothing runs before the gate.
Reboot ==
    /\ faults < MaxFaults /\ boot # "gate"
    /\ faults' = faults + 1
    /\ proc' = Nobody
    /\ up' = {} /\ queued' = enabled \cap Services
    /\ lane' = "off" /\ native' = FALSE /\ boot' = "gate"
    /\ timers' = ("timers" \in enabled)
    /\ child' = IF child = "running" THEN "half" ELSE child
    /\ UNCHANGED <<enabled, database, runtime, pkgs, history>>

\* The script ends and releases the lock.  A gate tells systemd how it ended;
\* once a finalizer has done its work, the gate passes when a unit asks again.
End(ok) == /\ proc' = Nobody
           /\ boot' = CASE proc.who = "gate" /\ ok -> "passed"
                        [] proc.who = "gate" /\ ~ok -> "failed"
                        [] proc.who # "gate" /\ ok /\ boot = "failed" -> "done"
                        [] OTHER -> boot
=============================================================================
