-------------------------- MODULE DeploymentProofs --------------------------
(* The machine is whole whenever no marker is left, package managers exclude *)
(* each other, no finished work is lost, a job in progress is left alone,    *)
(* and the two updaters replace the runtime atomically: for any releases,    *)
(* failures, kills, reboots and jobs.                                        *)
(*                                                                           *)
(* DInv says what the journals tell about the machine (Apart, InsSaved,      *)
(* MediaSaved, PackagesTrue) and what a script knows at each of its places   *)
(* (InsPlace, RecoverPlace, UpdatePlace, BackPlace).  A kill or a reboot     *)
(* leaves only the first; every step of a recovery has to earn the second    *)
(* from it again.                                                            *)
EXTENDS Deployment, FiniteSetTheorems, TLAPS

-----------------------------------------------------------------------------
(* The inductive invariant: types, the journals, and the places of a script. *)

\* The places by what is known there: "i-" is the installer, "x-" its recovery,
\* "u-" the media updater and "r-" its recovery.
ObservingAt == {"i-stop-api", "i-queue", "i-stop-worker", "i-pause", "i-quiet", "i-snapshot",
                "i-prepare"}
AfterHost == {"i-enable", "i-start", "i-stop", "i-healthy"}
Switched  == {"i-tools", "i-host", "i-init-db"} \cup AfterHost
Untouched == {"i-config", "i-apt", "i-apt-wait", "i-build", "i-web", "i-app"}
PreparedAt == Untouched \cup Switched
RestoringAt == {"x-stop-back", "x-database", "x-host", "x-app", "x-tools", "x-enable", "x-restored"}
KeepingAt == {"x-stop-keep", "x-keep", "x-commit"}
InstallAt == ObservingAt \cup PreparedAt \cup RestoringAt \cup KeepingAt \cup
             {"i-begin", "x-look", "x-native", "x-decide", "x-publish", "x-clear", "x-units",
              "x-done", "x-end"}
BegunAt == {"u-stop-api", "u-queue", "u-stop-worker", "u-pause", "u-quiet", "u-prepare",
            "u-publish", "u-prepared"}
ApplyAt == {"u-apply", "u-applied", "u-validate", "u-stage"}
StageAt == {"u-build", "u-test", "u-remove", "u-discard", "u-activating"}
TryAt   == {"u-start", "u-stop", "u-healthy"}
CommitAt == {"u-apt-commit", "u-apt-clear", "u-commit"}
ForwardAt == BegunAt \cup ApplyAt \cup StageAt \cup {"u-switch"} \cup TryAt \cup CommitAt
BackAt == {"r-apt", "r-rollback", "r-clear-apt", "r-forth", "r-doctor"}
EndAt == {"r-timers", "r-units", "r-clear"}
MediaAt == ForwardAt \cup BackAt \cup EndAt \cup
           {"u-begin", "r-pause", "r-quiet", "r-look", "r-stop", "r-back", "r-end"}
Nexts == {"exit", "u-begin", "i-begin", "finalize"}

\* Types.
Procs == [who : {"none"} \cup Scripts, at : InstallAt \cup MediaAt \cup {"end"}, next : Nexts, keep : BOOLEAN]
JournalRecords == [state : JournalStates, id : Nat, prev : Nat, cand : Int, activated : BOOLEAN,
                   changed : BOOLEAN, up : SUBSET Services, timers : BOOLEAN]
AptStates == AptRecoverable \cup AptFinal \cup {"PREPARED"}
AptRecords == [id : Int, state : AptStates, active : BOOLEAN, old : Int]
Snapshots == [kind : {"file"}, job : Jobs, work : Nat, schema : Nat]
InsRecords == [state : InstallStates, active : BOOLEAN, pending : BOOLEAN, id : Nat, app : Nat, tools : Nat,
               host : Int, db : {Planned} \cup Snapshots, up : SUBSET Services,
               enabled : SUBSET (Services \cup {"timers"}), timers : BOOLEAN]

UnitsTyped ==
    /\ up \in SUBSET Services /\ queued \in SUBSET Services /\ enabled \in SUBSET (Services \cup {"timers"})
    /\ timers \in BOOLEAN /\ native \in BOOLEAN
    /\ lane \in {"off", "idle", "looked", "working"} /\ job \in Jobs

DataTyped ==
    /\ work \in Nat /\ child \in {"no", "running", "half"}
    /\ made \in Releases
    /\ app \in 0..made /\ tools \in 0..made /\ schema \in Nat /\ host \in Int /\ pkgs \in -1..made
    /\ journal \in {NoJournal} \cup JournalRecords
    /\ apt \in AptRecords /\ apt.id \in -1..made /\ apt.old \in -1..made
    /\ ins \in InsRecords /\ ins.id <= made
    /\ dir \in [Releases -> {"none", "partial", "tested"}]

Typed == proc \in Procs /\ UnitsTyped /\ DataTyped

Working == ForwardAt \cup ObservingAt \cup PreparedAt

\* A script that will build a release, or is about to, has a number for it.
AimOK(l, next) ==
    /\ l \in {"u-begin", "i-begin"} \cup Working => next = "exit"
    /\ next \in {"u-begin", "i-begin"} \/ l \in {"u-begin", "i-begin"} => made < MaxReleases

Aims ==
    /\ proc.who # "none" => AimOK(proc.at, proc.next)
    /\ proc.who = "none" => proc.at = "end"

\* The tools of an installation are its own, or were tried out.
Usable(a, t) == t = a \/ dir[t] = "tested"

\* What is installed belongs together.
Sound ==
    /\ <<app, tools, pkgs>> \in validated
    /\ host = app /\ schema = app /\ Usable(app, tools) /\ child = "no"

Restoring == ins.active /\ ins.state \in RestorableStates

\* The two transactions exclude each other.
Apart ==
    /\ apt.active => HasJournal
    /\ HasJournal => ~InstallMarker
    /\ ~ins.active => ins.state \in {"RESTORED", "COMMITTED"}
    /\ ~HasJournal /\ ~Restoring => Sound

\* What the installer has put away is whole, and as it was.
InsSaved ==
    /\ ins.active /\ ins.state = "OBSERVING" =>
         /\ ins.app = app /\ ins.tools = tools /\ ins.host = host
         /\ app < ins.id /\ tools < ins.id /\ pkgs < ins.id
    /\ Restoring =>
         /\ <<ins.app, ins.tools, pkgs>> \in validated
         /\ ins.host = ins.app /\ Usable(ins.app, ins.tools)
         /\ ins.db \in Snapshots /\ ins.db.schema = ins.app /\ ins.db.work = work
         /\ ins.app < ins.id /\ ins.tools < ins.id /\ pkgs < ins.id
         /\ app \in {ins.app, ins.id} /\ schema \in {ins.app, app}
         /\ lane # "working" /\ ~native

ChildAlone == child = "running" => Restoring /\ ins.state = "PREPARED"

\* What the installer knows at a place, and its recovery.
InsPlace(l) ==
    /\ l \in {"i-begin", "u-begin"} => ~Published /\ ~ins.pending
    /\ l \in ObservingAt => ins.active /\ ins.state = "OBSERVING"
    /\ l \in {"i-pause", "i-quiet", "i-snapshot", "i-prepare"} => lane # "working"
    /\ l \in {"i-snapshot", "i-prepare"} => ~native
    /\ l \in {"i-prepare"} => ins.db \in Snapshots /\ ins.db.schema = schema /\ ins.db.work = work
    /\ l \in PreparedAt => ins.active /\ ins.state = "PREPARED"
    /\ l \in PreparedAt \ {"i-apt-wait"} => child = "no"
    /\ l \in Untouched => app = ins.app
    /\ l \in Switched => app = ins.id
    /\ l \in Switched \ {"i-tools"} => tools = ins.id
    /\ l \in {"i-init-db"} \cup AfterHost => host = ins.id
    /\ l \in AfterHost => schema = app

RecoverPlace(l) ==
    /\ l \in {"x-native", "x-decide", "x-publish"} => InstallMarker /\ child # "running"
    /\ l \in {"x-decide"} => (ins.active => ~native) /\ child = "no"
    /\ l \in RestoringAt => ins.active /\ ins.state = "RESTORING" /\ child = "no"
    /\ l \in {"x-host", "x-app", "x-tools", "x-enable", "x-restored"} => schema = ins.app
    /\ l \in {"x-app", "x-tools", "x-enable", "x-restored"} => host = ins.host
    /\ l \in {"x-tools", "x-enable", "x-restored"} => app = ins.app
    /\ l \in {"x-enable", "x-restored"} => tools = ins.tools
    /\ l \in KeepingAt => ins.active /\ ins.state = "HEALTHY"
    /\ l \in {"x-publish", "x-clear", "x-units", "x-done"} => ins.state \in {"RESTORED", "COMMITTED"} /\ ~HasJournal
    /\ l \in {"x-clear"} => ins.pending
    /\ l \in {"x-units", "x-done"} => ~ins.active
    /\ l \in {"x-end"} => ~InstallMarker

\* What the journal of a media update says of the tools, ...
Mine == apt.id = journal.id
OldPkgs == IF Mine THEN apt.old ELSE pkgs
Target == IF journal.cand # NoRelease THEN journal.cand ELSE journal.prev

MediaSaved == HasJournal =>
    /\ app = host /\ schema = app /\ child = "no"
    /\ journal.id \in Releases /\ journal.id <= made
    /\ journal.prev < journal.id /\ app < journal.id /\ OldPkgs < journal.id
    /\ journal.cand \in {NoRelease, journal.id}
    /\ <<app, journal.prev, OldPkgs>> \in validated /\ Usable(app, journal.prev)
    /\ tools \in {journal.prev, journal.cand}
    /\ apt.active => Mine
    /\ journal.changed => Mine /\ journal.state # "BEGUN"
    /\ Mine /\ ~journal.changed => journal.state = "BEGUN" /\ apt.state \in {"PREPARED", "ABORTED"}
    /\ journal.state \in {"BEGUN", "APT_PREPARED", "STAGING"} => tools = journal.prev
    /\ journal.state = "BEGUN" => journal.cand = NoRelease
    /\ journal.state = "COMMITTED" => ~apt.active /\ KeepCandidate
    /\ KeepCandidate => Sound /\ tools = Target
    /\ journal.state # "BEGUN" \/ apt.active => ~native

\* ... and the one of its packages of these.
PackagesTrue == HasJournal /\ Mine =>
    /\ apt.state \in {"PREPARED", "ABORTED", "ROLLED_BACK"} => pkgs = apt.old
    /\ apt.state \in {"APPLIED", "VALIDATING", "COMMITTED"} => pkgs = apt.id
    /\ apt.state = "COMMITTED" => journal.state \in {"HEALTHY", "COMMITTED"}
    /\ journal.changed /\ ~apt.active => apt.state \in AptFinal

\* What the media updater knows at a place, and its recovery.
BegunPlace(l) ==
    /\ l \in ForwardAt => HasJournal
    /\ l \in BegunAt => journal.state = "BEGUN"
    /\ l \in BegunAt \ {"u-prepared"} => ~apt.active
    /\ l \in BegunAt \ {"u-publish", "u-prepared"} => ~Mine
    /\ l \in {"u-prepare", "u-publish", "u-prepared"} => ~native
    /\ l \in {"u-publish"} => Mine /\ apt.state = "PREPARED"
    /\ l \in {"u-prepared"} /\ apt.active => apt.state = "PREPARED"
    /\ l \in {"u-prepared"} /\ ~apt.active => ~Mine

BuildPlace(l) ==
    /\ l \in ApplyAt => journal.state = "APT_PREPARED" /\ journal.cand = NoRelease
    /\ l \in ApplyAt \cup StageAt \cup {"u-switch"} \cup TryAt => (apt.active <=> journal.changed)
    /\ l \in {"u-apply", "u-applied", "u-validate"} => apt.active
    /\ l \in {"u-apply"} => apt.state = "PREPARED"
    /\ l \in {"u-applied"} => apt.state = "APPLYING"
    /\ l \in {"u-validate"} => apt.state = "APPLIED"
    /\ l \in {"u-stage", "u-switch", "u-apt-commit"} \cup StageAt \cup TryAt => (journal.changed => apt.state = "VALIDATING")
    /\ l \in StageAt => journal.state = "STAGING" /\ journal.cand = journal.id
    /\ l \in {"u-remove", "u-discard"} => ~journal.changed
    /\ l \in {"u-activating", "u-switch"} => dir[journal.cand] = "tested"
    /\ l \in {"u-switch"} => journal.state = "ACTIVATING" /\ journal.cand = journal.id
    /\ l \in TryAt =>
         \/ journal.state = "ACTIVATING" /\ tools = journal.cand /\ journal.cand = journal.id /\ dir[tools] = "tested"
         \/ journal.state = "APT_PREPARED" /\ ~journal.changed /\ journal.cand = NoRelease
    /\ l \in CommitAt => journal.state = "HEALTHY" /\ Sound /\ tools = Target
    /\ l \in {"u-apt-commit", "u-apt-clear"} => journal.changed /\ apt.active
    /\ l \in {"u-apt-clear"} => apt.state = "COMMITTED"
    /\ l \in {"u-commit"} => ~apt.active /\ KeepCandidate

UpdatePlace(l) == BegunPlace(l) /\ BuildPlace(l)

BackPlace(l, keep) ==
    /\ l \in {"r-pause", "r-quiet", "r-stop", "r-back"} \cup BackAt \cup EndAt => HasJournal
    /\ l \in {"r-look", "r-end"} => ~InstallMarker
    /\ l \in {"r-stop", "r-back"} \cup BackAt => ~native
    /\ l \in {"r-back"} \cup BackAt => (keep <=> KeepCandidate)
    /\ l \in BackAt => keep \/ tools = journal.prev
    /\ l \in {"r-rollback"} => ~keep /\ apt.active /\ apt.state = "ROLLING_BACK"
    /\ l \in {"r-clear-apt"} => apt.state \in AptFinal
    /\ l \in {"r-forth", "r-doctor"} \cup EndAt => ~apt.active
    /\ l \in EndAt => Sound
    /\ l \in {"r-end"} => ~HasJournal

Core == Apart /\ InsSaved /\ ChildAlone /\ MediaSaved /\ PackagesTrue

PlaceOK(l, keep) ==
    /\ child = "running" => l \in {"i-apt-wait", "x-look"}
    /\ InsPlace(l) /\ RecoverPlace(l) /\ UpdatePlace(l) /\ BackPlace(l, keep)

Places == proc.who # "none" => PlaceOK(proc.at, proc.keep)

DInv == Typed /\ Aims /\ Core /\ Places

-----------------------------------------------------------------------------
\* What is installed, and the journals, stay as they are; no package manager
\* starts and no job is taken up.
Still ==
    /\ UNCHANGED <<work, schema, runtime, packages, history, media, ins>>
    /\ native' => native
    /\ lane' = "working" => lane = "working"

LEMMA StillSame ==
    ASSUME Still
    PROVE  /\ schema' = schema /\ app' = app /\ tools' = tools /\ host' = host /\ pkgs' = pkgs
           /\ child' = child /\ made' = made /\ validated' = validated /\ journal' = journal
           /\ apt' = apt /\ dir' = dir /\ ins' = ins /\ work' = work
           /\ native' => native
           /\ lane' = "working" => lane = "working"
BY DEF Still, runtime, packages, history, media

LEMMA StillHelpers ==
    ASSUME Still
    PROVE  /\ Sound' <=> Sound
           /\ HasJournal' <=> HasJournal
           /\ InstallMarker' <=> InstallMarker
           /\ Restoring' <=> Restoring
           /\ Published' <=> Published
           /\ KeepCandidate' <=> KeepCandidate
           /\ Mine' <=> Mine
           /\ OldPkgs' = OldPkgs /\ Target' = Target
           /\ Usable(app, journal.prev)' <=> Usable(app, journal.prev)
           /\ Usable(ins.app, ins.tools)' <=> Usable(ins.app, ins.tools)
<1>1. /\ Sound' <=> Sound
      /\ Usable(app, journal.prev)' <=> Usable(app, journal.prev)
      /\ Usable(ins.app, ins.tools)' <=> Usable(ins.app, ins.tools)
  BY StillSame DEF Sound, Usable
<1>2. /\ HasJournal' <=> HasJournal
      /\ InstallMarker' <=> InstallMarker
      /\ Restoring' <=> Restoring
      /\ Published' <=> Published
  BY StillSame DEF HasJournal, InstallMarker, Restoring, Published, MediaMarker
<1>3. /\ KeepCandidate' <=> KeepCandidate
      /\ Mine' <=> Mine
      /\ OldPkgs' = OldPkgs /\ Target' = Target
  BY StillSame, <1>2 DEF KeepCandidate, PackageCommitted, PackagesChanged, Mine, OldPkgs, Target
<1> QED BY <1>1, <1>2, <1>3

LEMMA StillCore ==
    ASSUME Core, Still PROVE Core'
<1>1. Apart'
  BY StillSame, StillHelpers DEF Core, Apart
<1>2. InsSaved' /\ ChildAlone'
  BY StillSame, StillHelpers DEF Core, InsSaved, ChildAlone
<1>3. MediaSaved'
  BY StillSame, StillHelpers DEF Core, MediaSaved
<1>4. PackagesTrue'
  BY StillSame, StillHelpers DEF Core, PackagesTrue
<1> QED BY <1>1, <1>2, <1>3, <1>4 DEF Core

LEMMA StillPlace ==
    ASSUME Still, NEW l, NEW k, PlaceOK(l, k) PROVE PlaceOK(l, k)'
<1>1. InsPlace(l)'
  BY StillSame, StillHelpers DEF PlaceOK, InsPlace
<1>2. RecoverPlace(l)'
  BY StillSame, StillHelpers DEF PlaceOK, RecoverPlace
<1>3. UpdatePlace(l)'
  <2>1. BegunPlace(l)'
    BY StillSame, StillHelpers DEF PlaceOK, UpdatePlace, BegunPlace
  <2>2. BuildPlace(l)'
    BY StillSame, StillHelpers DEF PlaceOK, UpdatePlace, BuildPlace
  <2> QED BY <2>1, <2>2 DEF UpdatePlace
<1>4. BackPlace(l, k)'
  <2>1. /\ HasJournal' = HasJournal /\ KeepCandidate' = KeepCandidate /\ Sound' = Sound
        /\ InstallMarker' = InstallMarker
    BY StillHelpers DEF HasJournal, KeepCandidate, Sound, InstallMarker
  <2> QED BY <2>1, StillSame, Zenon DEF PlaceOK, BackPlace
<1> QED BY <1>1, <1>2, <1>3, <1>4, StillSame DEF PlaceOK

\* Where the script stands in the next state.
Stands(l) ==
    /\ proc' \in Procs /\ proc'.who # "none"
    /\ proc'.at = l
    /\ AimOK(l, proc.next)'

LEMMA StillMove ==
    ASSUME DInv, Still, UnitsTyped', NEW l, Stands(l), PlaceOK(l, proc'.keep)
    PROVE  DInv'
<1>1. PICK k : k = proc'.keep
  OBVIOUS
<1>2. PlaceOK(l, k)'
  BY <1>1, StillPlace
<1>3. PlaceOK(proc.at, proc.keep)'
  BY <1>1, <1>2 DEF Stands
<1>4. Typed'
  BY StillSame DEF DInv, Typed, DataTyped, Stands
<1>5. Core'
  BY StillCore DEF DInv
<1>6. Aims'
  BY DEF Stands, Aims
<1> QED BY <1>3, <1>4, <1>5, <1>6 DEF DInv, Places

LEMMA StillNobody ==
    ASSUME DInv, Still, UnitsTyped', proc' = Nobody
    PROVE  DInv'
<1>1. proc' \in Procs /\ proc'.who = "none" /\ proc'.at = "end"
  BY DEF Nobody, Procs, Nexts, Scripts
<1>2. Typed' /\ Aims' /\ Places'
  BY <1>1, StillSame DEF DInv, Typed, DataTyped, Aims, Places
<1> QED BY <1>2, StillCore DEF DInv

LEMMA StillThere ==
    ASSUME DInv, Still, UnitsTyped', proc' = proc
    PROVE  DInv'
<1>1. Typed' /\ Aims'
  BY StillSame DEF DInv, Typed, DataTyped, Aims, AimOK
<1>2. Places'
  <2>1. CASE proc.who = "none"
    BY <2>1 DEF Places
  <2>2. CASE proc.who # "none"
    <3>1. PICK l, k : l = proc.at /\ k = proc.keep
      OBVIOUS
    <3>2. PlaceOK(l, k)
      BY <2>2, <3>1 DEF DInv, Places
    <3>3. PlaceOK(l, k)'
      BY <3>2, StillPlace
    <3> QED BY <3>1, <3>3 DEF Places
  <2> QED BY <2>1, <2>2
<1> QED BY <1>1, <1>2, StillCore DEF DInv

\* A step of a script to its next place.
LEMMA GoPlace ==
    ASSUME proc \in Procs, proc.who # "none", NEW l \in InstallAt \cup MediaAt \cup {"end"}, Go(l)
    PROVE  /\ proc' \in Procs /\ proc'.at = l /\ proc'.who = proc.who /\ proc'.who # "none"
           /\ proc'.next = proc.next /\ proc'.keep = proc.keep
BY DEF Go, Procs

LEMMA Standing ==
    ASSUME DInv, NEW l, At(l)
    PROVE  /\ proc \in Procs /\ proc.who # "none" /\ proc.at = l
           /\ PlaceOK(l, proc.keep) /\ AimOK(l, proc.next)
BY DEF DInv, Typed, Places, Aims, At

\* A step that leaves everything still is good when what the next place asks
\* for follows from what this place knows.
LEMMA MoveOn ==
    ASSUME DInv, Still, UnitsTyped', NEW l, NEW m \in InstallAt \cup MediaAt,
           At(l), Go(m), PlaceOK(l, proc.keep) => PlaceOK(m, proc.keep),
           m \notin {"u-begin", "i-begin"}, m \in Working => l \in Working
    PROVE  DInv'
<1>1. /\ proc' \in Procs /\ proc'.at = m /\ proc'.who # "none"
      /\ proc'.next = proc.next /\ proc'.keep = proc.keep
  BY Standing, GoPlace
<1>2. AimOK(m, proc.next)'
  BY <1>1, Standing, StillSame DEF AimOK
<1>3. Stands(m)
  BY <1>1, <1>2 DEF Stands
<1>4. PlaceOK(m, proc'.keep)
  BY <1>1, Standing
<1> QED BY <1>3, <1>4, StillMove

LEMMA UpdateMoves ==
    ASSUME DInv, UNCHANGED ins
    PROVE  /\ UpdateStopsApi => DInv'
           /\ UpdateStopsWorker => DInv'
           /\ PauseTimers => DInv'
           /\ NativeIsOver => DInv'
           /\ AptFindsNothing => DInv'
           /\ ValidationStarts => DInv'
           /\ ValidationStops => DInv'
<1> USE DEF ObservingAt, AfterHost, Switched, Untouched, PreparedAt, RestoringAt, KeepingAt, InstallAt,
            BegunAt, ApplyAt, StageAt, TryAt, CommitAt, ForwardAt, BackAt, EndAt, MediaAt, Working
<1>1. ASSUME UpdateStopsApi PROVE DInv'
  <2>1. At("u-stop-api") /\ Go("u-queue") /\ Still /\ UnitsTyped'
    BY <1>1 DEF UpdateStopsApi, Still, Stopped, database, DInv, Typed, UnitsTyped
  <2>2. PlaceOK("u-stop-api", proc.keep) => PlaceOK("u-queue", proc.keep)
    BY DEF PlaceOK, InsPlace, RecoverPlace, UpdatePlace, BegunPlace, BuildPlace, BackPlace
  <2> QED BY <2>1, <2>2, MoveOn
<1>2. ASSUME UpdateStopsWorker PROVE DInv'
  <2>1. At("u-stop-worker") /\ Go("u-pause") /\ Still /\ UnitsTyped'
    BY <1>2 DEF UpdateStopsWorker, Still, Stopped, database, DInv, Typed, UnitsTyped
  <2>2. PlaceOK("u-stop-worker", proc.keep) => PlaceOK("u-pause", proc.keep)
    BY DEF PlaceOK, InsPlace, RecoverPlace, UpdatePlace, BegunPlace, BuildPlace, BackPlace
  <2> QED BY <2>1, <2>2, MoveOn
<1>3. ASSUME PauseTimers PROVE DInv'
  <2>1. Still /\ UnitsTyped'
    BY <1>3 DEF PauseTimers, Still, database, DInv, Typed, UnitsTyped
  <2>2. CASE At("u-pause")
    <3>1. PlaceOK("u-pause", proc.keep) => PlaceOK("u-quiet", proc.keep)
      BY DEF PlaceOK, InsPlace, RecoverPlace, UpdatePlace, BegunPlace, BuildPlace, BackPlace
    <3>2. Go("u-quiet")
      BY <1>3, <2>2 DEF PauseTimers
    <3> QED BY <2>1, <2>2, <3>1, <3>2, MoveOn
  <2>3. CASE At("r-pause")
    <3>1. PlaceOK("r-pause", proc.keep) => PlaceOK("r-quiet", proc.keep)
      BY DEF PlaceOK, InsPlace, RecoverPlace, UpdatePlace, BegunPlace, BuildPlace, BackPlace
    <3>2. Go("r-quiet")
      BY <1>3, <2>3 DEF PauseTimers, At
    <3> QED BY <2>1, <2>3, <3>1, <3>2, MoveOn
  <2> QED BY <1>3, <2>2, <2>3 DEF PauseTimers
<1>4. ASSUME NativeIsOver PROVE DInv'
  <2>1. Still /\ UnitsTyped' /\ ~native
    BY <1>4 DEF NativeIsOver, Still, units, database, DInv, Typed, UnitsTyped
  <2>2. CASE At("u-quiet")
    <3>1. PlaceOK("u-quiet", proc.keep) => PlaceOK("u-prepare", proc.keep)
      BY <2>1 DEF PlaceOK, InsPlace, RecoverPlace, UpdatePlace, BegunPlace, BuildPlace, BackPlace
    <3>2. Go("u-prepare")
      BY <1>4, <2>2 DEF NativeIsOver
    <3> QED BY <2>1, <2>2, <3>1, <3>2, MoveOn
  <2>3. CASE At("r-quiet")
    <3>1. PlaceOK("r-quiet", proc.keep) => PlaceOK("r-look", proc.keep)
      BY <2>1 DEF DInv, Core, Apart, PlaceOK, InsPlace, RecoverPlace, UpdatePlace, BegunPlace, BuildPlace,
         BackPlace
    <3>2. Go("r-look")
      BY <1>4, <2>3 DEF NativeIsOver, At
    <3> QED BY <2>1, <2>3, <3>1, <3>2, MoveOn
  <2> QED BY <1>4, <2>2, <2>3 DEF NativeIsOver
<1>5. ASSUME AptFindsNothing PROVE DInv'
  <2>1. At("u-prepare") /\ Go("u-prepared") /\ Still /\ UnitsTyped' /\ ~apt.active
    BY <1>5 DEF AptFindsNothing, Still, units, database, DInv, Typed, UnitsTyped
  <2>2. PlaceOK("u-prepare", proc.keep) => PlaceOK("u-prepared", proc.keep)
    BY <2>1 DEF PlaceOK, InsPlace, RecoverPlace, UpdatePlace, BegunPlace, BuildPlace, BackPlace
  <2> QED BY <2>1, <2>2, MoveOn
<1>6. ASSUME ValidationStarts PROVE DInv'
  <2>1. At("u-start") /\ Go("u-stop") /\ Still
    BY <1>6 DEF ValidationStarts, Still, Started, database
  <2>2. HasJournal
    BY <2>1, Standing DEF PlaceOK, UpdatePlace, BegunPlace
  <2>3. journal.up \in SUBSET Services
    BY <2>2 DEF DInv, Typed, DataTyped, HasJournal, JournalRecords
  <2>4. UnitsTyped'
    BY <1>6, <2>3 DEF ValidationStarts, Started, database, DInv, Typed, UnitsTyped
  <2>5. PlaceOK("u-start", proc.keep) => PlaceOK("u-stop", proc.keep)
    BY DEF PlaceOK, InsPlace, RecoverPlace, UpdatePlace, BegunPlace, BuildPlace, BackPlace
  <2> QED BY <2>1, <2>4, <2>5, MoveOn
<1>7. ASSUME ValidationStops PROVE DInv'
  <2>1. At("u-stop") /\ Go("u-healthy") /\ Still
    BY <1>7 DEF ValidationStops, Still, Stopped, database
  <2>2. UnitsTyped'
    BY <1>7 DEF ValidationStops, Stopped, database, DInv, Typed, UnitsTyped
  <2>3. PlaceOK("u-stop", proc.keep) => PlaceOK("u-healthy", proc.keep)
    BY DEF PlaceOK, InsPlace, RecoverPlace, UpdatePlace, BegunPlace, BuildPlace, BackPlace
  <2> QED BY <2>1, <2>2, <2>3, MoveOn
<1> QED BY <1>1, <1>2, <1>3, <1>4, <1>5, <1>6, <1>7

\* A script gives up: what is left to do is a recovery.
LEMMA MoveBack ==
    ASSUME DInv, Still, UnitsTyped', proc \in Procs, proc.who # "none", NEW m \in {"r-look", "x-look"},
           proc' = [proc EXCEPT !.at = m, !.next = "exit"], PlaceOK(m, proc.keep)
    PROVE  DInv'
<1>1. /\ proc' \in Procs /\ proc'.at = m /\ proc'.who # "none"
      /\ proc'.next = "exit" /\ proc'.keep = proc.keep
  BY DEF Procs, Nexts, InstallAt, MediaAt
<1>2. AimOK(m, proc.next)'
  BY <1>1 DEF AimOK, Working, ForwardAt, ObservingAt, PreparedAt, BegunAt, ApplyAt, StageAt, TryAt, CommitAt,
              Untouched, Switched, AfterHost
<1>3. Stands(m)
  BY <1>1, <1>2 DEF Stands
<1> QED BY <1>1, <1>3, StillMove

LEMMA UpdateGivesUp ==
    ASSUME DInv, UNCHANGED ins
    PROVE  /\ UpdateLooksAtQueue => DInv'
           /\ UpdateFails => DInv'
<1> USE DEF ObservingAt, AfterHost, Switched, Untouched, PreparedAt, RestoringAt, KeepingAt, InstallAt,
            BegunAt, ApplyAt, StageAt, TryAt, CommitAt, ForwardAt, BackAt, EndAt, MediaAt, Working
<1>1. ASSUME UpdateLooksAtQueue PROVE DInv'
  <2>1. At("u-queue") /\ Still /\ UnitsTyped' /\ proc \in Procs /\ proc.who # "none"
    BY <1>1 DEF UpdateLooksAtQueue, Still, units, database, DInv, Typed, UnitsTyped, At
  <2>2. PlaceOK("u-queue", proc.keep)
    BY <2>1, Standing
  <2>3. CASE job \in {"active", "pause"}
    <3>1. PlaceOK("r-look", proc.keep)
      BY <2>2 DEF PlaceOK, InsPlace, RecoverPlace, UpdatePlace, BegunPlace, BuildPlace, BackPlace, DInv, Core,
         Apart
    <3>2. proc' = [proc EXCEPT !.at = "r-look", !.next = "exit"]
      BY <1>1, <2>3 DEF UpdateLooksAtQueue
    <3> QED BY <2>1, <3>1, <3>2, MoveBack
  <2>4. CASE job \notin {"active", "pause"}
    <3>1. PlaceOK("u-stop-worker", proc.keep)
      BY <2>2 DEF PlaceOK, InsPlace, RecoverPlace, UpdatePlace, BegunPlace, BuildPlace, BackPlace
    <3>2. Go("u-stop-worker")
      BY <1>1, <2>4 DEF UpdateLooksAtQueue
    <3> QED BY <2>1, <3>1, <3>2, MoveOn
  <2> QED BY <2>3, <2>4
<1>2. ASSUME UpdateFails PROVE DInv'
  <2>1. Still /\ UnitsTyped' /\ proc \in Procs /\ proc.who # "none" /\ proc.at \in UpdateLabels
    BY <1>2 DEF UpdateFails, Still, units, database, DInv, Typed, UnitsTyped
  <2>2. HasJournal /\ child # "running"
    BY <2>1 DEF DInv, Places, PlaceOK, UpdatePlace, BegunPlace, UpdateLabels
  <2>3. PlaceOK("r-look", proc.keep)
    BY <2>2 DEF PlaceOK, InsPlace, RecoverPlace, UpdatePlace, BegunPlace, BuildPlace, BackPlace, DInv, Core,
       Apart
  <2>4. proc' = [proc EXCEPT !.at = "r-look", !.next = "exit"]
    BY <1>2 DEF UpdateFails
  <2> QED BY <2>1, <2>3, <2>4, MoveBack
<1> QED BY <1>1, <1>2

\* What a journal says of an update that touched nothing: all is as before.
LEMMA NothingTouched ==
    ASSUME Core, HasJournal, ~apt.active, journal.state \in {"BEGUN", "COMMITTED"} PROVE Sound
<1>1. CASE journal.state = "COMMITTED"
  BY <1>1 DEF Core, MediaSaved
<1>2. CASE journal.state = "BEGUN"
  <2>1. pkgs = OldPkgs
    BY <1>2 DEF Core, MediaSaved, PackagesTrue, OldPkgs
  <2> QED BY <1>2, <2>1 DEF Core, MediaSaved, Sound, Usable
<1> QED BY <1>1, <1>2

LEMMA RecoveryMoves ==
    ASSUME DInv, UNCHANGED ins
    PROVE  /\ RecoveryLooks => DInv'
           /\ RecoveryStops => DInv'
           /\ RestoreTimers => DInv'
           /\ RestoreUnits => DInv'
           /\ RecoveryFails => DInv'
<1> USE DEF ObservingAt, AfterHost, Switched, Untouched, PreparedAt, RestoringAt, KeepingAt, InstallAt,
            BegunAt, ApplyAt, StageAt, TryAt, CommitAt, ForwardAt, BackAt, EndAt, MediaAt, Working
<1>1. ASSUME RecoveryLooks PROVE DInv'
  <2>1. At("r-look") /\ Still /\ UnitsTyped'
    BY <1>1 DEF RecoveryLooks, Still, units, database, DInv, Typed, UnitsTyped
  <2>2. PlaceOK("r-look", proc.keep) /\ Core
    BY <2>1, Standing DEF DInv
  <2>3. CASE ~MediaMarker
    <3>1. PlaceOK("r-end", proc.keep)
      BY <2>2, <2>3 DEF MediaMarker, PlaceOK, InsPlace, RecoverPlace, UpdatePlace, BegunPlace, BuildPlace,
         BackPlace
    <3>2. Go("r-end")
      BY <1>1, <2>3 DEF RecoveryLooks
    <3> QED BY <2>1, <3>1, <3>2, MoveOn
  <2>4. CASE MediaMarker /\ HasJournal /\ journal.state \in {"BEGUN", "COMMITTED"} /\ ~apt.active
    <3>1. Sound
      BY <2>2, <2>4, NothingTouched
    <3>2. PlaceOK("r-timers", proc.keep)
      BY <2>2, <2>4, <3>1 DEF PlaceOK, InsPlace, RecoverPlace, UpdatePlace, BegunPlace, BuildPlace, BackPlace
    <3>3. Go("r-timers")
      BY <1>1, <2>4 DEF RecoveryLooks
    <3> QED BY <2>1, <3>2, <3>3, MoveOn
  <2>5. CASE MediaMarker /\ ~(HasJournal /\ journal.state \in {"BEGUN", "COMMITTED"} /\ ~apt.active)
    <3>1. HasJournal /\ ~native
      BY <2>2, <2>5 DEF MediaMarker, Core, Apart, MediaSaved
    <3>2. PlaceOK("r-stop", proc.keep)
      BY <2>2, <3>1 DEF PlaceOK, InsPlace, RecoverPlace, UpdatePlace, BegunPlace, BuildPlace, BackPlace
    <3>3. Go("r-stop")
      BY <1>1, <2>5 DEF RecoveryLooks
    <3> QED BY <2>1, <3>2, <3>3, MoveOn
  <2> QED BY <2>3, <2>4, <2>5
<1>2. ASSUME RecoveryStops PROVE DInv'
  <2>1. At("r-stop") /\ Still /\ UnitsTyped'
    BY <1>2 DEF RecoveryStops, Still, Stopped, Services, database, DInv, Typed, UnitsTyped
  <2>2. PlaceOK("r-stop", proc.keep) /\ proc \in Procs /\ proc.who # "none"
    BY <2>1, Standing
  <2>3. KeepCandidate \in BOOLEAN
    BY DEF KeepCandidate, HasJournal
  <2>4. proc' = [proc EXCEPT !.at = "r-back", !.keep = KeepCandidate]
    BY <1>2 DEF RecoveryStops
  <2>5. /\ proc' \in Procs /\ proc'.who # "none" /\ proc'.at = "r-back" /\ proc'.keep = KeepCandidate
        /\ proc'.next = proc.next
    BY <2>2, <2>3, <2>4 DEF Procs
  <2>6. Stands("r-back")
    BY <2>1, <2>5, Standing, StillSame DEF Stands, AimOK
  <2>7. PlaceOK("r-back", KeepCandidate)
    BY <2>2 DEF PlaceOK, InsPlace, RecoverPlace, UpdatePlace, BegunPlace, BuildPlace, BackPlace
  <2> QED BY <2>1, <2>5, <2>6, <2>7, StillMove
<1>3. ASSUME RestoreTimers PROVE DInv'
  <2>1. At("r-timers") /\ Still
    BY <1>3 DEF RestoreTimers, Still, database
  <2>2. PlaceOK("r-timers", proc.keep)
    BY <2>1, Standing
  <2>3. journal.timers \in BOOLEAN
    BY <2>2 DEF PlaceOK, BackPlace, DInv, Typed, DataTyped, HasJournal, JournalRecords
  <2>4. UnitsTyped'
    BY <1>3, <2>3 DEF RestoreTimers, database, DInv, Typed, UnitsTyped
  <2>5. PlaceOK("r-clear", proc.keep) /\ PlaceOK("r-units", proc.keep)
    BY <2>2 DEF PlaceOK, InsPlace, RecoverPlace, UpdatePlace, BegunPlace, BuildPlace, BackPlace
  <2>6. Go("r-clear") \/ Go("r-units")
    BY <1>3 DEF RestoreTimers
  <2> QED BY <2>1, <2>4, <2>5, <2>6, MoveOn
<1>4. ASSUME RestoreUnits PROVE DInv'
  <2>1. At("r-units") /\ Go("r-clear") /\ Still
    BY <1>4 DEF RestoreUnits, Still, database
  <2>2. PlaceOK("r-units", proc.keep)
    BY <2>1, Standing
  <2>3. journal.up \in SUBSET Services
    BY <2>2 DEF PlaceOK, BackPlace, DInv, Typed, DataTyped, HasJournal, JournalRecords
  <2>4. UnitsTyped'
    BY <1>4, <2>3 DEF RestoreUnits, database, DInv, Typed, UnitsTyped
  <2>5. PlaceOK("r-clear", proc.keep)
    BY <2>2 DEF PlaceOK, InsPlace, RecoverPlace, UpdatePlace, BegunPlace, BuildPlace, BackPlace
  <2> QED BY <2>1, <2>4, <2>5, MoveOn
<1>5. ASSUME RecoveryFails PROVE DInv'
  <2>1. Still /\ UnitsTyped' /\ proc' = Nobody
    BY <1>5 DEF RecoveryFails, End, Still, database, DInv, Typed, UnitsTyped
  <2> QED BY <2>1, StillNobody
<1> QED BY <1>1, <1>2, <1>3, <1>4, <1>5

\* A script arrives at its next place.
LEMMA Arrive ==
    ASSUME Typed', Core', NEW l, NEW k, Stands(l), proc'.keep = k, PlaceOK(l, k)'
    PROVE  DInv'
<1>1. PlaceOK(proc.at, proc.keep)'
  BY DEF Stands
<1>2. Aims'
  BY DEF Stands, Aims
<1> QED BY <1>1, <1>2 DEF DInv, Places

LEMMA InstallMoves ==
    ASSUME DInv, UNCHANGED media
    PROVE  /\ InstallStopsApi => DInv'
           /\ InstallStopsWorker => DInv'
           /\ InstallPausesTimers => DInv'
           /\ InstallIsAlone => DInv'
           /\ InstallBuilds => DInv'
           /\ InstallPublishesWeb => DInv'
           /\ InstallEnables => DInv'
           /\ InstallValidates => DInv'
           /\ InstallStops => DInv'
<1> USE DEF ObservingAt, AfterHost, Switched, Untouched, PreparedAt, RestoringAt, KeepingAt, InstallAt,
            BegunAt, ApplyAt, StageAt, TryAt, CommitAt, ForwardAt, BackAt, EndAt, MediaAt, Working
<1>1. ASSUME InstallStopsApi PROVE DInv'
  <2>1. At("i-stop-api") /\ Go("i-queue") /\ Still /\ UnitsTyped'
    BY <1>1 DEF InstallStopsApi, Still, Stopped, database, DInv, Typed, UnitsTyped
  <2>2. PlaceOK("i-stop-api", proc.keep) => PlaceOK("i-queue", proc.keep)
    BY DEF PlaceOK, InsPlace, RecoverPlace, UpdatePlace, BegunPlace, BuildPlace, BackPlace
  <2> QED BY <2>1, <2>2, MoveOn
<1>2. ASSUME InstallStopsWorker PROVE DInv'
  <2>1. At("i-stop-worker") /\ Go("i-pause") /\ Still /\ UnitsTyped' /\ lane' # "working"
    BY <1>2 DEF InstallStopsWorker, Still, Stopped, database, DInv, Typed, UnitsTyped
  <2>2. /\ proc' \in Procs /\ proc'.at = "i-pause" /\ proc'.who # "none"
        /\ proc'.next = proc.next /\ proc'.keep = proc.keep
    BY <2>1, Standing, GoPlace
  <2>3. Stands("i-pause")
    BY <2>1, <2>2, Standing, StillSame DEF Stands, AimOK
  <2>4. PICK k : k = proc.keep
    OBVIOUS
  <2>5. PlaceOK("i-stop-worker", k)
    BY <2>1, <2>4, Standing
  <2>6. PlaceOK("i-pause", k)'
    BY <2>1, <2>5, StillSame, StillHelpers DEF PlaceOK, InsPlace, RecoverPlace, UpdatePlace, BegunPlace,
       BuildPlace, BackPlace
  <2>7. Typed' /\ Core'
    BY <2>1, <2>2, StillSame, StillCore DEF DInv, Typed, DataTyped
  <2> QED BY <2>2, <2>3, <2>4, <2>6, <2>7, Arrive
<1>3. ASSUME InstallPausesTimers PROVE DInv'
  <2>1. At("i-pause") /\ Go("i-quiet") /\ Still /\ UnitsTyped'
    BY <1>3 DEF InstallPausesTimers, Still, units, database, DInv, Typed, UnitsTyped
  <2>2. PlaceOK("i-pause", proc.keep) => PlaceOK("i-quiet", proc.keep)
    BY DEF PlaceOK, InsPlace, RecoverPlace, UpdatePlace, BegunPlace, BuildPlace, BackPlace
  <2> QED BY <2>1, <2>2, MoveOn
<1>4. ASSUME InstallIsAlone PROVE DInv'
  <2>1. At("i-quiet") /\ Go("i-snapshot") /\ Still /\ UnitsTyped' /\ ~native
    BY <1>4 DEF InstallIsAlone, Still, units, database, DInv, Typed, UnitsTyped
  <2>2. PlaceOK("i-quiet", proc.keep) => PlaceOK("i-snapshot", proc.keep)
    BY <2>1 DEF PlaceOK, InsPlace, RecoverPlace, UpdatePlace, BegunPlace, BuildPlace, BackPlace
  <2> QED BY <2>1, <2>2, MoveOn
<1>5. ASSUME InstallBuilds PROVE DInv'
  <2>1. At("i-build") /\ Go("i-web") /\ Still /\ UnitsTyped'
    BY <1>5 DEF InstallBuilds, Still, units, database, DInv, Typed, UnitsTyped
  <2>2. PlaceOK("i-build", proc.keep) => PlaceOK("i-web", proc.keep)
    BY DEF PlaceOK, InsPlace, RecoverPlace, UpdatePlace, BegunPlace, BuildPlace, BackPlace
  <2> QED BY <2>1, <2>2, MoveOn
<1>6. ASSUME InstallPublishesWeb PROVE DInv'
  <2>1. At("i-web") /\ Go("i-app") /\ Still /\ UnitsTyped'
    BY <1>6 DEF InstallPublishesWeb, Still, units, database, DInv, Typed, UnitsTyped
  <2>2. PlaceOK("i-web", proc.keep) => PlaceOK("i-app", proc.keep)
    BY DEF PlaceOK, InsPlace, RecoverPlace, UpdatePlace, BegunPlace, BuildPlace, BackPlace
  <2> QED BY <2>1, <2>2, MoveOn
<1>7. ASSUME InstallEnables PROVE DInv'
  <2>1. At("i-enable") /\ Go("i-start") /\ Still /\ UnitsTyped'
    BY <1>7 DEF InstallEnables, Still, units, database, DInv, Typed, UnitsTyped
  <2>2. PlaceOK("i-enable", proc.keep) => PlaceOK("i-start", proc.keep)
    BY DEF PlaceOK, InsPlace, RecoverPlace, UpdatePlace, BegunPlace, BuildPlace, BackPlace
  <2> QED BY <2>1, <2>2, MoveOn
<1>8. ASSUME InstallValidates PROVE DInv'
  <2>1. At("i-start") /\ Go("i-stop") /\ Still /\ UnitsTyped'
    BY <1>8 DEF InstallValidates, Still, Started, database, DInv, Typed, UnitsTyped
  <2>2. PlaceOK("i-start", proc.keep) => PlaceOK("i-stop", proc.keep)
    BY DEF PlaceOK, InsPlace, RecoverPlace, UpdatePlace, BegunPlace, BuildPlace, BackPlace
  <2> QED BY <2>1, <2>2, MoveOn
<1>9. ASSUME InstallStops PROVE DInv'
  <2>1. At("i-stop") /\ Go("i-healthy") /\ Still /\ UnitsTyped'
    BY <1>9 DEF InstallStops, Still, Stopped, database, DInv, Typed, UnitsTyped
  <2>2. PlaceOK("i-stop", proc.keep) => PlaceOK("i-healthy", proc.keep)
    BY DEF PlaceOK, InsPlace, RecoverPlace, UpdatePlace, BegunPlace, BuildPlace, BackPlace
  <2> QED BY <2>1, <2>2, MoveOn
<1> QED BY <1>1, <1>2, <1>3, <1>4, <1>5, <1>6, <1>7, <1>8, <1>9

LEMMA InstallGivesUp ==
    ASSUME DInv, UNCHANGED media
    PROVE  /\ InstallLooksAtQueue => DInv'
           /\ InstallAptEnded => DInv'
           /\ InstallFails => DInv'
<1> USE DEF ObservingAt, AfterHost, Switched, Untouched, PreparedAt, RestoringAt, KeepingAt, InstallAt,
            BegunAt, ApplyAt, StageAt, TryAt, CommitAt, ForwardAt, BackAt, EndAt, MediaAt, Working
<1>1. ASSUME InstallLooksAtQueue PROVE DInv'
  <2>1. At("i-queue") /\ Still /\ UnitsTyped' /\ proc \in Procs /\ proc.who # "none"
    BY <1>1 DEF InstallLooksAtQueue, Still, units, database, DInv, Typed, UnitsTyped, At
  <2>2. PlaceOK("i-queue", proc.keep)
    BY <2>1, Standing
  <2>3. PlaceOK("x-look", proc.keep) /\ PlaceOK("i-stop-worker", proc.keep)
    BY <2>2 DEF PlaceOK, InsPlace, RecoverPlace, UpdatePlace, BegunPlace, BuildPlace, BackPlace
  <2>4. CASE proc' = [proc EXCEPT !.at = "x-look", !.next = "exit"]
    BY <2>1, <2>3, <2>4, MoveBack
  <2>5. CASE Go("i-stop-worker")
    BY <2>1, <2>3, <2>5, MoveOn
  <2> QED BY <1>1, <2>4, <2>5 DEF InstallLooksAtQueue, Recover
<1>2. ASSUME InstallAptEnded PROVE DInv'
  <2>1. At("i-apt-wait") /\ Still /\ UnitsTyped' /\ proc \in Procs /\ proc.who # "none"
    BY <1>2 DEF InstallAptEnded, Still, units, database, DInv, Typed, UnitsTyped, At
  <2>2. PlaceOK("i-apt-wait", proc.keep)
    BY <2>1, Standing
  <2>3. PlaceOK("x-look", proc.keep) /\ (child = "no" => PlaceOK("i-build", proc.keep))
    BY <2>2 DEF PlaceOK, InsPlace, RecoverPlace, UpdatePlace, BegunPlace, BuildPlace, BackPlace
  <2>4. CASE proc' = [proc EXCEPT !.at = "x-look", !.next = "exit"]
    BY <2>1, <2>3, <2>4, MoveBack
  <2>5. CASE child = "no" /\ Go("i-build")
    BY <2>1, <2>3, <2>5, MoveOn
  <2> QED BY <1>2, <2>4, <2>5 DEF InstallAptEnded, Recover
<1>3. ASSUME InstallFails PROVE DInv'
  <2>1. Still /\ UnitsTyped' /\ proc \in Procs /\ proc.who # "none"
    BY <1>3 DEF InstallFails, Still, units, database, DInv, Typed, UnitsTyped
  <2>2. PlaceOK("x-look", proc.keep)
    BY DEF PlaceOK, InsPlace, RecoverPlace, UpdatePlace, BegunPlace, BuildPlace, BackPlace
  <2>3. proc' = [proc EXCEPT !.at = "x-look", !.next = "exit"]
    BY <1>3 DEF InstallFails, Recover
  <2> QED BY <2>1, <2>2, <2>3, MoveBack
<1> QED BY <1>1, <1>2, <1>3

\* What called the recoveries goes on with its own work.
LEMMA GoesToWork ==
    ASSUME DInv, Still, UnitsTyped', NEW l, At(l), ~InstallMarker, ~HasJournal,
           NEW n \in {"u-begin", "i-begin"}, proc.next = n,
           proc' = [proc EXCEPT !.at = n, !.next = "exit"], child # "running"
    PROVE  DInv'
<1> USE DEF ObservingAt, AfterHost, Switched, Untouched, PreparedAt, RestoringAt, KeepingAt, InstallAt,
            BegunAt, ApplyAt, StageAt, TryAt, CommitAt, ForwardAt, BackAt, EndAt, MediaAt, Working
<1>1. proc \in Procs /\ proc.who # "none" /\ made < MaxReleases
  BY Standing DEF AimOK
<1>2. /\ proc' \in Procs /\ proc'.at = n /\ proc'.who # "none"
      /\ proc'.next = "exit" /\ proc'.keep = proc.keep
  <2>1. n \in InstallAt \cup MediaAt
    OBVIOUS
  <2> QED BY <1>1, <2>1 DEF Procs, Nexts
<1>3. Stands(n)
  BY <1>1, <1>2, StillSame DEF Stands, AimOK
<1>4. PlaceOK(n, proc.keep)
  BY DEF PlaceOK, InsPlace, RecoverPlace, UpdatePlace, BegunPlace, BuildPlace, BackPlace, Published,
     MediaMarker, InstallMarker, DInv, Core, Apart
<1> QED BY <1>2, <1>3, <1>4, StillMove

LEMMA RestoreMoves ==
    ASSUME DInv, UNCHANGED media
    PROVE  /\ QuiesceChild => DInv'
           /\ StopRuntime => DInv'
           /\ RestoreEnablement => DInv'
           /\ KeepEnablement => DInv'
           /\ StartUnits => DInv'
           /\ InstallRecovered(HasJournal) => DInv'
<1> USE DEF ObservingAt, AfterHost, Switched, Untouched, PreparedAt, RestoringAt, KeepingAt, InstallAt,
            BegunAt, ApplyAt, StageAt, TryAt, CommitAt, ForwardAt, BackAt, EndAt, MediaAt, Working
<1>1. ASSUME QuiesceChild PROVE DInv'
  <2>1. At("x-look") /\ Still /\ UnitsTyped'
    BY <1>1 DEF QuiesceChild, Still, database, DInv, Typed, UnitsTyped
  <2>2. PlaceOK("x-look", proc.keep)
    BY <2>1, Standing
  <2>3. CASE ~InstallMarker
    <3>1. Go("x-end")
      BY <1>1, <2>3 DEF QuiesceChild
    <3>2. child # "running"
      BY <2>3 DEF InstallMarker, DInv, Core, ChildAlone, Restoring
    <3>3. PlaceOK("x-end", proc.keep)
      BY <2>2, <2>3, <3>2 DEF PlaceOK, InsPlace, RecoverPlace, UpdatePlace, BegunPlace, BuildPlace, BackPlace
    <3> QED BY <2>1, <3>1, <3>3, MoveOn
  <2>4. CASE InstallMarker
    <3>1. Go("x-native") /\ child # "running"
      BY <1>1, <2>4 DEF QuiesceChild
    <3>2. PlaceOK("x-native", proc.keep)
      BY <2>2, <2>4, <3>1 DEF PlaceOK, InsPlace, RecoverPlace, UpdatePlace, BegunPlace, BuildPlace, BackPlace
    <3> QED BY <2>1, <3>1, <3>2, MoveOn
  <2> QED BY <2>3, <2>4
<1>2. ASSUME StopRuntime PROVE DInv'
  <2>1. Still /\ UnitsTyped'
    BY <1>2 DEF StopRuntime, Still, Stopped, database, DInv, Typed, UnitsTyped
  <2>2. CASE At("x-stop-back")
    <3>1. Go("x-database")
      BY <1>2, <2>2 DEF StopRuntime
    <3>2. PlaceOK("x-stop-back", proc.keep) => PlaceOK("x-database", proc.keep)
      BY DEF PlaceOK, InsPlace, RecoverPlace, UpdatePlace, BegunPlace, BuildPlace, BackPlace
    <3> QED BY <2>1, <2>2, <3>1, <3>2, MoveOn
  <2>3. CASE At("x-stop-keep")
    <3>1. Go("x-keep")
      BY <1>2, <2>3 DEF StopRuntime, At
    <3>2. PlaceOK("x-stop-keep", proc.keep) => PlaceOK("x-keep", proc.keep)
      BY DEF PlaceOK, InsPlace, RecoverPlace, UpdatePlace, BegunPlace, BuildPlace, BackPlace
    <3> QED BY <2>1, <2>3, <3>1, <3>2, MoveOn
  <2> QED BY <1>2, <2>2, <2>3 DEF StopRuntime
<1>3. ASSUME RestoreEnablement PROVE DInv'
  <2>1. At("x-enable") /\ Go("x-restored") /\ Still
    BY <1>3 DEF RestoreEnablement, Still, database
  <2>2. ins.enabled \in SUBSET (Services \cup {"timers"})
    BY DEF DInv, Typed, DataTyped, InsRecords
  <2>3. UnitsTyped'
    BY <1>3, <2>2 DEF RestoreEnablement, database, DInv, Typed, UnitsTyped
  <2>4. PlaceOK("x-enable", proc.keep) => PlaceOK("x-restored", proc.keep)
    BY DEF PlaceOK, InsPlace, RecoverPlace, UpdatePlace, BegunPlace, BuildPlace, BackPlace
  <2> QED BY <2>1, <2>3, <2>4, MoveOn
<1>4. ASSUME KeepEnablement PROVE DInv'
  <2>1. At("x-keep") /\ Go("x-commit") /\ Still /\ UnitsTyped'
    BY <1>4 DEF KeepEnablement, Still, database, DInv, Typed, UnitsTyped
  <2>2. PlaceOK("x-keep", proc.keep) => PlaceOK("x-commit", proc.keep)
    BY DEF PlaceOK, InsPlace, RecoverPlace, UpdatePlace, BegunPlace, BuildPlace, BackPlace
  <2> QED BY <2>1, <2>2, MoveOn
<1>5. ASSUME StartUnits PROVE DInv'
  <2>1. PICK wanted : wanted = IF ins.state = "COMMITTED" THEN Services ELSE ins.up
    OBVIOUS
  <2>2. /\ \/ queued' = wanted /\ UNCHANGED <<up, lane>>
           \/ /\ up' = wanted
              /\ lane' = IF "worker" \notin wanted THEN "off"
                         ELSE IF "worker" \notin up THEN "idle" ELSE lane
              /\ UNCHANGED queued
        /\ timers' = ins.timers
        /\ UNCHANGED <<enabled, native, database, runtime, packages, history, ins>>
    BY <1>5, <2>1 DEF StartUnits
  <2>3. At("x-units") /\ Go("x-done")
    BY <1>5 DEF StartUnits
  <2>4. Still
    BY <2>2 DEF Still, database
  <2>5. wanted \in SUBSET Services /\ ins.timers \in BOOLEAN
    BY <2>1 DEF DInv, Typed, DataTyped, InsRecords
  <2>6. UnitsTyped'
    BY <2>2, <2>5 DEF database, DInv, Typed, UnitsTyped
  <2>7. PlaceOK("x-units", proc.keep) => PlaceOK("x-done", proc.keep)
    BY DEF PlaceOK, InsPlace, RecoverPlace, UpdatePlace, BegunPlace, BuildPlace, BackPlace
  <2> QED BY <2>3, <2>4, <2>6, <2>7, MoveOn
<1>6. ASSUME InstallRecovered(HasJournal) PROVE DInv'
  <2>1. At("x-end") /\ Still /\ UnitsTyped'
    BY <1>6 DEF InstallRecovered, Still, database, DInv, Typed, UnitsTyped
  <2>2. PlaceOK("x-end", proc.keep)
    BY <2>1, Standing
  <2>3. ~InstallMarker /\ child # "running"
    BY <2>2 DEF PlaceOK, RecoverPlace
  <2>4. CASE End(TRUE)
    BY <2>1, <2>4, StillNobody DEF End
  <2>5. CASE HasJournal /\ Go("r-pause")
    <3>1. PlaceOK("r-pause", proc.keep)
      BY <2>2, <2>5 DEF PlaceOK, InsPlace, RecoverPlace, UpdatePlace, BegunPlace, BuildPlace, BackPlace
    <3> QED BY <2>1, <2>5, <3>1, MoveOn
  <2>6. CASE ~HasJournal /\ proc.next \in {"u-begin", "i-begin"} /\ proc' = [proc EXCEPT !.at = proc.next, !.next = "exit"]
    <3>1. PICK n \in {"u-begin", "i-begin"} : n = proc.next
      BY <2>6
    <3> QED BY <2>1, <2>3, <2>6, <3>1, GoesToWork
  <2> QED BY <1>6, <2>4, <2>5, <2>6 DEF InstallRecovered
<1> QED BY <1>1, <1>2, <1>3, <1>4, <1>5, <1>6

LEMMA RecoveryEndsWell ==
    ASSUME DInv, UNCHANGED ins, RecoveryEnds PROVE DInv'
<1>1. At("r-end") /\ Still /\ UnitsTyped'
  BY DEF RecoveryEnds, Still, database, DInv, Typed, UnitsTyped
<1>2. PlaceOK("r-end", proc.keep)
  BY <1>1, Standing
<1>3. ~InstallMarker /\ ~HasJournal /\ child # "running"
  BY <1>2 DEF PlaceOK, BackPlace
<1>4. CASE proc.next = "u-begin"
  BY <1>1, <1>3, <1>4, GoesToWork DEF RecoveryEnds
<1>5. CASE proc.next = "i-begin"
  BY <1>1, <1>3, <1>5, GoesToWork DEF RecoveryEnds
<1>6. CASE proc.next \notin {"u-begin", "i-begin"}
  BY <1>1, <1>6, StillNobody DEF RecoveryEnds, End
<1> QED BY <1>4, <1>5, <1>6

-----------------------------------------------------------------------------
(* The world around the scripts.                                             *)

LEMMA WorldMoves ==
    ASSUME DInv, UNCHANGED <<media, ins>>
    PROVE  /\ Look(Published) => DInv'
           /\ Request => DInv'
           /\ BootUnits(Published) => DInv'
           /\ NativeEnd => DInv'
           /\ WorkerDies(Published) => DInv'
           /\ Kill => DInv'
<1>1. ASSUME Look(Published) PROVE DInv'
  <2>1. Still /\ UnitsTyped' /\ proc' = proc
    BY <1>1 DEF Look, Still, database, DInv, Typed, UnitsTyped
  <2> QED BY <2>1, StillThere
<1>2. ASSUME Request PROVE DInv'
  <2>1. Still /\ UnitsTyped' /\ proc' = proc
    BY <1>2 DEF Request, Still, units, Jobs, DInv, Typed, UnitsTyped
  <2> QED BY <2>1, StillThere
<1>3. ASSUME BootUnits(Published) PROVE DInv'
  <2>1. Still /\ proc' = proc
    BY <1>3 DEF BootUnits, Started, Still, database
  <2>2. queued \in SUBSET Services
    BY DEF DInv, Typed, UnitsTyped
  <2>3. UnitsTyped'
    BY <1>3, <2>2 DEF BootUnits, Started, database, DInv, Typed, UnitsTyped
  <2> QED BY <2>1, <2>3, StillThere
<1>4. ASSUME NativeEnd PROVE DInv'
  <2>1. Still /\ UnitsTyped' /\ proc' = proc
    BY <1>4 DEF NativeEnd, Still, database, DInv, Typed, UnitsTyped
  <2> QED BY <2>1, StillThere
<1>5. ASSUME WorkerDies(Published) PROVE DInv'
  <2>1. Still /\ UnitsTyped' /\ proc' = proc
    BY <1>5 DEF WorkerDies, Stopped, Still, database, DInv, Typed, UnitsTyped
  <2> QED BY <2>1, StillThere
<1>6. ASSUME Kill PROVE DInv'
  <2>1. Still /\ UnitsTyped' /\ proc' = Nobody
    BY <1>6 DEF Kill, Still, units, database, DInv, Typed, UnitsTyped
  <2> QED BY <2>1, StillNobody
<1> QED BY <1>1, <1>2, <1>3, <1>4, <1>5, <1>6

\* What the journals and the runtime say does not depend on who is at work.
Kept == UNCHANGED <<schema, runtime, pkgs, history, media, ins>>

LEMMA KeptSame ==
    ASSUME Kept
    PROVE  /\ schema' = schema /\ app' = app /\ tools' = tools /\ host' = host /\ pkgs' = pkgs
           /\ made' = made /\ validated' = validated /\ journal' = journal
           /\ apt' = apt /\ dir' = dir /\ ins' = ins
           /\ child' = child => (Sound' <=> Sound)
           /\ HasJournal' <=> HasJournal
           /\ InstallMarker' <=> InstallMarker
           /\ Restoring' <=> Restoring
           /\ Published' <=> Published
           /\ KeepCandidate' <=> KeepCandidate
           /\ Mine' <=> Mine
           /\ OldPkgs' = OldPkgs /\ Target' = Target
           /\ Usable(app, journal.prev)' <=> Usable(app, journal.prev)
           /\ Usable(ins.app, ins.tools)' <=> Usable(ins.app, ins.tools)
<1>1. /\ schema' = schema /\ app' = app /\ tools' = tools /\ host' = host /\ pkgs' = pkgs
      /\ made' = made /\ validated' = validated /\ journal' = journal
      /\ apt' = apt /\ dir' = dir /\ ins' = ins
  BY DEF Kept, runtime, history, media
<1>2. /\ child' = child => (Sound' <=> Sound)
      /\ Usable(app, journal.prev)' <=> Usable(app, journal.prev)
      /\ Usable(ins.app, ins.tools)' <=> Usable(ins.app, ins.tools)
  BY <1>1 DEF Sound, Usable
<1>3. /\ HasJournal' <=> HasJournal
      /\ InstallMarker' <=> InstallMarker
      /\ Restoring' <=> Restoring
      /\ Published' <=> Published
  BY <1>1 DEF HasJournal, InstallMarker, Restoring, Published, MediaMarker
<1>4. /\ KeepCandidate' <=> KeepCandidate
      /\ Mine' <=> Mine
      /\ OldPkgs' = OldPkgs /\ Target' = Target
  BY <1>1, <1>3 DEF KeepCandidate, PackageCommitted, PackagesChanged, Mine, OldPkgs, Target
<1> QED BY <1>1, <1>2, <1>3, <1>4

LEMMA ClaimStep ==
    ASSUME DInv, UNCHANGED <<media, ins>>, Claim(Published) PROVE DInv'
<1>1. CASE lane' = "working"
  <2>1. Kept /\ child' = child /\ native' = native /\ work' = work /\ proc' = proc
    BY DEF Claim, Kept, packages
  <2>2. proc.who = "none" /\ ~Published
    BY <1>1 DEF Claim
  <2>3. Typed'
    BY <2>1, KeptSame DEF DInv, Typed, DataTyped, UnitsTyped, Claim, Jobs
  <2>4. ~ins.active /\ ~HasJournal
    BY <2>2 DEF Published, MediaMarker
  <2>5. Apart' /\ PackagesTrue'
    BY <2>1, KeptSame DEF DInv, Core, Apart, PackagesTrue
  <2>6. InsSaved' /\ MediaSaved'
    BY <2>1, <2>4, KeptSame DEF InsSaved, Restoring, MediaSaved
  <2>7. ChildAlone'
    BY <2>1, KeptSame DEF DInv, Core, ChildAlone
  <2> QED BY <2>1, <2>2, <2>3, <2>5, <2>6, <2>7 DEF DInv, Core, Aims, Places
<1>2. CASE lane' # "working"
  <2>1. Still /\ UnitsTyped' /\ proc' = proc
    BY <1>2 DEF Claim, Still, Jobs, DInv, Typed, UnitsTyped
  <2> QED BY <2>1, StillThere
<1> QED BY <1>1, <1>2

LEMMA LeaveJobStep ==
    ASSUME DInv, UNCHANGED <<media, ins>>, LeaveJob PROVE DInv'
<1> USE DEF ObservingAt, AfterHost, Switched, Untouched, PreparedAt, RestoringAt, KeepingAt, InstallAt,
            BegunAt, ApplyAt, StageAt, TryAt, CommitAt, ForwardAt, BackAt, EndAt, MediaAt, Working
<1>1. Kept /\ child' = child /\ native' = native /\ proc' = proc /\ lane = "working" /\ lane' = "idle"
  BY DEF LeaveJob, Kept, packages
<1>2. Typed'
  <2>1. work' \in Nat /\ job' \in Jobs
    BY DEF DInv, Typed, DataTyped, LeaveJob, Jobs
  <2>2. UnitsTyped'
    BY <2>1 DEF DInv, Typed, UnitsTyped, LeaveJob
  <2> QED BY <1>1, <2>1, <2>2, KeptSame DEF DInv, Typed, DataTyped
<1>3. ~Restoring
  BY <1>1 DEF DInv, Core, InsSaved
<1>4. Core'
  <2>1. Apart' /\ PackagesTrue' /\ ChildAlone'
    BY <1>1, KeptSame DEF DInv, Core, Apart, PackagesTrue, ChildAlone
  <2>2. InsSaved'
    BY <1>1, <1>3, KeptSame DEF DInv, Core, InsSaved
  <2>3. MediaSaved'
    BY <1>1, KeptSame DEF DInv, Core, MediaSaved
  <2> QED BY <2>1, <2>2, <2>3 DEF Core
<1>5. ASSUME NEW l, NEW k, PlaceOK(l, k) PROVE PlaceOK(l, k)'
  <2>1. InsPlace(l)'
    BY <1>1, <1>5, KeptSame DEF PlaceOK, InsPlace
  <2>2. RecoverPlace(l)'
    BY <1>1, <1>5, KeptSame DEF PlaceOK, RecoverPlace
  <2>3. BegunPlace(l)'
    BY <1>1, <1>5, KeptSame DEF PlaceOK, UpdatePlace, BegunPlace
  <2>4. BuildPlace(l)'
    BY <1>1, <1>5, KeptSame DEF PlaceOK, UpdatePlace, BuildPlace
  <2>5. BackPlace(l, k)'
    <3>1. /\ HasJournal' = HasJournal /\ KeepCandidate' = KeepCandidate /\ Sound' = Sound
          /\ InstallMarker' = InstallMarker
      BY <1>1, KeptSame DEF HasJournal, KeepCandidate, Sound, InstallMarker
    <3> QED BY <1>1, <1>5, <3>1, KeptSame, Zenon DEF PlaceOK, BackPlace
  <2> QED BY <1>1, <1>5, <2>1, <2>2, <2>3, <2>4, <2>5 DEF PlaceOK, UpdatePlace
<1>6. Aims'
  BY <1>1, KeptSame DEF DInv, Aims, AimOK
<1>7. Places'
  <2>1. CASE proc.who = "none"
    BY <1>1, <2>1 DEF Places
  <2>2. CASE proc.who # "none"
    <3>1. PICK l, k : l = proc.at /\ k = proc.keep
      OBVIOUS
    <3>2. PlaceOK(l, k)'
      BY <1>5, <2>2, <3>1 DEF DInv, Places
    <3> QED BY <1>1, <3>1, <3>2 DEF Places
  <2> QED BY <2>1, <2>2
<1> QED BY <1>2, <1>4, <1>6, <1>7 DEF DInv

LEMMA NativeStartStep ==
    ASSUME DInv, UNCHANGED <<media, ins>>, NativeStart(Published) PROVE DInv'
<1> USE DEF ObservingAt, AfterHost, Switched, Untouched, PreparedAt, RestoringAt, KeepingAt, InstallAt,
            BegunAt, ApplyAt, StageAt, TryAt, CommitAt, ForwardAt, BackAt, EndAt, MediaAt, Working
<1>1. /\ Kept /\ child' = child /\ proc' = proc /\ lane' = lane /\ work' = work
      /\ ~ins.active /\ ~HasJournal /\ ~apt.active
  BY DEF NativeStart, Kept, packages, database, Published, MediaMarker
<1>2. Typed'
  BY <1>1, KeptSame DEF DInv, Typed, DataTyped, UnitsTyped, NativeStart, database
<1>3. Core'
  <2>1. Apart' /\ PackagesTrue' /\ ChildAlone'
    BY <1>1, KeptSame DEF DInv, Core, Apart, PackagesTrue, ChildAlone
  <2>2. InsSaved' /\ MediaSaved'
    BY <1>1, KeptSame DEF InsSaved, Restoring, MediaSaved
  <2> QED BY <2>1, <2>2 DEF Core
<1>4. Aims'
  BY <1>1, KeptSame DEF DInv, Aims, AimOK
<1>5. CASE proc.who = "none"
  BY <1>1, <1>2, <1>3, <1>4, <1>5 DEF DInv, Places
<1>6. CASE proc.who # "none"
  <2>1. PICK l, k : l = proc.at /\ k = proc.keep
    OBVIOUS
  <2>2. PlaceOK(l, k)
    BY <1>6, <2>1 DEF DInv, Places
  <2>3. InsPlace(l)'
    BY <1>1, <2>2, KeptSame DEF PlaceOK, InsPlace
  <2>4. RecoverPlace(l)'
    BY <1>1, <2>2, KeptSame DEF PlaceOK, RecoverPlace
  <2>5. BegunPlace(l)'
    BY <1>1, <2>2, KeptSame DEF PlaceOK, UpdatePlace, BegunPlace
  <2>6. BuildPlace(l)'
    BY <1>1, <2>2, KeptSame DEF PlaceOK, UpdatePlace, BuildPlace
  <2>7. BackPlace(l, k)'
    BY <1>1, <2>2, KeptSame DEF PlaceOK, BackPlace
  <2>8. PlaceOK(l, k)'
    BY <1>1, <2>2, <2>3, <2>4, <2>5, <2>6, <2>7 DEF PlaceOK, UpdatePlace
  <2> QED BY <1>1, <1>2, <1>3, <1>4, <2>1, <2>8 DEF DInv, Places
<1> QED BY <1>5, <1>6

LEMMA ChildEndsStep ==
    ASSUME DInv, UNCHANGED <<media, ins>>, ChildEnds PROVE DInv'
<1> USE DEF ObservingAt, AfterHost, Switched, Untouched, PreparedAt, RestoringAt, KeepingAt, InstallAt,
            BegunAt, ApplyAt, StageAt, TryAt, CommitAt, ForwardAt, BackAt, EndAt, MediaAt, Working
<1>1. /\ Kept /\ proc' = proc /\ lane' = lane /\ native' = native /\ work' = work
      /\ child = "running" /\ child' \in {"no", "half"}
  BY DEF ChildEnds, Kept, units, database
<1>2. Restoring /\ ins.active /\ ins.state = "PREPARED" /\ ~HasJournal
  BY <1>1 DEF DInv, Core, ChildAlone, Restoring, Apart, InstallMarker
<1>3. Typed'
  BY <1>1, KeptSame DEF DInv, Typed, DataTyped, UnitsTyped, ChildEnds, units, database
<1>4. Core'
  <2>1. Apart' /\ PackagesTrue' /\ ChildAlone'
    BY <1>1, <1>2, KeptSame DEF DInv, Core, Apart, PackagesTrue, ChildAlone
  <2>2. InsSaved' /\ MediaSaved'
    BY <1>1, <1>2, KeptSame DEF DInv, Core, InsSaved, MediaSaved
  <2> QED BY <2>1, <2>2 DEF Core
<1>5. Aims'
  BY <1>1, KeptSame DEF DInv, Aims, AimOK
<1>6. CASE proc.who = "none"
  BY <1>1, <1>3, <1>4, <1>5, <1>6 DEF DInv, Places
<1>7. CASE proc.who # "none"
  <2>1. PICK l, k : l = proc.at /\ k = proc.keep
    OBVIOUS
  <2>2. PlaceOK(l, k) /\ l \in {"i-apt-wait", "x-look"}
    BY <1>1, <1>7, <2>1 DEF DInv, Places, PlaceOK
  <2>3. InsPlace(l)'
    BY <1>1, <2>2, KeptSame DEF PlaceOK, InsPlace
  <2>4. RecoverPlace(l)' /\ UpdatePlace(l)' /\ BackPlace(l, k)'
    BY <2>2 DEF RecoverPlace, UpdatePlace, BegunPlace, BuildPlace, BackPlace
  <2>5. PlaceOK(l, k)'
    BY <1>1, <2>2, <2>3, <2>4 DEF PlaceOK
  <2> QED BY <1>1, <1>3, <1>4, <1>5, <2>1, <2>5 DEF DInv, Places
<1> QED BY <1>6, <1>7

LEMMA RebootStep ==
    ASSUME DInv, UNCHANGED <<media, ins>>, Reboot PROVE DInv'
<1>1. /\ Kept /\ proc' = Nobody /\ lane' = "off" /\ ~native' /\ work' = work
      /\ child' = IF child = "running" THEN "half" ELSE child
  BY DEF Reboot, Kept, database
<1>2. Nobody \in Procs /\ Nobody.who = "none" /\ Nobody.at = "end"
  BY DEF Nobody, Procs, Nexts, Scripts
<1>3. Typed'
  <2>1. UnitsTyped'
    <3>1. timers' \in BOOLEAN /\ native' \in BOOLEAN
      <4>1. PICK b : b = ("timers" \in enabled)
        OBVIOUS
      <4>2. b \in BOOLEAN
        BY <4>1
      <4> QED BY <4>1, <4>2 DEF Reboot
    <3>2. up' = {} /\ queued' = enabled \cap Services /\ UNCHANGED <<enabled, job>>
      BY DEF Reboot, database
    <3> QED BY <1>1, <3>1, <3>2 DEF DInv, Typed, UnitsTyped
  <2> QED BY <1>1, <1>2, <2>1, KeptSame DEF DInv, Typed, DataTyped
<1>4. CASE child = "running"
  <2>1. Restoring /\ ~HasJournal
    BY <1>4 DEF DInv, Core, ChildAlone, Restoring, Apart, InstallMarker
  <2>2. Apart' /\ PackagesTrue' /\ ChildAlone'
    BY <1>1, <1>4, <2>1, KeptSame DEF DInv, Core, Apart, PackagesTrue, ChildAlone
  <2>3. InsSaved' /\ MediaSaved'
    BY <1>1, <2>1, KeptSame DEF DInv, Core, InsSaved, MediaSaved
  <2> QED BY <1>1, <1>2, <1>3, <2>2, <2>3 DEF DInv, Core, Aims, Places
<1>5. CASE child # "running"
  <2>1. Apart' /\ PackagesTrue' /\ ChildAlone'
    BY <1>1, <1>5, KeptSame DEF DInv, Core, Apart, PackagesTrue, ChildAlone
  <2>2. InsSaved' /\ MediaSaved'
    BY <1>1, <1>5, KeptSame DEF DInv, Core, InsSaved, MediaSaved
  <2> QED BY <1>1, <1>2, <1>3, <2>1, <2>2 DEF DInv, Core, Aims, Places
<1> QED BY <1>4, <1>5

\* A script takes the lock: it looks for what was left behind, or begins.
LEMMA Enter ==
    ASSUME DInv, Still, UnitsTyped', NEW who \in Scripts, NEW l \in {"x-look", "u-begin", "i-begin"}, NEW n \in Nexts,
           proc' = [who |-> who, at |-> l, next |-> n, keep |-> FALSE],
           l # "x-look" => ~Published /\ ~ins.pending /\ n = "exit",
           n \in {"u-begin", "i-begin"} \/ l # "x-look" => made < MaxReleases
    PROVE  DInv'
<1> USE DEF ObservingAt, AfterHost, Switched, Untouched, PreparedAt, RestoringAt, KeepingAt, InstallAt,
            BegunAt, ApplyAt, StageAt, TryAt, CommitAt, ForwardAt, BackAt, EndAt, MediaAt, Working
<1>1. /\ proc' \in Procs /\ proc'.at = l /\ proc'.who # "none" /\ proc'.next = n /\ proc'.keep = FALSE
  BY DEF Procs, Scripts
<1>2. Stands(l)
  BY <1>1, StillSame DEF Stands, AimOK
<1>3. l # "x-look" => child # "running"
  BY DEF Published, DInv, Core, ChildAlone, Restoring
<1>4. PlaceOK(l, FALSE)
  BY <1>3 DEF PlaceOK, InsPlace, RecoverPlace, UpdatePlace, BegunPlace, BuildPlace, BackPlace
<1> QED BY <1>1, <1>2, <1>4, StillMove

LEMMA Starts ==
    ASSUME DInv
    PROVE  /\ UpdateStarts(Published \/ ins.pending) /\ UNCHANGED ins => DInv'
           /\ InstallStarts(Published \/ ins.pending) /\ UNCHANGED media => DInv'
           /\ FinalizerStarts => DInv'
           /\ GateStarts => DInv'
<1>1. ASSUME UpdateStarts(Published \/ ins.pending), UNCHANGED ins PROVE DInv'
  <2>1. Still /\ UnitsTyped'
    BY <1>1 DEF UpdateStarts, Still, units, database, DInv, Typed, UnitsTyped
  <2>2. CASE Published \/ ins.pending
    BY <1>1, <2>1, <2>2, Enter DEF UpdateStarts, Scripts, Nexts
  <2>3. CASE ~(Published \/ ins.pending)
    BY <1>1, <2>1, <2>3, Enter DEF UpdateStarts, Scripts, Nexts
  <2> QED BY <2>2, <2>3
<1>2. ASSUME InstallStarts(Published \/ ins.pending), UNCHANGED media PROVE DInv'
  <2>1. Still /\ UnitsTyped'
    BY <1>2 DEF InstallStarts, Still, units, database, DInv, Typed, UnitsTyped
  <2>2. CASE Published \/ ins.pending
    BY <1>2, <2>1, <2>2, Enter DEF InstallStarts, Scripts, Nexts
  <2>3. CASE ~(Published \/ ins.pending)
    BY <1>2, <2>1, <2>3, Enter DEF InstallStarts, Scripts, Nexts
  <2> QED BY <2>2, <2>3
<1>3. ASSUME FinalizerStarts PROVE DInv'
  <2>1. Still /\ UnitsTyped' /\ RecoveryStarts("finalize")
    BY <1>3 DEF FinalizerStarts, Still, units, database, DInv, Typed, UnitsTyped
  <2> QED BY <2>1, Enter DEF RecoveryStarts, Scripts, Nexts
<1>4. ASSUME GateStarts PROVE DInv'
  <2>1. Still /\ UnitsTyped' /\ RecoveryStarts("gate")
    BY <1>4 DEF GateStarts, Still, units, database, DInv, Typed, UnitsTyped
  <2> QED BY <2>1, Enter DEF RecoveryStarts, Scripts, Nexts
<1> QED BY <1>1, <1>2, <1>3, <1>4

-----------------------------------------------------------------------------
(* What the media updater changes.                                           *)

LEMMA JournalFields ==
    ASSUME DInv, HasJournal
    PROVE  /\ journal \in JournalRecords
           /\ journal.state \in JournalStates /\ journal.id \in Nat /\ journal.prev \in Nat
           /\ journal.cand \in Int
           /\ journal.activated \in BOOLEAN /\ journal.changed \in BOOLEAN
           /\ journal.up \in SUBSET Services /\ journal.timers \in BOOLEAN
BY DEF DInv, Typed, DataTyped, HasJournal, JournalRecords

LEMMA AptFields ==
    ASSUME DInv
    PROVE  /\ apt \in AptRecords /\ apt.id \in Int /\ apt.state \in AptStates /\ apt.active \in BOOLEAN /\ apt.old \in Int
           /\ apt.id \in -1..made /\ apt.old \in -1..made
BY DEF DInv, Typed, DataTyped, AptRecords

\* While the media updater has a journal there is no installation.
LEMMA MediaArrive ==
    ASSUME DInv, ins' = ins, child' = child, made' = made, NEW l, At(l), HasJournal,
           NEW m \in MediaAt \ {"u-begin"}, Go(m), m \in Working => l \in Working,
           Typed', HasJournal', MediaSaved', PackagesTrue',
           NEW k, k = proc.keep, UpdatePlace(m)', BackPlace(m, k)'
    PROVE  DInv'
<1> USE DEF ObservingAt, AfterHost, Switched, Untouched, PreparedAt, RestoringAt, KeepingAt, InstallAt,
            BegunAt, ApplyAt, StageAt, TryAt, CommitAt, ForwardAt, BackAt, EndAt, MediaAt, Working
<1>1. /\ proc' \in Procs /\ proc'.at = m /\ proc'.who # "none"
      /\ proc'.next = proc.next /\ proc'.keep = k
  BY Standing, GoPlace
<1>2. Stands(m)
  BY <1>1, Standing DEF Stands, AimOK
<1>3. ~InstallMarker /\ child = "no" /\ ins.state \in {"RESTORED", "COMMITTED"}
  BY DEF DInv, Core, Apart, MediaSaved, InstallMarker
<1>4. Core'
  <2>1. Apart'
    BY <1>3 DEF Apart, InstallMarker
  <2>2. InsSaved' /\ ChildAlone'
    BY <1>3 DEF InsSaved, ChildAlone, Restoring, InstallMarker
  <2> QED BY <2>1, <2>2 DEF Core
<1>5. InsPlace(m)' /\ RecoverPlace(m)'
  BY <1>3 DEF InsPlace, RecoverPlace, InstallMarker
<1>6. PlaceOK(m, k)'
  BY <1>3, <1>5 DEF PlaceOK
<1> QED BY <1>1, <1>2, <1>4, <1>6, Arrive

LEMMA Numbers ==
    ASSUME DInv
    PROVE  /\ made \in Nat /\ made <= MaxReleases /\ schema \in Nat /\ host \in Int
           /\ app \in Nat /\ app <= made /\ tools \in Nat /\ tools <= made
           /\ pkgs \in Int /\ pkgs \in -1..made
BY HostAssumption DEF DInv, Typed, DataTyped, Releases

LEMMA AptPrepareStep ==
    ASSUME DInv, UNCHANGED ins, AptPrepare PROVE DInv'
<1> USE DEF ObservingAt, AfterHost, Switched, Untouched, PreparedAt, RestoringAt, KeepingAt, InstallAt,
            BegunAt, ApplyAt, StageAt, TryAt, CommitAt, ForwardAt, BackAt, EndAt, MediaAt, Working
<1>1. At("u-prepare") /\ Go("u-publish") /\ ins' = ins /\ child' = child /\ ~apt.active
  BY DEF AptPrepare, packages
<1>2. PICK k : k = proc.keep
  OBVIOUS
<1>3. PlaceOK("u-prepare", k)
  BY <1>1, <1>2, Standing
<1>4. HasJournal /\ journal.state = "BEGUN" /\ ~Mine /\ ~native
  BY <1>1, <1>3 DEF PlaceOK, UpdatePlace, BegunPlace, BuildPlace, BackPlace
<1>5. /\ schema' = schema /\ app' = app /\ tools' = tools /\ host' = host /\ pkgs' = pkgs /\ child' = child
      /\ made' = made /\ validated' = validated /\ journal' = journal /\ dir' = dir /\ native' = native
  BY DEF AptPrepare, units, database, runtime, packages, history
<1>6. apt'.id = journal.id /\ apt'.state = "PREPARED" /\ apt'.active = FALSE /\ apt'.old = pkgs
      /\ apt' = [id |-> journal.id, state |-> "PREPARED", active |-> FALSE, old |-> pkgs]
  BY <1>4, JournalFields, AptFields DEF AptPrepare, Apt, Journal
<1>7. MediaSaved /\ PackagesTrue
  BY DEF DInv, Core
<1>8. Mine' /\ OldPkgs' = OldPkgs /\ HasJournal' /\ ~KeepCandidate' /\ ~journal.changed
  BY <1>1, <1>4, <1>5, <1>6, <1>7, JournalFields DEF MediaSaved, PackagesTrue, HasJournal, NoJournal,
     JournalStates, Mine, OldPkgs, KeepCandidate
<1>9. MediaSaved'
  BY <1>1, <1>4, <1>5, <1>6, <1>7, <1>8, JournalFields DEF MediaSaved, PackagesTrue, Usable
<1>10. PackagesTrue'
  BY <1>1, <1>4, <1>5, <1>6, <1>7, <1>8, JournalFields DEF MediaSaved, PackagesTrue, AptFinal, AptRecoverable
<1>11. UpdatePlace("u-publish")' /\ BackPlace("u-publish", k)'
  BY <1>1, <1>4, <1>5, <1>6, <1>7, <1>8 DEF MediaSaved, PackagesTrue, UpdatePlace, BegunPlace, BuildPlace,
     BackPlace, AptFinal, AptRecoverable
<1>12. Typed'
  <2>4. journal.id \in Int /\ pkgs \in Int /\ "PREPARED" \in AptStates
    BY <1>4, Numbers, JournalFields DEF AptStates
  <2>5. apt' = [id |-> journal.id, state |-> "PREPARED", active |-> FALSE, old |-> pkgs]
    BY <1>6
  <2>1. apt' \in AptRecords
    BY <2>4, <2>5 DEF AptRecords
  <2>2. apt'.id \in -1..made /\ apt'.old \in -1..made
    BY <1>4, <1>6, <1>7, AptFields, JournalFields, Numbers DEF MediaSaved
  <2>3. proc' \in Procs
    BY <1>1, Standing, GoPlace
  <2> QED BY <1>5, <2>1, <2>3, <2>2, Numbers DEF DInv, Typed, DataTyped, UnitsTyped, AptPrepare, units, database
<1> QED BY <1>1, <1>2, <1>4, <1>5, <1>8, <1>9, <1>10, <1>11, <1>12, MediaArrive

LEMMA AptPublishStep ==
    ASSUME DInv, UNCHANGED ins, AptPublish PROVE DInv'
<1> USE DEF ObservingAt, AfterHost, Switched, Untouched, PreparedAt, RestoringAt, KeepingAt, InstallAt,
            BegunAt, ApplyAt, StageAt, TryAt, CommitAt, ForwardAt, BackAt, EndAt, MediaAt, Working
<1>1. At("u-publish") /\ Go("u-prepared") /\ ins' = ins /\ child' = child
  BY DEF AptPublish, packages
<1>2. PICK k : k = proc.keep
  OBVIOUS
<1>3. PlaceOK("u-publish", k)
  BY <1>1, <1>2, Standing
<1>4. HasJournal /\ journal.state = "BEGUN" /\ Mine /\ ~native /\ ~apt.active /\ apt.state = "PREPARED"
  BY <1>1, <1>3 DEF PlaceOK, UpdatePlace, BegunPlace, BuildPlace, BackPlace
<1>5. /\ schema' = schema /\ app' = app /\ tools' = tools /\ host' = host /\ pkgs' = pkgs /\ child' = child
      /\ made' = made /\ validated' = validated /\ journal' = journal /\ dir' = dir /\ native' = native
  BY DEF AptPublish, units, database, runtime, packages, history
<1>6. /\ apt'.id = apt.id /\ apt'.old = apt.old /\ apt'.state = apt.state /\ apt'.active = TRUE
      /\ apt' = [apt EXCEPT !.active = TRUE]
  BY <1>4, JournalFields, AptFields DEF AptPublish, Apt, Journal, AptRecords
<1>7. MediaSaved /\ PackagesTrue
  BY DEF DInv, Core
<1>8. Mine' /\ OldPkgs' = OldPkgs /\ HasJournal' /\ ~KeepCandidate' /\ ~journal.changed
  BY <1>1, <1>4, <1>5, <1>6, <1>7, JournalFields DEF MediaSaved, PackagesTrue, HasJournal, NoJournal,
     JournalStates, Mine, OldPkgs, KeepCandidate
<1>9. MediaSaved'
  BY <1>1, <1>4, <1>5, <1>6, <1>7, <1>8, JournalFields DEF MediaSaved, PackagesTrue, Usable
<1>10. PackagesTrue'
  BY <1>1, <1>4, <1>5, <1>6, <1>7, <1>8, JournalFields DEF MediaSaved, PackagesTrue, AptFinal, AptRecoverable
<1>11. UpdatePlace("u-prepared")' /\ BackPlace("u-prepared", k)'
  BY <1>1, <1>4, <1>5, <1>6, <1>7, <1>8 DEF MediaSaved, PackagesTrue, UpdatePlace, BegunPlace, BuildPlace,
     BackPlace, AptFinal, AptRecoverable
<1>12. Typed'
  <2>1. apt' \in AptRecords
    BY <1>6, AptFields, JournalFields, Numbers DEF AptRecords, AptStates, AptRecoverable, AptFinal
  <2>2. apt'.id \in -1..made /\ apt'.old \in -1..made
    BY <1>4, <1>6, <1>7, AptFields, JournalFields, Numbers DEF MediaSaved
  <2>3. proc' \in Procs
    BY <1>1, Standing, GoPlace
  <2> QED BY <1>5, <2>1, <2>3, <2>2, Numbers DEF DInv, Typed, DataTyped, UnitsTyped, AptPublish, units, database
<1> QED BY <1>1, <1>2, <1>4, <1>5, <1>8, <1>9, <1>10, <1>11, <1>12, MediaArrive

LEMMA AptApplyStep ==
    ASSUME DInv, UNCHANGED ins, AptApply PROVE DInv'
<1> USE DEF ObservingAt, AfterHost, Switched, Untouched, PreparedAt, RestoringAt, KeepingAt, InstallAt,
            BegunAt, ApplyAt, StageAt, TryAt, CommitAt, ForwardAt, BackAt, EndAt, MediaAt, Working
<1>1. At("u-apply") /\ Go("u-applied") /\ ins' = ins /\ child' = child
  BY DEF AptApply, packages
<1>2. PICK k : k = proc.keep
  OBVIOUS
<1>3. PlaceOK("u-apply", k)
  BY <1>1, <1>2, Standing
<1>4. /\ HasJournal /\ journal.state = "APT_PREPARED" /\ journal.cand = NoRelease /\ apt.active
      /\ journal.changed /\ apt.state = "PREPARED"
  BY <1>1, <1>3 DEF PlaceOK, UpdatePlace, BegunPlace, BuildPlace, BackPlace
<1>5. /\ schema' = schema /\ app' = app /\ tools' = tools /\ host' = host /\ child' = child /\ made' = made
      /\ validated' = validated /\ journal' = journal /\ dir' = dir /\ native' = native
  BY DEF AptApply, units, database, runtime, packages, history
<1>6. /\ apt'.id = apt.id /\ apt'.old = apt.old /\ apt'.state = "APPLYING" /\ apt'.active = apt.active
      /\ apt' = [apt EXCEPT !.state = "APPLYING"]
      /\ pkgs' = Mixed
  BY <1>4, JournalFields, AptFields DEF AptApply, Apt, Journal, AptRecords
<1>7. MediaSaved /\ PackagesTrue
  BY DEF DInv, Core
<1>8. (Mine' <=> Mine) /\ Mine /\ OldPkgs' = OldPkgs /\ HasJournal' /\ ~KeepCandidate' 
  BY <1>1, <1>4, <1>5, <1>6, <1>7, JournalFields DEF MediaSaved, PackagesTrue, HasJournal, NoJournal,
     JournalStates, Mine, OldPkgs, KeepCandidate
<1>9. MediaSaved'
  BY <1>1, <1>4, <1>5, <1>6, <1>7, <1>8, JournalFields DEF MediaSaved, PackagesTrue, Usable
<1>10. PackagesTrue'
  BY <1>1, <1>4, <1>5, <1>6, <1>7, <1>8, JournalFields DEF MediaSaved, PackagesTrue, AptFinal, AptRecoverable
<1>11. UpdatePlace("u-applied")' /\ BackPlace("u-applied", k)'
  BY <1>1, <1>4, <1>5, <1>6, <1>7, <1>8 DEF MediaSaved, PackagesTrue, UpdatePlace, BegunPlace, BuildPlace,
     BackPlace, AptFinal, AptRecoverable
<1>12. Typed'
  <2>1. apt' \in AptRecords
    BY <1>6, AptFields, JournalFields, Numbers DEF AptRecords, AptStates, AptRecoverable, AptFinal
  <2>2. apt'.id \in -1..made /\ apt'.old \in -1..made /\ pkgs' \in -1..made
    BY <1>4, <1>6, <1>7, AptFields, JournalFields, Numbers DEF MediaSaved, Mixed
  <2>3. proc' \in Procs
    BY <1>1, Standing, GoPlace
  <2> QED BY <1>5, <2>1, <2>3, <2>2, Numbers DEF DInv, Typed, DataTyped, UnitsTyped, AptApply, units, database
<1> QED BY <1>1, <1>2, <1>4, <1>5, <1>8, <1>9, <1>10, <1>11, <1>12, MediaArrive

LEMMA AptAppliedStep ==
    ASSUME DInv, UNCHANGED ins, AptApplied PROVE DInv'
<1> USE DEF ObservingAt, AfterHost, Switched, Untouched, PreparedAt, RestoringAt, KeepingAt, InstallAt,
            BegunAt, ApplyAt, StageAt, TryAt, CommitAt, ForwardAt, BackAt, EndAt, MediaAt, Working
<1>1. At("u-applied") /\ Go("u-validate") /\ ins' = ins /\ child' = child
  BY DEF AptApplied, packages
<1>2. PICK k : k = proc.keep
  OBVIOUS
<1>3. PlaceOK("u-applied", k)
  BY <1>1, <1>2, Standing
<1>4. /\ HasJournal /\ journal.state = "APT_PREPARED" /\ journal.cand = NoRelease /\ apt.active
      /\ journal.changed /\ apt.state = "APPLYING"
  BY <1>1, <1>3 DEF PlaceOK, UpdatePlace, BegunPlace, BuildPlace, BackPlace
<1>5. /\ schema' = schema /\ app' = app /\ tools' = tools /\ host' = host /\ child' = child /\ made' = made
      /\ validated' = validated /\ journal' = journal /\ dir' = dir /\ native' = native
  BY DEF AptApplied, units, database, runtime, packages, history
<1>6. /\ apt'.id = apt.id /\ apt'.old = apt.old /\ apt'.state = "APPLIED" /\ apt'.active = apt.active
      /\ apt' = [apt EXCEPT !.state = "APPLIED"]
      /\ pkgs' = apt.id
  BY <1>4, JournalFields, AptFields DEF AptApplied, Apt, Journal, AptRecords
<1>7. MediaSaved /\ PackagesTrue
  BY DEF DInv, Core
<1>8. (Mine' <=> Mine) /\ Mine /\ OldPkgs' = OldPkgs /\ HasJournal' /\ ~KeepCandidate' 
  BY <1>1, <1>4, <1>5, <1>6, <1>7, JournalFields DEF MediaSaved, PackagesTrue, HasJournal, NoJournal,
     JournalStates, Mine, OldPkgs, KeepCandidate
<1>9. MediaSaved'
  BY <1>1, <1>4, <1>5, <1>6, <1>7, <1>8, JournalFields DEF MediaSaved, PackagesTrue, Usable
<1>10. PackagesTrue'
  BY <1>1, <1>4, <1>5, <1>6, <1>7, <1>8, JournalFields DEF MediaSaved, PackagesTrue, AptFinal, AptRecoverable
<1>11. UpdatePlace("u-validate")' /\ BackPlace("u-validate", k)'
  BY <1>1, <1>4, <1>5, <1>6, <1>7, <1>8 DEF MediaSaved, PackagesTrue, UpdatePlace, BegunPlace, BuildPlace,
     BackPlace, AptFinal, AptRecoverable
<1>12. Typed'
  <2>1. apt' \in AptRecords
    BY <1>6, AptFields, JournalFields, Numbers DEF AptRecords, AptStates, AptRecoverable, AptFinal
  <2>2. apt'.id \in -1..made /\ apt'.old \in -1..made /\ pkgs' \in -1..made
    BY <1>4, <1>6, <1>7, AptFields, JournalFields, Numbers DEF MediaSaved, Mixed
  <2>3. proc' \in Procs
    BY <1>1, Standing, GoPlace
  <2> QED BY <1>5, <2>1, <2>3, <2>2, Numbers DEF DInv, Typed, DataTyped, UnitsTyped, AptApplied, units, database
<1> QED BY <1>1, <1>2, <1>4, <1>5, <1>8, <1>9, <1>10, <1>11, <1>12, MediaArrive

LEMMA AptValidateStep ==
    ASSUME DInv, UNCHANGED ins, AptValidate PROVE DInv'
<1> USE DEF ObservingAt, AfterHost, Switched, Untouched, PreparedAt, RestoringAt, KeepingAt, InstallAt,
            BegunAt, ApplyAt, StageAt, TryAt, CommitAt, ForwardAt, BackAt, EndAt, MediaAt, Working
<1>1. At("u-validate") /\ Go("u-stage") /\ ins' = ins /\ child' = child
  BY DEF AptValidate, packages
<1>2. PICK k : k = proc.keep
  OBVIOUS
<1>3. PlaceOK("u-validate", k)
  BY <1>1, <1>2, Standing
<1>4. /\ HasJournal /\ journal.state = "APT_PREPARED" /\ journal.cand = NoRelease /\ apt.active
      /\ journal.changed /\ apt.state = "APPLIED"
  BY <1>1, <1>3 DEF PlaceOK, UpdatePlace, BegunPlace, BuildPlace, BackPlace
<1>5. /\ schema' = schema /\ app' = app /\ tools' = tools /\ host' = host /\ pkgs' = pkgs /\ child' = child
      /\ made' = made /\ validated' = validated /\ journal' = journal /\ dir' = dir /\ native' = native
  BY DEF AptValidate, units, database, runtime, packages, history
<1>6. /\ apt'.id = apt.id /\ apt'.old = apt.old /\ apt'.state = "VALIDATING" /\ apt'.active = apt.active
      /\ apt' = [apt EXCEPT !.state = "VALIDATING"]
  BY <1>4, JournalFields, AptFields DEF AptValidate, Apt, Journal, AptRecords
<1>7. MediaSaved /\ PackagesTrue
  BY DEF DInv, Core
<1>8. (Mine' <=> Mine) /\ Mine /\ OldPkgs' = OldPkgs /\ HasJournal' /\ ~KeepCandidate' 
  BY <1>1, <1>4, <1>5, <1>6, <1>7, JournalFields DEF MediaSaved, PackagesTrue, HasJournal, NoJournal,
     JournalStates, Mine, OldPkgs, KeepCandidate
<1>9. MediaSaved'
  BY <1>1, <1>4, <1>5, <1>6, <1>7, <1>8, JournalFields DEF MediaSaved, PackagesTrue, Usable
<1>10. PackagesTrue'
  BY <1>1, <1>4, <1>5, <1>6, <1>7, <1>8, JournalFields DEF MediaSaved, PackagesTrue, AptFinal, AptRecoverable
<1>11. UpdatePlace("u-stage")' /\ BackPlace("u-stage", k)'
  BY <1>1, <1>4, <1>5, <1>6, <1>7, <1>8 DEF MediaSaved, PackagesTrue, UpdatePlace, BegunPlace, BuildPlace,
     BackPlace, AptFinal, AptRecoverable
<1>12. Typed'
  <2>1. apt' \in AptRecords
    BY <1>6, AptFields, JournalFields, Numbers DEF AptRecords, AptStates, AptRecoverable, AptFinal
  <2>2. apt'.id \in -1..made /\ apt'.old \in -1..made
    BY <1>4, <1>6, <1>7, AptFields, JournalFields, Numbers DEF MediaSaved
  <2>3. proc' \in Procs
    BY <1>1, Standing, GoPlace
  <2> QED BY <1>5, <2>1, <2>3, <2>2, Numbers DEF DInv, Typed, DataTyped, UnitsTyped, AptValidate, units,
     database
<1> QED BY <1>1, <1>2, <1>4, <1>5, <1>8, <1>9, <1>10, <1>11, <1>12, MediaArrive

LEMMA AptCommitStep ==
    ASSUME DInv, UNCHANGED ins, AptCommit PROVE DInv'
<1> USE DEF ObservingAt, AfterHost, Switched, Untouched, PreparedAt, RestoringAt, KeepingAt, InstallAt,
            BegunAt, ApplyAt, StageAt, TryAt, CommitAt, ForwardAt, BackAt, EndAt, MediaAt, Working
<1>1. /\ At("u-apt-commit") /\ Go("u-apt-clear") /\ ins' = ins /\ child' = child
      /\ apt.state \in {"APPLIED", "VALIDATING"}
  BY DEF AptCommit, packages
<1>2. PICK k : k = proc.keep
  OBVIOUS
<1>3. PlaceOK("u-apt-commit", k)
  BY <1>1, <1>2, Standing
<1>4. HasJournal /\ journal.state = "HEALTHY" /\ journal.changed /\ apt.active /\ Sound /\ tools = Target
  BY <1>1, <1>3 DEF PlaceOK, UpdatePlace, BegunPlace, BuildPlace, BackPlace
<1>5. /\ schema' = schema /\ app' = app /\ tools' = tools /\ host' = host /\ pkgs' = pkgs /\ child' = child
      /\ made' = made /\ validated' = validated /\ journal' = journal /\ dir' = dir /\ native' = native
  BY DEF AptCommit, units, database, runtime, packages, history
<1>6. /\ apt'.id = apt.id /\ apt'.old = apt.old /\ apt'.state = "COMMITTED" /\ apt'.active = apt.active
      /\ apt' = [apt EXCEPT !.state = "COMMITTED"]
  BY <1>4, JournalFields, AptFields DEF AptCommit, Apt, Journal, AptRecords
<1>7. MediaSaved /\ PackagesTrue
  BY DEF DInv, Core
<1>8. Mine' /\ Mine /\ OldPkgs' = OldPkgs /\ HasJournal' /\ Sound' /\ Target' = Target /\ KeepCandidate' 
  BY <1>1, <1>4, <1>5, <1>6, <1>7, JournalFields DEF MediaSaved, PackagesTrue, HasJournal, NoJournal,
     JournalStates, Mine, OldPkgs, KeepCandidate, PackagesChanged, PackageCommitted, Sound, Target, Usable
<1>9. MediaSaved'
  BY <1>1, <1>4, <1>5, <1>6, <1>7, <1>8, JournalFields DEF MediaSaved, PackagesTrue, Usable
<1>10. PackagesTrue'
  BY <1>1, <1>4, <1>5, <1>6, <1>7, <1>8, JournalFields DEF MediaSaved, PackagesTrue, AptFinal, AptRecoverable
<1>11. UpdatePlace("u-apt-clear")' /\ BackPlace("u-apt-clear", k)'
  BY <1>1, <1>4, <1>5, <1>6, <1>7, <1>8 DEF MediaSaved, PackagesTrue, UpdatePlace, BegunPlace, BuildPlace,
     BackPlace, AptFinal, AptRecoverable
<1>12. Typed'
  <2>1. apt' \in AptRecords
    BY <1>6, AptFields, JournalFields, Numbers DEF AptRecords, AptStates, AptRecoverable, AptFinal
  <2>2. apt'.id \in -1..made /\ apt'.old \in -1..made
    BY <1>4, <1>6, <1>7, AptFields, JournalFields, Numbers DEF MediaSaved
  <2>3. proc' \in Procs
    BY <1>1, Standing, GoPlace
  <2> QED BY <1>5, <2>1, <2>3, <2>2, Numbers DEF DInv, Typed, DataTyped, UnitsTyped, AptCommit, units, database
<1> QED BY <1>1, <1>2, <1>4, <1>5, <1>8, <1>9, <1>10, <1>11, <1>12, MediaArrive

LEMMA AptCommittedStep ==
    ASSUME DInv, UNCHANGED ins, AptCommitted PROVE DInv'
<1> USE DEF ObservingAt, AfterHost, Switched, Untouched, PreparedAt, RestoringAt, KeepingAt, InstallAt,
            BegunAt, ApplyAt, StageAt, TryAt, CommitAt, ForwardAt, BackAt, EndAt, MediaAt, Working
<1>1. At("u-apt-clear") /\ Go("u-commit") /\ ins' = ins /\ child' = child
  BY DEF AptCommitted, packages
<1>2. PICK k : k = proc.keep
  OBVIOUS
<1>3. PlaceOK("u-apt-clear", k)
  BY <1>1, <1>2, Standing
<1>4. /\ HasJournal /\ journal.state = "HEALTHY" /\ journal.changed /\ apt.active /\ apt.state = "COMMITTED"
      /\ Sound /\ tools = Target
  BY <1>1, <1>3 DEF PlaceOK, UpdatePlace, BegunPlace, BuildPlace, BackPlace
<1>5. /\ schema' = schema /\ app' = app /\ tools' = tools /\ host' = host /\ pkgs' = pkgs /\ child' = child
      /\ made' = made /\ validated' = validated /\ journal' = journal /\ dir' = dir /\ native' = native
  BY DEF AptCommitted, units, database, runtime, packages, history
<1>6. /\ apt'.id = apt.id /\ apt'.old = apt.old /\ apt'.state = apt.state /\ apt'.active = FALSE
      /\ apt' = [apt EXCEPT !.active = FALSE]
  BY <1>4, JournalFields, AptFields DEF AptCommitted, Apt, Journal, AptRecords
<1>7. MediaSaved /\ PackagesTrue
  BY DEF DInv, Core
<1>8. Mine' /\ Mine /\ OldPkgs' = OldPkgs /\ HasJournal' /\ Sound' /\ Target' = Target /\ KeepCandidate' 
  BY <1>1, <1>4, <1>5, <1>6, <1>7, JournalFields DEF MediaSaved, PackagesTrue, HasJournal, NoJournal,
     JournalStates, Mine, OldPkgs, KeepCandidate, PackagesChanged, PackageCommitted, Sound, Target, Usable
<1>9. MediaSaved'
  BY <1>1, <1>4, <1>5, <1>6, <1>7, <1>8, JournalFields DEF MediaSaved, PackagesTrue, Usable
<1>10. PackagesTrue'
  BY <1>1, <1>4, <1>5, <1>6, <1>7, <1>8, JournalFields DEF MediaSaved, PackagesTrue, AptFinal, AptRecoverable
<1>11. UpdatePlace("u-commit")' /\ BackPlace("u-commit", k)'
  BY <1>1, <1>4, <1>5, <1>6, <1>7, <1>8 DEF MediaSaved, PackagesTrue, UpdatePlace, BegunPlace, BuildPlace,
     BackPlace, AptFinal, AptRecoverable
<1>12. Typed'
  <2>1. apt' \in AptRecords
    BY <1>6, AptFields, JournalFields, Numbers DEF AptRecords, AptStates, AptRecoverable, AptFinal
  <2>2. apt'.id \in -1..made /\ apt'.old \in -1..made
    BY <1>4, <1>6, <1>7, AptFields, JournalFields, Numbers DEF MediaSaved
  <2>3. proc' \in Procs
    BY <1>1, Standing, GoPlace
  <2> QED BY <1>5, <2>1, <2>3, <2>2, Numbers DEF DInv, Typed, DataTyped, UnitsTyped, AptCommitted, units,
     database
<1> QED BY <1>1, <1>2, <1>4, <1>5, <1>8, <1>9, <1>10, <1>11, <1>12, MediaArrive

LEMMA AptClearedStep ==
    ASSUME DInv, UNCHANGED ins, AptCleared PROVE DInv'
<1> USE DEF ObservingAt, AfterHost, Switched, Untouched, PreparedAt, RestoringAt, KeepingAt, InstallAt,
            BegunAt, ApplyAt, StageAt, TryAt, CommitAt, ForwardAt, BackAt, EndAt, MediaAt, Working
<1>1. At("r-clear-apt") /\ Go("r-forth") /\ ins' = ins /\ child' = child
  BY DEF AptCleared, packages
<1>2. PICK k : k = proc.keep
  OBVIOUS
<1>3. PlaceOK("r-clear-apt", k)
  BY <1>1, <1>2, Standing
<1>4. /\ HasJournal /\ ~native /\ (k <=> KeepCandidate) /\ apt.state \in AptFinal
      /\ k \/ tools = journal.prev
  BY <1>1, <1>3 DEF PlaceOK, UpdatePlace, BegunPlace, BuildPlace, BackPlace
<1>5. /\ schema' = schema /\ app' = app /\ tools' = tools /\ host' = host /\ pkgs' = pkgs /\ child' = child
      /\ made' = made /\ validated' = validated /\ journal' = journal /\ dir' = dir /\ native' = native
  BY DEF AptCleared, units, database, runtime, packages, history
<1>6. /\ apt'.id = apt.id /\ apt'.old = apt.old /\ apt'.state = apt.state /\ apt'.active = FALSE
      /\ apt' = [apt EXCEPT !.active = FALSE]
  BY <1>4, JournalFields, AptFields DEF AptCleared, Apt, Journal, AptRecords
<1>7. MediaSaved /\ PackagesTrue
  BY DEF DInv, Core
<1>8. /\ (Mine' <=> Mine) /\ OldPkgs' = OldPkgs /\ HasJournal' /\ (Sound' <=> Sound) /\ Target' = Target
      /\ (KeepCandidate' <=> KeepCandidate)
  BY <1>1, <1>4, <1>5, <1>6, <1>7, JournalFields DEF MediaSaved, PackagesTrue, HasJournal, NoJournal,
     JournalStates, Mine, OldPkgs, KeepCandidate, PackagesChanged, PackageCommitted, Sound, Target, Usable
<1>9. MediaSaved'
  BY <1>1, <1>4, <1>5, <1>6, <1>7, <1>8, JournalFields DEF MediaSaved, PackagesTrue, Usable
<1>10. PackagesTrue'
  BY <1>1, <1>4, <1>5, <1>6, <1>7, <1>8, JournalFields DEF MediaSaved, PackagesTrue, AptFinal, AptRecoverable
<1>11. UpdatePlace("r-forth")' /\ BackPlace("r-forth", k)'
  BY <1>1, <1>4, <1>5, <1>6, <1>7, <1>8 DEF MediaSaved, PackagesTrue, UpdatePlace, BegunPlace, BuildPlace,
     BackPlace, AptFinal, AptRecoverable
<1>12. Typed'
  <2>1. apt' \in AptRecords
    BY <1>6, AptFields, JournalFields, Numbers DEF AptRecords, AptStates, AptRecoverable, AptFinal
  <2>2. apt'.id \in -1..made /\ apt'.old \in -1..made
    BY <1>4, <1>6, <1>7, AptFields, JournalFields, Numbers DEF MediaSaved
  <2>3. proc' \in Procs
    BY <1>1, Standing, GoPlace
  <2> QED BY <1>5, <2>1, <2>3, <2>2, Numbers DEF DInv, Typed, DataTyped, UnitsTyped, AptCleared, units, database
<1> QED BY <1>1, <1>2, <1>4, <1>5, <1>8, <1>9, <1>10, <1>11, <1>12, MediaArrive

LEMMA AptRolledBackStep ==
    ASSUME DInv, UNCHANGED ins, AptRolledBack PROVE DInv'
<1> USE DEF ObservingAt, AfterHost, Switched, Untouched, PreparedAt, RestoringAt, KeepingAt, InstallAt,
            BegunAt, ApplyAt, StageAt, TryAt, CommitAt, ForwardAt, BackAt, EndAt, MediaAt, Working
<1>1. At("r-rollback") /\ Go("r-clear-apt") /\ ins' = ins /\ child' = child
  BY DEF AptRolledBack, packages
<1>2. PICK k : k = proc.keep
  OBVIOUS
<1>3. PlaceOK("r-rollback", k)
  BY <1>1, <1>2, Standing
<1>4. /\ HasJournal /\ ~native /\ ~k /\ apt.active /\ apt.state = "ROLLING_BACK"
      /\ tools = journal.prev
  BY <1>1, <1>3 DEF PlaceOK, UpdatePlace, BegunPlace, BuildPlace, BackPlace
<1>5. /\ schema' = schema /\ app' = app /\ tools' = tools /\ host' = host /\ child' = child /\ made' = made
      /\ validated' = validated /\ journal' = journal /\ dir' = dir /\ native' = native
  BY DEF AptRolledBack, units, database, runtime, packages, history
<1>6. /\ apt'.id = apt.id /\ apt'.old = apt.old /\ apt'.state = "ROLLED_BACK" /\ apt'.active = apt.active
      /\ apt' = [apt EXCEPT !.state = "ROLLED_BACK"]
      /\ pkgs' = apt.old
  BY <1>4, JournalFields, AptFields DEF AptRolledBack, Apt, Journal, AptRecords
<1>7. MediaSaved /\ PackagesTrue
  BY DEF DInv, Core
<1>8. Mine' /\ Mine /\ OldPkgs' = OldPkgs /\ HasJournal' /\ ~KeepCandidate' 
  BY <1>1, <1>4, <1>5, <1>6, <1>7, JournalFields DEF MediaSaved, PackagesTrue, HasJournal, NoJournal,
     JournalStates, Mine, OldPkgs, KeepCandidate, PackagesChanged, PackageCommitted
<1>9. MediaSaved'
  BY <1>1, <1>4, <1>5, <1>6, <1>7, <1>8, JournalFields DEF MediaSaved, PackagesTrue, Usable
<1>10. PackagesTrue'
  BY <1>1, <1>4, <1>5, <1>6, <1>7, <1>8, JournalFields DEF MediaSaved, PackagesTrue, AptFinal, AptRecoverable
<1>11. UpdatePlace("r-clear-apt")' /\ BackPlace("r-clear-apt", k)'
  BY <1>1, <1>4, <1>5, <1>6, <1>7, <1>8 DEF MediaSaved, PackagesTrue, UpdatePlace, BegunPlace, BuildPlace,
     BackPlace, AptFinal, AptRecoverable
<1>12. Typed'
  <2>1. apt' \in AptRecords
    BY <1>6, AptFields, JournalFields, Numbers DEF AptRecords, AptStates, AptRecoverable, AptFinal
  <2>2. apt'.id \in -1..made /\ apt'.old \in -1..made /\ pkgs' \in -1..made
    BY <1>4, <1>6, <1>7, AptFields, JournalFields, Numbers DEF MediaSaved, Mixed
  <2>3. proc' \in Procs
    BY <1>1, Standing, GoPlace
  <2> QED BY <1>5, <2>1, <2>3, <2>2, Numbers DEF DInv, Typed, DataTyped, UnitsTyped, AptRolledBack, units,
     database
<1> QED BY <1>1, <1>2, <1>4, <1>5, <1>8, <1>9, <1>10, <1>11, <1>12, MediaArrive

\* The two branches of AptRecovers that change the transaction.
AptAborts ==
    /\ At("r-apt") /\ apt.active /\ apt.state = "PREPARED"
    /\ Apt("ABORTED") /\ Go("r-clear-apt") /\ UNCHANGED pkgs
    /\ UNCHANGED <<units, faults, database, runtime, child, history, journal, dir>>

AptGoesBack ==
    /\ At("r-apt") /\ apt.active /\ apt.state \in AptRecoverable
    /\ Apt("ROLLING_BACK") /\ pkgs' = Mixed /\ Go("r-rollback")
    /\ UNCHANGED <<units, faults, database, runtime, child, history, journal, dir>>

LEMMA AptAbortsStep ==
    ASSUME DInv, UNCHANGED ins, AptAborts PROVE DInv'
<1> USE DEF ObservingAt, AfterHost, Switched, Untouched, PreparedAt, RestoringAt, KeepingAt, InstallAt,
            BegunAt, ApplyAt, StageAt, TryAt, CommitAt, ForwardAt, BackAt, EndAt, MediaAt, Working
<1>1. At("r-apt") /\ Go("r-clear-apt") /\ ins' = ins /\ child' = child /\ apt.active /\ apt.state = "PREPARED"
  BY DEF AptAborts, packages
<1>2. PICK k : k = proc.keep
  OBVIOUS
<1>3. PlaceOK("r-apt", k)
  BY <1>1, <1>2, Standing
<1>4. /\ HasJournal /\ ~native /\ (k <=> KeepCandidate)
      /\ k \/ tools = journal.prev
  BY <1>1, <1>3 DEF PlaceOK, UpdatePlace, BegunPlace, BuildPlace, BackPlace
<1>5. /\ schema' = schema /\ app' = app /\ tools' = tools /\ host' = host /\ pkgs' = pkgs /\ child' = child
      /\ made' = made /\ validated' = validated /\ journal' = journal /\ dir' = dir /\ native' = native
  BY DEF AptAborts, units, database, runtime, packages, history
<1>6. /\ apt'.id = apt.id /\ apt'.old = apt.old /\ apt'.state = "ABORTED" /\ apt'.active = apt.active
      /\ apt' = [apt EXCEPT !.state = "ABORTED"]
  BY <1>4, JournalFields, AptFields DEF AptAborts, Apt, Journal, AptRecords
<1>7. MediaSaved /\ PackagesTrue
  BY DEF DInv, Core
<1>8. Mine' /\ Mine /\ OldPkgs' = OldPkgs /\ HasJournal' /\ ~KeepCandidate' /\ ~KeepCandidate
  BY <1>1, <1>4, <1>5, <1>6, <1>7, JournalFields DEF MediaSaved, PackagesTrue, HasJournal, NoJournal,
     JournalStates, Mine, OldPkgs, KeepCandidate, PackagesChanged, PackageCommitted
<1>9. MediaSaved'
  BY <1>1, <1>4, <1>5, <1>6, <1>7, <1>8, JournalFields DEF MediaSaved, PackagesTrue, Usable
<1>10. PackagesTrue'
  BY <1>1, <1>4, <1>5, <1>6, <1>7, <1>8, JournalFields DEF MediaSaved, PackagesTrue, AptFinal, AptRecoverable
<1>11. UpdatePlace("r-clear-apt")' /\ BackPlace("r-clear-apt", k)'
  BY <1>1, <1>4, <1>5, <1>6, <1>7, <1>8 DEF MediaSaved, PackagesTrue, UpdatePlace, BegunPlace, BuildPlace,
     BackPlace, AptFinal, AptRecoverable
<1>12. Typed'
  <2>1. apt' \in AptRecords
    BY <1>6, AptFields, JournalFields, Numbers DEF AptRecords, AptStates, AptRecoverable, AptFinal
  <2>2. apt'.id \in -1..made /\ apt'.old \in -1..made
    BY <1>4, <1>6, <1>7, AptFields, JournalFields, Numbers DEF MediaSaved
  <2>3. proc' \in Procs
    BY <1>1, Standing, GoPlace
  <2> QED BY <1>5, <2>1, <2>3, <2>2, Numbers DEF DInv, Typed, DataTyped, UnitsTyped, AptAborts, units, database
<1> QED BY <1>1, <1>2, <1>4, <1>5, <1>8, <1>9, <1>10, <1>11, <1>12, MediaArrive

LEMMA AptGoesBackStep ==
    ASSUME DInv, UNCHANGED ins, AptGoesBack PROVE DInv'
<1> USE DEF ObservingAt, AfterHost, Switched, Untouched, PreparedAt, RestoringAt, KeepingAt, InstallAt,
            BegunAt, ApplyAt, StageAt, TryAt, CommitAt, ForwardAt, BackAt, EndAt, MediaAt, Working
<1>1. /\ At("r-apt") /\ Go("r-rollback") /\ ins' = ins /\ child' = child /\ apt.active
      /\ apt.state \in AptRecoverable
  BY DEF AptGoesBack, packages
<1>2. PICK k : k = proc.keep
  OBVIOUS
<1>3. PlaceOK("r-apt", k)
  BY <1>1, <1>2, Standing
<1>4. /\ HasJournal /\ ~native /\ (k <=> KeepCandidate)
      /\ k \/ tools = journal.prev
  BY <1>1, <1>3 DEF PlaceOK, UpdatePlace, BegunPlace, BuildPlace, BackPlace
<1>5. /\ schema' = schema /\ app' = app /\ tools' = tools /\ host' = host /\ child' = child /\ made' = made
      /\ validated' = validated /\ journal' = journal /\ dir' = dir /\ native' = native
  BY DEF AptGoesBack, units, database, runtime, packages, history
<1>6. /\ apt'.id = apt.id /\ apt'.old = apt.old /\ apt'.state = "ROLLING_BACK" /\ apt'.active = apt.active
      /\ apt' = [apt EXCEPT !.state = "ROLLING_BACK"]
      /\ pkgs' = Mixed
  BY <1>4, JournalFields, AptFields DEF AptGoesBack, Apt, Journal, AptRecords
<1>7. MediaSaved /\ PackagesTrue
  BY DEF DInv, Core
<1>8. Mine' /\ Mine /\ OldPkgs' = OldPkgs /\ HasJournal' /\ ~KeepCandidate' /\ ~KeepCandidate /\ journal.changed
  BY <1>1, <1>4, <1>5, <1>6, <1>7, JournalFields DEF MediaSaved, PackagesTrue, HasJournal, NoJournal,
     JournalStates, Mine, OldPkgs, KeepCandidate, PackagesChanged, PackageCommitted, AptRecoverable
<1>9. MediaSaved'
  BY <1>1, <1>4, <1>5, <1>6, <1>7, <1>8, JournalFields DEF MediaSaved, PackagesTrue, Usable
<1>10. PackagesTrue'
  BY <1>1, <1>4, <1>5, <1>6, <1>7, <1>8, JournalFields DEF MediaSaved, PackagesTrue, AptFinal, AptRecoverable
<1>11. UpdatePlace("r-rollback")' /\ BackPlace("r-rollback", k)'
  BY <1>1, <1>4, <1>5, <1>6, <1>7, <1>8 DEF MediaSaved, PackagesTrue, UpdatePlace, BegunPlace, BuildPlace,
     BackPlace, AptFinal, AptRecoverable
<1>12. Typed'
  <2>1. apt' \in AptRecords
    BY <1>6, AptFields, JournalFields, Numbers DEF AptRecords, AptStates, AptRecoverable, AptFinal
  <2>2. apt'.id \in -1..made /\ apt'.old \in -1..made /\ pkgs' \in -1..made
    BY <1>4, <1>6, <1>7, AptFields, JournalFields, Numbers DEF MediaSaved, Mixed
  <2>3. proc' \in Procs
    BY <1>1, Standing, GoPlace
  <2> QED BY <1>5, <2>1, <2>3, <2>2, Numbers DEF DInv, Typed, DataTyped, UnitsTyped, AptGoesBack, units,
     database
<1> QED BY <1>1, <1>2, <1>4, <1>5, <1>8, <1>9, <1>10, <1>11, <1>12, MediaArrive

LEMMA AptRecoversStep ==
    ASSUME DInv, UNCHANGED ins, AptRecovers PROVE DInv'
<1> USE DEF ObservingAt, AfterHost, Switched, Untouched, PreparedAt, RestoringAt, KeepingAt, InstallAt,
            BegunAt, ApplyAt, StageAt, TryAt, CommitAt, ForwardAt, BackAt, EndAt, MediaAt, Working
<1>1. At("r-apt")
  BY DEF AptRecovers
<1>2. CASE ~apt.active /\ Go("r-forth") /\ UNCHANGED <<apt, pkgs>>
  <2>1. Still /\ UnitsTyped'
    BY <1>2 DEF AptRecovers, Still, units, database, packages, media, DInv, Typed, UnitsTyped
  <2>2. PlaceOK("r-apt", proc.keep) => PlaceOK("r-forth", proc.keep)
    BY <1>2 DEF PlaceOK, InsPlace, RecoverPlace, UpdatePlace, BegunPlace, BuildPlace, BackPlace
  <2> QED BY <1>1, <1>2, <2>1, <2>2, MoveOn
<1>3. CASE apt.active /\ apt.state \in AptFinal /\ Go("r-clear-apt") /\ UNCHANGED <<apt, pkgs>>
  <2>1. Still /\ UnitsTyped'
    BY <1>3 DEF AptRecovers, Still, units, database, packages, media, DInv, Typed, UnitsTyped
  <2>2. PlaceOK("r-apt", proc.keep) => PlaceOK("r-clear-apt", proc.keep)
    BY <1>3 DEF PlaceOK, InsPlace, RecoverPlace, UpdatePlace, BegunPlace, BuildPlace, BackPlace
  <2> QED BY <1>1, <1>3, <2>1, <2>2, MoveOn
<1>4. CASE AptAborts
  BY <1>4, AptAbortsStep
<1>5. CASE AptGoesBack
  BY <1>5, AptGoesBackStep
<1> QED BY <1>2, <1>3, <1>4, <1>5 DEF AptRecovers, AptAborts, AptGoesBack

LEMMA AptRollbackFailsStep ==
    ASSUME DInv, UNCHANGED ins, AptRollbackFails PROVE DInv'
<1> USE DEF ObservingAt, AfterHost, Switched, Untouched, PreparedAt, RestoringAt, KeepingAt, InstallAt,
            BegunAt, ApplyAt, StageAt, TryAt, CommitAt, ForwardAt, BackAt, EndAt, MediaAt, Working
<1>1. At("r-rollback") /\ proc' = Nobody /\ ins' = ins
  BY DEF AptRollbackFails, End
<1>2. PlaceOK("r-rollback", proc.keep)
  BY <1>1, Standing
<1>3. /\ HasJournal /\ ~native /\ ~KeepCandidate /\ apt.active /\ apt.state = "ROLLING_BACK"
  BY <1>2 DEF PlaceOK, BackPlace
<1>4. /\ schema' = schema /\ app' = app /\ tools' = tools /\ host' = host /\ pkgs' = pkgs /\ child' = child
      /\ made' = made /\ validated' = validated /\ journal' = journal /\ dir' = dir /\ native' = native
  BY DEF AptRollbackFails, database, runtime, packages, history
<1>5. /\ apt'.id = apt.id /\ apt'.old = apt.old /\ apt'.state = "RECOVERY_REQUIRED" /\ apt'.active = apt.active
      /\ apt' = [apt EXCEPT !.state = "RECOVERY_REQUIRED"]
  BY AptFields DEF AptRollbackFails, Apt, AptRecords
<1>6. MediaSaved /\ PackagesTrue
  BY DEF DInv, Core
<1>7. Mine' /\ Mine /\ OldPkgs' = OldPkgs /\ HasJournal' /\ ~KeepCandidate'
  BY <1>3, <1>4, <1>5, <1>6, JournalFields DEF MediaSaved, HasJournal, Mine, OldPkgs, KeepCandidate,
     PackagesChanged, PackageCommitted
<1>8. MediaSaved'
  BY <1>3, <1>4, <1>5, <1>6, <1>7, JournalFields DEF MediaSaved, Usable
<1>9. PackagesTrue'
  BY <1>3, <1>4, <1>5, <1>6, <1>7 DEF PackagesTrue
<1>10. ~InstallMarker /\ child = "no" /\ ins.state \in {"RESTORED", "COMMITTED"}
  BY <1>3 DEF DInv, Core, Apart, MediaSaved, InstallMarker
<1>11. Apart' /\ InsSaved' /\ ChildAlone'
  BY <1>1, <1>4, <1>7, <1>10 DEF Apart, InsSaved, ChildAlone, Restoring, InstallMarker
<1>12. apt' \in AptRecords
  BY <1>5, AptFields DEF AptRecords, AptStates, AptRecoverable
<1>13. proc' \in Procs /\ proc'.who = "none" /\ proc'.at = "end"
  BY <1>1 DEF Nobody, Procs, Nexts, Scripts
<1>14. Typed'
  BY <1>1, <1>4, <1>5, <1>12, <1>13, AptFields DEF DInv, Typed, DataTyped, UnitsTyped, AptRollbackFails,
     database
<1> QED BY <1>8, <1>9, <1>11, <1>13, <1>14 DEF DInv, Core, Aims, Places

LEMMA UpdatePreparedChanged ==
    ASSUME DInv, UNCHANGED ins, UpdatePrepared, apt.active PROVE DInv'
<1> USE DEF ObservingAt, AfterHost, Switched, Untouched, PreparedAt, RestoringAt, KeepingAt, InstallAt,
            BegunAt, ApplyAt, StageAt, TryAt, CommitAt, ForwardAt, BackAt, EndAt, MediaAt, Working
<1>1. At("u-prepared") /\ Go("u-apply") /\ ins' = ins /\ child' = child
  BY DEF UpdatePrepared, packages
<1>2. PICK k : k = proc.keep
  OBVIOUS
<1>3. PlaceOK("u-prepared", k)
  BY <1>1, <1>2, Standing
<1>4. HasJournal /\ journal.state = "BEGUN" /\ apt.active /\ apt.state = "PREPARED" /\ ~native
  BY <1>1, <1>3 DEF PlaceOK, UpdatePlace, BegunPlace, BuildPlace, BackPlace
<1>5. /\ schema' = schema /\ app' = app /\ tools' = tools /\ host' = host /\ pkgs' = pkgs /\ child' = child
      /\ made' = made /\ validated' = validated /\ apt' = apt /\ dir' = dir /\ native' = native
  BY DEF UpdatePrepared, units, database, runtime, packages, history
<1>6. /\ journal'.state = "APT_PREPARED" /\ journal'.changed = TRUE
      /\ journal'.id = journal.id /\ journal'.prev = journal.prev /\ journal'.cand = journal.cand
      /\ journal' \in JournalRecords
  BY <1>4, JournalFields, AptFields DEF UpdatePrepared, Apt, Journal, JournalRecords, JournalStates, NoRelease
<1>7. MediaSaved /\ PackagesTrue
  BY DEF DInv, Core
<1>8. Mine' /\ Mine /\ OldPkgs' = OldPkgs /\ HasJournal' /\ ~KeepCandidate' /\ journal.cand = NoRelease
  BY <1>1, <1>4, <1>5, <1>6, <1>7, JournalFields DEF MediaSaved, PackagesTrue, HasJournal, NoJournal,
     JournalStates, Mine, OldPkgs, KeepCandidate, PackagesChanged, PackageCommitted
<1>9. MediaSaved'
  BY <1>1, <1>4, <1>5, <1>6, <1>7, <1>8, JournalFields DEF MediaSaved, PackagesTrue, Usable
<1>10. PackagesTrue'
  BY <1>1, <1>4, <1>5, <1>6, <1>7, <1>8, JournalFields DEF MediaSaved, PackagesTrue, AptFinal, AptRecoverable
<1>11. UpdatePlace("u-apply")' /\ BackPlace("u-apply", k)'
  BY <1>1, <1>4, <1>5, <1>6, <1>7, <1>8 DEF MediaSaved, PackagesTrue, UpdatePlace, BegunPlace, BuildPlace,
     BackPlace, AptFinal, AptRecoverable
<1>12. Typed'
  <2>1. journal' \in JournalRecords
    BY <1>6
  <2>2. proc' \in Procs
    BY <1>1, Standing, GoPlace
  <2> QED BY <1>5, <2>1, <2>2, Numbers DEF DInv, Typed, DataTyped, UnitsTyped, UpdatePrepared, units, database
<1> QED BY <1>1, <1>2, <1>4, <1>5, <1>8, <1>9, <1>10, <1>11, <1>12, MediaArrive

LEMMA UpdatePreparedSame ==
    ASSUME DInv, UNCHANGED ins, UpdatePrepared, ~apt.active PROVE DInv'
<1> USE DEF ObservingAt, AfterHost, Switched, Untouched, PreparedAt, RestoringAt, KeepingAt, InstallAt,
            BegunAt, ApplyAt, StageAt, TryAt, CommitAt, ForwardAt, BackAt, EndAt, MediaAt, Working
<1>1. At("u-prepared") /\ Go("u-stage") /\ ins' = ins /\ child' = child
  BY DEF UpdatePrepared, packages
<1>2. PICK k : k = proc.keep
  OBVIOUS
<1>3. PlaceOK("u-prepared", k)
  BY <1>1, <1>2, Standing
<1>4. HasJournal /\ journal.state = "BEGUN" /\ ~apt.active /\ ~Mine /\ ~native
  BY <1>1, <1>3 DEF PlaceOK, UpdatePlace, BegunPlace, BuildPlace, BackPlace
<1>5. /\ schema' = schema /\ app' = app /\ tools' = tools /\ host' = host /\ pkgs' = pkgs /\ child' = child
      /\ made' = made /\ validated' = validated /\ apt' = apt /\ dir' = dir /\ native' = native
  BY DEF UpdatePrepared, units, database, runtime, packages, history
<1>6. /\ journal'.state = "APT_PREPARED" /\ journal'.changed = FALSE
      /\ journal'.id = journal.id /\ journal'.prev = journal.prev /\ journal'.cand = journal.cand
      /\ journal' \in JournalRecords
  BY <1>4, JournalFields, AptFields DEF UpdatePrepared, Apt, Journal, JournalRecords, JournalStates, NoRelease
<1>7. MediaSaved /\ PackagesTrue
  BY DEF DInv, Core
<1>8. ~Mine' /\ ~Mine /\ OldPkgs' = OldPkgs /\ HasJournal' /\ ~KeepCandidate' /\ journal.cand = NoRelease
  BY <1>1, <1>4, <1>5, <1>6, <1>7, JournalFields DEF MediaSaved, PackagesTrue, HasJournal, NoJournal,
     JournalStates, Mine, OldPkgs, KeepCandidate, PackagesChanged, PackageCommitted
<1>9. MediaSaved'
  BY <1>1, <1>4, <1>5, <1>6, <1>7, <1>8, JournalFields DEF MediaSaved, PackagesTrue, Usable
<1>10. PackagesTrue'
  BY <1>1, <1>4, <1>5, <1>6, <1>7, <1>8, JournalFields DEF MediaSaved, PackagesTrue, AptFinal, AptRecoverable
<1>11. UpdatePlace("u-stage")' /\ BackPlace("u-stage", k)'
  BY <1>1, <1>4, <1>5, <1>6, <1>7, <1>8 DEF MediaSaved, PackagesTrue, UpdatePlace, BegunPlace, BuildPlace,
     BackPlace, AptFinal, AptRecoverable
<1>12. Typed'
  <2>1. journal' \in JournalRecords
    BY <1>6
  <2>2. proc' \in Procs
    BY <1>1, Standing, GoPlace
  <2> QED BY <1>5, <2>1, <2>2, Numbers DEF DInv, Typed, DataTyped, UnitsTyped, UpdatePrepared, units, database
<1> QED BY <1>1, <1>2, <1>4, <1>5, <1>8, <1>9, <1>10, <1>11, <1>12, MediaArrive

LEMMA UpdateStagesStep ==
    ASSUME DInv, UNCHANGED ins, UpdateStages PROVE DInv'
<1> USE DEF ObservingAt, AfterHost, Switched, Untouched, PreparedAt, RestoringAt, KeepingAt, InstallAt,
            BegunAt, ApplyAt, StageAt, TryAt, CommitAt, ForwardAt, BackAt, EndAt, MediaAt, Working
<1>1. At("u-stage") /\ Go("u-build") /\ ins' = ins /\ child' = child
  BY DEF UpdateStages, packages
<1>2. PICK k : k = proc.keep
  OBVIOUS
<1>3. PlaceOK("u-stage", k)
  BY <1>1, <1>2, Standing
<1>4. /\ HasJournal /\ journal.state = "APT_PREPARED"
      /\ (apt.active <=> journal.changed) /\ (journal.changed => apt.state = "VALIDATING")
  BY <1>1, <1>3 DEF PlaceOK, UpdatePlace, BegunPlace, BuildPlace, BackPlace
<1>5. /\ schema' = schema /\ app' = app /\ tools' = tools /\ host' = host /\ pkgs' = pkgs /\ child' = child
      /\ made' = made /\ validated' = validated /\ apt' = apt /\ dir' = dir /\ native' = native
  BY DEF UpdateStages, units, database, runtime, packages, history
<1>6. /\ journal'.state = "STAGING" /\ journal'.cand = journal.id
      /\ journal'.id = journal.id /\ journal'.prev = journal.prev /\ journal'.changed = journal.changed
      /\ journal' = [journal EXCEPT !.state = "STAGING", !.cand = journal.id, !.activated = FALSE]
  BY <1>4, JournalFields, AptFields DEF UpdateStages, Apt, Journal, JournalRecords, JournalStates, NoRelease
<1>7. MediaSaved /\ PackagesTrue
  BY DEF DInv, Core
<1>8. (Mine' <=> Mine) /\ OldPkgs' = OldPkgs /\ HasJournal' /\ ~KeepCandidate' 
  BY <1>1, <1>4, <1>5, <1>6, <1>7, JournalFields DEF MediaSaved, PackagesTrue, HasJournal, NoJournal,
     JournalStates, Mine, OldPkgs, KeepCandidate, PackagesChanged, PackageCommitted
<1>9. MediaSaved'
  BY <1>1, <1>4, <1>5, <1>6, <1>7, <1>8, JournalFields DEF MediaSaved, PackagesTrue, Usable
<1>10. PackagesTrue'
  BY <1>1, <1>4, <1>5, <1>6, <1>7, <1>8, JournalFields DEF MediaSaved, PackagesTrue, AptFinal, AptRecoverable
<1>11. UpdatePlace("u-build")' /\ BackPlace("u-build", k)'
  BY <1>1, <1>4, <1>5, <1>6, <1>7, <1>8 DEF MediaSaved, PackagesTrue, UpdatePlace, BegunPlace, BuildPlace,
     BackPlace, AptFinal, AptRecoverable
<1>12. Typed'
  <2>4. journal' = [journal EXCEPT !.state = "STAGING", !.cand = journal.id, !.activated = FALSE]
    BY <1>6
  <2>5. "STAGING" \in JournalStates /\ journal.id \in Int
    BY <1>4, JournalFields DEF JournalStates, NoRelease
  <2>1. journal' \in JournalRecords
    BY <2>4, <2>5, JournalFields, <1>4 DEF JournalRecords
  <2>2. proc' \in Procs
    BY <1>1, Standing, GoPlace
  <2> QED BY <1>5, <2>1, <2>2, Numbers DEF DInv, Typed, DataTyped, UnitsTyped, UpdateStages, units, database
<1> QED BY <1>1, <1>2, <1>4, <1>5, <1>8, <1>9, <1>10, <1>11, <1>12, MediaArrive

LEMMA CandidateDiscardedStep ==
    ASSUME DInv, UNCHANGED ins, CandidateDiscarded PROVE DInv'
<1> USE DEF ObservingAt, AfterHost, Switched, Untouched, PreparedAt, RestoringAt, KeepingAt, InstallAt,
            BegunAt, ApplyAt, StageAt, TryAt, CommitAt, ForwardAt, BackAt, EndAt, MediaAt, Working
<1>1. At("u-discard") /\ Go("u-start") /\ ins' = ins /\ child' = child
  BY DEF CandidateDiscarded, packages
<1>2. PICK k : k = proc.keep
  OBVIOUS
<1>3. PlaceOK("u-discard", k)
  BY <1>1, <1>2, Standing
<1>4. /\ HasJournal /\ journal.state = "STAGING" /\ ~journal.changed
      /\ (apt.active <=> journal.changed) /\ (journal.changed => apt.state = "VALIDATING")
  BY <1>1, <1>3 DEF PlaceOK, UpdatePlace, BegunPlace, BuildPlace, BackPlace
<1>5. /\ schema' = schema /\ app' = app /\ tools' = tools /\ host' = host /\ pkgs' = pkgs /\ child' = child
      /\ made' = made /\ validated' = validated /\ apt' = apt /\ dir' = dir /\ native' = native
  BY DEF CandidateDiscarded, units, database, runtime, packages, history
<1>6. /\ journal'.state = "APT_PREPARED" /\ journal'.cand = NoRelease
      /\ journal'.id = journal.id /\ journal'.prev = journal.prev /\ journal'.changed = journal.changed
      /\ journal' = [journal EXCEPT !.state = "APT_PREPARED", !.cand = NoRelease]
  BY <1>4, JournalFields, AptFields DEF CandidateDiscarded, Apt, Journal, JournalRecords, JournalStates,
     NoRelease
<1>7. MediaSaved /\ PackagesTrue
  BY DEF DInv, Core
<1>8. (Mine' <=> Mine) /\ OldPkgs' = OldPkgs /\ HasJournal' /\ ~KeepCandidate' 
  BY <1>1, <1>4, <1>5, <1>6, <1>7, JournalFields DEF MediaSaved, PackagesTrue, HasJournal, NoJournal,
     JournalStates, Mine, OldPkgs, KeepCandidate, PackagesChanged, PackageCommitted, NoRelease
<1>9. MediaSaved'
  BY <1>1, <1>4, <1>5, <1>6, <1>7, <1>8, JournalFields DEF MediaSaved, PackagesTrue, Usable
<1>10. PackagesTrue'
  BY <1>1, <1>4, <1>5, <1>6, <1>7, <1>8, JournalFields DEF MediaSaved, PackagesTrue, AptFinal, AptRecoverable
<1>11. UpdatePlace("u-start")' /\ BackPlace("u-start", k)'
  BY <1>1, <1>4, <1>5, <1>6, <1>7, <1>8 DEF MediaSaved, PackagesTrue, UpdatePlace, BegunPlace, BuildPlace,
     BackPlace, AptFinal, AptRecoverable
<1>12. Typed'
  <2>4. journal' = [journal EXCEPT !.state = "APT_PREPARED", !.cand = NoRelease]
    BY <1>6
  <2>5. "APT_PREPARED" \in JournalStates /\ NoRelease \in Int
    BY <1>4, JournalFields DEF JournalStates, NoRelease
  <2>1. journal' \in JournalRecords
    BY <2>4, <2>5, JournalFields, <1>4 DEF JournalRecords
  <2>2. proc' \in Procs
    BY <1>1, Standing, GoPlace
  <2> QED BY <1>5, <2>1, <2>2, Numbers DEF DInv, Typed, DataTyped, UnitsTyped, CandidateDiscarded, units,
     database
<1> QED BY <1>1, <1>2, <1>4, <1>5, <1>8, <1>9, <1>10, <1>11, <1>12, MediaArrive

LEMMA ActivatingStep ==
    ASSUME DInv, UNCHANGED ins, Activating PROVE DInv'
<1> USE DEF ObservingAt, AfterHost, Switched, Untouched, PreparedAt, RestoringAt, KeepingAt, InstallAt,
            BegunAt, ApplyAt, StageAt, TryAt, CommitAt, ForwardAt, BackAt, EndAt, MediaAt, Working
<1>1. At("u-activating") /\ Go("u-switch") /\ ins' = ins /\ child' = child
  BY DEF Activating, packages
<1>2. PICK k : k = proc.keep
  OBVIOUS
<1>3. PlaceOK("u-activating", k)
  BY <1>1, <1>2, Standing
<1>4. /\ HasJournal /\ journal.state = "STAGING" /\ journal.cand = journal.id /\ dir[journal.cand] = "tested"
      /\ (apt.active <=> journal.changed) /\ (journal.changed => apt.state = "VALIDATING")
  BY <1>1, <1>3 DEF PlaceOK, UpdatePlace, BegunPlace, BuildPlace, BackPlace
<1>5. /\ schema' = schema /\ app' = app /\ tools' = tools /\ host' = host /\ pkgs' = pkgs /\ child' = child
      /\ made' = made /\ validated' = validated /\ apt' = apt /\ dir' = dir /\ native' = native
  BY DEF Activating, units, database, runtime, packages, history
<1>6. /\ journal'.state = "ACTIVATING"
      /\ journal'.id = journal.id /\ journal'.prev = journal.prev /\ journal'.cand = journal.cand
      /\ journal'.changed = journal.changed
      /\ journal' \in JournalRecords
  BY <1>4, JournalFields, AptFields DEF Activating, Apt, Journal, JournalRecords, JournalStates, NoRelease
<1>7. MediaSaved /\ PackagesTrue
  BY DEF DInv, Core
<1>8. (Mine' <=> Mine) /\ OldPkgs' = OldPkgs /\ HasJournal' /\ ~KeepCandidate' 
  BY <1>1, <1>4, <1>5, <1>6, <1>7, JournalFields DEF MediaSaved, PackagesTrue, HasJournal, NoJournal,
     JournalStates, Mine, OldPkgs, KeepCandidate, PackagesChanged, PackageCommitted
<1>9. MediaSaved'
  BY <1>1, <1>4, <1>5, <1>6, <1>7, <1>8, JournalFields DEF MediaSaved, PackagesTrue, Usable
<1>10. PackagesTrue'
  BY <1>1, <1>4, <1>5, <1>6, <1>7, <1>8, JournalFields DEF MediaSaved, PackagesTrue, AptFinal, AptRecoverable
<1>11. UpdatePlace("u-switch")' /\ BackPlace("u-switch", k)'
  BY <1>1, <1>4, <1>5, <1>6, <1>7, <1>8 DEF MediaSaved, PackagesTrue, UpdatePlace, BegunPlace, BuildPlace,
     BackPlace, AptFinal, AptRecoverable
<1>12. Typed'
  <2>1. journal' \in JournalRecords
    BY <1>6
  <2>2. proc' \in Procs
    BY <1>1, Standing, GoPlace
  <2> QED BY <1>5, <2>1, <2>2, Numbers DEF DInv, Typed, DataTyped, UnitsTyped, Activating, units, database
<1> QED BY <1>1, <1>2, <1>4, <1>5, <1>8, <1>9, <1>10, <1>11, <1>12, MediaArrive

LEMMA UpdateHealthyChanged ==
    ASSUME DInv, UNCHANGED ins, UpdateHealthy, apt.active PROVE DInv'
<1> USE DEF ObservingAt, AfterHost, Switched, Untouched, PreparedAt, RestoringAt, KeepingAt, InstallAt,
            BegunAt, ApplyAt, StageAt, TryAt, CommitAt, ForwardAt, BackAt, EndAt, MediaAt, Working
<1>1. At("u-healthy") /\ Go("u-apt-commit") /\ ins' = ins /\ child' = child
  BY DEF UpdateHealthy, packages
<1>2. PICK k : k = proc.keep
  OBVIOUS
<1>3. PlaceOK("u-healthy", k)
  BY <1>1, <1>2, Standing
<1>4. /\ HasJournal /\ apt.active /\ journal.changed /\ apt.state = "VALIDATING"
      /\ \/ journal.state = "ACTIVATING" /\ tools = journal.cand /\ journal.cand = journal.id /\ dir[tools] = "tested"
         \/ journal.state = "APT_PREPARED" /\ ~journal.changed /\ journal.cand = NoRelease
  BY <1>1, <1>3 DEF PlaceOK, UpdatePlace, BegunPlace, BuildPlace, BackPlace
<1>5. /\ schema' = schema /\ app' = app /\ tools' = tools /\ host' = host /\ pkgs' = pkgs /\ child' = child
      /\ made' = made /\ apt' = apt /\ dir' = dir /\ native' = native
  BY DEF UpdateHealthy, units, database, runtime, packages, history
<1>6. /\ journal'.state = "HEALTHY"
      /\ journal'.id = journal.id /\ journal'.prev = journal.prev /\ journal'.cand = journal.cand
      /\ journal'.changed = journal.changed
      /\ journal' \in JournalRecords
      /\ validated' = validated \cup {<<app, tools, pkgs>>}
  BY <1>4, JournalFields, AptFields DEF UpdateHealthy, Apt, Journal, JournalRecords, JournalStates, NoRelease
<1>7. MediaSaved /\ PackagesTrue
  BY DEF DInv, Core
<1>8. /\ (Mine' <=> Mine) /\ OldPkgs' = OldPkgs /\ HasJournal' /\ Sound' /\ tools' = Target'
      /\ KeepCandidate' <=> ~journal.changed
  BY <1>1, <1>4, <1>5, <1>6, <1>7, JournalFields DEF MediaSaved, PackagesTrue, HasJournal, NoJournal,
     JournalStates, Mine, OldPkgs, KeepCandidate, PackagesChanged, PackageCommitted, Sound, Target, Usable,
     NoRelease, Releases
<1>9. MediaSaved'
  BY <1>1, <1>4, <1>5, <1>6, <1>7, <1>8, JournalFields DEF MediaSaved, PackagesTrue, Usable
<1>10. PackagesTrue'
  BY <1>1, <1>4, <1>5, <1>6, <1>7, <1>8, JournalFields DEF MediaSaved, PackagesTrue, AptFinal, AptRecoverable
<1>11. UpdatePlace("u-apt-commit")' /\ BackPlace("u-apt-commit", k)'
  BY <1>1, <1>4, <1>5, <1>6, <1>7, <1>8 DEF MediaSaved, PackagesTrue, UpdatePlace, BegunPlace, BuildPlace,
     BackPlace, AptFinal, AptRecoverable
<1>12. Typed'
  <2>1. journal' \in JournalRecords
    BY <1>6
  <2>2. proc' \in Procs
    BY <1>1, Standing, GoPlace
  <2> QED BY <1>5, <2>1, <2>2, Numbers DEF DInv, Typed, DataTyped, UnitsTyped, UpdateHealthy, units, database
<1> QED BY <1>1, <1>2, <1>4, <1>5, <1>8, <1>9, <1>10, <1>11, <1>12, MediaArrive

LEMMA UpdateHealthySame ==
    ASSUME DInv, UNCHANGED ins, UpdateHealthy, ~apt.active PROVE DInv'
<1> USE DEF ObservingAt, AfterHost, Switched, Untouched, PreparedAt, RestoringAt, KeepingAt, InstallAt,
            BegunAt, ApplyAt, StageAt, TryAt, CommitAt, ForwardAt, BackAt, EndAt, MediaAt, Working
<1>1. At("u-healthy") /\ Go("u-commit") /\ ins' = ins /\ child' = child
  BY DEF UpdateHealthy, packages
<1>2. PICK k : k = proc.keep
  OBVIOUS
<1>3. PlaceOK("u-healthy", k)
  BY <1>1, <1>2, Standing
<1>4. /\ HasJournal /\ ~apt.active /\ ~journal.changed
      /\ \/ journal.state = "ACTIVATING" /\ tools = journal.cand /\ journal.cand = journal.id /\ dir[tools] = "tested"
         \/ journal.state = "APT_PREPARED" /\ ~journal.changed /\ journal.cand = NoRelease
  BY <1>1, <1>3 DEF PlaceOK, UpdatePlace, BegunPlace, BuildPlace, BackPlace
<1>5. /\ schema' = schema /\ app' = app /\ tools' = tools /\ host' = host /\ pkgs' = pkgs /\ child' = child
      /\ made' = made /\ apt' = apt /\ dir' = dir /\ native' = native
  BY DEF UpdateHealthy, units, database, runtime, packages, history
<1>6. /\ journal'.state = "HEALTHY"
      /\ journal'.id = journal.id /\ journal'.prev = journal.prev /\ journal'.cand = journal.cand
      /\ journal'.changed = journal.changed
      /\ journal' \in JournalRecords
      /\ validated' = validated \cup {<<app, tools, pkgs>>}
  BY <1>4, JournalFields, AptFields DEF UpdateHealthy, Apt, Journal, JournalRecords, JournalStates, NoRelease
<1>7. MediaSaved /\ PackagesTrue
  BY DEF DInv, Core
<1>8. /\ (Mine' <=> Mine) /\ OldPkgs' = OldPkgs /\ HasJournal' /\ Sound' /\ tools' = Target'
      /\ KeepCandidate' <=> ~journal.changed
  BY <1>1, <1>4, <1>5, <1>6, <1>7, JournalFields DEF MediaSaved, PackagesTrue, HasJournal, NoJournal,
     JournalStates, Mine, OldPkgs, KeepCandidate, PackagesChanged, PackageCommitted, Sound, Target, Usable,
     NoRelease, Releases
<1>9. MediaSaved'
  BY <1>1, <1>4, <1>5, <1>6, <1>7, <1>8, JournalFields DEF MediaSaved, PackagesTrue, Usable
<1>10. PackagesTrue'
  BY <1>1, <1>4, <1>5, <1>6, <1>7, <1>8, JournalFields DEF MediaSaved, PackagesTrue, AptFinal, AptRecoverable
<1>11. UpdatePlace("u-commit")' /\ BackPlace("u-commit", k)'
  BY <1>1, <1>4, <1>5, <1>6, <1>7, <1>8 DEF MediaSaved, PackagesTrue, UpdatePlace, BegunPlace, BuildPlace,
     BackPlace, AptFinal, AptRecoverable
<1>12. Typed'
  <2>1. journal' \in JournalRecords
    BY <1>6
  <2>2. proc' \in Procs
    BY <1>1, Standing, GoPlace
  <2> QED BY <1>5, <2>1, <2>2, Numbers DEF DInv, Typed, DataTyped, UnitsTyped, UpdateHealthy, units, database
<1> QED BY <1>1, <1>2, <1>4, <1>5, <1>8, <1>9, <1>10, <1>11, <1>12, MediaArrive

LEMMA UpdateCommitsStep ==
    ASSUME DInv, UNCHANGED ins, UpdateCommits PROVE DInv'
<1> USE DEF ObservingAt, AfterHost, Switched, Untouched, PreparedAt, RestoringAt, KeepingAt, InstallAt,
            BegunAt, ApplyAt, StageAt, TryAt, CommitAt, ForwardAt, BackAt, EndAt, MediaAt, Working
<1>1. At("u-commit") /\ proc' = [proc EXCEPT !.at = "r-look", !.next = "exit"] /\ ins' = ins
  BY DEF UpdateCommits
<1>2. PlaceOK("u-commit", proc.keep) /\ proc \in Procs /\ proc.who # "none"
  BY <1>1, Standing
<1>3. HasJournal /\ journal.state = "HEALTHY" /\ Sound /\ tools = Target /\ ~apt.active /\ KeepCandidate
  BY <1>2 DEF PlaceOK, UpdatePlace, BegunPlace, BuildPlace
<1>4. /\ schema' = schema /\ app' = app /\ tools' = tools /\ host' = host /\ pkgs' = pkgs /\ child' = child
      /\ made' = made /\ validated' = validated /\ apt' = apt /\ dir' = dir /\ native' = native
  BY DEF UpdateCommits, units, database, runtime, packages, history
<1>5. /\ journal'.state = "COMMITTED" /\ journal'.id = journal.id /\ journal'.prev = journal.prev
      /\ journal'.cand = journal.cand /\ journal'.changed = journal.changed /\ journal' \in JournalRecords
  BY <1>3, JournalFields DEF UpdateCommits, Journal, JournalRecords, JournalStates
<1>6. MediaSaved /\ PackagesTrue
  BY DEF DInv, Core
<1>7. (Mine' <=> Mine) /\ OldPkgs' = OldPkgs /\ HasJournal' /\ Sound' /\ Target' = Target /\ KeepCandidate'
  BY <1>3, <1>4, <1>5 DEF HasJournal, NoJournal, Mine, OldPkgs, Sound, Target, Usable, KeepCandidate,
     PackagesChanged, PackageCommitted
<1>8. MediaSaved'
  BY <1>3, <1>4, <1>5, <1>6, <1>7, JournalFields DEF MediaSaved, Usable
<1>9. PackagesTrue'
  BY <1>3, <1>4, <1>5, <1>6, <1>7 DEF PackagesTrue
<1>10. ~InstallMarker /\ child = "no" /\ ins.state \in {"RESTORED", "COMMITTED"}
  BY <1>3 DEF DInv, Core, Apart, MediaSaved, InstallMarker
<1>11. Apart' /\ InsSaved' /\ ChildAlone'
  BY <1>1, <1>4, <1>7, <1>10 DEF Apart, InsSaved, ChildAlone, Restoring, InstallMarker
<1>12. /\ proc' \in Procs /\ proc'.who # "none" /\ proc'.at = "r-look" /\ proc'.next = "exit"
       /\ proc'.keep = proc.keep
  BY <1>1, <1>2 DEF Procs, Nexts
<1>13. Typed'
  BY <1>1, <1>4, <1>5, <1>12 DEF DInv, Typed, DataTyped, UnitsTyped, UpdateCommits, units, database
<1>14. Stands("r-look")
  BY <1>12 DEF Stands, AimOK
<1>15. PICK k : k = proc.keep
  OBVIOUS
<1>16. PlaceOK("r-look", k)'
  BY <1>1, <1>4, <1>10 DEF PlaceOK, InsPlace, RecoverPlace, UpdatePlace, BegunPlace, BuildPlace, BackPlace,
     InstallMarker
<1> QED BY <1>8, <1>9, <1>11, <1>12, <1>13, <1>14, <1>15, <1>16, Arrive DEF Core

LEMMA UpdateBuildsStep ==
    ASSUME DInv, UNCHANGED ins, UpdateBuilds PROVE DInv'
<1> USE DEF ObservingAt, AfterHost, Switched, Untouched, PreparedAt, RestoringAt, KeepingAt, InstallAt,
            BegunAt, ApplyAt, StageAt, TryAt, CommitAt, ForwardAt, BackAt, EndAt, MediaAt, Working
<1>1. At("u-build") /\ Go("u-test") /\ ins' = ins /\ child' = child
  BY DEF UpdateBuilds, packages
<1>2. PICK k : k = proc.keep
  OBVIOUS
<1>3. PlaceOK("u-build", k)
  BY <1>1, <1>2, Standing
<1>4. /\ HasJournal /\ journal.state = "STAGING" /\ journal.cand = journal.id
      /\ (apt.active <=> journal.changed) /\ (journal.changed => apt.state = "VALIDATING")
  BY <1>1, <1>3 DEF PlaceOK, UpdatePlace, BegunPlace, BuildPlace, BackPlace
<1>5. /\ schema' = schema /\ app' = app /\ tools' = tools /\ host' = host /\ pkgs' = pkgs /\ child' = child
      /\ made' = made /\ validated' = validated /\ journal' = journal /\ apt' = apt /\ native' = native
  BY DEF UpdateBuilds, units, database, runtime, packages, history, media
<1>6. dir' = [dir EXCEPT ![journal.cand] = "partial"]
  BY <1>4, JournalFields, AptFields DEF UpdateBuilds, Apt, Journal
<1>7. MediaSaved /\ PackagesTrue
  BY DEF DInv, Core
<1>7a. /\ dir \in [Releases -> {"none", "partial", "tested"}]
       /\ journal.prev \in Releases /\ journal.cand \in Releases /\ journal.prev # journal.cand
  BY <1>4, <1>7, HostAssumption, JournalFields DEF MediaSaved, DInv, Typed, DataTyped, Releases
<1>8. /\ (Mine' <=> Mine) /\ OldPkgs' = OldPkgs /\ HasJournal' /\ ~KeepCandidate'
      /\ dir'[journal.prev] = dir[journal.prev] /\ dir'[journal.cand] = "partial"
      /\ dir' \in [Releases -> {"none", "partial", "tested"}]
  BY <1>1, <1>4, <1>5, <1>6, <1>7, <1>7a, JournalFields DEF MediaSaved, PackagesTrue, HasJournal, NoJournal,
     JournalStates, Mine, OldPkgs, KeepCandidate, PackagesChanged, PackageCommitted
<1>9. MediaSaved'
  BY <1>1, <1>4, <1>5, <1>6, <1>7, <1>8, JournalFields DEF MediaSaved, PackagesTrue, Usable
<1>10. PackagesTrue'
  BY <1>1, <1>4, <1>5, <1>6, <1>7, <1>8, JournalFields DEF MediaSaved, PackagesTrue, AptFinal, AptRecoverable
<1>11. UpdatePlace("u-test")' /\ BackPlace("u-test", k)'
  BY <1>1, <1>4, <1>5, <1>6, <1>7, <1>8 DEF MediaSaved, PackagesTrue, UpdatePlace, BegunPlace, BuildPlace,
     BackPlace, AptFinal, AptRecoverable
<1>12. Typed'
  <2>1. dir' \in [Releases -> {"none", "partial", "tested"}]
    BY <1>8
  <2>2. proc' \in Procs
    BY <1>1, Standing, GoPlace
  <2> QED BY <1>5, <2>1, <2>2, Numbers DEF DInv, Typed, DataTyped, UnitsTyped, UpdateBuilds, units, database
<1> QED BY <1>1, <1>2, <1>4, <1>5, <1>8, <1>9, <1>10, <1>11, <1>12, MediaArrive

LEMMA UpdateTestsNew ==
    ASSUME DInv, UNCHANGED ins, UpdateTests, Go("u-activating") PROVE DInv'
<1> USE DEF ObservingAt, AfterHost, Switched, Untouched, PreparedAt, RestoringAt, KeepingAt, InstallAt,
            BegunAt, ApplyAt, StageAt, TryAt, CommitAt, ForwardAt, BackAt, EndAt, MediaAt, Working
<1>1. At("u-test") /\ Go("u-activating") /\ ins' = ins /\ child' = child
  BY DEF UpdateTests, packages
<1>2. PICK k : k = proc.keep
  OBVIOUS
<1>3. PlaceOK("u-test", k)
  BY <1>1, <1>2, Standing
<1>4. /\ HasJournal /\ journal.state = "STAGING" /\ journal.cand = journal.id
      /\ (apt.active <=> journal.changed) /\ (journal.changed => apt.state = "VALIDATING")
  BY <1>1, <1>3 DEF PlaceOK, UpdatePlace, BegunPlace, BuildPlace, BackPlace
<1>5. /\ schema' = schema /\ app' = app /\ tools' = tools /\ host' = host /\ pkgs' = pkgs /\ child' = child
      /\ made' = made /\ validated' = validated /\ journal' = journal /\ apt' = apt /\ native' = native
  BY DEF UpdateTests, units, database, runtime, packages, history, media
<1>6. dir' = [dir EXCEPT ![journal.cand] = "tested"]
  BY <1>4, JournalFields, AptFields DEF UpdateTests, Apt, Journal
<1>7. MediaSaved /\ PackagesTrue
  BY DEF DInv, Core
<1>7a. /\ dir \in [Releases -> {"none", "partial", "tested"}]
       /\ journal.prev \in Releases /\ journal.cand \in Releases /\ journal.prev # journal.cand
  BY <1>4, <1>7, HostAssumption, JournalFields DEF MediaSaved, DInv, Typed, DataTyped, Releases
<1>8. /\ (Mine' <=> Mine) /\ OldPkgs' = OldPkgs /\ HasJournal' /\ ~KeepCandidate'
      /\ dir'[journal.prev] = dir[journal.prev] /\ dir'[journal.cand] = "tested"
      /\ dir' \in [Releases -> {"none", "partial", "tested"}]
  BY <1>1, <1>4, <1>5, <1>6, <1>7, <1>7a, JournalFields DEF MediaSaved, PackagesTrue, HasJournal, NoJournal,
     JournalStates, Mine, OldPkgs, KeepCandidate, PackagesChanged, PackageCommitted
<1>9. MediaSaved'
  BY <1>1, <1>4, <1>5, <1>6, <1>7, <1>8, JournalFields DEF MediaSaved, PackagesTrue, Usable
<1>10. PackagesTrue'
  BY <1>1, <1>4, <1>5, <1>6, <1>7, <1>8, JournalFields DEF MediaSaved, PackagesTrue, AptFinal, AptRecoverable
<1>11. UpdatePlace("u-activating")' /\ BackPlace("u-activating", k)'
  BY <1>1, <1>4, <1>5, <1>6, <1>7, <1>8 DEF MediaSaved, PackagesTrue, UpdatePlace, BegunPlace, BuildPlace,
     BackPlace, AptFinal, AptRecoverable
<1>12. Typed'
  <2>1. dir' \in [Releases -> {"none", "partial", "tested"}]
    BY <1>8
  <2>2. proc' \in Procs
    BY <1>1, Standing, GoPlace
  <2> QED BY <1>5, <2>1, <2>2, Numbers DEF DInv, Typed, DataTyped, UnitsTyped, UpdateTests, units, database
<1> QED BY <1>1, <1>2, <1>4, <1>5, <1>8, <1>9, <1>10, <1>11, <1>12, MediaArrive

LEMMA UpdateTestsSame ==
    ASSUME DInv, UNCHANGED ins, UpdateTests, ~journal.changed, Go("u-remove") PROVE DInv'
<1> USE DEF ObservingAt, AfterHost, Switched, Untouched, PreparedAt, RestoringAt, KeepingAt, InstallAt,
            BegunAt, ApplyAt, StageAt, TryAt, CommitAt, ForwardAt, BackAt, EndAt, MediaAt, Working
<1>1. At("u-test") /\ Go("u-remove") /\ ins' = ins /\ child' = child
  BY DEF UpdateTests, packages
<1>2. PICK k : k = proc.keep
  OBVIOUS
<1>3. PlaceOK("u-test", k)
  BY <1>1, <1>2, Standing
<1>4. /\ HasJournal /\ journal.state = "STAGING" /\ journal.cand = journal.id
      /\ (apt.active <=> journal.changed) /\ (journal.changed => apt.state = "VALIDATING")
  BY <1>1, <1>3 DEF PlaceOK, UpdatePlace, BegunPlace, BuildPlace, BackPlace
<1>5. /\ schema' = schema /\ app' = app /\ tools' = tools /\ host' = host /\ pkgs' = pkgs /\ child' = child
      /\ made' = made /\ validated' = validated /\ journal' = journal /\ apt' = apt /\ native' = native
  BY DEF UpdateTests, units, database, runtime, packages, history, media
<1>6. dir' = [dir EXCEPT ![journal.cand] = "tested"]
  BY <1>4, JournalFields, AptFields DEF UpdateTests, Apt, Journal
<1>7. MediaSaved /\ PackagesTrue
  BY DEF DInv, Core
<1>7a. /\ dir \in [Releases -> {"none", "partial", "tested"}]
       /\ journal.prev \in Releases /\ journal.cand \in Releases /\ journal.prev # journal.cand
  BY <1>4, <1>7, HostAssumption, JournalFields DEF MediaSaved, DInv, Typed, DataTyped, Releases
<1>8. /\ (Mine' <=> Mine) /\ OldPkgs' = OldPkgs /\ HasJournal' /\ ~KeepCandidate'
      /\ dir'[journal.prev] = dir[journal.prev] /\ dir'[journal.cand] = "tested"
      /\ dir' \in [Releases -> {"none", "partial", "tested"}]
  BY <1>1, <1>4, <1>5, <1>6, <1>7, <1>7a, JournalFields DEF MediaSaved, PackagesTrue, HasJournal, NoJournal,
     JournalStates, Mine, OldPkgs, KeepCandidate, PackagesChanged, PackageCommitted
<1>9. MediaSaved'
  BY <1>1, <1>4, <1>5, <1>6, <1>7, <1>8, JournalFields DEF MediaSaved, PackagesTrue, Usable
<1>10. PackagesTrue'
  BY <1>1, <1>4, <1>5, <1>6, <1>7, <1>8, JournalFields DEF MediaSaved, PackagesTrue, AptFinal, AptRecoverable
<1>11. UpdatePlace("u-remove")' /\ BackPlace("u-remove", k)'
  BY <1>1, <1>4, <1>5, <1>6, <1>7, <1>8 DEF MediaSaved, PackagesTrue, UpdatePlace, BegunPlace, BuildPlace,
     BackPlace, AptFinal, AptRecoverable
<1>12. Typed'
  <2>1. dir' \in [Releases -> {"none", "partial", "tested"}]
    BY <1>8
  <2>2. proc' \in Procs
    BY <1>1, Standing, GoPlace
  <2> QED BY <1>5, <2>1, <2>2, Numbers DEF DInv, Typed, DataTyped, UnitsTyped, UpdateTests, units, database
<1> QED BY <1>1, <1>2, <1>4, <1>5, <1>8, <1>9, <1>10, <1>11, <1>12, MediaArrive

LEMMA UpdateRemovesStep ==
    ASSUME DInv, UNCHANGED ins, UpdateRemoves PROVE DInv'
<1> USE DEF ObservingAt, AfterHost, Switched, Untouched, PreparedAt, RestoringAt, KeepingAt, InstallAt,
            BegunAt, ApplyAt, StageAt, TryAt, CommitAt, ForwardAt, BackAt, EndAt, MediaAt, Working
<1>1. At("u-remove") /\ Go("u-discard") /\ ins' = ins /\ child' = child
  BY DEF UpdateRemoves, packages
<1>2. PICK k : k = proc.keep
  OBVIOUS
<1>3. PlaceOK("u-remove", k)
  BY <1>1, <1>2, Standing
<1>4. /\ HasJournal /\ journal.state = "STAGING" /\ journal.cand = journal.id
      /\ (apt.active <=> journal.changed) /\ (journal.changed => apt.state = "VALIDATING") /\ ~journal.changed
  BY <1>1, <1>3 DEF PlaceOK, UpdatePlace, BegunPlace, BuildPlace, BackPlace
<1>5. /\ schema' = schema /\ app' = app /\ tools' = tools /\ host' = host /\ pkgs' = pkgs /\ child' = child
      /\ made' = made /\ validated' = validated /\ journal' = journal /\ apt' = apt /\ native' = native
  BY DEF UpdateRemoves, units, database, runtime, packages, history, media
<1>6. dir' = [dir EXCEPT ![journal.cand] = "none"]
  BY <1>4, JournalFields, AptFields DEF UpdateRemoves, Apt, Journal
<1>7. MediaSaved /\ PackagesTrue
  BY DEF DInv, Core
<1>7a. /\ dir \in [Releases -> {"none", "partial", "tested"}]
       /\ journal.prev \in Releases /\ journal.cand \in Releases /\ journal.prev # journal.cand
  BY <1>4, <1>7, HostAssumption, JournalFields DEF MediaSaved, DInv, Typed, DataTyped, Releases
<1>8. /\ (Mine' <=> Mine) /\ OldPkgs' = OldPkgs /\ HasJournal' /\ ~KeepCandidate'
      /\ dir'[journal.prev] = dir[journal.prev] /\ dir'[journal.cand] = "none"
      /\ dir' \in [Releases -> {"none", "partial", "tested"}]
  BY <1>1, <1>4, <1>5, <1>6, <1>7, <1>7a, JournalFields DEF MediaSaved, PackagesTrue, HasJournal, NoJournal,
     JournalStates, Mine, OldPkgs, KeepCandidate, PackagesChanged, PackageCommitted
<1>9. MediaSaved'
  BY <1>1, <1>4, <1>5, <1>6, <1>7, <1>8, JournalFields DEF MediaSaved, PackagesTrue, Usable
<1>10. PackagesTrue'
  BY <1>1, <1>4, <1>5, <1>6, <1>7, <1>8, JournalFields DEF MediaSaved, PackagesTrue, AptFinal, AptRecoverable
<1>11. UpdatePlace("u-discard")' /\ BackPlace("u-discard", k)'
  BY <1>1, <1>4, <1>5, <1>6, <1>7, <1>8 DEF MediaSaved, PackagesTrue, UpdatePlace, BegunPlace, BuildPlace,
     BackPlace, AptFinal, AptRecoverable
<1>12. Typed'
  <2>1. dir' \in [Releases -> {"none", "partial", "tested"}]
    BY <1>8
  <2>2. proc' \in Procs
    BY <1>1, Standing, GoPlace
  <2> QED BY <1>5, <2>1, <2>2, Numbers DEF DInv, Typed, DataTyped, UnitsTyped, UpdateRemoves, units, database
<1> QED BY <1>1, <1>2, <1>4, <1>5, <1>8, <1>9, <1>10, <1>11, <1>12, MediaArrive

LEMMA UpdateTestsStep ==
    ASSUME DInv, UNCHANGED ins, UpdateTests PROVE DInv'
BY UpdateTestsNew, UpdateTestsSame DEF UpdateTests

LEMMA UpdateSwitchesStep ==
    ASSUME DInv, UNCHANGED ins, UpdateSwitches PROVE DInv'
<1> USE DEF ObservingAt, AfterHost, Switched, Untouched, PreparedAt, RestoringAt, KeepingAt, InstallAt,
            BegunAt, ApplyAt, StageAt, TryAt, CommitAt, ForwardAt, BackAt, EndAt, MediaAt, Working
<1>1. At("u-switch") /\ Go("u-start") /\ ins' = ins /\ child' = child
  BY DEF UpdateSwitches, packages
<1>2. PICK k : k = proc.keep
  OBVIOUS
<1>3. PlaceOK("u-switch", k)
  BY <1>1, <1>2, Standing
<1>4. /\ HasJournal /\ journal.state = "ACTIVATING" /\ journal.cand = journal.id /\ dir[journal.cand] = "tested"
      /\ (apt.active <=> journal.changed) /\ (journal.changed => apt.state = "VALIDATING")
  BY <1>1, <1>3 DEF PlaceOK, UpdatePlace, BegunPlace, BuildPlace, BackPlace
<1>5. /\ schema' = schema /\ app' = app /\ host' = host /\ pkgs' = pkgs /\ child' = child /\ made' = made
      /\ validated' = validated /\ journal' = journal /\ apt' = apt /\ dir' = dir /\ native' = native
  BY DEF UpdateSwitches, units, database, runtime, packages, history, media
<1>6. tools' = journal.cand
  BY <1>4, JournalFields, AptFields DEF UpdateSwitches, Apt, Journal
<1>7. MediaSaved /\ PackagesTrue
  BY DEF DInv, Core
<1>8. (Mine' <=> Mine) /\ OldPkgs' = OldPkgs /\ HasJournal' /\ ~KeepCandidate' 
  BY <1>1, <1>4, <1>5, <1>6, <1>7, JournalFields DEF MediaSaved, PackagesTrue, HasJournal, NoJournal,
     JournalStates, Mine, OldPkgs, KeepCandidate, PackagesChanged, PackageCommitted
<1>9. MediaSaved'
  BY <1>1, <1>4, <1>5, <1>6, <1>7, <1>8, JournalFields DEF MediaSaved, PackagesTrue, Usable
<1>10. PackagesTrue'
  BY <1>1, <1>4, <1>5, <1>6, <1>7, <1>8, JournalFields DEF MediaSaved, PackagesTrue, AptFinal, AptRecoverable
<1>11. UpdatePlace("u-start")' /\ BackPlace("u-start", k)'
  BY <1>1, <1>4, <1>5, <1>6, <1>7, <1>8 DEF MediaSaved, PackagesTrue, UpdatePlace, BegunPlace, BuildPlace,
     BackPlace, AptFinal, AptRecoverable
<1>12. Typed'
  <2>1. tools' \in 0..made
    BY <1>4, <1>6, <1>7, Numbers, JournalFields DEF MediaSaved
  <2>2. proc' \in Procs
    BY <1>1, Standing, GoPlace
  <2> QED BY <1>5, <2>1, <2>2, Numbers DEF DInv, Typed, DataTyped, UnitsTyped, UpdateSwitches, units, database
<1> QED BY <1>1, <1>2, <1>4, <1>5, <1>8, <1>9, <1>10, <1>11, <1>12, MediaArrive

LEMMA RecoveryGoesBackStep ==
    ASSUME DInv, UNCHANGED ins, RecoveryGoesBack PROVE DInv'
<1> USE DEF ObservingAt, AfterHost, Switched, Untouched, PreparedAt, RestoringAt, KeepingAt, InstallAt,
            BegunAt, ApplyAt, StageAt, TryAt, CommitAt, ForwardAt, BackAt, EndAt, MediaAt, Working
<1>1. At("r-back") /\ Go("r-apt") /\ ins' = ins /\ child' = child
  BY DEF RecoveryGoesBack, packages
<1>2. PICK k : k = proc.keep
  OBVIOUS
<1>3. PlaceOK("r-back", k)
  BY <1>1, <1>2, Standing
<1>4. HasJournal /\ ~native /\ (k <=> KeepCandidate)
  BY <1>1, <1>3 DEF PlaceOK, UpdatePlace, BegunPlace, BuildPlace, BackPlace
<1>5. /\ schema' = schema /\ app' = app /\ host' = host /\ pkgs' = pkgs /\ child' = child /\ made' = made
      /\ validated' = validated /\ journal' = journal /\ apt' = apt /\ dir' = dir /\ native' = native
  BY DEF RecoveryGoesBack, units, database, runtime, packages, history, media
<1>6. tools' = IF k THEN tools ELSE journal.prev
  BY <1>4, <1>2, JournalFields, AptFields DEF RecoveryGoesBack, Apt, Journal
<1>7. MediaSaved /\ PackagesTrue
  BY DEF DInv, Core
<1>8. /\ (Mine' <=> Mine) /\ OldPkgs' = OldPkgs /\ HasJournal' /\ (KeepCandidate' <=> KeepCandidate)
      /\ k => (Sound' <=> Sound) /\ Target' = Target
  BY <1>1, <1>4, <1>5, <1>6, <1>7, JournalFields DEF MediaSaved, PackagesTrue, HasJournal, NoJournal,
     JournalStates, Mine, OldPkgs, KeepCandidate, PackagesChanged, PackageCommitted, Sound, Target, Usable
<1>9. MediaSaved'
  BY <1>1, <1>4, <1>5, <1>6, <1>7, <1>8, JournalFields DEF MediaSaved, PackagesTrue, Usable
<1>10. PackagesTrue'
  BY <1>1, <1>4, <1>5, <1>6, <1>7, <1>8, JournalFields DEF MediaSaved, PackagesTrue, AptFinal, AptRecoverable
<1>11. UpdatePlace("r-apt")' /\ BackPlace("r-apt", k)'
  BY <1>1, <1>4, <1>5, <1>6, <1>7, <1>8 DEF MediaSaved, PackagesTrue, UpdatePlace, BegunPlace, BuildPlace,
     BackPlace, AptFinal, AptRecoverable
<1>12. Typed'
  <2>1. tools' \in 0..made
    BY <1>4, <1>6, <1>7, Numbers, JournalFields DEF MediaSaved
  <2>2. proc' \in Procs
    BY <1>1, Standing, GoPlace
  <2> QED BY <1>5, <2>1, <2>2, Numbers DEF DInv, Typed, DataTyped, UnitsTyped, RecoveryGoesBack, units, database
<1> QED BY <1>1, <1>2, <1>4, <1>5, <1>8, <1>9, <1>10, <1>11, <1>12, MediaArrive

LEMMA RecoveryGoesForthStep ==
    ASSUME DInv, UNCHANGED ins, RecoveryGoesForth PROVE DInv'
<1> USE DEF ObservingAt, AfterHost, Switched, Untouched, PreparedAt, RestoringAt, KeepingAt, InstallAt,
            BegunAt, ApplyAt, StageAt, TryAt, CommitAt, ForwardAt, BackAt, EndAt, MediaAt, Working
<1>1. At("r-forth") /\ Go("r-doctor")
  BY DEF RecoveryGoesForth
<1>2. PlaceOK("r-forth", proc.keep)
  BY <1>1, Standing
<1>3. HasJournal /\ (proc.keep <=> KeepCandidate)
  BY <1>2 DEF PlaceOK, BackPlace
<1>4. proc.keep => tools = Target
  BY <1>3 DEF DInv, Core, MediaSaved
<1>5. tools' = tools
  BY <1>4 DEF RecoveryGoesForth, Target
<1>6. Still /\ UnitsTyped'
  BY <1>5 DEF RecoveryGoesForth, Still, runtime, units, database, DInv, Typed, UnitsTyped
<1>7. PlaceOK("r-doctor", proc.keep)
  BY <1>2 DEF PlaceOK, InsPlace, RecoverPlace, UpdatePlace, BegunPlace, BuildPlace, BackPlace
<1> QED BY <1>1, <1>6, <1>7, MoveOn

LEMMA RecoveryDiscardsStep ==
    ASSUME DInv, UNCHANGED ins, RecoveryDiscards PROVE DInv'
<1> USE DEF ObservingAt, AfterHost, Switched, Untouched, PreparedAt, RestoringAt, KeepingAt, InstallAt,
            BegunAt, ApplyAt, StageAt, TryAt, CommitAt, ForwardAt, BackAt, EndAt, MediaAt, Working
<1>1. At("r-doctor") /\ Go("r-timers") /\ ins' = ins /\ child' = child
  BY DEF RecoveryDiscards, packages
<1>2. PICK k : k = proc.keep
  OBVIOUS
<1>3. PlaceOK("r-doctor", k)
  BY <1>1, <1>2, Standing
<1>4. /\ HasJournal /\ ~native /\ (k <=> KeepCandidate) /\ ~apt.active
      /\ k \/ tools = journal.prev
  BY <1>1, <1>3 DEF PlaceOK, UpdatePlace, BegunPlace, BuildPlace, BackPlace
<1>5. /\ schema' = schema /\ app' = app /\ tools' = tools /\ host' = host /\ pkgs' = pkgs /\ child' = child
      /\ made' = made /\ validated' = validated /\ journal' = journal /\ apt' = apt /\ native' = native
  BY DEF RecoveryDiscards, units, database, runtime, packages, history, media
<1>6. dir' = IF ~k /\ journal.cand # NoRelease /\ journal.cand # tools
                THEN [dir EXCEPT ![journal.cand] = "none"] ELSE dir
  BY <1>4, <1>2, JournalFields, AptFields DEF RecoveryDiscards, Apt, Journal
<1>7. MediaSaved /\ PackagesTrue
  BY DEF DInv, Core
<1>7a. /\ dir \in [Releases -> {"none", "partial", "tested"}]
       /\ journal.prev \in Releases
       /\ journal.cand # NoRelease => journal.cand \in Releases /\ journal.prev # journal.cand
  BY <1>4, <1>7, HostAssumption, JournalFields DEF MediaSaved, DInv, Typed, DataTyped, Releases
<1>7b. pkgs = OldPkgs \/ k
  BY <1>4, <1>7 DEF MediaSaved, PackagesTrue, OldPkgs, KeepCandidate, PackageCommitted, PackagesChanged, Mine,
     AptFinal
<1>7c. Sound
  BY <1>4, <1>7, <1>7b DEF MediaSaved, Sound, Usable
<1>7d. dir'[journal.prev] = dir[journal.prev] /\ dir' \in [Releases -> {"none", "partial", "tested"}]
  BY <1>6, <1>7a
<1>7e. Sound'
  BY <1>4, <1>5, <1>6, <1>7, <1>7b, <1>7c, <1>7d DEF MediaSaved, Sound, Usable
<1>8. /\ (Mine' <=> Mine) /\ OldPkgs' = OldPkgs /\ HasJournal' /\ (KeepCandidate' <=> KeepCandidate)
      /\ dir'[journal.prev] = dir[journal.prev] /\ dir' \in [Releases -> {"none", "partial", "tested"}]
      /\ Sound' /\ Target' = Target
  BY <1>1, <1>4, <1>5, <1>6, <1>7, <1>7d, <1>7e, JournalFields DEF MediaSaved, PackagesTrue, HasJournal,
     NoJournal, JournalStates, Mine, OldPkgs, KeepCandidate, PackagesChanged, PackageCommitted, Sound, Target,
     Usable, AptFinal
<1>9. MediaSaved'
  BY <1>1, <1>4, <1>5, <1>6, <1>7, <1>8, JournalFields DEF MediaSaved, PackagesTrue, Usable
<1>10. PackagesTrue'
  BY <1>1, <1>4, <1>5, <1>6, <1>7, <1>8, JournalFields DEF MediaSaved, PackagesTrue, AptFinal, AptRecoverable
<1>11. UpdatePlace("r-timers")' /\ BackPlace("r-timers", k)'
  BY <1>1, <1>4, <1>5, <1>6, <1>7, <1>8 DEF MediaSaved, PackagesTrue, UpdatePlace, BegunPlace, BuildPlace,
     BackPlace, AptFinal, AptRecoverable
<1>12. Typed'
  <2>1. dir' \in [Releases -> {"none", "partial", "tested"}]
    BY <1>8
  <2>2. proc' \in Procs
    BY <1>1, Standing, GoPlace
  <2> QED BY <1>5, <2>1, <2>2, Numbers DEF DInv, Typed, DataTyped, UnitsTyped, RecoveryDiscards, units, database
<1> QED BY <1>1, <1>2, <1>4, <1>5, <1>8, <1>9, <1>10, <1>11, <1>12, MediaArrive

LEMMA JournalClearedStep ==
    ASSUME DInv, UNCHANGED ins, JournalCleared PROVE DInv'
<1> USE DEF ObservingAt, AfterHost, Switched, Untouched, PreparedAt, RestoringAt, KeepingAt, InstallAt,
            BegunAt, ApplyAt, StageAt, TryAt, CommitAt, ForwardAt, BackAt, EndAt, MediaAt, Working
<1>1. At("r-clear") /\ Go("r-end") /\ ins' = ins /\ journal' = NoJournal
  BY DEF JournalCleared
<1>2. PICK k : k = proc.keep
  OBVIOUS
<1>3. PlaceOK("r-clear", k)
  BY <1>1, <1>2, Standing
<1>4. HasJournal /\ Sound /\ ~apt.active
  BY <1>3 DEF PlaceOK, BackPlace
<1>5. /\ schema' = schema /\ app' = app /\ tools' = tools /\ host' = host /\ pkgs' = pkgs /\ child' = child
      /\ made' = made /\ validated' = validated /\ apt' = apt /\ dir' = dir /\ native' = native /\ apt' = apt
  BY DEF JournalCleared, units, database, runtime, packages, history
<1>6. ~HasJournal' /\ Sound'
  BY <1>1, <1>4, <1>5 DEF HasJournal, Sound, Usable
<1>7. ~InstallMarker /\ child = "no" /\ ins.state \in {"RESTORED", "COMMITTED"}
  BY <1>4 DEF DInv, Core, Apart, MediaSaved, InstallMarker
<1>8. Core'
  BY <1>1, <1>4, <1>5, <1>6, <1>7 DEF Core, Apart, InsSaved, ChildAlone, MediaSaved, PackagesTrue, Restoring,
     InstallMarker
<1>9. /\ proc' \in Procs /\ proc'.who # "none" /\ proc'.at = "r-end" /\ proc'.next = proc.next /\ proc'.keep = k
  BY <1>1, <1>2, Standing, GoPlace
<1>10. Stands("r-end")
  BY <1>1, <1>5, <1>9, Standing DEF Stands, AimOK
<1>11. Typed'
  BY <1>1, <1>5, <1>9 DEF DInv, Typed, DataTyped, UnitsTyped, JournalCleared, units, database
<1>12. PlaceOK("r-end", k)'
  BY <1>1, <1>5, <1>6, <1>7 DEF PlaceOK, InsPlace, RecoverPlace, UpdatePlace, BegunPlace, BuildPlace,
     BackPlace, InstallMarker
<1> QED BY <1>8, <1>9, <1>10, <1>11, <1>12, Arrive

LEMMA UpdateBeginsStep ==
    ASSUME DInv, UNCHANGED ins, UpdateBegins PROVE DInv'
<1> USE DEF ObservingAt, AfterHost, Switched, Untouched, PreparedAt, RestoringAt, KeepingAt, InstallAt,
            BegunAt, ApplyAt, StageAt, TryAt, CommitAt, ForwardAt, BackAt, EndAt, MediaAt, Working
<1>1. At("u-begin") /\ Go("u-stop-api") /\ ins' = ins /\ made' = made + 1
  BY DEF UpdateBegins
<1>2. PICK k : k = proc.keep
  OBVIOUS
<1>3. PlaceOK("u-begin", k) /\ proc.next = "exit" /\ made < MaxReleases
  BY <1>1, <1>2, Standing DEF AimOK
<1>4. ~ins.active /\ ~ins.pending /\ ~HasJournal /\ ~apt.active /\ child # "running"
  BY <1>3 DEF PlaceOK, InsPlace, Published, MediaMarker
<1>5. Sound /\ ins.state \in {"RESTORED", "COMMITTED"}
  BY <1>4 DEF DInv, Core, Apart, Restoring
<1>6. /\ schema' = schema /\ app' = app /\ tools' = tools /\ host' = host /\ pkgs' = pkgs /\ child' = child
      /\ validated' = validated /\ apt' = apt /\ dir' = dir /\ native' = native
  BY DEF UpdateBegins, units, database, runtime, packages
<1>7. /\ journal'.state = "BEGUN" /\ journal'.id = made + 1 /\ journal'.prev = tools
      /\ journal'.cand = NoRelease /\ journal'.changed = FALSE
  BY DEF UpdateBegins
<1>8. journal' \in JournalRecords
  <2>1. /\ up \in SUBSET Services /\ timers \in BOOLEAN /\ "BEGUN" \in JournalStates
        /\ made + 1 \in Nat /\ tools \in Nat /\ NoRelease \in Int
    BY Numbers DEF DInv, Typed, UnitsTyped, JournalStates, NoRelease
  <2>2. journal' = [state |-> "BEGUN", id |-> made + 1, prev |-> tools, cand |-> NoRelease,
                    activated |-> FALSE, changed |-> FALSE, up |-> up, timers |-> timers]
    BY DEF UpdateBegins
  <2> QED BY <2>1, <2>2 DEF JournalRecords
<1>9. HasJournal' /\ ~Mine' /\ OldPkgs' = pkgs /\ ~KeepCandidate'
  BY <1>6, <1>7, Numbers, AptFields DEF HasJournal, NoJournal, Mine, OldPkgs, KeepCandidate
<1>10. MediaSaved'
  <2>1. made + 1 \in Releases /\ app < made + 1 /\ tools < made + 1 /\ pkgs < made + 1
    BY <1>3, Numbers, HostAssumption DEF Releases
  <2> QED BY <1>1, <1>3, <1>4, <1>5, <1>6, <1>7, <1>9, <2>1 DEF MediaSaved, Sound, Usable
<1>11. PackagesTrue'
  BY <1>9 DEF PackagesTrue
<1>12. Apart' /\ InsSaved' /\ ChildAlone'
  BY <1>1, <1>4, <1>5, <1>6, <1>9 DEF Apart, InsSaved, ChildAlone, Restoring, InstallMarker
<1>13. /\ proc' \in Procs /\ proc'.who # "none" /\ proc'.at = "u-stop-api" /\ proc'.next = "exit"
       /\ proc'.keep = k
  BY <1>1, <1>2, <1>3, Standing, GoPlace
<1>14. Stands("u-stop-api")
  BY <1>13 DEF Stands, AimOK
<1>15. Typed'
  <2>1. made' \in Releases /\ app' \in 0..made' /\ tools' \in 0..made' /\ pkgs' \in -1..made'
    BY <1>1, <1>3, <1>6, Numbers, HostAssumption DEF Releases
  <2>2. apt'.id \in -1..made' /\ apt'.old \in -1..made' /\ ins'.id <= made'
    BY <1>1, <1>6, Numbers, AptFields DEF DInv, Typed, DataTyped, InsRecords
  <2> QED BY <1>1, <1>6, <1>8, <1>13, <2>1, <2>2 DEF DInv, Typed, DataTyped, UnitsTyped, UpdateBegins, units,
     database
<1>16. PlaceOK("u-stop-api", k)'
  BY <1>1, <1>4, <1>6, <1>7, <1>9 DEF PlaceOK, InsPlace, RecoverPlace, UpdatePlace, BegunPlace, BuildPlace,
     BackPlace, InstallMarker
<1> QED BY <1>10, <1>11, <1>12, <1>13, <1>14, <1>15, <1>16, Arrive DEF Core

LEMMA UpdatePreparedStep ==
    ASSUME DInv, UNCHANGED ins, UpdatePrepared PROVE DInv'
BY UpdatePreparedChanged, UpdatePreparedSame

LEMMA UpdateHealthyStep ==
    ASSUME DInv, UNCHANGED ins, UpdateHealthy PROVE DInv'
BY UpdateHealthyChanged, UpdateHealthySame

-----------------------------------------------------------------------------
(* What the installer changes.                                               *)

LEMMA InsFields ==
    ASSUME DInv
    PROVE  /\ ins \in InsRecords /\ ins.state \in InstallStates /\ ins.active \in BOOLEAN /\ ins.pending \in BOOLEAN
           /\ ins.id \in Nat /\ ins.id <= made /\ ins.app \in Nat /\ ins.tools \in Nat /\ ins.host \in Int
           /\ ins.up \in SUBSET Services /\ ins.enabled \in SUBSET (Services \cup {"timers"})
           /\ ins.timers \in BOOLEAN
BY DEF DInv, Typed, DataTyped, InsRecords

\* While the installer has a marker there is no journal of an update.
LEMMA InstallArrive ==
    ASSUME DInv, UNCHANGED media, made' = made, NEW l, At(l), ~HasJournal,
           NEW m \in InstallAt \ {"i-begin"}, Go(m), m \in Working => l \in Working,
           Typed', Apart', InsSaved', ChildAlone', child' = "running" => m \in {"i-apt-wait", "x-look"},
           NEW k, k = proc.keep, InsPlace(m)', RecoverPlace(m)'
    PROVE  DInv'
<1> USE DEF ObservingAt, AfterHost, Switched, Untouched, PreparedAt, RestoringAt, KeepingAt, InstallAt,
            BegunAt, ApplyAt, StageAt, TryAt, CommitAt, ForwardAt, BackAt, EndAt, MediaAt, Working
<1>1. /\ proc' \in Procs /\ proc'.at = m /\ proc'.who # "none"
      /\ proc'.next = proc.next /\ proc'.keep = k
  BY Standing, GoPlace
<1>2. Stands(m)
  BY <1>1, Standing DEF Stands, AimOK
<1>3. ~HasJournal'
  BY DEF HasJournal, media
<1>4. Core'
  BY <1>3 DEF Core, MediaSaved, PackagesTrue
<1>5. UpdatePlace(m)' /\ BackPlace(m, k)'
  BY DEF UpdatePlace, BegunPlace, BuildPlace, BackPlace
<1>6. PlaceOK(m, k)'
  BY <1>5 DEF PlaceOK
<1> QED BY <1>1, <1>2, <1>4, <1>6, Arrive

LEMMA SnapshotDatabaseStep ==
    ASSUME DInv, UNCHANGED media, SnapshotDatabase PROVE DInv'
<1> USE DEF ObservingAt, AfterHost, Switched, Untouched, PreparedAt, RestoringAt, KeepingAt, InstallAt,
            BegunAt, ApplyAt, StageAt, TryAt, CommitAt, ForwardAt, BackAt, EndAt, MediaAt, Working
<1>1. At("i-snapshot") /\ Go("i-prepare")
  BY DEF SnapshotDatabase
<1>2. PICK k : k = proc.keep
  OBVIOUS
<1>3. PlaceOK("i-snapshot", k)
  BY <1>1, <1>2, Standing
<1>4. ins.active /\ ins.state = "OBSERVING" /\ lane # "working" /\ ~native
  BY <1>1, <1>3 DEF PlaceOK, InsPlace, RecoverPlace
<1>5. /\ schema' = schema /\ app' = app /\ tools' = tools /\ host' = host /\ pkgs' = pkgs /\ child' = child
      /\ made' = made /\ validated' = validated /\ work' = work /\ native' = native /\ lane' = lane
  BY DEF SnapshotDatabase, units, database, runtime, packages, history
<1>6. /\ ins'.db = Database
      /\ ins'.state = ins.state /\ ins'.active = ins.active /\ ins'.pending = ins.pending /\ ins'.id = ins.id
      /\ ins'.app = ins.app /\ ins'.tools = ins.tools /\ ins'.host = ins.host
      /\ ins' = [ins EXCEPT !.db = Database]
  BY <1>4, InsFields DEF SnapshotDatabase, Ins, InsRecords
<1>7. Apart /\ InsSaved /\ ChildAlone
  BY DEF DInv, Core
<1>7a. Database \in Snapshots /\ Database.schema = schema /\ Database.work = work
  BY DEF Database, Snapshots, DInv, Typed, UnitsTyped, DataTyped
<1>8. /\ ~HasJournal /\ ~HasJournal' /\ ~Restoring /\ child = "no" /\ Sound /\ Sound'
      /\ Database \in Snapshots /\ Database.schema = schema /\ Database.work = work
  BY <1>1, <1>4, <1>5, <1>6, <1>7, <1>7a DEF Apart, InsSaved, ChildAlone, Restoring, InstallMarker,
     HasJournal, media, RestorableStates, Sound, Usable
<1>9. Apart'
  BY <1>1, <1>4, <1>5, <1>6, <1>7, <1>8 DEF Apart, Restoring, InstallMarker, RestorableStates, media
<1>10. InsSaved'
  BY <1>1, <1>4, <1>5, <1>6, <1>7, <1>8, Numbers DEF InsSaved, Restoring, RestorableStates, Usable, media
<1>11. ChildAlone'
  BY <1>1, <1>4, <1>5, <1>6, <1>7, <1>8 DEF ChildAlone, Restoring, RestorableStates
<1>12. /\ InsPlace("i-prepare")' /\ RecoverPlace("i-prepare")'
       /\ (child' = "running" => "i-prepare" \in {"i-apt-wait", "x-look"})
  BY <1>1, <1>4, <1>5, <1>6, <1>7, <1>8 DEF InsPlace, RecoverPlace, InsSaved, Restoring, RestorableStates,
     InstallMarker
<1>13. Typed'
  <2>1. ins' \in InsRecords /\ ins'.id <= made
    BY <1>4, <1>5, <1>6, <1>7, <1>8, InsFields, Numbers DEF InsRecords, InstallStates, InsSaved, Restoring,
       RestorableStates, Mixed
  <2>2. proc' \in Procs
    BY <1>1, Standing, GoPlace
  <2> QED BY <1>5, <2>1, <2>2 DEF DInv, Typed, DataTyped, UnitsTyped, SnapshotDatabase, units, database, media
<1> QED BY <1>1, <1>2, <1>4, <1>5, <1>8, <1>9, <1>10, <1>11, <1>12, <1>13, InstallArrive

LEMMA InstallPreparesStep ==
    ASSUME DInv, UNCHANGED media, InstallPrepares PROVE DInv'
<1> USE DEF ObservingAt, AfterHost, Switched, Untouched, PreparedAt, RestoringAt, KeepingAt, InstallAt,
            BegunAt, ApplyAt, StageAt, TryAt, CommitAt, ForwardAt, BackAt, EndAt, MediaAt, Working
<1>1. At("i-prepare") /\ Go("i-config")
  BY DEF InstallPrepares
<1>2. PICK k : k = proc.keep
  OBVIOUS
<1>3. PlaceOK("i-prepare", k)
  BY <1>1, <1>2, Standing
<1>4. /\ ins.active /\ ins.state = "OBSERVING" /\ lane # "working" /\ ~native
      /\ ins.db \in Snapshots /\ ins.db.schema = schema /\ ins.db.work = work
  BY <1>1, <1>3 DEF PlaceOK, InsPlace, RecoverPlace
<1>5. /\ schema' = schema /\ app' = app /\ tools' = tools /\ host' = host /\ pkgs' = pkgs /\ child' = child
      /\ made' = made /\ validated' = validated /\ work' = work /\ native' = native /\ lane' = lane
  BY DEF InstallPrepares, units, database, runtime, packages, history
<1>6. /\ ins'.state = "PREPARED"
      /\ ins'.active = ins.active /\ ins'.pending = ins.pending /\ ins'.id = ins.id /\ ins'.app = ins.app
      /\ ins'.tools = ins.tools /\ ins'.host = ins.host /\ ins'.db = ins.db
      /\ ins' = [ins EXCEPT !.state = "PREPARED"]
  BY <1>4, InsFields DEF InstallPrepares, Ins, InsRecords
<1>7. Apart /\ InsSaved /\ ChildAlone
  BY DEF DInv, Core
<1>8. ~HasJournal /\ ~HasJournal' /\ ~Restoring /\ child = "no" /\ Sound /\ Sound'
  BY <1>1, <1>4, <1>5, <1>6, <1>7 DEF Apart, InsSaved, ChildAlone, Restoring, InstallMarker, HasJournal,
     media, RestorableStates, Sound, Usable
<1>9. Apart'
  BY <1>1, <1>4, <1>5, <1>6, <1>7, <1>8 DEF Apart, Restoring, InstallMarker, RestorableStates, media
<1>10. InsSaved'
  BY <1>1, <1>4, <1>5, <1>6, <1>7, <1>8, Numbers DEF InsSaved, Restoring, RestorableStates, Usable, media, Sound
<1>11. ChildAlone'
  BY <1>1, <1>4, <1>5, <1>6, <1>7, <1>8 DEF ChildAlone, Restoring, RestorableStates
<1>12. /\ InsPlace("i-config")' /\ RecoverPlace("i-config")'
       /\ (child' = "running" => "i-config" \in {"i-apt-wait", "x-look"})
  BY <1>1, <1>4, <1>5, <1>6, <1>7, <1>8 DEF InsPlace, RecoverPlace, InsSaved, Restoring, RestorableStates,
     InstallMarker
<1>13. Typed'
  <2>1. ins' \in InsRecords /\ ins'.id <= made
    BY <1>4, <1>5, <1>6, <1>7, <1>8, InsFields, Numbers DEF InsRecords, InstallStates, InsSaved, Restoring,
       RestorableStates, Mixed
  <2>2. proc' \in Procs
    BY <1>1, Standing, GoPlace
  <2> QED BY <1>5, <2>1, <2>2 DEF DInv, Typed, DataTyped, UnitsTyped, InstallPrepares, units, database, media
<1> QED BY <1>1, <1>2, <1>4, <1>5, <1>8, <1>9, <1>10, <1>11, <1>12, <1>13, InstallArrive

LEMMA InstallConfiguresStep ==
    ASSUME DInv, UNCHANGED media, InstallConfigures PROVE DInv'
<1> USE DEF ObservingAt, AfterHost, Switched, Untouched, PreparedAt, RestoringAt, KeepingAt, InstallAt,
            BegunAt, ApplyAt, StageAt, TryAt, CommitAt, ForwardAt, BackAt, EndAt, MediaAt, Working
<1>1. At("i-config") /\ Go("i-apt")
  BY DEF InstallConfigures
<1>2. PICK k : k = proc.keep
  OBVIOUS
<1>3. PlaceOK("i-config", k)
  BY <1>1, <1>2, Standing
<1>4. ins.active /\ ins.state = "PREPARED" /\ child = "no" /\ app = ins.app
  BY <1>1, <1>3 DEF PlaceOK, InsPlace, RecoverPlace
<1>5. /\ schema' = schema /\ app' = app /\ tools' = tools /\ pkgs' = pkgs /\ child' = child /\ made' = made
      /\ validated' = validated /\ ins' = ins /\ work' = work /\ native' = native /\ lane' = lane
  BY DEF InstallConfigures, units, database, runtime, packages, history
<1>6. host' = Mixed
  BY <1>4, InsFields DEF InstallConfigures, Ins, InsRecords
<1>7. Apart /\ InsSaved /\ ChildAlone
  BY DEF DInv, Core
<1>8. ~HasJournal /\ ~HasJournal' /\ Restoring /\ Restoring'
  BY <1>1, <1>4, <1>5, <1>6, <1>7 DEF Apart, InsSaved, ChildAlone, Restoring, InstallMarker, HasJournal,
     media, RestorableStates, Sound, Usable
<1>9. Apart'
  BY <1>1, <1>4, <1>5, <1>6, <1>7, <1>8 DEF Apart, Restoring, InstallMarker, RestorableStates, media
<1>10. InsSaved'
  BY <1>1, <1>4, <1>5, <1>6, <1>7, <1>8, Numbers DEF InsSaved, Restoring, RestorableStates, Usable, media
<1>11. ChildAlone'
  BY <1>1, <1>4, <1>5, <1>6, <1>7, <1>8 DEF ChildAlone, Restoring, RestorableStates
<1>12. /\ InsPlace("i-apt")' /\ RecoverPlace("i-apt")'
       /\ (child' = "running" => "i-apt" \in {"i-apt-wait", "x-look"})
  BY <1>1, <1>4, <1>5, <1>6, <1>7, <1>8 DEF InsPlace, RecoverPlace, InsSaved, Restoring, RestorableStates,
     InstallMarker
<1>13. Typed'
  <2>1. host' \in Int
    BY <1>4, <1>5, <1>6, <1>7, <1>8, InsFields, Numbers DEF InsRecords, InstallStates, InsSaved, Restoring,
       RestorableStates, Mixed
  <2>2. proc' \in Procs
    BY <1>1, Standing, GoPlace
  <2> QED BY <1>5, <2>1, <2>2 DEF DInv, Typed, DataTyped, UnitsTyped, InstallConfigures, units, database, media
<1> QED BY <1>1, <1>2, <1>4, <1>5, <1>8, <1>9, <1>10, <1>11, <1>12, <1>13, InstallArrive

LEMMA InstallAptStep ==
    ASSUME DInv, UNCHANGED media, InstallApt PROVE DInv'
<1> USE DEF ObservingAt, AfterHost, Switched, Untouched, PreparedAt, RestoringAt, KeepingAt, InstallAt,
            BegunAt, ApplyAt, StageAt, TryAt, CommitAt, ForwardAt, BackAt, EndAt, MediaAt, Working
<1>1. At("i-apt") /\ Go("i-apt-wait")
  BY DEF InstallApt
<1>2. PICK k : k = proc.keep
  OBVIOUS
<1>3. PlaceOK("i-apt", k)
  BY <1>1, <1>2, Standing
<1>4. ins.active /\ ins.state = "PREPARED" /\ app = ins.app
  BY <1>1, <1>3 DEF PlaceOK, InsPlace, RecoverPlace
<1>5. /\ schema' = schema /\ app' = app /\ tools' = tools /\ host' = host /\ pkgs' = pkgs /\ made' = made
      /\ validated' = validated /\ ins' = ins /\ work' = work /\ native' = native /\ lane' = lane
  BY DEF InstallApt, units, database, runtime, packages, history
<1>6. child' = "running"
  BY <1>4, InsFields DEF InstallApt, Ins, InsRecords
<1>7. Apart /\ InsSaved /\ ChildAlone
  BY DEF DInv, Core
<1>8. ~HasJournal /\ ~HasJournal' /\ Restoring /\ Restoring'
  BY <1>1, <1>4, <1>5, <1>6, <1>7 DEF Apart, InsSaved, ChildAlone, Restoring, InstallMarker, HasJournal,
     media, RestorableStates, Sound, Usable
<1>9. Apart'
  BY <1>1, <1>4, <1>5, <1>6, <1>7, <1>8 DEF Apart, Restoring, InstallMarker, RestorableStates, media
<1>10. InsSaved'
  BY <1>1, <1>4, <1>5, <1>6, <1>7, <1>8, Numbers DEF InsSaved, Restoring, RestorableStates, Usable, media
<1>11. ChildAlone'
  BY <1>1, <1>4, <1>5, <1>6, <1>7, <1>8 DEF ChildAlone, Restoring, RestorableStates
<1>12. /\ InsPlace("i-apt-wait")' /\ RecoverPlace("i-apt-wait")'
       /\ (child' = "running" => "i-apt-wait" \in {"i-apt-wait", "x-look"})
  BY <1>1, <1>4, <1>5, <1>6, <1>7, <1>8 DEF InsPlace, RecoverPlace, InsSaved, Restoring, RestorableStates,
     InstallMarker
<1>13. Typed'
  <2>1. child' \in {"no", "running", "half"}
    BY <1>4, <1>5, <1>6, <1>7, <1>8, InsFields, Numbers DEF InsRecords, InstallStates, InsSaved, Restoring,
       RestorableStates, Mixed
  <2>2. proc' \in Procs
    BY <1>1, Standing, GoPlace
  <2> QED BY <1>5, <2>1, <2>2 DEF DInv, Typed, DataTyped, UnitsTyped, InstallApt, units, database, media
<1> QED BY <1>1, <1>2, <1>4, <1>5, <1>8, <1>9, <1>10, <1>11, <1>12, <1>13, InstallArrive

LEMMA SwitchAppStep ==
    ASSUME DInv, UNCHANGED media, SwitchApp PROVE DInv'
<1> USE DEF ObservingAt, AfterHost, Switched, Untouched, PreparedAt, RestoringAt, KeepingAt, InstallAt,
            BegunAt, ApplyAt, StageAt, TryAt, CommitAt, ForwardAt, BackAt, EndAt, MediaAt, Working
<1>1. At("i-app") /\ Go("i-tools")
  BY DEF SwitchApp
<1>2. PICK k : k = proc.keep
  OBVIOUS
<1>3. PlaceOK("i-app", k)
  BY <1>1, <1>2, Standing
<1>4. ins.active /\ ins.state = "PREPARED" /\ child = "no" /\ app = ins.app
  BY <1>1, <1>3 DEF PlaceOK, InsPlace, RecoverPlace
<1>5. /\ schema' = schema /\ tools' = tools /\ host' = host /\ pkgs' = pkgs /\ child' = child /\ made' = made
      /\ validated' = validated /\ ins' = ins /\ work' = work /\ native' = native /\ lane' = lane
  BY DEF SwitchApp, units, database, runtime, packages, history
<1>6. app' = ins.id
  BY <1>4, InsFields DEF SwitchApp, Ins, InsRecords
<1>7. Apart /\ InsSaved /\ ChildAlone
  BY DEF DInv, Core
<1>8. ~HasJournal /\ ~HasJournal' /\ Restoring /\ Restoring'
  BY <1>1, <1>4, <1>5, <1>6, <1>7 DEF Apart, InsSaved, ChildAlone, Restoring, InstallMarker, HasJournal,
     media, RestorableStates, Sound, Usable
<1>9. Apart'
  BY <1>1, <1>4, <1>5, <1>6, <1>7, <1>8 DEF Apart, Restoring, InstallMarker, RestorableStates, media
<1>10. InsSaved'
  BY <1>1, <1>4, <1>5, <1>6, <1>7, <1>8, Numbers DEF InsSaved, Restoring, RestorableStates, Usable, media
<1>11. ChildAlone'
  BY <1>1, <1>4, <1>5, <1>6, <1>7, <1>8 DEF ChildAlone, Restoring, RestorableStates
<1>12. /\ InsPlace("i-tools")' /\ RecoverPlace("i-tools")'
       /\ (child' = "running" => "i-tools" \in {"i-apt-wait", "x-look"})
  BY <1>1, <1>4, <1>5, <1>6, <1>7, <1>8 DEF InsPlace, RecoverPlace, InsSaved, Restoring, RestorableStates,
     InstallMarker
<1>13. Typed'
  <2>1. app' \in 0..made
    BY <1>4, <1>5, <1>6, <1>7, <1>8, InsFields, Numbers DEF InsRecords, InstallStates, InsSaved, Restoring,
       RestorableStates, Mixed
  <2>2. proc' \in Procs
    BY <1>1, Standing, GoPlace
  <2> QED BY <1>5, <2>1, <2>2 DEF DInv, Typed, DataTyped, UnitsTyped, SwitchApp, units, database, media
<1> QED BY <1>1, <1>2, <1>4, <1>5, <1>8, <1>9, <1>10, <1>11, <1>12, <1>13, InstallArrive

LEMMA SwitchToolsStep ==
    ASSUME DInv, UNCHANGED media, SwitchTools PROVE DInv'
<1> USE DEF ObservingAt, AfterHost, Switched, Untouched, PreparedAt, RestoringAt, KeepingAt, InstallAt,
            BegunAt, ApplyAt, StageAt, TryAt, CommitAt, ForwardAt, BackAt, EndAt, MediaAt, Working
<1>1. At("i-tools") /\ Go("i-host")
  BY DEF SwitchTools
<1>2. PICK k : k = proc.keep
  OBVIOUS
<1>3. PlaceOK("i-tools", k)
  BY <1>1, <1>2, Standing
<1>4. ins.active /\ ins.state = "PREPARED" /\ child = "no" /\ app = ins.id
  BY <1>1, <1>3 DEF PlaceOK, InsPlace, RecoverPlace
<1>5. /\ schema' = schema /\ app' = app /\ host' = host /\ pkgs' = pkgs /\ child' = child /\ made' = made
      /\ validated' = validated /\ ins' = ins /\ work' = work /\ native' = native /\ lane' = lane
  BY DEF SwitchTools, units, database, runtime, packages, history
<1>6. tools' = ins.id
  BY <1>4, InsFields DEF SwitchTools, Ins, InsRecords
<1>7. Apart /\ InsSaved /\ ChildAlone
  BY DEF DInv, Core
<1>8. ~HasJournal /\ ~HasJournal' /\ Restoring /\ Restoring'
  BY <1>1, <1>4, <1>5, <1>6, <1>7 DEF Apart, InsSaved, ChildAlone, Restoring, InstallMarker, HasJournal,
     media, RestorableStates, Sound, Usable
<1>9. Apart'
  BY <1>1, <1>4, <1>5, <1>6, <1>7, <1>8 DEF Apart, Restoring, InstallMarker, RestorableStates, media
<1>10. InsSaved'
  BY <1>1, <1>4, <1>5, <1>6, <1>7, <1>8, Numbers DEF InsSaved, Restoring, RestorableStates, Usable, media
<1>11. ChildAlone'
  BY <1>1, <1>4, <1>5, <1>6, <1>7, <1>8 DEF ChildAlone, Restoring, RestorableStates
<1>12. /\ InsPlace("i-host")' /\ RecoverPlace("i-host")'
       /\ (child' = "running" => "i-host" \in {"i-apt-wait", "x-look"})
  BY <1>1, <1>4, <1>5, <1>6, <1>7, <1>8 DEF InsPlace, RecoverPlace, InsSaved, Restoring, RestorableStates,
     InstallMarker
<1>13. Typed'
  <2>1. tools' \in 0..made
    BY <1>4, <1>5, <1>6, <1>7, <1>8, InsFields, Numbers DEF InsRecords, InstallStates, InsSaved, Restoring,
       RestorableStates, Mixed
  <2>2. proc' \in Procs
    BY <1>1, Standing, GoPlace
  <2> QED BY <1>5, <2>1, <2>2 DEF DInv, Typed, DataTyped, UnitsTyped, SwitchTools, units, database, media
<1> QED BY <1>1, <1>2, <1>4, <1>5, <1>8, <1>9, <1>10, <1>11, <1>12, <1>13, InstallArrive

LEMMA InstallHostStep ==
    ASSUME DInv, UNCHANGED media, InstallHost PROVE DInv'
<1> USE DEF ObservingAt, AfterHost, Switched, Untouched, PreparedAt, RestoringAt, KeepingAt, InstallAt,
            BegunAt, ApplyAt, StageAt, TryAt, CommitAt, ForwardAt, BackAt, EndAt, MediaAt, Working
<1>1. At("i-host") /\ Go("i-init-db")
  BY DEF InstallHost
<1>2. PICK k : k = proc.keep
  OBVIOUS
<1>3. PlaceOK("i-host", k)
  BY <1>1, <1>2, Standing
<1>4. ins.active /\ ins.state = "PREPARED" /\ child = "no" /\ app = ins.id /\ tools = ins.id
  BY <1>1, <1>3 DEF PlaceOK, InsPlace, RecoverPlace
<1>5. /\ schema' = schema /\ app' = app /\ tools' = tools /\ pkgs' = pkgs /\ child' = child /\ made' = made
      /\ validated' = validated /\ ins' = ins /\ work' = work /\ native' = native /\ lane' = lane
  BY DEF InstallHost, units, database, runtime, packages, history
<1>6. host' = ins.id
  BY <1>4, InsFields DEF InstallHost, Ins, InsRecords
<1>7. Apart /\ InsSaved /\ ChildAlone
  BY DEF DInv, Core
<1>8. ~HasJournal /\ ~HasJournal' /\ Restoring /\ Restoring'
  BY <1>1, <1>4, <1>5, <1>6, <1>7 DEF Apart, InsSaved, ChildAlone, Restoring, InstallMarker, HasJournal,
     media, RestorableStates, Sound, Usable
<1>9. Apart'
  BY <1>1, <1>4, <1>5, <1>6, <1>7, <1>8 DEF Apart, Restoring, InstallMarker, RestorableStates, media
<1>10. InsSaved'
  BY <1>1, <1>4, <1>5, <1>6, <1>7, <1>8, Numbers DEF InsSaved, Restoring, RestorableStates, Usable, media
<1>11. ChildAlone'
  BY <1>1, <1>4, <1>5, <1>6, <1>7, <1>8 DEF ChildAlone, Restoring, RestorableStates
<1>12. /\ InsPlace("i-init-db")' /\ RecoverPlace("i-init-db")'
       /\ (child' = "running" => "i-init-db" \in {"i-apt-wait", "x-look"})
  BY <1>1, <1>4, <1>5, <1>6, <1>7, <1>8 DEF InsPlace, RecoverPlace, InsSaved, Restoring, RestorableStates,
     InstallMarker
<1>13. Typed'
  <2>1. host' \in Int
    BY <1>4, <1>5, <1>6, <1>7, <1>8, InsFields, Numbers DEF InsRecords, InstallStates, InsSaved, Restoring,
       RestorableStates, Mixed
  <2>2. proc' \in Procs
    BY <1>1, Standing, GoPlace
  <2> QED BY <1>5, <2>1, <2>2 DEF DInv, Typed, DataTyped, UnitsTyped, InstallHost, units, database, media
<1> QED BY <1>1, <1>2, <1>4, <1>5, <1>8, <1>9, <1>10, <1>11, <1>12, <1>13, InstallArrive

LEMMA InitDatabaseStep ==
    ASSUME DInv, UNCHANGED media, InitDatabase PROVE DInv'
<1> USE DEF ObservingAt, AfterHost, Switched, Untouched, PreparedAt, RestoringAt, KeepingAt, InstallAt,
            BegunAt, ApplyAt, StageAt, TryAt, CommitAt, ForwardAt, BackAt, EndAt, MediaAt, Working
<1>1. At("i-init-db") /\ Go("i-enable")
  BY DEF InitDatabase
<1>2. PICK k : k = proc.keep
  OBVIOUS
<1>3. PlaceOK("i-init-db", k)
  BY <1>1, <1>2, Standing
<1>4. ins.active /\ ins.state = "PREPARED" /\ child = "no" /\ app = ins.id /\ tools = ins.id /\ host = ins.id
  BY <1>1, <1>3 DEF PlaceOK, InsPlace, RecoverPlace
<1>5. /\ app' = app /\ tools' = tools /\ host' = host /\ pkgs' = pkgs /\ child' = child /\ made' = made
      /\ validated' = validated /\ ins' = ins /\ work' = work /\ native' = native /\ lane' = lane
  BY DEF InitDatabase, units, database, runtime, packages, history
<1>6. schema' = app
  BY <1>4, InsFields DEF InitDatabase, Ins, InsRecords
<1>7. Apart /\ InsSaved /\ ChildAlone
  BY DEF DInv, Core
<1>8. ~HasJournal /\ ~HasJournal' /\ Restoring /\ Restoring'
  BY <1>1, <1>4, <1>5, <1>6, <1>7 DEF Apart, InsSaved, ChildAlone, Restoring, InstallMarker, HasJournal,
     media, RestorableStates, Sound, Usable
<1>9. Apart'
  BY <1>1, <1>4, <1>5, <1>6, <1>7, <1>8 DEF Apart, Restoring, InstallMarker, RestorableStates, media
<1>10. InsSaved'
  BY <1>1, <1>4, <1>5, <1>6, <1>7, <1>8, Numbers DEF InsSaved, Restoring, RestorableStates, Usable, media
<1>11. ChildAlone'
  BY <1>1, <1>4, <1>5, <1>6, <1>7, <1>8 DEF ChildAlone, Restoring, RestorableStates
<1>12. /\ InsPlace("i-enable")' /\ RecoverPlace("i-enable")'
       /\ (child' = "running" => "i-enable" \in {"i-apt-wait", "x-look"})
  BY <1>1, <1>4, <1>5, <1>6, <1>7, <1>8 DEF InsPlace, RecoverPlace, InsSaved, Restoring, RestorableStates,
     InstallMarker
<1>13. Typed'
  <2>1. schema' \in Nat
    BY <1>4, <1>5, <1>6, <1>7, <1>8, InsFields, Numbers DEF InsRecords, InstallStates, InsSaved, Restoring,
       RestorableStates, Mixed
  <2>2. proc' \in Procs
    BY <1>1, Standing, GoPlace
  <2> QED BY <1>5, <2>1, <2>2 DEF DInv, Typed, DataTyped, UnitsTyped, InitDatabase, units, database, media
<1> QED BY <1>1, <1>2, <1>4, <1>5, <1>8, <1>9, <1>10, <1>11, <1>12, <1>13, InstallArrive

LEMMA QuiesceNativeStep ==
    ASSUME DInv, UNCHANGED media, QuiesceNative PROVE DInv'
<1> USE DEF ObservingAt, AfterHost, Switched, Untouched, PreparedAt, RestoringAt, KeepingAt, InstallAt,
            BegunAt, ApplyAt, StageAt, TryAt, CommitAt, ForwardAt, BackAt, EndAt, MediaAt, Working
<1>1. At("x-native") /\ Go("x-decide") /\ ~native
  BY DEF QuiesceNative
<1>2. PICK k : k = proc.keep
  OBVIOUS
<1>3. PlaceOK("x-native", k)
  BY <1>1, <1>2, Standing
<1>4. InstallMarker /\ child # "running"
  BY <1>1, <1>3 DEF PlaceOK, InsPlace, RecoverPlace
<1>5. /\ schema' = schema /\ app' = app /\ tools' = tools /\ host' = host /\ pkgs' = pkgs /\ made' = made
      /\ validated' = validated /\ ins' = ins /\ work' = work /\ native' = native /\ lane' = lane
  BY DEF QuiesceNative, units, database, runtime, packages, history
<1>6. child' = IF RepairsPackages THEN "no" ELSE child
  BY <1>4, InsFields DEF QuiesceNative, Ins, InsRecords
<1>7. Apart /\ InsSaved /\ ChildAlone
  BY DEF DInv, Core
<1>8. /\ ~HasJournal /\ ~HasJournal' /\ child' = "no" /\ (Restoring' <=> Restoring) /\ (Sound => Sound')
      /\ InstallMarker'
  BY <1>1, <1>4, <1>5, <1>6, <1>7 DEF Apart, InsSaved, ChildAlone, Restoring, InstallMarker, HasJournal,
     media, RestorableStates, Sound, Usable, RepairsPackages
<1>9. Apart'
  BY <1>1, <1>4, <1>5, <1>6, <1>7, <1>8 DEF Apart, Restoring, InstallMarker, RestorableStates, media
<1>10. InsSaved'
  BY <1>1, <1>4, <1>5, <1>6, <1>7, <1>8, Numbers DEF InsSaved, Restoring, RestorableStates, Usable, media
<1>11. ChildAlone'
  BY <1>1, <1>4, <1>5, <1>6, <1>7, <1>8 DEF ChildAlone, Restoring, RestorableStates
<1>12. /\ InsPlace("x-decide")' /\ RecoverPlace("x-decide")'
       /\ (child' = "running" => "x-decide" \in {"i-apt-wait", "x-look"})
  BY <1>1, <1>4, <1>5, <1>6, <1>7, <1>8 DEF InsPlace, RecoverPlace, InsSaved, Restoring, RestorableStates,
     InstallMarker
<1>13. Typed'
  <2>1. child' \in {"no", "running", "half"}
    BY <1>4, <1>5, <1>6, <1>7, <1>8, InsFields, Numbers DEF InsRecords, InstallStates, InsSaved, Restoring,
       RestorableStates, Mixed
  <2>2. proc' \in Procs
    BY <1>1, Standing, GoPlace
  <2> QED BY <1>5, <2>1, <2>2 DEF DInv, Typed, DataTyped, UnitsTyped, QuiesceNative, units, database, media
<1> QED BY <1>1, <1>2, <1>4, <1>5, <1>8, <1>9, <1>10, <1>11, <1>12, <1>13, InstallArrive

\* The two branches of Decide that write the manifest.
DecideBack ==
    /\ At("x-decide") /\ ins.active /\ ins.state \in RestorableStates
    /\ Ins("RESTORING") /\ Go("x-stop-back")
    /\ UNCHANGED <<units, faults, database, runtime, packages, history>>

DecideNothing ==
    /\ At("x-decide") /\ ins.active /\ ins.state = "OBSERVING"
    /\ Ins("RESTORED") /\ Go("x-publish")
    /\ UNCHANGED <<units, faults, database, runtime, packages, history>>

LEMMA DecideBackStep ==
    ASSUME DInv, UNCHANGED media, DecideBack PROVE DInv'
<1> USE DEF ObservingAt, AfterHost, Switched, Untouched, PreparedAt, RestoringAt, KeepingAt, InstallAt,
            BegunAt, ApplyAt, StageAt, TryAt, CommitAt, ForwardAt, BackAt, EndAt, MediaAt, Working
<1>1. At("x-decide") /\ Go("x-stop-back") /\ ins.active /\ ins.state \in RestorableStates
  BY DEF DecideBack
<1>2. PICK k : k = proc.keep
  OBVIOUS
<1>3. PlaceOK("x-decide", k)
  BY <1>1, <1>2, Standing
<1>4. InstallMarker /\ child = "no"
  BY <1>1, <1>3 DEF PlaceOK, InsPlace, RecoverPlace
<1>5. /\ schema' = schema /\ app' = app /\ tools' = tools /\ host' = host /\ pkgs' = pkgs /\ child' = child
      /\ made' = made /\ validated' = validated /\ work' = work /\ native' = native /\ lane' = lane
  BY DEF DecideBack, units, database, runtime, packages, history
<1>6. /\ ins'.state = "RESTORING"
      /\ ins'.active = ins.active /\ ins'.pending = ins.pending /\ ins'.id = ins.id /\ ins'.app = ins.app
      /\ ins'.tools = ins.tools /\ ins'.host = ins.host /\ ins'.db = ins.db
      /\ ins' = [ins EXCEPT !.state = "RESTORING"]
  BY <1>4, InsFields DEF DecideBack, Ins, InsRecords
<1>7. Apart /\ InsSaved /\ ChildAlone
  BY DEF DInv, Core
<1>8. ~HasJournal /\ ~HasJournal' /\ Restoring /\ Restoring'
  BY <1>1, <1>4, <1>5, <1>6, <1>7 DEF Apart, InsSaved, ChildAlone, Restoring, InstallMarker, HasJournal,
     media, RestorableStates, Sound, Usable
<1>9. Apart'
  BY <1>1, <1>4, <1>5, <1>6, <1>7, <1>8 DEF Apart, Restoring, InstallMarker, RestorableStates, media
<1>10. InsSaved'
  BY <1>1, <1>4, <1>5, <1>6, <1>7, <1>8, Numbers DEF InsSaved, Restoring, RestorableStates, Usable, media
<1>11. ChildAlone'
  BY <1>1, <1>4, <1>5, <1>6, <1>7, <1>8 DEF ChildAlone, Restoring, RestorableStates
<1>12. /\ InsPlace("x-stop-back")' /\ RecoverPlace("x-stop-back")'
       /\ (child' = "running" => "x-stop-back" \in {"i-apt-wait", "x-look"})
  BY <1>1, <1>4, <1>5, <1>6, <1>7, <1>8 DEF InsPlace, RecoverPlace, InsSaved, Restoring, RestorableStates,
     InstallMarker
<1>13. Typed'
  <2>1. ins' \in InsRecords /\ ins'.id <= made
    BY <1>4, <1>5, <1>6, <1>7, <1>8, InsFields, Numbers DEF InsRecords, InstallStates, InsSaved, Restoring,
       RestorableStates, Mixed
  <2>2. proc' \in Procs
    BY <1>1, Standing, GoPlace
  <2> QED BY <1>5, <2>1, <2>2 DEF DInv, Typed, DataTyped, UnitsTyped, DecideBack, units, database, media
<1> QED BY <1>1, <1>2, <1>4, <1>5, <1>8, <1>9, <1>10, <1>11, <1>12, <1>13, InstallArrive

LEMMA DecideNothingStep ==
    ASSUME DInv, UNCHANGED media, DecideNothing PROVE DInv'
<1> USE DEF ObservingAt, AfterHost, Switched, Untouched, PreparedAt, RestoringAt, KeepingAt, InstallAt,
            BegunAt, ApplyAt, StageAt, TryAt, CommitAt, ForwardAt, BackAt, EndAt, MediaAt, Working
<1>1. At("x-decide") /\ Go("x-publish") /\ ins.active /\ ins.state = "OBSERVING"
  BY DEF DecideNothing
<1>2. PICK k : k = proc.keep
  OBVIOUS
<1>3. PlaceOK("x-decide", k)
  BY <1>1, <1>2, Standing
<1>4. InstallMarker /\ child = "no"
  BY <1>1, <1>3 DEF PlaceOK, InsPlace, RecoverPlace
<1>5. /\ schema' = schema /\ app' = app /\ tools' = tools /\ host' = host /\ pkgs' = pkgs /\ child' = child
      /\ made' = made /\ validated' = validated /\ work' = work /\ native' = native /\ lane' = lane
  BY DEF DecideNothing, units, database, runtime, packages, history
<1>6. /\ ins'.state = "RESTORED"
      /\ ins'.active = ins.active /\ ins'.pending = ins.pending /\ ins'.id = ins.id /\ ins'.app = ins.app
      /\ ins'.tools = ins.tools /\ ins'.host = ins.host /\ ins'.db = ins.db
      /\ ins' = [ins EXCEPT !.state = "RESTORED"]
  BY <1>4, InsFields DEF DecideNothing, Ins, InsRecords
<1>7. Apart /\ InsSaved /\ ChildAlone
  BY DEF DInv, Core
<1>8. ~HasJournal /\ ~HasJournal' /\ ~Restoring /\ ~Restoring' /\ Sound /\ Sound' /\ InstallMarker'
  BY <1>1, <1>4, <1>5, <1>6, <1>7 DEF Apart, InsSaved, ChildAlone, Restoring, InstallMarker, HasJournal,
     media, RestorableStates, Sound, Usable
<1>9. Apart'
  BY <1>1, <1>4, <1>5, <1>6, <1>7, <1>8 DEF Apart, Restoring, InstallMarker, RestorableStates, media
<1>10. InsSaved'
  BY <1>1, <1>4, <1>5, <1>6, <1>7, <1>8, Numbers DEF InsSaved, Restoring, RestorableStates, Usable, media
<1>11. ChildAlone'
  BY <1>1, <1>4, <1>5, <1>6, <1>7, <1>8 DEF ChildAlone, Restoring, RestorableStates
<1>12. /\ InsPlace("x-publish")' /\ RecoverPlace("x-publish")'
       /\ (child' = "running" => "x-publish" \in {"i-apt-wait", "x-look"})
  BY <1>1, <1>4, <1>5, <1>6, <1>7, <1>8 DEF InsPlace, RecoverPlace, InsSaved, Restoring, RestorableStates,
     InstallMarker
<1>13. Typed'
  <2>1. ins' \in InsRecords /\ ins'.id <= made
    BY <1>4, <1>5, <1>6, <1>7, <1>8, InsFields, Numbers DEF InsRecords, InstallStates, InsSaved, Restoring,
       RestorableStates, Mixed
  <2>2. proc' \in Procs
    BY <1>1, Standing, GoPlace
  <2> QED BY <1>5, <2>1, <2>2 DEF DInv, Typed, DataTyped, UnitsTyped, DecideNothing, units, database, media
<1> QED BY <1>1, <1>2, <1>4, <1>5, <1>8, <1>9, <1>10, <1>11, <1>12, <1>13, InstallArrive

LEMMA DecideStep ==
    ASSUME DInv, UNCHANGED media, Decide PROVE DInv'
<1> USE DEF ObservingAt, AfterHost, Switched, Untouched, PreparedAt, RestoringAt, KeepingAt, InstallAt,
            BegunAt, ApplyAt, StageAt, TryAt, CommitAt, ForwardAt, BackAt, EndAt, MediaAt, Working
<1>1. At("x-decide")
  BY DEF Decide
<1>2. PlaceOK("x-decide", proc.keep)
  BY <1>1, Standing
<1>3. CASE DecideBack
  BY <1>3, DecideBackStep
<1>4. CASE DecideNothing
  BY <1>4, DecideNothingStep
<1>5. CASE ins.active /\ ins.state = "HEALTHY" /\ Go("x-stop-keep") /\ UNCHANGED ins
  <2>1. Still /\ UnitsTyped'
    BY <1>5 DEF Decide, Still, units, database, DInv, Typed, UnitsTyped
  <2>2. PlaceOK("x-stop-keep", proc.keep)
    BY <1>2, <1>5 DEF PlaceOK, InsPlace, RecoverPlace, UpdatePlace, BegunPlace, BuildPlace, BackPlace
  <2> QED BY <1>1, <1>5, <2>1, <2>2, MoveOn
<1>6. CASE ins.state \in {"RESTORED", "COMMITTED"} /\ Go("x-publish") /\ UNCHANGED ins
  <2>1. Still /\ UnitsTyped'
    BY <1>6 DEF Decide, Still, units, database, DInv, Typed, UnitsTyped
  <2>2. InstallMarker /\ ~HasJournal
    BY <1>2 DEF PlaceOK, RecoverPlace, DInv, Core, Apart
  <2>3. PlaceOK("x-publish", proc.keep)
    BY <1>2, <1>6, <2>2 DEF PlaceOK, InsPlace, RecoverPlace, UpdatePlace, BegunPlace, BuildPlace, BackPlace
  <2> QED BY <1>1, <1>6, <2>1, <2>3, MoveOn
<1> QED BY <1>3, <1>4, <1>5, <1>6 DEF Decide, DecideBack, DecideNothing

LEMMA RestoreDatabaseStep ==
    ASSUME DInv, UNCHANGED media, RestoreDatabase PROVE DInv'
<1> USE DEF ObservingAt, AfterHost, Switched, Untouched, PreparedAt, RestoringAt, KeepingAt, InstallAt,
            BegunAt, ApplyAt, StageAt, TryAt, CommitAt, ForwardAt, BackAt, EndAt, MediaAt, Working
<1>1. At("x-database") /\ Go("x-host")
  BY DEF RestoreDatabase
<1>2. PICK k : k = proc.keep
  OBVIOUS
<1>3. PlaceOK("x-database", k)
  BY <1>1, <1>2, Standing
<1>4. ins.active /\ ins.state = "RESTORING" /\ child = "no"
  BY <1>1, <1>3 DEF PlaceOK, InsPlace, RecoverPlace
<1>5. /\ app' = app /\ tools' = tools /\ host' = host /\ pkgs' = pkgs /\ child' = child /\ made' = made
      /\ validated' = validated /\ ins' = ins /\ native' = native /\ lane' = lane
  BY DEF RestoreDatabase, units, database, runtime, packages, history
<1>6. schema' = ins.db.schema /\ work' = ins.db.work /\ job' = ins.db.job
  BY <1>4, InsFields DEF RestoreDatabase, Ins, InsRecords
<1>7. Apart /\ InsSaved /\ ChildAlone
  BY DEF DInv, Core
<1>8. /\ ~HasJournal /\ ~HasJournal' /\ Restoring /\ Restoring' /\ schema' = ins.app /\ work' = work
      /\ ins.db \in Snapshots
  BY <1>1, <1>4, <1>5, <1>6, <1>7 DEF Apart, InsSaved, ChildAlone, Restoring, InstallMarker, HasJournal,
     media, RestorableStates, Sound, Usable
<1>9. Apart'
  BY <1>1, <1>4, <1>5, <1>6, <1>7, <1>8 DEF Apart, Restoring, InstallMarker, RestorableStates, media
<1>10. InsSaved'
  BY <1>1, <1>4, <1>5, <1>6, <1>7, <1>8, Numbers DEF InsSaved, Restoring, RestorableStates, Usable, media
<1>11. ChildAlone'
  BY <1>1, <1>4, <1>5, <1>6, <1>7, <1>8 DEF ChildAlone, Restoring, RestorableStates
<1>12. /\ InsPlace("x-host")' /\ RecoverPlace("x-host")'
       /\ (child' = "running" => "x-host" \in {"i-apt-wait", "x-look"})
  BY <1>1, <1>4, <1>5, <1>6, <1>7, <1>8 DEF InsPlace, RecoverPlace, InsSaved, Restoring, RestorableStates,
     InstallMarker
<1>13. Typed'
  <2>1. schema' \in Nat /\ work' \in Nat /\ job' \in Jobs
    BY <1>4, <1>5, <1>6, <1>7, <1>8, InsFields, Numbers DEF InsRecords, InstallStates, InsSaved, Restoring,
       RestorableStates, Mixed, Snapshots
  <2>2. proc' \in Procs
    BY <1>1, Standing, GoPlace
  <2> QED BY <1>5, <2>1, <2>2 DEF DInv, Typed, DataTyped, UnitsTyped, RestoreDatabase, units, database, media
<1> QED BY <1>1, <1>2, <1>4, <1>5, <1>8, <1>9, <1>10, <1>11, <1>12, <1>13, InstallArrive

LEMMA RestoreHostStep ==
    ASSUME DInv, UNCHANGED media, RestoreHost PROVE DInv'
<1> USE DEF ObservingAt, AfterHost, Switched, Untouched, PreparedAt, RestoringAt, KeepingAt, InstallAt,
            BegunAt, ApplyAt, StageAt, TryAt, CommitAt, ForwardAt, BackAt, EndAt, MediaAt, Working
<1>1. At("x-host") /\ Go("x-app")
  BY DEF RestoreHost
<1>2. PICK k : k = proc.keep
  OBVIOUS
<1>3. PlaceOK("x-host", k)
  BY <1>1, <1>2, Standing
<1>4. ins.active /\ ins.state = "RESTORING" /\ child = "no" /\ schema = ins.app
  BY <1>1, <1>3 DEF PlaceOK, InsPlace, RecoverPlace
<1>5. /\ schema' = schema /\ app' = app /\ tools' = tools /\ pkgs' = pkgs /\ child' = child /\ made' = made
      /\ validated' = validated /\ ins' = ins /\ work' = work /\ native' = native /\ lane' = lane
  BY DEF RestoreHost, units, database, runtime, packages, history
<1>6. host' = ins.host
  BY <1>4, InsFields DEF RestoreHost, Ins, InsRecords
<1>7. Apart /\ InsSaved /\ ChildAlone
  BY DEF DInv, Core
<1>8. ~HasJournal /\ ~HasJournal' /\ Restoring /\ Restoring'
  BY <1>1, <1>4, <1>5, <1>6, <1>7 DEF Apart, InsSaved, ChildAlone, Restoring, InstallMarker, HasJournal,
     media, RestorableStates, Sound, Usable
<1>9. Apart'
  BY <1>1, <1>4, <1>5, <1>6, <1>7, <1>8 DEF Apart, Restoring, InstallMarker, RestorableStates, media
<1>10. InsSaved'
  BY <1>1, <1>4, <1>5, <1>6, <1>7, <1>8, Numbers DEF InsSaved, Restoring, RestorableStates, Usable, media
<1>11. ChildAlone'
  BY <1>1, <1>4, <1>5, <1>6, <1>7, <1>8 DEF ChildAlone, Restoring, RestorableStates
<1>12. /\ InsPlace("x-app")' /\ RecoverPlace("x-app")'
       /\ (child' = "running" => "x-app" \in {"i-apt-wait", "x-look"})
  BY <1>1, <1>4, <1>5, <1>6, <1>7, <1>8 DEF InsPlace, RecoverPlace, InsSaved, Restoring, RestorableStates,
     InstallMarker
<1>13. Typed'
  <2>1. host' \in Int
    BY <1>4, <1>5, <1>6, <1>7, <1>8, InsFields, Numbers DEF InsRecords, InstallStates, InsSaved, Restoring,
       RestorableStates, Mixed
  <2>2. proc' \in Procs
    BY <1>1, Standing, GoPlace
  <2> QED BY <1>5, <2>1, <2>2 DEF DInv, Typed, DataTyped, UnitsTyped, RestoreHost, units, database, media
<1> QED BY <1>1, <1>2, <1>4, <1>5, <1>8, <1>9, <1>10, <1>11, <1>12, <1>13, InstallArrive

LEMMA RestoreAppStep ==
    ASSUME DInv, UNCHANGED media, RestoreApp PROVE DInv'
<1> USE DEF ObservingAt, AfterHost, Switched, Untouched, PreparedAt, RestoringAt, KeepingAt, InstallAt,
            BegunAt, ApplyAt, StageAt, TryAt, CommitAt, ForwardAt, BackAt, EndAt, MediaAt, Working
<1>1. At("x-app") /\ Go("x-tools")
  BY DEF RestoreApp
<1>2. PICK k : k = proc.keep
  OBVIOUS
<1>3. PlaceOK("x-app", k)
  BY <1>1, <1>2, Standing
<1>4. ins.active /\ ins.state = "RESTORING" /\ child = "no" /\ schema = ins.app /\ host = ins.host
  BY <1>1, <1>3 DEF PlaceOK, InsPlace, RecoverPlace
<1>5. /\ schema' = schema /\ tools' = tools /\ host' = host /\ pkgs' = pkgs /\ child' = child /\ made' = made
      /\ validated' = validated /\ ins' = ins /\ work' = work /\ native' = native /\ lane' = lane
  BY DEF RestoreApp, units, database, runtime, packages, history
<1>6. app' = ins.app
  BY <1>4, InsFields DEF RestoreApp, Ins, InsRecords
<1>7. Apart /\ InsSaved /\ ChildAlone
  BY DEF DInv, Core
<1>8. ~HasJournal /\ ~HasJournal' /\ Restoring /\ Restoring'
  BY <1>1, <1>4, <1>5, <1>6, <1>7 DEF Apart, InsSaved, ChildAlone, Restoring, InstallMarker, HasJournal,
     media, RestorableStates, Sound, Usable
<1>9. Apart'
  BY <1>1, <1>4, <1>5, <1>6, <1>7, <1>8 DEF Apart, Restoring, InstallMarker, RestorableStates, media
<1>10. InsSaved'
  BY <1>1, <1>4, <1>5, <1>6, <1>7, <1>8, Numbers DEF InsSaved, Restoring, RestorableStates, Usable, media
<1>11. ChildAlone'
  BY <1>1, <1>4, <1>5, <1>6, <1>7, <1>8 DEF ChildAlone, Restoring, RestorableStates
<1>12. /\ InsPlace("x-tools")' /\ RecoverPlace("x-tools")'
       /\ (child' = "running" => "x-tools" \in {"i-apt-wait", "x-look"})
  BY <1>1, <1>4, <1>5, <1>6, <1>7, <1>8 DEF InsPlace, RecoverPlace, InsSaved, Restoring, RestorableStates,
     InstallMarker
<1>13. Typed'
  <2>1. app' \in 0..made
    BY <1>4, <1>5, <1>6, <1>7, <1>8, InsFields, Numbers DEF InsRecords, InstallStates, InsSaved, Restoring,
       RestorableStates, Mixed
  <2>2. proc' \in Procs
    BY <1>1, Standing, GoPlace
  <2> QED BY <1>5, <2>1, <2>2 DEF DInv, Typed, DataTyped, UnitsTyped, RestoreApp, units, database, media
<1> QED BY <1>1, <1>2, <1>4, <1>5, <1>8, <1>9, <1>10, <1>11, <1>12, <1>13, InstallArrive

LEMMA RestoreToolsStep ==
    ASSUME DInv, UNCHANGED media, RestoreTools PROVE DInv'
<1> USE DEF ObservingAt, AfterHost, Switched, Untouched, PreparedAt, RestoringAt, KeepingAt, InstallAt,
            BegunAt, ApplyAt, StageAt, TryAt, CommitAt, ForwardAt, BackAt, EndAt, MediaAt, Working
<1>1. At("x-tools") /\ Go("x-enable")
  BY DEF RestoreTools
<1>2. PICK k : k = proc.keep
  OBVIOUS
<1>3. PlaceOK("x-tools", k)
  BY <1>1, <1>2, Standing
<1>4. /\ ins.active /\ ins.state = "RESTORING" /\ child = "no" /\ schema = ins.app /\ host = ins.host
      /\ app = ins.app
  BY <1>1, <1>3 DEF PlaceOK, InsPlace, RecoverPlace
<1>5. /\ schema' = schema /\ app' = app /\ host' = host /\ pkgs' = pkgs /\ child' = child /\ made' = made
      /\ validated' = validated /\ ins' = ins /\ work' = work /\ native' = native /\ lane' = lane
  BY DEF RestoreTools, units, database, runtime, packages, history
<1>6. tools' = ins.tools
  BY <1>4, InsFields DEF RestoreTools, Ins, InsRecords
<1>7. Apart /\ InsSaved /\ ChildAlone
  BY DEF DInv, Core
<1>8. ~HasJournal /\ ~HasJournal' /\ Restoring /\ Restoring'
  BY <1>1, <1>4, <1>5, <1>6, <1>7 DEF Apart, InsSaved, ChildAlone, Restoring, InstallMarker, HasJournal,
     media, RestorableStates, Sound, Usable
<1>9. Apart'
  BY <1>1, <1>4, <1>5, <1>6, <1>7, <1>8 DEF Apart, Restoring, InstallMarker, RestorableStates, media
<1>10. InsSaved'
  BY <1>1, <1>4, <1>5, <1>6, <1>7, <1>8, Numbers DEF InsSaved, Restoring, RestorableStates, Usable, media
<1>11. ChildAlone'
  BY <1>1, <1>4, <1>5, <1>6, <1>7, <1>8 DEF ChildAlone, Restoring, RestorableStates
<1>12. /\ InsPlace("x-enable")' /\ RecoverPlace("x-enable")'
       /\ (child' = "running" => "x-enable" \in {"i-apt-wait", "x-look"})
  BY <1>1, <1>4, <1>5, <1>6, <1>7, <1>8 DEF InsPlace, RecoverPlace, InsSaved, Restoring, RestorableStates,
     InstallMarker
<1>13. Typed'
  <2>1. tools' \in 0..made
    BY <1>4, <1>5, <1>6, <1>7, <1>8, InsFields, Numbers DEF InsRecords, InstallStates, InsSaved, Restoring,
       RestorableStates, Mixed
  <2>2. proc' \in Procs
    BY <1>1, Standing, GoPlace
  <2> QED BY <1>5, <2>1, <2>2 DEF DInv, Typed, DataTyped, UnitsTyped, RestoreTools, units, database, media
<1> QED BY <1>1, <1>2, <1>4, <1>5, <1>8, <1>9, <1>10, <1>11, <1>12, <1>13, InstallArrive

LEMMA RestoredStep ==
    ASSUME DInv, UNCHANGED media, Restored PROVE DInv'
<1> USE DEF ObservingAt, AfterHost, Switched, Untouched, PreparedAt, RestoringAt, KeepingAt, InstallAt,
            BegunAt, ApplyAt, StageAt, TryAt, CommitAt, ForwardAt, BackAt, EndAt, MediaAt, Working
<1>1. At("x-restored") /\ Go("x-publish")
  BY DEF Restored
<1>2. PICK k : k = proc.keep
  OBVIOUS
<1>3. PlaceOK("x-restored", k)
  BY <1>1, <1>2, Standing
<1>4. /\ ins.active /\ ins.state = "RESTORING" /\ child = "no" /\ schema = ins.app /\ host = ins.host
      /\ app = ins.app /\ tools = ins.tools
  BY <1>1, <1>3 DEF PlaceOK, InsPlace, RecoverPlace
<1>5. /\ schema' = schema /\ app' = app /\ tools' = tools /\ host' = host /\ pkgs' = pkgs /\ child' = child
      /\ made' = made /\ validated' = validated /\ work' = work /\ native' = native /\ lane' = lane
  BY DEF Restored, units, database, runtime, packages, history
<1>6. /\ ins'.state = "RESTORED"
      /\ ins'.active = ins.active /\ ins'.pending = ins.pending /\ ins'.id = ins.id /\ ins'.app = ins.app
      /\ ins'.tools = ins.tools /\ ins'.host = ins.host /\ ins'.db = ins.db
      /\ ins' = [ins EXCEPT !.state = "RESTORED"]
  BY <1>4, InsFields DEF Restored, Ins, InsRecords
<1>7. Apart /\ InsSaved /\ ChildAlone
  BY DEF DInv, Core
<1>8. ~HasJournal /\ ~HasJournal' /\ Restoring /\ ~Restoring' /\ Sound' /\ InstallMarker'
  BY <1>1, <1>4, <1>5, <1>6, <1>7 DEF Apart, InsSaved, ChildAlone, Restoring, InstallMarker, HasJournal,
     media, RestorableStates, Sound, Usable
<1>9. Apart'
  BY <1>1, <1>4, <1>5, <1>6, <1>7, <1>8 DEF Apart, Restoring, InstallMarker, RestorableStates, media
<1>10. InsSaved'
  BY <1>1, <1>4, <1>5, <1>6, <1>7, <1>8, Numbers DEF InsSaved, Restoring, RestorableStates, Usable, media
<1>11. ChildAlone'
  BY <1>1, <1>4, <1>5, <1>6, <1>7, <1>8 DEF ChildAlone, Restoring, RestorableStates
<1>12. /\ InsPlace("x-publish")' /\ RecoverPlace("x-publish")'
       /\ (child' = "running" => "x-publish" \in {"i-apt-wait", "x-look"})
  BY <1>1, <1>4, <1>5, <1>6, <1>7, <1>8 DEF InsPlace, RecoverPlace, InsSaved, Restoring, RestorableStates,
     InstallMarker
<1>13. Typed'
  <2>1. ins' \in InsRecords /\ ins'.id <= made
    BY <1>4, <1>5, <1>6, <1>7, <1>8, InsFields, Numbers DEF InsRecords, InstallStates, InsSaved, Restoring,
       RestorableStates, Mixed
  <2>2. proc' \in Procs
    BY <1>1, Standing, GoPlace
  <2> QED BY <1>5, <2>1, <2>2 DEF DInv, Typed, DataTyped, UnitsTyped, Restored, units, database, media
<1> QED BY <1>1, <1>2, <1>4, <1>5, <1>8, <1>9, <1>10, <1>11, <1>12, <1>13, InstallArrive

LEMMA InstallCommitsStep ==
    ASSUME DInv, UNCHANGED media, InstallCommits PROVE DInv'
<1> USE DEF ObservingAt, AfterHost, Switched, Untouched, PreparedAt, RestoringAt, KeepingAt, InstallAt,
            BegunAt, ApplyAt, StageAt, TryAt, CommitAt, ForwardAt, BackAt, EndAt, MediaAt, Working
<1>1. At("x-commit") /\ Go("x-publish")
  BY DEF InstallCommits
<1>2. PICK k : k = proc.keep
  OBVIOUS
<1>3. PlaceOK("x-commit", k)
  BY <1>1, <1>2, Standing
<1>4. ins.active /\ ins.state = "HEALTHY"
  BY <1>1, <1>3 DEF PlaceOK, InsPlace, RecoverPlace
<1>5. /\ schema' = schema /\ app' = app /\ tools' = tools /\ host' = host /\ pkgs' = pkgs /\ child' = child
      /\ made' = made /\ validated' = validated /\ work' = work /\ native' = native /\ lane' = lane
  BY DEF InstallCommits, units, database, runtime, packages, history
<1>6. /\ ins'.state = "COMMITTED"
      /\ ins'.active = ins.active /\ ins'.pending = ins.pending /\ ins'.id = ins.id /\ ins'.app = ins.app
      /\ ins'.tools = ins.tools /\ ins'.host = ins.host /\ ins'.db = ins.db
      /\ ins' = [ins EXCEPT !.state = "COMMITTED"]
  BY <1>4, InsFields DEF InstallCommits, Ins, InsRecords
<1>7. Apart /\ InsSaved /\ ChildAlone
  BY DEF DInv, Core
<1>8. ~HasJournal /\ ~HasJournal' /\ ~Restoring /\ child = "no" /\ ~Restoring' /\ Sound' /\ InstallMarker'
  BY <1>1, <1>4, <1>5, <1>6, <1>7 DEF Apart, InsSaved, ChildAlone, Restoring, InstallMarker, HasJournal,
     media, RestorableStates, Sound, Usable
<1>9. Apart'
  BY <1>1, <1>4, <1>5, <1>6, <1>7, <1>8 DEF Apart, Restoring, InstallMarker, RestorableStates, media
<1>10. InsSaved'
  BY <1>1, <1>4, <1>5, <1>6, <1>7, <1>8, Numbers DEF InsSaved, Restoring, RestorableStates, Usable, media
<1>11. ChildAlone'
  BY <1>1, <1>4, <1>5, <1>6, <1>7, <1>8 DEF ChildAlone, Restoring, RestorableStates
<1>12. /\ InsPlace("x-publish")' /\ RecoverPlace("x-publish")'
       /\ (child' = "running" => "x-publish" \in {"i-apt-wait", "x-look"})
  BY <1>1, <1>4, <1>5, <1>6, <1>7, <1>8 DEF InsPlace, RecoverPlace, InsSaved, Restoring, RestorableStates,
     InstallMarker
<1>13. Typed'
  <2>1. ins' \in InsRecords /\ ins'.id <= made
    BY <1>4, <1>5, <1>6, <1>7, <1>8, InsFields, Numbers DEF InsRecords, InstallStates, InsSaved, Restoring,
       RestorableStates, Mixed
  <2>2. proc' \in Procs
    BY <1>1, Standing, GoPlace
  <2> QED BY <1>5, <2>1, <2>2 DEF DInv, Typed, DataTyped, UnitsTyped, InstallCommits, units, database, media
<1> QED BY <1>1, <1>2, <1>4, <1>5, <1>8, <1>9, <1>10, <1>11, <1>12, <1>13, InstallArrive

LEMMA PublishPendingStep ==
    ASSUME DInv, UNCHANGED media, PublishPending PROVE DInv'
<1> USE DEF ObservingAt, AfterHost, Switched, Untouched, PreparedAt, RestoringAt, KeepingAt, InstallAt,
            BegunAt, ApplyAt, StageAt, TryAt, CommitAt, ForwardAt, BackAt, EndAt, MediaAt, Working
<1>1. At("x-publish") /\ Go("x-clear")
  BY DEF PublishPending
<1>2. PICK k : k = proc.keep
  OBVIOUS
<1>3. PlaceOK("x-publish", k)
  BY <1>1, <1>2, Standing
<1>4. ins.state \in {"RESTORED", "COMMITTED"} /\ ~HasJournal
  BY <1>1, <1>3 DEF PlaceOK, InsPlace, RecoverPlace
<1>5. /\ schema' = schema /\ app' = app /\ tools' = tools /\ host' = host /\ pkgs' = pkgs /\ child' = child
      /\ made' = made /\ validated' = validated /\ work' = work /\ native' = native /\ lane' = lane
  BY DEF PublishPending, units, database, runtime, packages, history
<1>6. /\ ins'.pending = TRUE
      /\ ins'.state = ins.state /\ ins'.active = ins.active /\ ins'.id = ins.id /\ ins'.app = ins.app
      /\ ins'.tools = ins.tools /\ ins'.host = ins.host /\ ins'.db = ins.db
      /\ ins' = [ins EXCEPT !.pending = TRUE]
  BY <1>4, InsFields DEF PublishPending, Ins, InsRecords
<1>7. Apart /\ InsSaved /\ ChildAlone
  BY DEF DInv, Core
<1>8. ~HasJournal /\ ~HasJournal' /\ ~Restoring /\ child = "no" /\ ~Restoring' /\ Sound'
  BY <1>1, <1>4, <1>5, <1>6, <1>7 DEF Apart, InsSaved, ChildAlone, Restoring, InstallMarker, HasJournal,
     media, RestorableStates, Sound, Usable
<1>9. Apart'
  BY <1>1, <1>4, <1>5, <1>6, <1>7, <1>8 DEF Apart, Restoring, InstallMarker, RestorableStates, media
<1>10. InsSaved'
  BY <1>1, <1>4, <1>5, <1>6, <1>7, <1>8, Numbers DEF InsSaved, Restoring, RestorableStates, Usable, media
<1>11. ChildAlone'
  BY <1>1, <1>4, <1>5, <1>6, <1>7, <1>8 DEF ChildAlone, Restoring, RestorableStates
<1>12. /\ InsPlace("x-clear")' /\ RecoverPlace("x-clear")'
       /\ (child' = "running" => "x-clear" \in {"i-apt-wait", "x-look"})
  BY <1>1, <1>4, <1>5, <1>6, <1>7, <1>8 DEF InsPlace, RecoverPlace, InsSaved, Restoring, RestorableStates,
     InstallMarker
<1>13. Typed'
  <2>1. ins' \in InsRecords /\ ins'.id <= made
    BY <1>4, <1>5, <1>6, <1>7, <1>8, InsFields, Numbers DEF InsRecords, InstallStates, InsSaved, Restoring,
       RestorableStates, Mixed
  <2>2. proc' \in Procs
    BY <1>1, Standing, GoPlace
  <2> QED BY <1>5, <2>1, <2>2 DEF DInv, Typed, DataTyped, UnitsTyped, PublishPending, units, database, media
<1> QED BY <1>1, <1>2, <1>4, <1>5, <1>8, <1>9, <1>10, <1>11, <1>12, <1>13, InstallArrive

LEMMA ClearActiveStep ==
    ASSUME DInv, UNCHANGED media, ClearActive PROVE DInv'
<1> USE DEF ObservingAt, AfterHost, Switched, Untouched, PreparedAt, RestoringAt, KeepingAt, InstallAt,
            BegunAt, ApplyAt, StageAt, TryAt, CommitAt, ForwardAt, BackAt, EndAt, MediaAt, Working
<1>1. At("x-clear") /\ Go("x-units")
  BY DEF ClearActive
<1>2. PICK k : k = proc.keep
  OBVIOUS
<1>3. PlaceOK("x-clear", k)
  BY <1>1, <1>2, Standing
<1>4. ins.state \in {"RESTORED", "COMMITTED"} /\ ~HasJournal /\ ins.pending
  BY <1>1, <1>3 DEF PlaceOK, InsPlace, RecoverPlace
<1>5. /\ schema' = schema /\ app' = app /\ tools' = tools /\ host' = host /\ pkgs' = pkgs /\ child' = child
      /\ made' = made /\ validated' = validated /\ work' = work /\ native' = native /\ lane' = lane
  BY DEF ClearActive, units, database, runtime, packages, history
<1>6. /\ ins'.active = FALSE
      /\ ins'.state = ins.state /\ ins'.pending = ins.pending /\ ins'.id = ins.id /\ ins'.app = ins.app
      /\ ins'.tools = ins.tools /\ ins'.host = ins.host /\ ins'.db = ins.db
      /\ ins' = [ins EXCEPT !.active = FALSE]
  BY <1>4, InsFields DEF ClearActive, Ins, InsRecords
<1>7. Apart /\ InsSaved /\ ChildAlone
  BY DEF DInv, Core
<1>8. ~HasJournal /\ ~HasJournal' /\ ~Restoring /\ child = "no" /\ ~Restoring' /\ Sound'
  BY <1>1, <1>4, <1>5, <1>6, <1>7 DEF Apart, InsSaved, ChildAlone, Restoring, InstallMarker, HasJournal,
     media, RestorableStates, Sound, Usable
<1>9. Apart'
  BY <1>1, <1>4, <1>5, <1>6, <1>7, <1>8 DEF Apart, Restoring, InstallMarker, RestorableStates, media
<1>10. InsSaved'
  BY <1>1, <1>4, <1>5, <1>6, <1>7, <1>8, Numbers DEF InsSaved, Restoring, RestorableStates, Usable, media
<1>11. ChildAlone'
  BY <1>1, <1>4, <1>5, <1>6, <1>7, <1>8 DEF ChildAlone, Restoring, RestorableStates
<1>12. /\ InsPlace("x-units")' /\ RecoverPlace("x-units")'
       /\ (child' = "running" => "x-units" \in {"i-apt-wait", "x-look"})
  BY <1>1, <1>4, <1>5, <1>6, <1>7, <1>8 DEF InsPlace, RecoverPlace, InsSaved, Restoring, RestorableStates,
     InstallMarker
<1>13. Typed'
  <2>1. ins' \in InsRecords /\ ins'.id <= made
    BY <1>4, <1>5, <1>6, <1>7, <1>8, InsFields, Numbers DEF InsRecords, InstallStates, InsSaved, Restoring,
       RestorableStates, Mixed
  <2>2. proc' \in Procs
    BY <1>1, Standing, GoPlace
  <2> QED BY <1>5, <2>1, <2>2 DEF DInv, Typed, DataTyped, UnitsTyped, ClearActive, units, database, media
<1> QED BY <1>1, <1>2, <1>4, <1>5, <1>8, <1>9, <1>10, <1>11, <1>12, <1>13, InstallArrive

LEMMA ClearPendingStep ==
    ASSUME DInv, UNCHANGED media, ClearPending PROVE DInv'
<1> USE DEF ObservingAt, AfterHost, Switched, Untouched, PreparedAt, RestoringAt, KeepingAt, InstallAt,
            BegunAt, ApplyAt, StageAt, TryAt, CommitAt, ForwardAt, BackAt, EndAt, MediaAt, Working
<1>1. At("x-done") /\ Go("x-end")
  BY DEF ClearPending
<1>2. PICK k : k = proc.keep
  OBVIOUS
<1>3. PlaceOK("x-done", k)
  BY <1>1, <1>2, Standing
<1>4. ins.state \in {"RESTORED", "COMMITTED"} /\ ~HasJournal /\ ~ins.active
  BY <1>1, <1>3 DEF PlaceOK, InsPlace, RecoverPlace
<1>5. /\ schema' = schema /\ app' = app /\ tools' = tools /\ host' = host /\ pkgs' = pkgs /\ child' = child
      /\ made' = made /\ validated' = validated /\ work' = work /\ native' = native /\ lane' = lane
  BY DEF ClearPending, units, database, runtime, packages, history
<1>6. /\ ins'.pending = FALSE
      /\ ins'.state = ins.state /\ ins'.active = ins.active /\ ins'.id = ins.id /\ ins'.app = ins.app
      /\ ins'.tools = ins.tools /\ ins'.host = ins.host /\ ins'.db = ins.db
      /\ ins' = [ins EXCEPT !.pending = FALSE]
  BY <1>4, InsFields DEF ClearPending, Ins, InsRecords
<1>7. Apart /\ InsSaved /\ ChildAlone
  BY DEF DInv, Core
<1>8. ~HasJournal /\ ~HasJournal' /\ ~Restoring /\ child = "no" /\ ~Restoring' /\ Sound' /\ ~InstallMarker'
  BY <1>1, <1>4, <1>5, <1>6, <1>7 DEF Apart, InsSaved, ChildAlone, Restoring, InstallMarker, HasJournal,
     media, RestorableStates, Sound, Usable
<1>9. Apart'
  BY <1>1, <1>4, <1>5, <1>6, <1>7, <1>8 DEF Apart, Restoring, InstallMarker, RestorableStates, media
<1>10. InsSaved'
  BY <1>1, <1>4, <1>5, <1>6, <1>7, <1>8, Numbers DEF InsSaved, Restoring, RestorableStates, Usable, media
<1>11. ChildAlone'
  BY <1>1, <1>4, <1>5, <1>6, <1>7, <1>8 DEF ChildAlone, Restoring, RestorableStates
<1>12. /\ InsPlace("x-end")' /\ RecoverPlace("x-end")'
       /\ (child' = "running" => "x-end" \in {"i-apt-wait", "x-look"})
  BY <1>1, <1>4, <1>5, <1>6, <1>7, <1>8 DEF InsPlace, RecoverPlace, InsSaved, Restoring, RestorableStates,
     InstallMarker
<1>13. Typed'
  <2>1. ins' \in InsRecords /\ ins'.id <= made
    BY <1>4, <1>5, <1>6, <1>7, <1>8, InsFields, Numbers DEF InsRecords, InstallStates, InsSaved, Restoring,
       RestorableStates, Mixed
  <2>2. proc' \in Procs
    BY <1>1, Standing, GoPlace
  <2> QED BY <1>5, <2>1, <2>2 DEF DInv, Typed, DataTyped, UnitsTyped, ClearPending, units, database, media
<1> QED BY <1>1, <1>2, <1>4, <1>5, <1>8, <1>9, <1>10, <1>11, <1>12, <1>13, InstallArrive

LEMMA RestoreFailsStep ==
    ASSUME DInv, UNCHANGED media, RestoreFails PROVE DInv'
<1> USE DEF ObservingAt, AfterHost, Switched, Untouched, PreparedAt, RestoringAt, KeepingAt, InstallAt,
            BegunAt, ApplyAt, StageAt, TryAt, CommitAt, ForwardAt, BackAt, EndAt, MediaAt, Working
<1>1. proc.who # "none" /\ proc.at \in {"x-stop-back", "x-database", "x-host", "x-app", "x-tools", "x-enable"}
      /\ proc' = Nobody
  BY DEF RestoreFails, End, DInv, Aims
<1>2. PlaceOK(proc.at, proc.keep)
  BY <1>1 DEF DInv, Places
<1>3. ins.active /\ ins.state = "RESTORING" /\ child = "no"
  BY <1>1, <1>2 DEF PlaceOK, RecoverPlace
<1>4. /\ schema' = schema /\ app' = app /\ tools' = tools /\ host' = host /\ pkgs' = pkgs /\ child' = child
      /\ made' = made /\ validated' = validated /\ work' = work /\ native' = native /\ lane' = lane
  BY DEF RestoreFails, database, runtime, packages, history
<1>5. /\ ins'.state = "RECOVERY_REQUIRED"
      /\ ins'.active = ins.active /\ ins'.pending = ins.pending /\ ins'.id = ins.id /\ ins'.app = ins.app
      /\ ins'.tools = ins.tools /\ ins'.host = ins.host /\ ins'.db = ins.db
      /\ ins' = [ins EXCEPT !.state = "RECOVERY_REQUIRED"]
  BY InsFields DEF RestoreFails, Ins, InsRecords
<1>6. Apart /\ InsSaved /\ ChildAlone
  BY DEF DInv, Core
<1>7. Restoring /\ Restoring' /\ ~HasJournal /\ ~HasJournal'
  BY <1>3, <1>5, <1>6 DEF Apart, Restoring, InstallMarker, HasJournal, media, RestorableStates
<1>8. Apart'
  BY <1>3, <1>4, <1>5, <1>6, <1>7 DEF Apart, media
<1>9. InsSaved' /\ ChildAlone'
  BY <1>3, <1>4, <1>5, <1>6, <1>7 DEF InsSaved, ChildAlone, Usable, media
<1>10. MediaSaved' /\ PackagesTrue'
  BY <1>7 DEF MediaSaved, PackagesTrue
<1>11. proc' \in Procs /\ proc'.who = "none" /\ proc'.at = "end"
  BY <1>1 DEF Nobody, Procs, Nexts, Scripts
<1>12. ins' \in InsRecords /\ ins'.id <= made
  BY <1>5, InsFields DEF InsRecords, InstallStates
<1>13. Typed'
  BY <1>4, <1>11, <1>12 DEF DInv, Typed, DataTyped, UnitsTyped, RestoreFails, database, media
<1> QED BY <1>8, <1>9, <1>10, <1>11, <1>13 DEF DInv, Core, Aims, Places

LEMMA InstallHealthyStep ==
    ASSUME DInv, UNCHANGED media, InstallHealthy PROVE DInv'
<1> USE DEF ObservingAt, AfterHost, Switched, Untouched, PreparedAt, RestoringAt, KeepingAt, InstallAt,
            BegunAt, ApplyAt, StageAt, TryAt, CommitAt, ForwardAt, BackAt, EndAt, MediaAt, Working
<1>1. At("i-healthy") /\ proc' = [proc EXCEPT !.at = "x-look", !.next = "exit"]
  BY DEF InstallHealthy, Recover
<1>2. PlaceOK("i-healthy", proc.keep) /\ proc \in Procs /\ proc.who # "none"
  BY <1>1, Standing
<1>3. /\ ins.active /\ ins.state = "PREPARED" /\ child = "no"
      /\ app = ins.id /\ tools = ins.id /\ host = ins.id /\ schema = app
  BY <1>2 DEF PlaceOK, InsPlace
<1>4. /\ schema' = schema /\ app' = app /\ tools' = tools /\ host' = host /\ pkgs' = pkgs /\ child' = child
      /\ made' = made /\ work' = work /\ native' = native /\ lane' = lane
  BY DEF InstallHealthy, units, database, runtime, packages
<1>5. /\ ins'.state = "HEALTHY"
      /\ ins'.active = ins.active /\ ins'.pending = ins.pending /\ ins'.id = ins.id /\ ins'.app = ins.app
      /\ ins'.tools = ins.tools /\ ins'.host = ins.host /\ ins'.db = ins.db
      /\ ins' = [ins EXCEPT !.state = "HEALTHY"]
  BY InsFields DEF InstallHealthy, Ins, InsRecords
<1>6. validated' = validated \cup {<<app, tools, pkgs>>}
  BY DEF InstallHealthy
<1>7. Apart /\ InsSaved /\ ChildAlone
  BY DEF DInv, Core
<1>8. ~Restoring' /\ ~HasJournal /\ ~HasJournal' /\ Sound'
  BY <1>3, <1>4, <1>5, <1>6, <1>7 DEF Apart, Restoring, InstallMarker, HasJournal, media, RestorableStates,
     Sound, Usable
<1>9. Apart' /\ InsSaved' /\ ChildAlone'
  BY <1>3, <1>4, <1>5, <1>7, <1>8 DEF Apart, InsSaved, ChildAlone, media
<1>10. MediaSaved' /\ PackagesTrue'
  BY <1>8 DEF MediaSaved, PackagesTrue
<1>11. /\ proc' \in Procs /\ proc'.who # "none" /\ proc'.at = "x-look" /\ proc'.next = "exit"
       /\ proc'.keep = proc.keep
  BY <1>1, <1>2 DEF Procs, Nexts
<1>12. ins' \in InsRecords /\ ins'.id <= made
  BY <1>5, InsFields DEF InsRecords, InstallStates
<1>13. Typed'
  BY <1>4, <1>11, <1>12 DEF DInv, Typed, DataTyped, UnitsTyped, InstallHealthy, units, database, media
<1>14. Stands("x-look")
  BY <1>11 DEF Stands, AimOK
<1>15. PICK k : k = proc.keep
  OBVIOUS
<1>16. PlaceOK("x-look", k)'
  BY DEF PlaceOK, InsPlace, RecoverPlace, UpdatePlace, BegunPlace, BuildPlace, BackPlace
<1> QED BY <1>9, <1>10, <1>11, <1>13, <1>14, <1>15, <1>16, Arrive DEF Core

LEMMA InstallBeginsStep ==
    ASSUME DInv, UNCHANGED media, InstallBegins PROVE DInv'
<1> USE DEF ObservingAt, AfterHost, Switched, Untouched, PreparedAt, RestoringAt, KeepingAt, InstallAt,
            BegunAt, ApplyAt, StageAt, TryAt, CommitAt, ForwardAt, BackAt, EndAt, MediaAt, Working
<1>1. At("i-begin") /\ Go("i-stop-api") /\ made' = made + 1
  BY DEF InstallBegins
<1>2. PICK k : k = proc.keep
  OBVIOUS
<1>3. PlaceOK("i-begin", k) /\ proc.next = "exit" /\ made < MaxReleases
  BY <1>1, <1>2, Standing DEF AimOK
<1>4. ~ins.active /\ ~ins.pending /\ ~HasJournal /\ ~apt.active /\ child # "running"
  BY <1>3 DEF PlaceOK, InsPlace, Published, MediaMarker
<1>5. Sound
  BY <1>4 DEF DInv, Core, Apart, Restoring
<1>6. /\ schema' = schema /\ app' = app /\ tools' = tools /\ host' = host /\ pkgs' = pkgs /\ child' = child
      /\ validated' = validated /\ work' = work /\ native' = native /\ lane' = lane /\ journal' = journal
      /\ apt' = apt /\ dir' = dir
  BY DEF InstallBegins, units, database, runtime, packages, media
<1>7. /\ ins'.state = "OBSERVING" /\ ins'.active = TRUE /\ ins'.id = made + 1
      /\ ins'.app = app /\ ins'.tools = tools /\ ins'.host = host
  BY DEF InstallBegins
<1>8. ins' \in InsRecords
  <2>1. /\ up \in SUBSET Services /\ timers \in BOOLEAN /\ "OBSERVING" \in InstallStates
        /\ made + 1 \in Nat /\ tools \in Nat /\ app \in Nat /\ host \in Int
        /\ enabled \in SUBSET (Services \cup {"timers"}) /\ TRUE \in BOOLEAN /\ FALSE \in BOOLEAN
    BY Numbers DEF DInv, Typed, UnitsTyped, InstallStates
  <2>2. ins' = [state |-> "OBSERVING", active |-> TRUE, pending |-> FALSE, id |-> made + 1,
                app |-> app, tools |-> tools, host |-> host, db |-> Planned,
                up |-> up, enabled |-> enabled, timers |-> timers]
    BY DEF InstallBegins
  <2> QED BY <2>1, <2>2 DEF InsRecords
<1>9. ~HasJournal' /\ ~Restoring' /\ Sound'
  BY <1>4, <1>5, <1>6, <1>7 DEF HasJournal, Restoring, RestorableStates, Sound, Usable
<1>10. Apart' /\ ChildAlone'
  BY <1>4, <1>6, <1>7, <1>9 DEF Apart, ChildAlone
<1>11. InsSaved'
  BY <1>6, <1>7, <1>9, Numbers DEF InsSaved
<1>12. MediaSaved' /\ PackagesTrue'
  BY <1>9 DEF MediaSaved, PackagesTrue
<1>13. /\ proc' \in Procs /\ proc'.who # "none" /\ proc'.at = "i-stop-api" /\ proc'.next = "exit"
       /\ proc'.keep = k
  BY <1>1, <1>2, <1>3, Standing, GoPlace
<1>14. Stands("i-stop-api")
  BY <1>13 DEF Stands, AimOK
<1>15. Typed'
  <2>1. made' \in Releases /\ app' \in 0..made' /\ tools' \in 0..made' /\ pkgs' \in -1..made'
    BY <1>1, <1>3, <1>6, Numbers, HostAssumption DEF Releases
  <2>2. apt'.id \in -1..made' /\ apt'.old \in -1..made' /\ ins'.id <= made'
    BY <1>1, <1>6, <1>7, Numbers, AptFields
  <2> QED BY <1>1, <1>6, <1>8, <1>13, <2>1, <2>2 DEF DInv, Typed, DataTyped, UnitsTyped, InstallBegins, units,
     database, media
<1>16. PlaceOK("i-stop-api", k)'
  BY <1>4, <1>6, <1>7 DEF PlaceOK, InsPlace, RecoverPlace, UpdatePlace, BegunPlace, BuildPlace, BackPlace
<1> QED BY <1>10, <1>11, <1>12, <1>13, <1>14, <1>15, <1>16, Arrive DEF Core

-----------------------------------------------------------------------------
LEMMA Beginning == Init => DInv
<1> SUFFICES ASSUME Init PROVE DInv
  OBVIOUS
<1> USE DEF Init, HostInit, MediaInit, InstallInit
<1>1. proc \in Procs /\ proc.who = "none" /\ proc.at = "end"
  BY DEF Nobody, Procs, Nexts, Scripts
<1>2. UnitsTyped
  <2>1. enabled \in SUBSET (Services \cup {"timers"}) /\ up \in SUBSET Services /\ queued \in SUBSET Services
    <3>1. enabled \in {Services \cup {"timers"}, {"api"}} /\ up = enabled \cap Services /\ queued = {}
      OBVIOUS
    <3>2. {"api"} \subseteq Services \cup {"timers"}
      BY DEF Services
    <3> HIDE DEF Init, HostInit, MediaInit, InstallInit
    <3> QED BY <3>1, <3>2
  <2>2. timers \in BOOLEAN
    <3>1. PICK b : b = ("timers" \in enabled)
      OBVIOUS
    <3>2. b \in BOOLEAN
      BY <3>1
    <3> QED BY <3>1, <3>2
  <2>3. native \in BOOLEAN /\ lane \in {"off", "idle", "looked", "working"} /\ job \in Jobs
    BY DEF Jobs
  <2> QED BY <2>1, <2>2, <2>3 DEF UnitsTyped
<1>3. DataTyped
  <2>1. work \in Nat /\ child \in {"no", "running", "half"} /\ made \in Releases
    BY HostAssumption DEF Releases
  <2>2. app \in 0..made /\ tools \in 0..made /\ schema \in Nat /\ host \in Int /\ pkgs \in -1..made
    OBVIOUS
  <2>3. apt \in AptRecords /\ apt.id \in -1..made /\ apt.old \in -1..made
    BY DEF AptRecords, AptStates, AptFinal, NoRelease
  <2>4. ins \in InsRecords /\ ins.id <= made
    BY DEF InsRecords, InstallStates
  <2>5. dir \in [Releases -> {"none", "partial", "tested"}]
    OBVIOUS
  <2>6. journal \in {NoJournal} \cup JournalRecords
    OBVIOUS
  <2> QED BY <2>1, <2>2, <2>3, <2>4, <2>5, <2>6 DEF DataTyped
<1>4. ~HasJournal /\ ~Restoring /\ ~ins.active /\ ~apt.active /\ ins.state = "COMMITTED"
  BY DEF HasJournal, Restoring
<1>5. Sound
  BY HostAssumption DEF Sound, Usable
<1>6. Core
  BY <1>4, <1>5 DEF Core, Apart, InsSaved, ChildAlone, MediaSaved, PackagesTrue
<1> QED BY <1>1, <1>2, <1>3, <1>6 DEF DInv, Typed, Aims, Places

LEMMA UpdateKeeps ==
    ASSUME DInv, UNCHANGED ins, UpdateNext PROVE DInv'
BY UpdateMoves, UpdateGivesUp, UpdateBeginsStep, AptPrepareStep, AptPublishStep, UpdatePreparedStep,
   AptApplyStep, AptAppliedStep, AptValidateStep, UpdateStagesStep, UpdateBuildsStep, UpdateTestsStep,
   UpdateRemovesStep, CandidateDiscardedStep, ActivatingStep, UpdateSwitchesStep, UpdateHealthyStep,
   AptCommitStep, AptCommittedStep, UpdateCommitsStep
   DEF UpdateNext

LEMMA RecoveryKeeps ==
    ASSUME DInv, UNCHANGED ins, RuntimeRecoveryNext PROVE DInv'
BY RecoveryMoves, RecoveryGoesBackStep, AptRecoversStep, AptRolledBackStep, AptClearedStep,
   RecoveryGoesForthStep, RecoveryDiscardsStep, JournalClearedStep, RecoveryEndsWell
   DEF RuntimeRecoveryNext

LEMMA InstallKeeps ==
    ASSUME DInv, UNCHANGED media, InstallNext PROVE DInv'
BY InstallMoves, InstallGivesUp, InstallBeginsStep, SnapshotDatabaseStep, InstallPreparesStep,
   InstallConfiguresStep, InstallAptStep, SwitchAppStep, SwitchToolsStep, InstallHostStep,
   InitDatabaseStep, InstallHealthyStep
   DEF InstallNext

LEMMA RestoreKeeps ==
    ASSUME DInv, UNCHANGED media, InstallRecoveryNext PROVE DInv'
BY RestoreMoves, QuiesceNativeStep, DecideStep, RestoreDatabaseStep, RestoreHostStep, RestoreAppStep,
   RestoreToolsStep, RestoredStep, InstallCommitsStep, PublishPendingStep, ClearActiveStep, ClearPendingStep
   DEF InstallRecoveryNext

LEMMA EveryStepKeeps ==
    ASSUME DInv, [Next]_deployment PROVE DInv'
<1>1. CASE JobSteps /\ UNCHANGED <<media, ins>>
  BY <1>1, WorldMoves, ClaimStep, LeaveJobStep DEF JobSteps
<1>2. CASE SystemSteps /\ UNCHANGED <<media, ins>>
  BY <1>2, WorldMoves, NativeStartStep, ChildEndsStep DEF SystemSteps
<1>3. CASE Disturbances /\ UNCHANGED <<media, ins>>
  BY <1>3, WorldMoves, RebootStep DEF Disturbances
<1>4. CASE (UpdateNext \/ RuntimeRecoveryNext) /\ UNCHANGED ins
  BY <1>4, UpdateKeeps, RecoveryKeeps
<1>5. CASE (UpdateFails \/ AptRollbackFails \/ RecoveryFails) /\ UNCHANGED ins
  BY <1>5, UpdateGivesUp, AptRollbackFailsStep, RecoveryMoves
<1>6. CASE (InstallNext \/ InstallRecoveryNext \/ InstallRecovered(HasJournal)) /\ UNCHANGED media
  BY <1>6, InstallKeeps, RestoreKeeps, RestoreMoves
<1>7. CASE (InstallFails \/ RestoreFails) /\ UNCHANGED media
  BY <1>7, InstallGivesUp, RestoreFailsStep
<1>8. CASE UpdateStarts(Published \/ ins.pending) /\ UNCHANGED ins
  BY <1>8, Starts
<1>9. CASE InstallStarts(Published \/ ins.pending) /\ UNCHANGED media
  BY <1>9, Starts
<1>10. CASE FinalizerStarts \/ GateStarts
  BY <1>10, Starts
<1>11. CASE UNCHANGED deployment
  <2>1. Still /\ UnitsTyped' /\ proc' = proc
    BY <1>11 DEF deployment, Still, units, database, DInv, Typed, UnitsTyped
  <2> QED BY <2>1, StillThere
<1> QED BY <1>1, <1>2, <1>3, <1>4, <1>5, <1>6, <1>7, <1>8, <1>9, <1>10, <1>11 DEF Next

LEMMA DInvHolds == Spec => []DInv
<1>1. Init => DInv
  BY Beginning
<1>2. DInv /\ [Next]_deployment => DInv'
  BY EveryStepKeeps
<1> QED BY <1>1, <1>2, PTL DEF Spec

LEMMA RestIsSound ==
    ASSUME DInv PROVE RestIsValidated
<1>1. apt.active => HasJournal
  BY DEF DInv, Core, Apart
<1>2. ~Published => Sound
  BY DEF DInv, Core, Apart, Published, MediaMarker, Restoring
<1> QED BY <1>1, <1>2 DEF RestIsValidated, Sound, Usable

LEMMA SchemaFollows ==
    ASSUME DInv PROVE OldBackendNeverSeesNewSchema
<1>1. CASE HasJournal
  BY <1>1, Numbers DEF DInv, Core, MediaSaved, OldBackendNeverSeesNewSchema
<1>2. CASE ~HasJournal /\ ~Restoring
  BY <1>2, Numbers DEF DInv, Core, Apart, Sound, OldBackendNeverSeesNewSchema
<1>3. CASE Restoring
  BY <1>3, Numbers, InsFields DEF DInv, Core, InsSaved, OldBackendNeverSeesNewSchema
<1> QED BY <1>1, <1>2, <1>3

(* NoHalfIsUsed of Deployment: when the journals of update_runtime.py and    *)
(* install_transaction.py leave no marker, what is installed was tried out   *)
(* together, and no backend meets the database of a newer one.               *)
THEOREM NothingIsHalfDone == Spec => []NoHalfIsUsed
<1>1. DInv => NoHalfIsUsed
  BY RestIsSound, SchemaFollows DEF NoHalfIsUsed
<1> QED BY <1>1, DInvHolds, PTL

-----------------------------------------------------------------------------
\* Whatever runs a package manager excludes the two others.
LEMMA ManagersApart ==
    ASSUME DInv
    PROVE  /\ ~(native /\ child = "running")
           /\ At("u-applied") => ~native /\ child # "running"
           /\ At("r-rollback") => ~native /\ child # "running"
<1> USE DEF DInv, Core
<1>1. child = "running" => ~native
  BY DEF ChildAlone, InsSaved
<1>2. At("u-applied") => HasJournal /\ apt.active
  BY DEF Places, PlaceOK, UpdatePlace, BegunPlace, BuildPlace, At, ForwardAt, ApplyAt
<1>3. At("r-rollback") => HasJournal /\ apt.active
  BY DEF Places, PlaceOK, BackPlace, At, BackAt
<1>4. HasJournal /\ apt.active => ~native /\ child # "running"
  BY DEF MediaSaved
<1> QED BY <1>1, <1>2, <1>3, <1>4

(* OnePackageManager of Deployment: apt-daily.service, the apt-get of        *)
(* install.sh and the one of a media update never run at once.               *)
THEOREM PackageManagersExclude == Spec => []OnePackageManager
<1>1. ASSUME DInv PROVE OnePackageManager
  <2> DEFINE Busy(m) == \/ m = 1 /\ native
                        \/ m = 2 /\ child = "running"
                        \/ m = 3 /\ At("u-applied")
                        \/ m = 3 /\ At("r-rollback")
             Running == {m \in {1, 2, 3} : Busy(m)}
  <2>1. \E k \in {1, 2, 3} : Running \subseteq {k}
    <3>1. CASE native
      BY <1>1, <3>1, ManagersApart
    <3>2. CASE child = "running"
      BY <1>1, <3>2, ManagersApart
    <3>3. CASE ~native /\ child # "running"
      BY <3>3
    <3> QED BY <3>1, <3>2, <3>3
  <2>2. PICK k \in {1, 2, 3} : Running \subseteq {k}
    BY <2>1
  <2>3. IsFiniteSet({k}) /\ Cardinality({k}) = 1
    BY FS_Singleton
  <2>4. IsFiniteSet(Running) /\ Cardinality(Running) <= Cardinality({k})
    <3> HIDE DEF Running
    <3> QED BY <2>2, <2>3, FS_Subset
  <2>5. Cardinality(Running) \in Nat
    <3> HIDE DEF Running
    <3> QED BY <2>4, FS_CardinalityType
  <2>6. Cardinality(Running) <= 1
    <3> HIDE DEF Running
    <3> QED BY <2>3, <2>4, <2>5
  <2> QED BY <2>6 DEF OnePackageManager
<1> QED BY <1>1, DInvHolds, PTL

-----------------------------------------------------------------------------
\* What the restored database holds of the finished jobs is what there is:
\* while a transaction can still go back, nothing finishes.
LEMMA RestoreKeepsWork ==
    ASSUME DInv, RestoreDatabase PROVE work' = work
<1>1. Restoring
  BY DEF DInv, Places, PlaceOK, RecoverPlace, RestoreDatabase, At, RestoringAt, Restoring, RestorableStates
<1> QED BY <1>1 DEF DInv, Core, InsSaved, RestoreDatabase

Grows == work' >= work

LEMMA WorkGrows ==
    ASSUME DInv, [Next]_deployment PROVE Grows
<1>1. work \in Nat
  BY DEF DInv, Typed, DataTyped
<1>2. CASE JobSteps /\ UNCHANGED <<media, ins>>
  BY <1>1, <1>2 DEF JobSteps, Look, Claim, LeaveJob, Request, database, Grows
<1>3. CASE SystemSteps /\ UNCHANGED <<media, ins>>
  BY <1>1, <1>3 DEF SystemSteps, BootUnits, NativeStart, NativeEnd, ChildEnds, database, Grows
<1>4. CASE Disturbances /\ UNCHANGED <<media, ins>>
  BY <1>1, <1>4 DEF Disturbances, WorkerDies, Kill, Reboot, database, Grows
<1>5. CASE UpdateStarts(Published \/ ins.pending)
  BY <1>1, <1>5 DEF UpdateStarts, database, Grows
<1>6. CASE InstallStarts(Published \/ ins.pending)
  BY <1>1, <1>6 DEF InstallStarts, database, Grows
<1>7. CASE UpdateNext
  BY <1>1, <1>7 DEF UpdateNext, UpdateBegins, UpdateStopsApi, UpdateLooksAtQueue, UpdateStopsWorker,
     PauseTimers, NativeIsOver, AptFindsNothing, AptPrepare, AptPublish, UpdatePrepared, AptApply,
     AptApplied, AptValidate, UpdateStages, UpdateBuilds, UpdateTests, UpdateRemoves, CandidateDiscarded,
     Activating, UpdateSwitches, ValidationStarts, ValidationStops, UpdateHealthy, AptCommit,
     AptCommitted, UpdateCommits, database, Grows
<1>8. CASE RuntimeRecoveryNext
  BY <1>1, <1>8 DEF RuntimeRecoveryNext, RecoveryLooks, RecoveryStops, RecoveryGoesBack, AptRecovers,
     AptRolledBack, AptCleared, RecoveryGoesForth, RecoveryDiscards, RestoreTimers, RestoreUnits,
     JournalCleared, RecoveryEnds, End, Apt, Journal, database, Grows
<1>9. CASE UpdateFails \/ AptRollbackFails \/ RecoveryFails
  BY <1>1, <1>9 DEF UpdateFails, AptRollbackFails, RecoveryFails, End, Apt, database, Grows
<1>10. CASE InstallNext
  BY <1>1, <1>10 DEF InstallNext, InstallBegins, InstallStopsApi, InstallLooksAtQueue, InstallStopsWorker,
     InstallPausesTimers, InstallIsAlone, SnapshotDatabase, InstallPrepares, InstallConfigures, InstallApt,
     InstallAptEnded, InstallBuilds, InstallPublishesWeb, SwitchApp, SwitchTools, InstallHost,
     InitDatabase, InstallEnables, InstallValidates, InstallStops, InstallHealthy, database, Grows
<1>11. CASE InstallRecoveryNext
  <2>1. CASE RestoreDatabase
    BY <1>1, <2>1, RestoreKeepsWork DEF Grows
  <2>2. CASE InstallRecoveryNext /\ ~RestoreDatabase
    BY <1>1, <2>2 DEF InstallRecoveryNext, QuiesceChild, QuiesceNative, Decide, StopRuntime, RestoreHost,
       RestoreApp, RestoreTools, RestoreEnablement, Restored, KeepEnablement, InstallCommits,
       PublishPending, ClearActive, StartUnits, ClearPending, database, Grows
  <2> QED BY <1>11, <2>1, <2>2
<1>12. CASE InstallRecovered(HasJournal)
  BY <1>1, <1>12 DEF InstallRecovered, database, Grows
<1>13. CASE InstallFails \/ RestoreFails
  BY <1>1, <1>13 DEF InstallFails, RestoreFails, End, Ins, database, Grows
<1>14. CASE FinalizerStarts \/ GateStarts
  BY <1>1, <1>14 DEF FinalizerStarts, GateStarts, database, Grows
<1>15. CASE UNCHANGED deployment
  BY <1>1, <1>15 DEF deployment, database, Grows
<1> QED BY <1>2, <1>3, <1>4, <1>5, <1>6, <1>7, <1>8, <1>9, <1>10, <1>11, <1>12, <1>13, <1>14, <1>15 DEF Next

(* WorkIsKept of Deployment: no step of an updater, the database an          *)
(* installation puts back included, takes back a finished job.               *)
THEOREM FinishedWorkIsKept == Spec => WorkIsKept
<1>1. DInv /\ [Next]_deployment => [Grows]_deployment
  BY WorkGrows
<1>2. WorkIsKept <=> [][Grows]_deployment
  BY DEF WorkIsKept, Grows
<1> QED BY <1>1, <1>2, DInvHolds, PTL DEF Spec

-----------------------------------------------------------------------------
\* The labels at which the updaters have stopped the worker, or know that it
\* has no job and hold the lock that a claim needs.
IdleAt == (ForwardAt \ {"u-stop-api", "u-queue"}) \cup {"r-stop", "r-back"} \cup BackAt \cup {"i-stop-worker"}
OffAt  == RestoringAt \ {"x-stop-back"}

\* What a job in progress means for the journals: nothing was touched yet, and
\* the recovery starts the services with which the transaction began.
InHand ==
    /\ lane = "off" <=> "worker" \notin up
    /\ lane = "working" => job = "active"
    /\ lane = "working" /\ HasJournal => journal.state = "BEGUN" /\ ~apt.active /\ "worker" \in journal.up
    /\ InstallMarker /\ ins.state \in {"OBSERVING", "RESTORED"} /\ lane # "off" => "worker" \in ins.up
    /\ lane = "working" /\ InstallMarker => ins.state \in {"OBSERVING", "RESTORED", "COMMITTED"}
    /\ boot = "passed" => proc.who = "none" /\ ~InstallMarker

IdlePlace == proc.who # "none" =>
    /\ proc.at \in IdleAt => lane # "working"
    /\ proc.at \in OffAt => lane = "off"
    /\ proc.at = "x-units" => ins.pending

\* What the refinement needs of the journal at the end of an update.
Outcome == proc.who # "none" =>
    /\ proc.at \in EndAt => KeepCandidate \/ tools = journal.prev
    /\ proc.at \in {"u-apt-commit"} => journal.cand = journal.id

JInv == InHand /\ IdlePlace

\* The labels are in two sets of which one holds no label of the other.
LEMMA LabelsApart ==
    /\ OffAt \cap MediaAt = {} /\ OffAt \cap IdleAt = {}
    /\ IdleAt \cap InstallAt = {"i-stop-worker"} /\ IdleAt \subseteq MediaAt \cup InstallAt
    /\ "x-units" \notin MediaAt
BY DEF IdleAt, OffAt, MediaAt, InstallAt, ForwardAt, BegunAt, ApplyAt, StageAt, TryAt, CommitAt, BackAt, EndAt,
   RestoringAt, ObservingAt, PreparedAt, Untouched, Switched, AfterHost, KeepingAt

\* Where a script without a job in its way goes on.
LEMMA IdleOn ==
    ASSUME DInv, JInv, proc.who # "none", lane # "working", UNCHANGED <<up, lane, boot, job, ins>>,
           proc'.at \in MediaAt
    PROVE  JInv'
<1>1. InHand'
  BY DEF JInv, InHand, InstallMarker
<1>2. IdlePlace'
  BY LabelsApart DEF IdlePlace
<1> QED BY <1>1, <1>2 DEF JInv

\* A step that touches neither units nor journals.
LEMMA QuietOn ==
    ASSUME DInv, JInv, proc.who # "none", UNCHANGED <<up, lane, boot, job, ins, journal, apt>>,
           proc'.at \in IdleAt => proc.at \in IdleAt, proc'.at \in OffAt => proc.at \in OffAt,
           proc'.at # "x-units"
    PROVE  JInv'
<1>1. InHand'
  BY DEF JInv, InHand, InstallMarker, HasJournal
<1>2. IdlePlace'
  BY DEF JInv, IdlePlace
<1> QED BY <1>1, <1>2 DEF JInv

LEMMA BuildsIdle ==
    ASSUME DInv, JInv, UNCHANGED ins,
           AptFindsNothing \/ AptPrepare \/ AptPublish \/ UpdatePrepared \/ AptApply \/ AptApplied
           \/ AptValidate \/ UpdateStages \/ UpdateBuilds \/ UpdateTests \/ UpdateRemoves
           \/ CandidateDiscarded
    PROVE  JInv'
<1>1. proc \in Procs
  BY DEF DInv, Typed
<1>2. /\ proc.who # "none" /\ proc.at \in IdleAt /\ proc'.at \in MediaAt
      /\ UNCHANGED <<up, lane, boot, job>>
  BY <1>1 DEF AptFindsNothing, AptPrepare, AptPublish, UpdatePrepared, AptApply, AptApplied, AptValidate,
     UpdateStages, UpdateBuilds, UpdateTests, UpdateRemoves, CandidateDiscarded, At, Go, Procs, units,
     database, IdleAt, MediaAt, ForwardAt, BegunAt, ApplyAt, StageAt, TryAt, CommitAt, BackAt, EndAt
<1> QED BY <1>2, IdleOn DEF JInv, IdlePlace

LEMMA EndsIdle ==
    ASSUME DInv, JInv, UNCHANGED ins,
           Activating \/ UpdateSwitches \/ UpdateHealthy \/ AptCommit \/ AptCommitted \/ UpdateCommits
           \/ RecoveryGoesBack \/ AptRecovers \/ AptRolledBack \/ AptCleared \/ RecoveryGoesForth
           \/ RecoveryDiscards
    PROVE  JInv'
<1>1. proc \in Procs
  BY DEF DInv, Typed
<1>2. /\ proc.who # "none" /\ proc.at \in IdleAt /\ proc'.at \in MediaAt
      /\ UNCHANGED <<up, lane, boot, job>>
  BY <1>1 DEF Activating, UpdateSwitches, UpdateHealthy, AptCommit, AptCommitted, UpdateCommits,
     RecoveryGoesBack, AptRecovers, AptRolledBack, AptCleared, RecoveryGoesForth, RecoveryDiscards, At, Go,
     Procs, units, database, IdleAt, MediaAt, ForwardAt, BegunAt, ApplyAt, StageAt, TryAt, CommitAt, BackAt,
     EndAt
<1> QED BY <1>2, IdleOn DEF JInv, IdlePlace

LEMMA InstallQuiet ==
    ASSUME DInv, JInv, UNCHANGED media,
           InstallPausesTimers \/ InstallIsAlone \/ InstallConfigures \/ InstallApt \/ InstallAptEnded
           \/ InstallBuilds \/ InstallPublishesWeb \/ SwitchApp \/ SwitchTools \/ InstallHost
           \/ InitDatabase \/ InstallEnables \/ InstallFails
    PROVE  JInv'
<1>1. proc \in Procs
  BY DEF DInv, Typed
<1>2. proc.who # "none" /\ UNCHANGED <<up, lane, boot, job, ins, journal, apt>>
  BY DEF InstallPausesTimers, InstallIsAlone, InstallConfigures, InstallApt, InstallAptEnded, InstallBuilds,
     InstallPublishesWeb, SwitchApp, SwitchTools, InstallHost, InitDatabase, InstallEnables, InstallFails,
     At, units, database, media
<1>3. proc'.at \in {"i-quiet", "i-snapshot", "x-look", "i-apt", "i-apt-wait", "i-build", "i-web", "i-app", "i-tools",
                 "i-host", "i-init-db", "i-enable", "i-start"}
  BY <1>1 DEF InstallPausesTimers, InstallIsAlone, InstallConfigures, InstallApt, InstallAptEnded,
     InstallBuilds, InstallPublishesWeb, SwitchApp, SwitchTools, InstallHost, InitDatabase, InstallEnables,
     InstallFails, At, Go, Recover, Procs
<1>4. proc'.at \notin OffAt /\ proc'.at # "x-units"
      /\ (proc'.at \in IdleAt => proc.at \in IdleAt)
  BY <1>3 DEF IdleAt, OffAt, ForwardAt, BegunAt, ApplyAt, StageAt, TryAt, CommitAt, BackAt, RestoringAt
<1> QED BY <1>2, <1>4, QuietOn

LEMMA UpdateQuiet ==
    ASSUME DInv, JInv, UNCHANGED ins,
           PauseTimers \/ NativeIsOver \/ RestoreTimers \/ UpdateFails
    PROVE  JInv'
<1>1. proc \in Procs
  BY DEF DInv, Typed
<1>2. proc.who # "none" /\ UNCHANGED <<up, lane, boot, job, ins, journal, apt>>
  BY DEF PauseTimers, NativeIsOver, RestoreTimers, UpdateFails, At, units, database, media
<1>3. \/ proc.at \in {"u-pause", "u-quiet"} /\ proc'.at \in {"u-quiet", "u-prepare"}
      \/ proc'.at \in {"r-quiet", "r-look", "r-units", "r-clear"}
  BY <1>1 DEF PauseTimers, NativeIsOver, RestoreTimers, UpdateFails, At, Go, Recover, Procs
<1>4. proc'.at \notin OffAt /\ proc'.at # "x-units"
      /\ (proc'.at \in IdleAt => proc.at \in IdleAt)
  BY <1>3 DEF IdleAt, OffAt, ForwardAt, BegunAt, ApplyAt, StageAt, TryAt, CommitAt, BackAt, RestoringAt
<1> QED BY <1>2, <1>4, QuietOn

LEMMA RestoreQuiet ==
    ASSUME DInv, JInv, UNCHANGED media,
           QuiesceChild \/ QuiesceNative \/ RestoreHost \/ RestoreApp \/ RestoreTools \/ RestoreEnablement
           \/ KeepEnablement
    PROVE  JInv'
<1>1. proc \in Procs
  BY DEF DInv, Typed
<1>2. proc.who # "none" /\ UNCHANGED <<up, lane, boot, job, ins, journal, apt>>
  BY DEF QuiesceChild, QuiesceNative, RestoreHost, RestoreApp, RestoreTools, RestoreEnablement, KeepEnablement,
     At, units, database, media
<1>3. \/ proc.at \in {"x-host", "x-app", "x-tools", "x-enable"}
      \/ proc'.at \in {"x-end", "x-native", "x-decide", "x-commit"}
  BY <1>1 DEF QuiesceChild, QuiesceNative, RestoreHost, RestoreApp, RestoreTools, RestoreEnablement, KeepEnablement,
     At, Go, Procs
<1>4. proc'.at \in {"x-app", "x-tools", "x-enable", "x-restored", "x-end", "x-native", "x-decide", "x-commit"}
  BY <1>1 DEF QuiesceChild, QuiesceNative, RestoreHost, RestoreApp, RestoreTools, RestoreEnablement, KeepEnablement,
     At, Go, Procs
<1>5. proc'.at \notin IdleAt \cup {"x-units"} /\ (proc'.at \in OffAt => proc.at \in OffAt)
  BY <1>3, <1>4 DEF IdleAt, OffAt, ForwardAt, BegunAt, ApplyAt, StageAt, TryAt, CommitAt, BackAt, RestoringAt
<1> QED BY <1>2, <1>5, QuietOn

LEMMA LookInHand ==
    ASSUME DInv, JInv, UNCHANGED <<media, ins>>, Look(Published) PROVE JInv'
<1>1. proc \in Procs /\ up \in SUBSET Services
  BY DEF DInv, Typed, UnitsTyped
<1>2. InHand'
  BY DEF Look, JInv, InHand, InstallMarker
<1>3. IdlePlace'
  BY DEF Look, JInv, IdlePlace
<1> QED BY <1>2, <1>3 DEF JInv

LEMMA LeaveJobInHand ==
    ASSUME DInv, JInv, UNCHANGED <<media, ins>>, LeaveJob PROVE JInv'
<1>1. proc \in Procs /\ up \in SUBSET Services
  BY DEF DInv, Typed, UnitsTyped
<1>2. InHand'
  BY DEF LeaveJob, JInv, InHand, InstallMarker
<1>3. IdlePlace'
  BY DEF LeaveJob, JInv, IdlePlace
<1> QED BY <1>2, <1>3 DEF JInv

LEMMA RequestInHand ==
    ASSUME DInv, JInv, UNCHANGED <<media, ins>>, Request PROVE JInv'
<1>1. proc \in Procs /\ up \in SUBSET Services
  BY DEF DInv, Typed, UnitsTyped
<1>2. InHand'
  BY DEF Request, JInv, InHand, InstallMarker, units
<1>3. IdlePlace'
  BY DEF Request, JInv, IdlePlace, units
<1> QED BY <1>2, <1>3 DEF JInv

LEMMA NativeStartInHand ==
    ASSUME DInv, JInv, UNCHANGED <<media, ins>>, NativeStart(Published) PROVE JInv'
<1>1. proc \in Procs /\ up \in SUBSET Services
  BY DEF DInv, Typed, UnitsTyped
<1>2. InHand'
  BY DEF NativeStart, JInv, InHand, HasJournal, InstallMarker, database, media
<1>3. IdlePlace'
  BY DEF NativeStart, JInv, IdlePlace
<1> QED BY <1>2, <1>3 DEF JInv

LEMMA NativeEndInHand ==
    ASSUME DInv, JInv, UNCHANGED <<media, ins>>, NativeEnd PROVE JInv'
<1>1. proc \in Procs /\ up \in SUBSET Services
  BY DEF DInv, Typed, UnitsTyped
<1>2. InHand'
  BY DEF NativeEnd, JInv, InHand, HasJournal, InstallMarker, database, media
<1>3. IdlePlace'
  BY DEF NativeEnd, JInv, IdlePlace
<1> QED BY <1>2, <1>3 DEF JInv

LEMMA ChildEndsInHand ==
    ASSUME DInv, JInv, UNCHANGED <<media, ins>>, ChildEnds PROVE JInv'
<1>1. proc \in Procs /\ up \in SUBSET Services
  BY DEF DInv, Typed, UnitsTyped
<1>2. InHand'
  BY DEF ChildEnds, JInv, InHand, HasJournal, InstallMarker, units, database, media
<1>3. IdlePlace'
  BY DEF ChildEnds, JInv, IdlePlace, units
<1> QED BY <1>2, <1>3 DEF JInv

LEMMA WorkerDiesInHand ==
    ASSUME DInv, JInv, UNCHANGED <<media, ins>>, WorkerDies(Published) PROVE JInv'
<1>1. proc \in Procs /\ up \in SUBSET Services
  BY DEF DInv, Typed, UnitsTyped
<1>2. InHand'
  BY DEF WorkerDies, JInv, InHand, InstallMarker, Stopped
<1>3. IdlePlace'
  BY DEF WorkerDies, JInv, InHand, IdlePlace
<1> QED BY <1>2, <1>3 DEF JInv

LEMMA ClaimInHand ==
    ASSUME DInv, JInv, UNCHANGED <<media, ins>>, Claim(Published) PROVE JInv'
<1>1. proc \in Procs /\ up \in SUBSET Services
  BY DEF DInv, Typed, UnitsTyped
<1>2. InHand'
  BY DEF Claim, JInv, InHand, HasJournal, InstallMarker, media, Published, MediaMarker, DInv, Core, Apart
<1>3. IdlePlace'
  BY DEF Claim, JInv, IdlePlace
<1> QED BY <1>2, <1>3 DEF JInv

LEMMA BootUnitsInHand ==
    ASSUME DInv, JInv, UNCHANGED <<media, ins>>, BootUnits(Published) PROVE JInv'
<1>1. proc \in Procs /\ up \in SUBSET Services
  BY DEF DInv, Typed, UnitsTyped
<1>2. InHand'
  BY DEF BootUnits, JInv, InHand, HasJournal, InstallMarker, database, media, Started
<1>3. IdlePlace'
  BY DEF BootUnits, JInv, InHand, IdlePlace
<1> QED BY <1>2, <1>3 DEF JInv

LEMMA KillInHand ==
    ASSUME DInv, JInv, UNCHANGED <<media, ins>>, Kill PROVE JInv'
<1>1. proc \in Procs /\ up \in SUBSET Services
  BY DEF DInv, Typed, UnitsTyped
<1>2. InHand'
  BY DEF Kill, JInv, InHand, HasJournal, InstallMarker, units, database, media
<1>3. IdlePlace'
  BY DEF Kill, JInv, IdlePlace, Nobody
<1> QED BY <1>2, <1>3 DEF JInv

LEMMA RebootInHand ==
    ASSUME DInv, JInv, UNCHANGED <<media, ins>>, Reboot PROVE JInv'
<1>1. proc \in Procs /\ up \in SUBSET Services
  BY DEF DInv, Typed, UnitsTyped
<1>2. InHand'
  BY DEF Reboot, JInv, InHand
<1>3. IdlePlace'
  BY DEF Reboot, JInv, IdlePlace, Nobody
<1> QED BY <1>2, <1>3 DEF JInv

LEMMA UpdateStartsInHand ==
    ASSUME DInv, JInv, UNCHANGED ins, UpdateStarts(Published \/ ins.pending) PROVE JInv'
<1>1. proc \in Procs /\ up \in SUBSET Services
  BY DEF DInv, Typed, UnitsTyped
<1>2. InHand'
  BY DEF UpdateStarts, JInv, InHand, HasJournal, InstallMarker, units, database, media
<1>3. IdlePlace'
  BY DEF UpdateStarts, JInv, IdlePlace, IdleAt, OffAt, ForwardAt, BegunAt, ApplyAt, StageAt, TryAt, CommitAt,
     BackAt, RestoringAt
<1> QED BY <1>2, <1>3 DEF JInv

LEMMA InstallStartsInHand ==
    ASSUME DInv, JInv, UNCHANGED media, InstallStarts(Published \/ ins.pending) PROVE JInv'
<1>1. proc \in Procs /\ up \in SUBSET Services
  BY DEF DInv, Typed, UnitsTyped
<1>2. InHand'
  BY DEF InstallStarts, JInv, InHand, HasJournal, InstallMarker, units, database, media
<1>3. IdlePlace'
  BY DEF InstallStarts, JInv, IdlePlace, IdleAt, OffAt, ForwardAt, BegunAt, ApplyAt, StageAt, TryAt, CommitAt,
     BackAt, RestoringAt
<1> QED BY <1>2, <1>3 DEF JInv

LEMMA FinalizerStartsInHand ==
    ASSUME DInv, JInv, TRUE, FinalizerStarts PROVE JInv'
<1>1. proc \in Procs /\ up \in SUBSET Services
  BY DEF DInv, Typed, UnitsTyped
<1>2. InHand'
  BY DEF FinalizerStarts, JInv, InHand, HasJournal, InstallMarker, units, database, media
<1>3. IdlePlace'
  BY DEF FinalizerStarts, RecoveryStarts, JInv, IdlePlace, IdleAt, OffAt, ForwardAt, BegunAt, ApplyAt,
     StageAt, TryAt, CommitAt, BackAt, RestoringAt
<1> QED BY <1>2, <1>3 DEF JInv

LEMMA GateStartsInHand ==
    ASSUME DInv, JInv, TRUE, GateStarts PROVE JInv'
<1>1. proc \in Procs /\ up \in SUBSET Services
  BY DEF DInv, Typed, UnitsTyped
<1>2. InHand'
  BY DEF GateStarts, JInv, InHand, HasJournal, InstallMarker, units, database, media
<1>3. IdlePlace'
  BY DEF GateStarts, RecoveryStarts, JInv, IdlePlace, IdleAt, OffAt, ForwardAt, BegunAt, ApplyAt, StageAt,
     TryAt, CommitAt, BackAt, RestoringAt
<1> QED BY <1>2, <1>3 DEF JInv

LEMMA UpdateBeginsInHand ==
    ASSUME DInv, JInv, UNCHANGED ins, UpdateBegins PROVE JInv'
<1>1. proc \in Procs /\ up \in SUBSET Services
  BY DEF DInv, Typed, UnitsTyped
<1>2. InHand'
  BY DEF UpdateBegins, JInv, InHand, InstallMarker, At, units, database, DInv, Places, PlaceOK, InsPlace,
     Published, MediaMarker
<1>3. IdlePlace'
  BY DEF UpdateBegins, JInv, IdlePlace, Go, IdleAt, OffAt, BackAt, RestoringAt
<1> QED BY <1>2, <1>3 DEF JInv

LEMMA UpdateStopsApiInHand ==
    ASSUME DInv, JInv, UNCHANGED ins, UpdateStopsApi PROVE JInv'
<1>1. proc \in Procs /\ up \in SUBSET Services
  BY DEF DInv, Typed, UnitsTyped
<1>2. InHand'
  BY DEF UpdateStopsApi, Stopped, JInv, InHand, HasJournal, InstallMarker, Go, database, media
<1>3. IdlePlace'
  BY DEF UpdateStopsApi, JInv, IdlePlace, Go, IdleAt, OffAt, BackAt, RestoringAt
<1> QED BY <1>2, <1>3 DEF JInv

LEMMA UpdateStopsWorkerInHand ==
    ASSUME DInv, JInv, UNCHANGED ins, UpdateStopsWorker PROVE JInv'
<1>1. proc \in Procs /\ up \in SUBSET Services
  BY DEF DInv, Typed, UnitsTyped
<1>2. InHand'
  BY DEF UpdateStopsWorker, Stopped, JInv, InHand, At
<1>3. IdlePlace'
  BY DEF UpdateStopsWorker, Stopped, JInv, IdlePlace, Go
<1> QED BY <1>2, <1>3 DEF JInv

LEMMA ValidationStopsInHand ==
    ASSUME DInv, JInv, UNCHANGED ins, ValidationStops PROVE JInv'
<1>1. proc \in Procs /\ up \in SUBSET Services
  BY DEF DInv, Typed, UnitsTyped
<1>2. InHand'
  BY DEF ValidationStops, Stopped, JInv, InHand, HasJournal, InstallMarker, Go, database, media
<1>3. IdlePlace'
  BY DEF ValidationStops, Stopped, JInv, IdlePlace, At, Go, IdleAt, OffAt, ForwardAt, TryAt, RestoringAt
<1> QED BY <1>2, <1>3 DEF JInv

LEMMA RecoveryStopsInHand ==
    ASSUME DInv, JInv, UNCHANGED ins, RecoveryStops PROVE JInv'
<1>1. proc \in Procs /\ up \in SUBSET Services
  BY DEF DInv, Typed, UnitsTyped
<1>2. InHand'
  BY DEF RecoveryStops, Stopped, Services, JInv, InHand, InstallMarker
<1>3. IdlePlace'
  BY DEF RecoveryStops, Stopped, JInv, IdlePlace, At, IdleAt, OffAt, RestoringAt
<1> QED BY <1>2, <1>3 DEF JInv

LEMMA RecoveryLooksInHand ==
    ASSUME DInv, JInv, UNCHANGED ins, RecoveryLooks PROVE JInv'
<1>1. proc \in Procs /\ up \in SUBSET Services
  BY DEF DInv, Typed, UnitsTyped
<1>2. InHand'
  BY DEF RecoveryLooks, JInv, InHand, HasJournal, InstallMarker, At, units, database, media
<1>3. IdlePlace'
  BY <1>1 DEF RecoveryLooks, MediaMarker, DInv, Core, Apart, JInv, InHand, IdlePlace, Go, Procs, units,
     IdleAt, OffAt, ForwardAt, BegunAt, ApplyAt, StageAt, TryAt, CommitAt, BackAt, RestoringAt
<1> QED BY <1>2, <1>3 DEF JInv

LEMMA JournalClearedInHand ==
    ASSUME DInv, JInv, UNCHANGED ins, JournalCleared PROVE JInv'
<1>1. proc \in Procs /\ up \in SUBSET Services
  BY DEF DInv, Typed, UnitsTyped
<1>2. InHand'
  BY DEF JournalCleared, JInv, InHand, HasJournal, InstallMarker, Go, units, database
<1>3. IdlePlace'
  BY DEF JournalCleared, JInv, IdlePlace, Go, IdleAt, OffAt, ForwardAt, BegunAt, ApplyAt, StageAt, TryAt,
     CommitAt, BackAt, RestoringAt
<1> QED BY <1>2, <1>3 DEF JInv

LEMMA AptRollbackFailsInHand ==
    ASSUME DInv, JInv, UNCHANGED ins, AptRollbackFails PROVE JInv'
<1>1. proc \in Procs /\ up \in SUBSET Services
  BY DEF DInv, Typed, UnitsTyped
<1>2. InHand'
  BY DEF AptRollbackFails, Apt, End, Nobody, JInv, InHand, HasJournal, InstallMarker, database
<1>3. IdlePlace'
  BY DEF AptRollbackFails, End, Nobody, JInv, IdlePlace
<1> QED BY <1>2, <1>3 DEF JInv

LEMMA RecoveryFailsInHand ==
    ASSUME DInv, JInv, UNCHANGED ins, RecoveryFails PROVE JInv'
<1>1. proc \in Procs /\ up \in SUBSET Services
  BY DEF DInv, Typed, UnitsTyped
<1>2. InHand'
  BY DEF RecoveryFails, End, Nobody, JInv, InHand, HasJournal, InstallMarker, database, media
<1>3. IdlePlace'
  BY DEF RecoveryFails, End, Nobody, JInv, IdlePlace
<1> QED BY <1>2, <1>3 DEF JInv

LEMMA InstallBeginsInHand ==
    ASSUME DInv, JInv, UNCHANGED media, InstallBegins PROVE JInv'
<1>1. proc \in Procs /\ up \in SUBSET Services
  BY DEF DInv, Typed, UnitsTyped
<1>2. InHand'
  BY DEF InstallBegins, JInv, InHand, HasJournal, At, units, database, media
<1>3. IdlePlace'
  BY DEF InstallBegins, JInv, IdlePlace, Go, IdleAt, OffAt, ForwardAt, BegunAt, ApplyAt, StageAt, TryAt,
     CommitAt, BackAt, RestoringAt
<1> QED BY <1>2, <1>3 DEF JInv

LEMMA InstallStopsApiInHand ==
    ASSUME DInv, JInv, UNCHANGED media, InstallStopsApi PROVE JInv'
<1>1. proc \in Procs /\ up \in SUBSET Services
  BY DEF DInv, Typed, UnitsTyped
<1>2. InHand'
  BY DEF InstallStopsApi, Stopped, JInv, InHand, HasJournal, InstallMarker, Go, database, media
<1>3. IdlePlace'
  BY DEF InstallStopsApi, JInv, IdlePlace, Go, IdleAt, OffAt, ForwardAt, BegunAt, ApplyAt, StageAt, TryAt,
     CommitAt, BackAt, RestoringAt
<1> QED BY <1>2, <1>3 DEF JInv

LEMMA InstallStopsWorkerInHand ==
    ASSUME DInv, JInv, UNCHANGED media, InstallStopsWorker PROVE JInv'
<1>1. proc \in Procs /\ up \in SUBSET Services
  BY DEF DInv, Typed, UnitsTyped
<1>2. InHand'
  BY DEF InstallStopsWorker, Stopped, JInv, InHand, At
<1>3. IdlePlace'
  BY DEF InstallStopsWorker, JInv, IdlePlace, Go, IdleAt, OffAt, ForwardAt, BegunAt, ApplyAt, StageAt, TryAt,
     CommitAt, BackAt, RestoringAt
<1> QED BY <1>2, <1>3 DEF JInv

LEMMA SnapshotDatabaseInHand ==
    ASSUME DInv, JInv, UNCHANGED media, SnapshotDatabase PROVE JInv'
<1>1. proc \in Procs /\ up \in SUBSET Services
  BY DEF DInv, Typed, UnitsTyped
<1>2. InHand'
  BY DEF SnapshotDatabase, JInv, InHand, HasJournal, InstallMarker, Go, units, database, media
<1>3. IdlePlace'
  BY DEF SnapshotDatabase, JInv, IdlePlace, Go, IdleAt, OffAt, ForwardAt, BegunAt, ApplyAt, StageAt, TryAt,
     CommitAt, BackAt, RestoringAt
<1> QED BY <1>2, <1>3 DEF JInv

LEMMA InstallPreparesInHand ==
    ASSUME DInv, JInv, UNCHANGED media, InstallPrepares PROVE JInv'
<1>1. proc \in Procs /\ up \in SUBSET Services
  BY DEF DInv, Typed, UnitsTyped
<1>2. InHand'
  BY DEF InstallPrepares, Ins, JInv, InHand, At, units, DInv, Places, PlaceOK, InsPlace
<1>3. IdlePlace'
  BY DEF InstallPrepares, JInv, IdlePlace, Go, IdleAt, OffAt, ForwardAt, BegunAt, ApplyAt, StageAt, TryAt,
     CommitAt, BackAt, RestoringAt
<1> QED BY <1>2, <1>3 DEF JInv

LEMMA InstallValidatesInHand ==
    ASSUME DInv, JInv, UNCHANGED media, InstallValidates PROVE JInv'
<1>1. proc \in Procs /\ up \in SUBSET Services
  BY DEF DInv, Typed, UnitsTyped
<1>2. InHand'
  BY DEF InstallValidates, Started, JInv, InHand, At, DInv, Core, InsSaved, Restoring, RestorableStates,
     Places, PlaceOK, InsPlace, PreparedAt, Switched, AfterHost
<1>3. IdlePlace'
  BY DEF InstallValidates, JInv, IdlePlace, Go, IdleAt, OffAt, ForwardAt, BegunAt, ApplyAt, StageAt, TryAt,
     CommitAt, BackAt, RestoringAt
<1> QED BY <1>2, <1>3 DEF JInv

LEMMA InstallStopsInHand ==
    ASSUME DInv, JInv, UNCHANGED media, InstallStops PROVE JInv'
<1>1. proc \in Procs /\ up \in SUBSET Services
  BY DEF DInv, Typed, UnitsTyped
<1>2. InHand'
  BY DEF InstallStops, Stopped, Services, JInv, InHand, At
<1>3. IdlePlace'
  BY DEF InstallStops, JInv, IdlePlace, Go, IdleAt, OffAt, ForwardAt, BegunAt, ApplyAt, StageAt, TryAt,
     CommitAt, BackAt, RestoringAt
<1> QED BY <1>2, <1>3 DEF JInv

LEMMA InstallHealthyInHand ==
    ASSUME DInv, JInv, UNCHANGED media, InstallHealthy PROVE JInv'
<1>1. proc \in Procs /\ up \in SUBSET Services
  BY DEF DInv, Typed, UnitsTyped
<1>2. InHand'
  BY DEF InstallHealthy, Ins, JInv, InHand, InstallMarker, units
<1>3. IdlePlace'
  BY DEF InstallHealthy, Recover, JInv, IdlePlace, IdleAt, OffAt, ForwardAt, BegunAt, ApplyAt, StageAt, TryAt,
     CommitAt, BackAt, RestoringAt
<1> QED BY <1>2, <1>3 DEF JInv

LEMMA StopRuntimeInHand ==
    ASSUME DInv, JInv, UNCHANGED media, StopRuntime PROVE JInv'
<1>1. proc \in Procs /\ up \in SUBSET Services
  BY DEF DInv, Typed, UnitsTyped
<1>2. InHand'
  BY DEF StopRuntime, Stopped, Services, JInv, InHand, At
<1>3. IdlePlace'
  BY DEF StopRuntime, Stopped, Services, JInv, IdlePlace, Go
<1> QED BY <1>2, <1>3 DEF JInv

LEMMA RestoreDatabaseInHand ==
    ASSUME DInv, JInv, UNCHANGED media, RestoreDatabase PROVE JInv'
<1>1. proc \in Procs /\ up \in SUBSET Services
  BY DEF DInv, Typed, UnitsTyped
<1>2. InHand'
  BY DEF RestoreDatabase, JInv, InHand, IdlePlace, At, units, OffAt, RestoringAt
<1>3. IdlePlace'
  BY DEF RestoreDatabase, JInv, IdlePlace, At, Go, units, OffAt, RestoringAt
<1> QED BY <1>2, <1>3 DEF JInv

LEMMA RestoredInHand ==
    ASSUME DInv, JInv, UNCHANGED media, Restored PROVE JInv'
<1>1. proc \in Procs /\ up \in SUBSET Services
  BY DEF DInv, Typed, UnitsTyped
<1>2. InHand'
  BY DEF Restored, JInv, InHand, IdlePlace, At, units, OffAt, RestoringAt
<1>3. IdlePlace'
  BY DEF Restored, JInv, IdlePlace, Go, IdleAt, OffAt, ForwardAt, BegunAt, ApplyAt, StageAt, TryAt, CommitAt,
     BackAt, RestoringAt
<1> QED BY <1>2, <1>3 DEF JInv

LEMMA InstallCommitsInHand ==
    ASSUME DInv, JInv, UNCHANGED media, InstallCommits PROVE JInv'
<1>1. proc \in Procs /\ up \in SUBSET Services
  BY DEF DInv, Typed, UnitsTyped
<1>2. InHand'
  BY DEF InstallCommits, Ins, JInv, InHand, HasJournal, At, units, database, media
<1>3. IdlePlace'
  BY DEF InstallCommits, JInv, IdlePlace, Go, IdleAt, OffAt, ForwardAt, BegunAt, ApplyAt, StageAt, TryAt,
     CommitAt, BackAt, RestoringAt
<1> QED BY <1>2, <1>3 DEF JInv

LEMMA PublishPendingInHand ==
    ASSUME DInv, JInv, UNCHANGED media, PublishPending PROVE JInv'
<1>1. proc \in Procs /\ up \in SUBSET Services
  BY DEF DInv, Typed, UnitsTyped
<1>2. InHand'
  BY DEF PublishPending, JInv, InHand, HasJournal, At, units, database, media, DInv, Places, PlaceOK,
     RecoverPlace
<1>3. IdlePlace'
  BY DEF PublishPending, JInv, IdlePlace, Go, IdleAt, OffAt, ForwardAt, BegunAt, ApplyAt, StageAt, TryAt,
     CommitAt, BackAt, RestoringAt
<1> QED BY <1>2, <1>3 DEF JInv

LEMMA ClearActiveInHand ==
    ASSUME DInv, JInv, UNCHANGED media, ClearActive PROVE JInv'
<1>1. proc \in Procs /\ up \in SUBSET Services
  BY DEF DInv, Typed, UnitsTyped
<1>2. InHand'
  BY DEF ClearActive, JInv, InHand, HasJournal, InstallMarker, Go, units, database, media
<1>3. IdlePlace'
  BY DEF ClearActive, JInv, IdlePlace, At, Go, IdleAt, OffAt, ForwardAt, BegunAt, ApplyAt, StageAt, TryAt,
     CommitAt, BackAt, RestoringAt, DInv, Places, PlaceOK, RecoverPlace
<1> QED BY <1>2, <1>3 DEF JInv

LEMMA StartUnitsInHand ==
    ASSUME DInv, JInv, UNCHANGED media, StartUnits PROVE JInv'
<1>1. proc \in Procs /\ up \in SUBSET Services
  BY DEF DInv, Typed, UnitsTyped
<1>2. InHand'
  BY DEF StartUnits, JInv, InHand, HasJournal, InstallMarker, Go, database, media
<1>3. IdlePlace'
  BY DEF StartUnits, JInv, IdlePlace, Go, IdleAt, OffAt, ForwardAt, BegunAt, ApplyAt, StageAt, TryAt,
     CommitAt, BackAt, RestoringAt
<1> QED BY <1>2, <1>3 DEF JInv

LEMMA ClearPendingInHand ==
    ASSUME DInv, JInv, UNCHANGED media, ClearPending PROVE JInv'
<1>1. proc \in Procs /\ up \in SUBSET Services
  BY DEF DInv, Typed, UnitsTyped
<1>2. InHand'
  BY DEF ClearPending, JInv, InHand, HasJournal, InstallMarker, Go, units, database, media
<1>3. IdlePlace'
  BY DEF ClearPending, JInv, IdlePlace, Go, IdleAt, OffAt, ForwardAt, BegunAt, ApplyAt, StageAt, TryAt,
     CommitAt, BackAt, RestoringAt
<1> QED BY <1>2, <1>3 DEF JInv

LEMMA RestoreFailsInHand ==
    ASSUME DInv, JInv, UNCHANGED media, RestoreFails PROVE JInv'
<1>1. proc \in Procs /\ up \in SUBSET Services
  BY DEF DInv, Typed, UnitsTyped
<1>2. InHand'
  BY DEF RestoreFails, Ins, End, JInv, InHand, RestoringAt, DInv, Core, InsSaved, Restoring, RestorableStates,
     Places, PlaceOK, RecoverPlace, Aims
<1>3. IdlePlace'
  BY DEF RestoreFails, End, Nobody, JInv, IdlePlace
<1> QED BY <1>2, <1>3 DEF JInv

LEMMA UpdateLooksAtQueueInHand ==
    ASSUME DInv, JInv, UNCHANGED ins, UpdateLooksAtQueue PROVE JInv'
<1>1. proc \in Procs /\ proc.who # "none"
  BY DEF DInv, Typed, UpdateLooksAtQueue, At
<1>2. UNCHANGED <<up, lane, boot, job, journal, apt>>
  BY DEF UpdateLooksAtQueue, units, database, media
<1>3. CASE job = "active"
  <2>1. proc'.at = "r-look"
    BY <1>1, <1>3 DEF UpdateLooksAtQueue, Procs
  <2>2. "r-look" \notin IdleAt \cup OffAt \cup {"x-units"}
    BY DEF IdleAt, OffAt, ForwardAt, BegunAt, ApplyAt, StageAt, TryAt, CommitAt, BackAt, RestoringAt
  <2> QED BY <1>1, <1>2, <2>1, <2>2, QuietOn
<1>4. CASE job # "active"
  <2>1. proc'.at \in {"r-look", "u-stop-worker"}
    BY <1>1 DEF UpdateLooksAtQueue, Go, Procs
  <2>2. proc'.at \in MediaAt
    BY <2>1 DEF MediaAt, ForwardAt, BegunAt
  <2> QED BY <1>1, <1>2, <1>4, <2>2, IdleOn DEF JInv, InHand
<1> QED BY <1>3, <1>4

LEMMA ValidationStartsInHand ==
    ASSUME DInv, JInv, UNCHANGED ins, ValidationStarts PROVE JInv'
<1>1. proc \in Procs /\ proc.who # "none" /\ proc.at = "u-start" /\ proc'.at = "u-stop" /\ up \in SUBSET Services
  BY DEF DInv, Typed, UnitsTyped, ValidationStarts, At, Go, Procs
<1>2. lane # "working" /\ HasJournal /\ ~InstallMarker
  BY <1>1 DEF JInv, IdlePlace, IdleAt, ForwardAt, TryAt, DInv, Places, PlaceOK, UpdatePlace, BegunPlace, Core, Apart
<1>3. InHand'
  BY <1>1, <1>2 DEF ValidationStarts, Started, JInv, InHand, InstallMarker, database
<1>4. IdlePlace'
  BY <1>1, <1>2 DEF ValidationStarts, Started, IdlePlace, OffAt, RestoringAt
<1> QED BY <1>3, <1>4 DEF JInv

LEMMA RestoreUnitsInHand ==
    ASSUME DInv, JInv, UNCHANGED ins, RestoreUnits PROVE JInv'
<1>1. proc \in Procs /\ proc.who # "none" /\ proc.at = "r-units" /\ proc'.at = "r-clear"
  BY DEF DInv, Typed, RestoreUnits, At, Go, Procs
<1>2. HasJournal /\ ~InstallMarker
  BY <1>1 DEF DInv, Places, PlaceOK, BackPlace, EndAt, Core, Apart
<1>3. InHand'
  BY <1>1, <1>2 DEF RestoreUnits, JInv, InHand, InstallMarker, HasJournal, database, media
<1>4. IdlePlace'
  BY <1>1 DEF IdlePlace, IdleAt, OffAt, ForwardAt, BegunAt, ApplyAt, StageAt, TryAt, CommitAt, BackAt, RestoringAt
<1> QED BY <1>3, <1>4 DEF JInv

LEMMA InstallLooksAtQueueInHand ==
    ASSUME DInv, JInv, UNCHANGED media, InstallLooksAtQueue PROVE JInv'
<1>1. proc \in Procs /\ proc.who # "none"
  BY DEF DInv, Typed, InstallLooksAtQueue, At
<1>2. UNCHANGED <<up, lane, boot, job, ins, journal, apt>>
  BY DEF InstallLooksAtQueue, units, database, media
<1>3. CASE job = "active"
  <2>1. proc'.at = "x-look"
    BY <1>1, <1>3 DEF InstallLooksAtQueue, Recover, Procs
  <2>2. "x-look" \notin IdleAt \cup OffAt \cup {"x-units"}
    BY DEF IdleAt, OffAt, ForwardAt, BegunAt, ApplyAt, StageAt, TryAt, CommitAt, BackAt, RestoringAt
  <2> QED BY <1>1, <1>2, <2>1, <2>2, QuietOn
<1>4. CASE job # "active"
  <2>1. proc'.at = "i-stop-worker"
    BY <1>1, <1>4 DEF InstallLooksAtQueue, Go, Procs
  <2>2. InHand'
    BY <1>1, <1>2 DEF JInv, InHand, InstallMarker, HasJournal
  <2>3. IdlePlace'
    BY <1>2, <1>4, <2>1 DEF JInv, InHand, IdlePlace, OffAt, RestoringAt
  <2> QED BY <2>2, <2>3 DEF JInv
<1> QED BY <1>3, <1>4

\* Where a recovery ends there is no marker of the installer.
LEMMA EndsInHand ==
    ASSUME JInv, UNCHANGED <<up, lane, job, ins, journal, apt>>, ~InstallMarker,
           \/ proc' = Nobody
           \/ UNCHANGED boot /\ proc.who # "none" /\ proc'.at \notin IdleAt \cup OffAt \cup {"x-units"}
    PROVE  JInv'
<1>1. InHand'
  BY DEF JInv, InHand, InstallMarker, HasJournal, Nobody
<1>2. IdlePlace'
  BY DEF IdlePlace, Nobody
<1> QED BY <1>1, <1>2 DEF JInv

LEMMA RecoveryEndsInHand ==
    ASSUME DInv, JInv, UNCHANGED ins, RecoveryEnds PROVE JInv'
<1>1. proc \in Procs /\ proc.who # "none" /\ ~InstallMarker
  BY DEF DInv, Typed, Places, PlaceOK, BackPlace, RecoveryEnds, At
<1>2. UNCHANGED <<up, lane, job, journal, apt>>
  BY DEF RecoveryEnds, database, media
<1>3. proc' = Nobody \/ (UNCHANGED boot /\ proc'.at \in {"u-begin", "i-begin"})
  <2>1. CASE proc.next \in {"u-begin", "i-begin"}
    <3>1. PICK n \in {"u-begin", "i-begin"} : proc' = [proc EXCEPT !.at = n, !.next = "exit"] /\ UNCHANGED boot
      BY <2>1 DEF RecoveryEnds
    <3>2. proc'.at = n
      BY <1>1, <3>1 DEF Procs
    <3> QED BY <3>1, <3>2
  <2>2. CASE proc.next \notin {"u-begin", "i-begin"}
    <3>1. End(TRUE)
      BY <2>2 DEF RecoveryEnds
    <3> QED BY <3>1 DEF End
  <2> QED BY <2>1, <2>2
<1>4. {"u-begin", "i-begin"} \cap (IdleAt \cup OffAt \cup {"x-units"}) = {}
  BY DEF IdleAt, OffAt, ForwardAt, BegunAt, ApplyAt, StageAt, TryAt, CommitAt, BackAt, RestoringAt
<1> QED BY <1>1, <1>2, <1>3, <1>4, EndsInHand

LEMMA InstallRecoveredInHand ==
    ASSUME DInv, JInv, UNCHANGED media, InstallRecovered(HasJournal) PROVE JInv'
<1>1. proc \in Procs /\ proc.who # "none" /\ ~InstallMarker
  BY DEF DInv, Typed, Places, PlaceOK, RecoverPlace, InstallRecovered, At
<1>2. UNCHANGED <<up, lane, job, ins, journal, apt>>
  BY DEF InstallRecovered, database, media
<1>3. proc' = Nobody \/ (UNCHANGED boot /\ proc'.at \in {"r-pause", "u-begin", "i-begin"})
  <2>1. CASE proc.next \in {"u-begin", "i-begin"} /\ ~HasJournal
    <3>1. proc' = [proc EXCEPT !.at = proc.next, !.next = "exit"] /\ UNCHANGED boot
      BY <2>1 DEF InstallRecovered
    <3>2. proc'.at = proc.next
      BY <1>1, <3>1 DEF Procs
    <3> QED BY <2>1, <3>1, <3>2
  <2>2. CASE HasJournal /\ proc.next # "exit"
    BY <1>1, <2>2 DEF InstallRecovered, Go, Procs
  <2>3. CASE proc.next = "exit" \/ (proc.next \notin {"u-begin", "i-begin"} /\ ~HasJournal)
    <3>1. End(TRUE)
      BY <2>3 DEF InstallRecovered
    <3> QED BY <3>1 DEF End
  <2> QED BY <2>1, <2>2, <2>3 DEF HasJournal
<1>4. {"r-pause", "u-begin", "i-begin"} \cap (IdleAt \cup OffAt \cup {"x-units"}) = {}
  BY DEF IdleAt, OffAt, ForwardAt, BegunAt, ApplyAt, StageAt, TryAt, CommitAt, BackAt, RestoringAt
<1> QED BY <1>1, <1>2, <1>3, <1>4, EndsInHand

LEMMA DecideInHand ==
    ASSUME DInv, JInv, UNCHANGED media, Decide PROVE JInv'
<1>1. proc \in Procs /\ proc.who # "none" /\ UNCHANGED <<up, lane, boot, job, journal, apt>>
  BY DEF DInv, Typed, Decide, At, units, database, media
<1>2. proc'.at \in {"x-stop-back", "x-publish", "x-stop-keep"}
  BY <1>1 DEF Decide, Go, Procs
<1>3. IdlePlace'
  BY <1>2 DEF IdlePlace, IdleAt, OffAt, ForwardAt, BegunAt, ApplyAt, StageAt, TryAt, CommitAt, BackAt, RestoringAt
<1>4. CASE ins.active /\ ins.state \in RestorableStates /\ Ins("RESTORING")
  <2>1. lane # "working"
    BY <1>4 DEF DInv, Core, InsSaved, Restoring
  <2>2. ins'.state = "RESTORING"
    BY <1>4, InsFields DEF Ins, InsRecords, InstallStates
  <2>3. InHand'
    BY <1>1, <2>1, <2>2 DEF JInv, InHand
  <2> QED BY <1>3, <2>3 DEF JInv
<1>5. CASE ins.active /\ ins.state = "OBSERVING" /\ Ins("RESTORED")
  <2>1. ins'.state = "RESTORED" /\ ins'.up = ins.up /\ ins'.active = ins.active /\ ins'.pending = ins.pending
    BY <1>5, InsFields DEF Ins, InsRecords, InstallStates
  <2>2. InHand'
    BY <1>1, <1>5, <2>1 DEF JInv, InHand, InstallMarker, HasJournal
  <2> QED BY <1>3, <2>2 DEF JInv
<1>6. CASE UNCHANGED ins
  <2>1. InHand'
    BY <1>1, <1>6 DEF JInv, InHand, InstallMarker, HasJournal
  <2> QED BY <1>3, <2>1 DEF JInv
<1> QED BY <1>4, <1>5, <1>6 DEF Decide

LEMMA WorldInHand ==
    ASSUME DInv, JInv, UNCHANGED <<media, ins>>, JobSteps \/ SystemSteps \/ Disturbances
    PROVE  JInv'
BY LookInHand, ClaimInHand, LeaveJobInHand, RequestInHand, BootUnitsInHand, NativeStartInHand, NativeEndInHand,
   ChildEndsInHand, WorkerDiesInHand, KillInHand, RebootInHand
   DEF JobSteps, SystemSteps, Disturbances

LEMMA UpdateInHand ==
    ASSUME DInv, JInv, UNCHANGED ins, UpdateNext \/ RuntimeRecoveryNext PROVE JInv'
BY BuildsIdle, EndsIdle, UpdateQuiet, UpdateBeginsInHand, UpdateStopsApiInHand, UpdateLooksAtQueueInHand,
   UpdateStopsWorkerInHand, ValidationStartsInHand, ValidationStopsInHand, RecoveryLooksInHand,
   RecoveryStopsInHand, RestoreUnitsInHand, JournalClearedInHand, RecoveryEndsInHand
   DEF UpdateNext, RuntimeRecoveryNext

LEMMA InstallInHand ==
    ASSUME DInv, JInv, UNCHANGED media, InstallNext \/ InstallRecoveryNext \/ InstallRecovered(HasJournal)
    PROVE  JInv'
BY InstallQuiet, RestoreQuiet, InstallBeginsInHand, InstallStopsApiInHand, InstallLooksAtQueueInHand,
   InstallStopsWorkerInHand, SnapshotDatabaseInHand, InstallPreparesInHand, InstallValidatesInHand,
   InstallStopsInHand, InstallHealthyInHand, DecideInHand, StopRuntimeInHand, RestoreDatabaseInHand,
   RestoredInHand, InstallCommitsInHand, PublishPendingInHand, ClearActiveInHand, StartUnitsInHand,
   ClearPendingInHand, InstallRecoveredInHand
   DEF InstallNext, InstallRecoveryNext

LEMMA EveryStepInHand ==
    ASSUME DInv, JInv, [Next]_deployment PROVE JInv'
<1>1. CASE (JobSteps \/ SystemSteps \/ Disturbances) /\ UNCHANGED <<media, ins>>
  BY <1>1, WorldInHand
<1>2. CASE (UpdateNext \/ RuntimeRecoveryNext) /\ UNCHANGED ins
  BY <1>2, UpdateInHand
<1>3. CASE (UpdateFails \/ AptRollbackFails \/ RecoveryFails) /\ UNCHANGED ins
  BY <1>3, UpdateQuiet, AptRollbackFailsInHand, RecoveryFailsInHand
<1>4. CASE (InstallNext \/ InstallRecoveryNext \/ InstallRecovered(HasJournal)) /\ UNCHANGED media
  BY <1>4, InstallInHand
<1>5. CASE (InstallFails \/ RestoreFails) /\ UNCHANGED media
  BY <1>5, InstallQuiet, RestoreFailsInHand
<1>6. CASE \/ UpdateStarts(Published \/ ins.pending) /\ UNCHANGED ins
           \/ InstallStarts(Published \/ ins.pending) /\ UNCHANGED media
           \/ FinalizerStarts \/ GateStarts
  BY <1>6, UpdateStartsInHand, InstallStartsInHand, FinalizerStartsInHand, GateStartsInHand
<1>7. CASE UNCHANGED deployment
  BY <1>7 DEF deployment, units, database, media, JInv, InHand, IdlePlace, InstallMarker, HasJournal
<1> QED BY <1>1, <1>2, <1>3, <1>4, <1>5, <1>6, <1>7 DEF Next

LEMMA JInvHolds == Spec => []JInv
<1>1. Init => JInv
  BY DEF Init, HostInit, InstallInit, MediaInit, JInv, InHand, IdlePlace, Nobody, InstallMarker, HasJournal, Services
<1>2. DInv /\ JInv /\ [Next]_deployment => JInv'
  BY EveryStepInHand
<1> QED BY <1>1, <1>2, DInvHolds, PTL DEF Spec

-----------------------------------------------------------------------------
LeftAlone ==
    lane = "working" =>
        /\ UNCHANGED Runtime
        /\ lane' = "off" => faults' # faults

\* What a job in progress says of the script that runs.
LEMMA HandsOff ==
    ASSUME DInv, JInv, lane = "working", proc.who # "none"
    PROVE  /\ proc.at \notin IdleAt /\ ~Restoring
           /\ proc.at \notin PreparedAt \cup RestoringAt \cup KeepingAt
<1>1. proc.at \notin IdleAt
  BY DEF JInv, IdlePlace
<1>2. ~Restoring /\ ~(ins.active /\ ins.state = "HEALTHY")
  BY DEF DInv, Core, InsSaved, JInv, InHand, InstallMarker
<1>3. proc.at \notin PreparedAt
  BY <1>2 DEF DInv, Places, PlaceOK, InsPlace, Restoring, RestorableStates
<1>4. proc.at \notin RestoringAt \cup KeepingAt
  BY <1>2 DEF DInv, Places, PlaceOK, RecoverPlace, Restoring, RestorableStates
<1> QED BY <1>1, <1>2, <1>3, <1>4

LEMMA NoChild ==
    ASSUME DInv, JInv, lane = "working" PROVE child # "running"
BY DEF DInv, Core, ChildAlone, InsSaved

LEMMA WorldLeavesJobs ==
    ASSUME DInv, JInv, JobSteps \/ SystemSteps \/ Disturbances PROVE LeftAlone
<1>1. CASE JobSteps
  BY <1>1 DEF JobSteps, Look, Claim, LeaveJob, Request, LeftAlone, Runtime, units, runtime, packages
<1>2. CASE SystemSteps
  BY <1>2, NoChild DEF SystemSteps, BootUnits, Started, NativeStart, NativeEnd, ChildEnds, LeftAlone, Runtime,
     database, runtime, packages
<1>3. CASE WorkerDies(Published)
  BY <1>3 DEF WorkerDies, DInv, Typed, LeftAlone, Runtime, database, runtime, packages
<1>4. CASE Kill
  BY <1>4 DEF Kill, LeftAlone, Runtime, units, database, runtime, packages
<1>5. CASE Reboot
  BY <1>5, NoChild DEF Reboot, LeftAlone, Runtime, database, runtime
<1> QED BY <1>1, <1>2, <1>3, <1>4, <1>5 DEF Disturbances

LEMMA UpdateLeavesJobs ==
    ASSUME DInv, JInv, UpdateNext PROVE LeftAlone
<1> USE DEF LeftAlone, Runtime, units, database, runtime, packages
<1>1. CASE UpdateBegins \/ UpdateStopsApi \/ UpdateLooksAtQueue \/ PauseTimers \/ NativeIsOver
  BY <1>1 DEF UpdateBegins, UpdateStopsApi, Stopped, UpdateLooksAtQueue, PauseTimers, NativeIsOver
<1>2. CASE UpdateStopsWorker \/ ValidationStarts \/ ValidationStops
  BY <1>2, HandsOff DEF UpdateStopsWorker, ValidationStarts, ValidationStops, At, IdleAt, ForwardAt, BegunAt, TryAt
<1>3. CASE AptApply \/ AptApplied \/ UpdateSwitches
  BY <1>3, HandsOff DEF AptApply, AptApplied, UpdateSwitches, At, IdleAt, ForwardAt, ApplyAt
<1>4. CASE AptFindsNothing \/ AptPrepare \/ AptPublish \/ UpdatePrepared \/ AptValidate \/ UpdateStages
           \/ UpdateBuilds \/ UpdateTests \/ UpdateRemoves \/ CandidateDiscarded
  BY <1>4 DEF AptFindsNothing, AptPrepare, AptPublish, UpdatePrepared, AptValidate, UpdateStages,
     UpdateBuilds, UpdateTests, UpdateRemoves, CandidateDiscarded
<1>5. CASE Activating \/ UpdateHealthy \/ AptCommit \/ AptCommitted \/ UpdateCommits
  BY <1>5 DEF Activating, UpdateHealthy, AptCommit, AptCommitted, UpdateCommits
<1> QED BY <1>1, <1>2, <1>3, <1>4, <1>5 DEF UpdateNext

LEMMA RecoveryLeavesJobs ==
    ASSUME DInv, JInv, RuntimeRecoveryNext PROVE LeftAlone
<1> USE DEF LeftAlone, Runtime, units, database, runtime, packages
<1>1. CASE RecoveryLooks \/ AptCleared \/ RecoveryDiscards \/ RestoreTimers \/ JournalCleared \/ RecoveryEnds
  BY <1>1 DEF RecoveryLooks, AptCleared, RecoveryDiscards, RestoreTimers, JournalCleared, RecoveryEnds
<1>2. CASE RecoveryStops \/ RecoveryGoesBack \/ AptRecovers \/ AptRolledBack \/ RecoveryGoesForth
  BY <1>2, HandsOff DEF RecoveryStops, RecoveryGoesBack, AptRecovers, AptRolledBack, RecoveryGoesForth, At, IdleAt,
     BackAt
<1>3. CASE RestoreUnits
  <2>1. HasJournal
    BY <1>3 DEF RestoreUnits, At, DInv, Places, PlaceOK, BackPlace, EndAt
  <2>2. lane = "working" => "worker" \in journal.up /\ "worker" \in up
    BY <2>1 DEF JInv, InHand
  <2> QED BY <1>3, <2>2 DEF RestoreUnits
<1> QED BY <1>1, <1>2, <1>3 DEF RuntimeRecoveryNext

LEMMA InstallLeavesJobs ==
    ASSUME DInv, JInv, InstallNext PROVE LeftAlone
<1> USE DEF LeftAlone, Runtime, units, database, runtime, packages
<1>1. CASE InstallBegins \/ InstallStopsApi \/ InstallLooksAtQueue \/ InstallPausesTimers \/ InstallIsAlone
           \/ SnapshotDatabase \/ InstallPrepares
  BY <1>1 DEF InstallBegins, InstallStopsApi, Stopped, InstallLooksAtQueue, InstallPausesTimers, InstallIsAlone,
     SnapshotDatabase, InstallPrepares
<1>2. CASE InstallAptEnded \/ InstallBuilds \/ InstallPublishesWeb \/ InstallEnables \/ InstallHealthy
  BY <1>2 DEF InstallAptEnded, InstallBuilds, InstallPublishesWeb, InstallEnables, InstallHealthy
<1>3. CASE InstallStopsWorker
  BY <1>3, HandsOff DEF InstallStopsWorker, At, IdleAt
<1>4. CASE InstallConfigures \/ InstallApt \/ SwitchApp \/ SwitchTools \/ InstallHost \/ InitDatabase
           \/ InstallValidates \/ InstallStops
  BY <1>4, HandsOff DEF InstallConfigures, InstallApt, SwitchApp, SwitchTools, InstallHost, InitDatabase,
     InstallValidates, InstallStops, At, PreparedAt, Untouched, Switched, AfterHost
<1> QED BY <1>1, <1>2, <1>3, <1>4 DEF InstallNext

LEMMA RestoreLeavesJobs ==
    ASSUME DInv, JInv, InstallRecoveryNext PROVE LeftAlone
<1> USE DEF LeftAlone, Runtime, units, database, runtime, packages
<1>1. CASE QuiesceChild \/ Decide \/ RestoreEnablement \/ Restored \/ KeepEnablement \/ InstallCommits
           \/ PublishPending \/ ClearActive \/ ClearPending
  BY <1>1 DEF QuiesceChild, Decide, RestoreEnablement, Restored, KeepEnablement, InstallCommits,
     PublishPending, ClearActive, ClearPending
<1>2. CASE StopRuntime \/ RestoreDatabase \/ RestoreHost \/ RestoreApp \/ RestoreTools
  BY <1>2, HandsOff DEF StopRuntime, RestoreDatabase, RestoreHost, RestoreApp, RestoreTools, At, RestoringAt, KeepingAt
<1>3. CASE QuiesceNative
  <2>1. ASSUME lane = "working" PROVE child = "no"
    <3>1. InstallMarker /\ ~Restoring
      BY <1>3, <2>1, HandsOff DEF QuiesceNative, At, DInv, Places, PlaceOK, RecoverPlace
    <3> QED BY <3>1 DEF DInv, Core, Apart, Sound
  <2> QED BY <1>3, <2>1 DEF QuiesceNative
<1>4. CASE StartUnits
  <2>1. ins.state \in {"RESTORED", "COMMITTED"} /\ InstallMarker
    BY <1>4 DEF StartUnits, At, DInv, Places, PlaceOK, RecoverPlace, JInv, IdlePlace, InstallMarker
  <2>2. lane = "working" => "worker" \in up /\ (ins.state = "COMMITTED" \/ "worker" \in ins.up)
    BY <2>1 DEF JInv, InHand
  <2> QED BY <1>4, <2>2 DEF StartUnits, Services
<1> QED BY <1>1, <1>2, <1>3, <1>4 DEF InstallRecoveryNext

LEMMA JobsKept ==
    ASSUME DInv, JInv, [Next]_deployment PROVE LeftAlone
<1> USE DEF LeftAlone, Runtime, units, database, runtime, packages
<1>1. CASE UpdateFails \/ AptRollbackFails \/ RecoveryFails \/ InstallFails \/ RestoreFails
  BY <1>1 DEF UpdateFails, AptRollbackFails, RecoveryFails, InstallFails, RestoreFails
<1>2. CASE UpdateStarts(Published \/ ins.pending) \/ InstallStarts(Published \/ ins.pending)
           \/ FinalizerStarts \/ GateStarts \/ InstallRecovered(HasJournal)
  BY <1>2 DEF UpdateStarts, InstallStarts, FinalizerStarts, GateStarts, InstallRecovered
<1>3. CASE UNCHANGED deployment
  BY <1>3 DEF deployment
<1> QED BY <1>1, <1>2, <1>3, WorldLeavesJobs, UpdateLeavesJobs, RecoveryLeavesJobs, InstallLeavesJobs,
           RestoreLeavesJobs DEF Next

(* JobsAreLeftAlone of Deployment: while claim_lane has given the worker a   *)
(* job, no updater changes what it runs with, and only a crash stops it.      *)
THEOREM JobsInHandAreLeftAlone == Spec => JobsAreLeftAlone
<1>1. DInv /\ JInv /\ [Next]_deployment => [LeftAlone]_deployment
  BY JobsKept
<1>2. JobsAreLeftAlone <=> [][LeftAlone]_deployment
  BY DEF JobsAreLeftAlone, LeftAlone
<1> QED BY <1>1, <1>2, DInvHolds, JInvHolds, PTL DEF Spec

-----------------------------------------------------------------------------
(* The refinement.  What the machine will settle on is what the open journal *)
(* says, or what is installed if there is none.                              *)
MediaRuntime == [
    app |-> app, host |-> app, schema |-> app,
    pkgs |-> IF Mine THEN (IF apt.state = "COMMITTED" THEN apt.id ELSE apt.old) ELSE pkgs,
    tools |-> IF KeepCandidate THEN Target ELSE journal.prev]

PastRuntime == [
    app |-> ins.app, host |-> ins.app, schema |-> ins.app, pkgs |-> pkgs, tools |-> ins.tools]

PresentRuntime == [app |-> app, host |-> app, schema |-> app, pkgs |-> pkgs, tools |-> tools]

LEMMA SettledByUpdate ==
    DInv /\ HasJournal => Settled = MediaRuntime
<1> SUFFICES ASSUME DInv, HasJournal PROVE Settled = MediaRuntime
  OBVIOUS
<1>1. ~InstallGoesBack /\ MediaSaved /\ PackagesTrue
  BY DEF DInv, Core, Apart, InstallMarker, InstallGoesBack
<1>2. Settled.app = app /\ Settled.host = app /\ Settled.schema = app
  BY <1>1 DEF Settled, MediaSaved
<1>3. Settled.tools = IF KeepCandidate THEN Target ELSE journal.prev
  BY <1>1 DEF Settled, Target
<1>4. Settled.pkgs = IF Mine THEN (IF apt.state = "COMMITTED" THEN apt.id ELSE apt.old) ELSE pkgs
  <2>1. CASE ~Mine
    BY <1>1, <2>1 DEF Settled, PackagesGoBack, MediaSaved
  <2>2. CASE Mine /\ apt.state = "COMMITTED"
    BY <1>1, <2>2 DEF Settled, PackagesGoBack, PackageCommitted, PackagesChanged, MediaSaved, PackagesTrue, Mine
  <2>3. CASE Mine /\ apt.state # "COMMITTED"
    BY <1>1, <2>3, AptFields DEF Settled, PackagesGoBack, PackageCommitted, PackagesChanged, MediaSaved, PackagesTrue, Mine,
       AptStates, AptRecoverable, AptFinal
  <2> QED BY <2>1, <2>2, <2>3
<1> QED BY <1>2, <1>3, <1>4 DEF Settled, MediaRuntime

LEMMA SettledByInstall ==
    DInv /\ Restoring => Settled = PastRuntime
<1> SUFFICES ASSUME DInv, Restoring PROVE Settled = PastRuntime
  OBVIOUS
<1>1. InstallGoesBack /\ InsSaved /\ ~HasJournal /\ ~apt.active
  BY DEF DInv, Core, Apart, InstallMarker, InstallGoesBack, Restoring
<1> QED BY <1>1 DEF Settled, PastRuntime, InsSaved, PackagesGoBack

LEMMA SettledAsInstalled ==
    DInv /\ ~HasJournal /\ ~Restoring => Settled = PresentRuntime
<1> SUFFICES ASSUME DInv, ~HasJournal, ~Restoring PROVE Settled = PresentRuntime
  OBVIOUS
<1>1. ~InstallGoesBack /\ Sound /\ ~apt.active
  BY DEF DInv, Core, Apart, InstallMarker, InstallGoesBack, Restoring
<1> QED BY <1>1 DEF Settled, PresentRuntime, Sound, PackagesGoBack

Settles ==
    /\ HasJournal => Settled = MediaRuntime
    /\ Restoring => Settled = PastRuntime
    /\ ~HasJournal /\ ~Restoring => Settled = PresentRuntime

LEMMA SettledSoon == DInv => Settles
BY SettledByUpdate, SettledByInstall, SettledAsInstalled DEF Settles

LEMMA SettledNext == DInv' => Settles'
BY SettledSoon, PTL

\* While an update has its journal, its steps leave what the machine settles
\* on, unless the decision to keep the candidate changes.
LEMMA SameDecision ==
    ASSUME DInv, DInv', HasJournal, HasJournal', app' = app, journal'.prev = journal.prev,
           KeepCandidate' <=> KeepCandidate, KeepCandidate => Target' = Target,
           Mine' <=> Mine, Mine => (apt'.state = "COMMITTED" <=> apt.state = "COMMITTED"),
           Mine => apt'.old = apt.old /\ apt'.id = apt.id, ~Mine => pkgs' = pkgs
    PROVE  Settled' = Settled
<1>1. Settled = MediaRuntime /\ Settled' = MediaRuntime'
  BY SettledSoon, SettledNext DEF Settles
<1>2. MediaRuntime' = MediaRuntime
  BY DEF MediaRuntime
<1> QED BY <1>1, <1>2

LEMMA MovesSettled ==
    ASSUME UNCHANGED <<app, tools, host, schema, pkgs, journal, apt, ins>>
    PROVE  Settled' = Settled
BY DEF Settled, InstallGoesBack, PackagesGoBack, PackageCommitted, PackagesChanged, HasJournal, KeepCandidate

\* The pointer and the packages on their way.
LEMMA PartsSettled ==
    ASSUME DInv, DInv', UNCHANGED ins,
           UpdateSwitches \/ RecoveryGoesBack \/ RecoveryGoesForth \/ AptApply \/ AptApplied \/ AptRolledBack
    PROVE  Settled' = Settled
<1>1. HasJournal /\ (\/ apt.active \/ UNCHANGED <<apt, pkgs>>)
  BY DEF UpdateSwitches, RecoveryGoesBack, RecoveryGoesForth, AptApply, AptApplied, AptRolledBack, At, DInv,
     Places, PlaceOK, UpdatePlace, BegunPlace, BuildPlace, BackPlace, ForwardAt, ApplyAt, BackAt, media, packages
<1>2. UNCHANGED <<app, journal>>
  BY DEF UpdateSwitches, RecoveryGoesBack, RecoveryGoesForth, AptApply, AptApplied, AptRolledBack, runtime, media
<1>3. /\ apt'.old = apt.old /\ apt'.id = apt.id /\ apt'.active = apt.active
      /\ apt'.state = "COMMITTED" <=> apt.state = "COMMITTED"
  BY AptFields DEF UpdateSwitches, RecoveryGoesBack, RecoveryGoesForth, AptApply, AptApplied, AptRolledBack, Apt,
     AptRecords, At, DInv, Places, PlaceOK, UpdatePlace, BuildPlace, BackPlace, media
<1>4. apt.active => Mine
  BY <1>1 DEF DInv, Core, MediaSaved
<1>5. (Mine' <=> Mine) /\ (KeepCandidate' <=> KeepCandidate) /\ Target' = Target /\ HasJournal'
  BY <1>1, <1>2, <1>3 DEF Mine, KeepCandidate, PackagesChanged, PackageCommitted, Target, HasJournal
<1> QED BY <1>1, <1>2, <1>3, <1>4, <1>5, SameDecision

\* The package transaction of a recovery.
LEMMA PackagesSettled ==
    ASSUME DInv, DInv', UNCHANGED ins, AptRecovers \/ AptRollbackFails \/ AptValidate
    PROVE  Settled' = Settled
<1>1. HasJournal
  BY DEF AptRecovers, AptRollbackFails, AptValidate, At, DInv, Places, PlaceOK, UpdatePlace, BegunPlace, BackPlace,
     ForwardAt, ApplyAt, BackAt
<1>2. UNCHANGED <<app, journal>> /\ (apt.active \/ UNCHANGED <<apt, pkgs>>)
  BY <1>1 DEF AptRecovers, AptRollbackFails, AptValidate, At, runtime, packages, DInv, Places, PlaceOK, UpdatePlace,
     BuildPlace, BackPlace
<1>3. /\ apt'.old = apt.old /\ apt'.id = apt.id /\ apt'.active = apt.active
      /\ apt'.state = "COMMITTED" <=> apt.state = "COMMITTED"
  BY AptFields DEF AptRecovers, AptRollbackFails, AptValidate, Apt, AptRecords, AptRecoverable, At, DInv, Places,
     PlaceOK, UpdatePlace, BuildPlace, BackPlace
<1>4. apt.active => Mine
  BY <1>1 DEF DInv, Core, MediaSaved
<1>5. (Mine' <=> Mine) /\ (KeepCandidate' <=> KeepCandidate) /\ Target' = Target /\ HasJournal'
  BY <1>1, <1>2, <1>3 DEF Mine, KeepCandidate, PackagesChanged, PackageCommitted, Target, HasJournal
<1> QED BY <1>1, <1>2, <1>3, <1>4, <1>5, SameDecision

\* The record of the package transaction before anything changes.
LEMMA AptPrepareSettled ==
    ASSUME DInv, DInv', UNCHANGED ins, AptPrepare PROVE Settled' = Settled
<1>1. HasJournal /\ ~Mine /\ journal.state = "BEGUN"
  BY DEF AptPrepare, At, DInv, Places, PlaceOK, UpdatePlace, BegunPlace, ForwardAt, BegunAt
<1>2. UNCHANGED <<app, journal, pkgs>> /\ apt'.old = pkgs /\ apt'.state = "PREPARED"
  BY DEF AptPrepare, runtime, packages
<1>3. Settled = MediaRuntime /\ Settled' = MediaRuntime' /\ ~KeepCandidate /\ ~KeepCandidate'
  BY <1>1, <1>2, SettledSoon, SettledNext DEF Settles, HasJournal, KeepCandidate
<1>4. MediaRuntime' = MediaRuntime
  BY <1>1, <1>2, <1>3 DEF MediaRuntime
<1> QED BY <1>3, <1>4

LEMMA MarkerSettled ==
    ASSUME DInv, DInv', UNCHANGED ins, AptPublish \/ AptCommitted \/ AptCleared
    PROVE  Settled' = Settled
<1>1. HasJournal /\ UNCHANGED <<app, journal, pkgs>>
  BY DEF AptPublish, AptCommitted, AptCleared, At, DInv, Places, PlaceOK, UpdatePlace, BegunPlace, BackPlace,
     ForwardAt, BegunAt, CommitAt, BackAt, runtime, packages
<1>2. apt'.old = apt.old /\ apt'.id = apt.id /\ apt'.state = apt.state
  BY AptFields DEF AptPublish, AptCommitted, AptCleared, AptRecords
<1>3. KeepCandidate' <=> KeepCandidate
  <2>1. CASE journal.changed
    BY <1>1, <1>2, <2>1 DEF KeepCandidate, PackagesChanged, PackageCommitted, HasJournal
  <2>2. CASE ~journal.changed /\ Mine
    BY <1>1, <2>2 DEF KeepCandidate, HasJournal, DInv, Core, MediaSaved
  <2>3. CASE ~Mine
    BY <1>1, <1>2, <2>3 DEF KeepCandidate, PackagesChanged, PackageCommitted, HasJournal, Mine
  <2> QED BY <2>1, <2>2, <2>3
<1>4. (Mine' <=> Mine) /\ Target' = Target /\ HasJournal'
  BY <1>1, <1>2 DEF Mine, Target, HasJournal
<1> QED BY <1>1, <1>2, <1>3, <1>4, SameDecision

\* The journal up to the trial of the candidate.
LEMMA JournalSettled ==
    ASSUME DInv, DInv', UNCHANGED ins, UpdatePrepared \/ UpdateStages \/ CandidateDiscarded \/ Activating
    PROVE  Settled' = Settled
<1>1. HasJournal /\ journal.state \in {"BEGUN", "APT_PREPARED", "STAGING"} /\ UNCHANGED <<app, apt, pkgs>>
  BY DEF UpdatePrepared, UpdateStages, CandidateDiscarded, Activating, At, DInv, Places, PlaceOK, UpdatePlace,
     BegunPlace, BuildPlace, ForwardAt, BegunAt, ApplyAt, StageAt, runtime, packages
<1>2. /\ journal'.id = journal.id /\ journal'.prev = journal.prev
      /\ journal'.state \in {"APT_PREPARED", "STAGING", "ACTIVATING"}
  <2>1. CASE UpdatePrepared
    BY <1>1, <2>1, JournalFields DEF UpdatePrepared, JournalRecords
  <2>2. CASE UpdateStages
    BY <1>1, <2>2, JournalFields DEF UpdateStages, JournalRecords
  <2>3. CASE CandidateDiscarded
    BY <1>1, <2>3, JournalFields DEF CandidateDiscarded, JournalRecords
  <2>4. CASE Activating
    BY <1>1, <2>4, JournalFields DEF Activating, JournalRecords
  <2> QED BY <2>1, <2>2, <2>3, <2>4
<1>3. ~KeepCandidate /\ ~KeepCandidate' /\ HasJournal' /\ (Mine' <=> Mine)
  BY <1>1, <1>2 DEF KeepCandidate, HasJournal, NoJournal, Mine
<1> QED BY <1>1, <1>2, <1>3, SameDecision

LEMMA UpdateCommitsSettled ==
    ASSUME DInv, DInv', UNCHANGED ins, UpdateCommits PROVE Settled' = Settled
<1>1. HasJournal /\ UNCHANGED <<app, apt, pkgs>>
  BY DEF UpdateCommits, At, DInv, Places, PlaceOK, UpdatePlace, BegunPlace, ForwardAt, CommitAt, runtime, packages
<1>2. /\ journal'.id = journal.id /\ journal'.prev = journal.prev /\ journal'.cand = journal.cand
      /\ journal'.changed = journal.changed /\ journal'.state = "COMMITTED" /\ journal.state = "HEALTHY"
  BY <1>1, JournalFields DEF UpdateCommits, Journal, JournalRecords
<1>3. (KeepCandidate' <=> KeepCandidate) /\ HasJournal' /\ (Mine' <=> Mine) /\ Target' = Target
  BY <1>1, <1>2 DEF KeepCandidate, PackagesChanged, PackageCommitted, HasJournal, NoJournal, Mine, Target
<1> QED BY <1>1, <1>2, <1>3, SameDecision

LEMMA UpdateBeginsSettled ==
    ASSUME DInv, DInv', UNCHANGED ins, UpdateBegins PROVE Settled' = Settled
<1>1. ~HasJournal /\ ~Restoring
  BY DEF UpdateBegins, At, DInv, Places, PlaceOK, InsPlace, Published, MediaMarker, Restoring
<1>2. UNCHANGED <<app, apt, pkgs>> /\ apt.id <= made /\ made \in Nat
  BY Numbers, AptFields DEF UpdateBegins, runtime, packages
<1>3. journal'.id = made + 1 /\ journal'.prev = tools /\ journal'.state = "BEGUN"
  BY DEF UpdateBegins
<1>4. HasJournal' /\ ~Mine' /\ ~KeepCandidate'
  BY <1>2, <1>3, AptFields DEF HasJournal, NoJournal, Mine, KeepCandidate
<1>5. Settled = PresentRuntime /\ Settled' = MediaRuntime'
  BY <1>1, <1>4, SettledSoon, SettledNext DEF Settles
<1>6. MediaRuntime' = PresentRuntime
  BY <1>2, <1>3, <1>4 DEF MediaRuntime, PresentRuntime
<1> QED BY <1>5, <1>6

\* Where the journal goes, the runtime is what it decided on.
LEMMA JournalClearedSettled ==
    ASSUME DInv, DInv', Outcome, UNCHANGED ins, JournalCleared PROVE Settled' = Settled
<1>1. HasJournal /\ ~apt.active /\ (KeepCandidate \/ tools = journal.prev) /\ MediaSaved /\ PackagesTrue
  BY DEF JournalCleared, At, DInv, Core, Places, PlaceOK, BackPlace, EndAt, Outcome
<1>2. UNCHANGED <<app, apt, pkgs, tools>> /\ ~HasJournal' /\ ~Restoring'
  BY <1>1 DEF JournalCleared, HasJournal, runtime, packages, Restoring, DInv, Core, Apart, InstallMarker
<1>3. Settled = MediaRuntime /\ Settled' = PresentRuntime'
  BY <1>1, <1>2, SettledSoon, SettledNext DEF Settles
<1>4. Mine => pkgs = IF apt.state = "COMMITTED" THEN apt.id ELSE apt.old
  BY <1>1, AptFields DEF MediaSaved, PackagesTrue, AptFinal
<1>5. tools = IF KeepCandidate THEN Target ELSE journal.prev
  BY <1>1 DEF MediaSaved
<1>6. PresentRuntime' = MediaRuntime
  BY <1>2, <1>4, <1>5 DEF MediaRuntime, PresentRuntime
<1> QED BY <1>3, <1>6

\* The candidate has been tried out.  Without new packages it replaces the
\* tools now; with them it waits for the package transaction.
LEMMA UpdateHealthySettled ==
    ASSUME DInv, DInv', UNCHANGED ins, UpdateHealthy PROVE Settled' = Settled \/ Atomic!Replace({"tools"})
<1>1. /\ HasJournal /\ (apt.active <=> journal.changed)
      /\ \/ journal.state = "ACTIVATING" /\ journal.cand = journal.id
         \/ journal.state = "APT_PREPARED" /\ ~journal.changed /\ journal.cand = NoRelease
  BY DEF UpdateHealthy, At, DInv, Places, PlaceOK, UpdatePlace, BegunPlace, BuildPlace, ForwardAt, TryAt
<1>2. UNCHANGED <<app, apt, pkgs>> /\ MediaSaved /\ PackagesTrue
  BY DEF UpdateHealthy, runtime, packages, DInv, Core
<1>3. /\ journal'.id = journal.id /\ journal'.prev = journal.prev /\ journal'.cand = journal.cand
      /\ journal'.changed = journal.changed /\ journal'.state = "HEALTHY"
  BY <1>1, JournalFields DEF UpdateHealthy, Journal, JournalRecords
<1>4. HasJournal' /\ (Mine' <=> Mine) /\ Target' = Target /\ ~KeepCandidate
  BY <1>1, <1>2, <1>3 DEF HasJournal, NoJournal, Mine, Target, KeepCandidate
<1>5. CASE journal.changed \/ journal.cand = NoRelease
  <2>1. Settled = MediaRuntime /\ Settled' = MediaRuntime'
    BY <1>1, <1>4, SettledSoon, SettledNext DEF Settles
  <2>2. journal.changed => ~KeepCandidate'
    BY <1>1, <1>2, <1>3, AptFields DEF KeepCandidate, PackagesChanged, PackageCommitted, MediaSaved, PackagesTrue, Mine
  <2>3. MediaRuntime' = MediaRuntime
    BY <1>2, <1>3, <1>4, <1>5, <2>2 DEF MediaRuntime, Target
  <2> QED BY <2>1, <2>3
<1>6. CASE ~journal.changed /\ journal.cand = journal.id
  <2>1. ~Mine /\ ~apt.active
    BY <1>1, <1>2, <1>6 DEF MediaSaved
  <2>2. KeepCandidate' /\ Target' = journal.id
    BY <1>1, <1>2, <1>3, <1>4, <1>6, <2>1, JournalFields DEF KeepCandidate, PackagesChanged, Target, Mine, NoRelease
  <2>3. Settled = [app |-> app, host |-> app, schema |-> app, pkgs |-> pkgs, tools |-> journal.prev]
    BY <1>1, <1>4, <2>1, SettledSoon DEF Settles, MediaRuntime
  <2>4. Settled' = [app |-> app, host |-> app, schema |-> app, pkgs |-> pkgs, tools |-> journal.id]
    BY <1>2, <1>4, <2>1, <2>2, SettledNext DEF Settles, MediaRuntime
  <2>5. journal.id > journal.prev /\ journal.id > app /\ journal.id > pkgs
    BY <1>1, <1>2, <2>1, JournalFields, Numbers DEF MediaSaved, OldPkgs
  <2> QED BY <2>3, <2>4, <2>5 DEF Atomic!Replace
<1> QED BY <1>1, <1>5, <1>6

\* The end of the package transaction decides for both.
LEMMA AptCommitSettled ==
    ASSUME DInv, DInv', Outcome, UNCHANGED ins, AptCommit PROVE Atomic!Replace({"pkgs", "tools"})
<1>1. HasJournal /\ journal.changed /\ apt.active /\ journal.state = "HEALTHY" /\ journal.cand = journal.id
  BY DEF AptCommit, At, DInv, Places, PlaceOK, UpdatePlace, BegunPlace, BuildPlace, ForwardAt, CommitAt, Outcome
<1>2. UNCHANGED <<app, journal, pkgs>> /\ MediaSaved /\ apt.state \in {"APPLIED", "VALIDATING"}
  BY DEF AptCommit, runtime, packages, DInv, Core
<1>3. apt'.id = apt.id /\ apt'.state = "COMMITTED" /\ apt'.active = apt.active
  BY AptFields DEF AptCommit, Apt, AptRecords
<1>4. Mine /\ HasJournal' /\ Mine' /\ ~KeepCandidate /\ KeepCandidate' /\ Target' = journal.id
  BY <1>1, <1>2, <1>3, JournalFields DEF MediaSaved, HasJournal, Mine, KeepCandidate, PackagesChanged,
     PackageCommitted, Target, NoRelease
<1>5. Settled = [app |-> app, host |-> app, schema |-> app, pkgs |-> apt.old, tools |-> journal.prev]
  BY <1>1, <1>2, <1>4, SettledSoon DEF Settles, MediaRuntime
<1>6. Settled' = [app |-> app, host |-> app, schema |-> app, pkgs |-> journal.id, tools |-> journal.id]
  BY <1>2, <1>3, <1>4, SettledNext DEF Settles, MediaRuntime, Mine
<1>7. journal.id > journal.prev /\ journal.id > app /\ journal.id > apt.old
  BY <1>1, <1>2, <1>4, JournalFields, AptFields, Numbers DEF MediaSaved, OldPkgs
<1> QED BY <1>5, <1>6, <1>7 DEF Atomic!Replace

-----------------------------------------------------------------------------
\* An installation that can still go back settles on what it found.
LEMMA PastSettled ==
    ASSUME DInv, DInv', Restoring, Restoring', UNCHANGED pkgs, ins'.app = ins.app, ins'.tools = ins.tools
    PROVE  Settled' = Settled
<1>1. Settled = PastRuntime /\ Settled' = PastRuntime'
  BY SettledSoon, SettledNext DEF Settles
<1>2. PastRuntime' = PastRuntime
  BY DEF PastRuntime
<1> QED BY <1>1, <1>2

LEMMA PresentSettled ==
    ASSUME DInv, DInv', ~HasJournal, ~Restoring, ~HasJournal', ~Restoring', UNCHANGED <<app, tools, pkgs>>
    PROVE  Settled' = Settled
<1>1. Settled = PresentRuntime /\ Settled' = PresentRuntime'
  BY SettledSoon, SettledNext DEF Settles
<1>2. PresentRuntime' = PresentRuntime
  BY DEF PresentRuntime
<1> QED BY <1>1, <1>2

\* What the installer builds, and what the recovery puts back.
LEMMA PutBackSettled ==
    ASSUME DInv, DInv', UNCHANGED media,
           \/ InstallConfigures \/ SwitchApp \/ SwitchTools \/ InstallHost \/ InitDatabase
           \/ RestoreDatabase \/ RestoreHost \/ RestoreApp \/ RestoreTools
    PROVE  Settled' = Settled
<1>1. Restoring
  BY DEF InstallConfigures, SwitchApp, SwitchTools, InstallHost, InitDatabase, RestoreDatabase, RestoreHost,
     RestoreApp, RestoreTools, At, DInv, Places, PlaceOK, InsPlace, RecoverPlace, PreparedAt, Untouched, Switched,
     RestoringAt, Restoring, RestorableStates
<1>2. UNCHANGED <<ins, pkgs>>
  BY DEF InstallConfigures, SwitchApp, SwitchTools, InstallHost, InitDatabase, RestoreDatabase, RestoreHost,
     RestoreApp, RestoreTools, packages
<1>3. Restoring'
  BY <1>1, <1>2 DEF Restoring
<1> QED BY <1>1, <1>2, <1>3, PastSettled

\* The journal of the installer at rest.
LEMMA RestSettled ==
    ASSUME DInv, DInv', UNCHANGED media,
           \/ InstallBegins \/ SnapshotDatabase \/ InstallCommits \/ PublishPending \/ ClearActive \/ ClearPending
    PROVE  Settled' = Settled
<1>1. ~HasJournal /\ ~Restoring
  BY DEF InstallBegins, SnapshotDatabase, InstallCommits, PublishPending, ClearActive, ClearPending, At, DInv,
     Core, Apart, Places, PlaceOK, InsPlace, RecoverPlace, Restoring, RestorableStates, Published, MediaMarker,
     InstallMarker, ObservingAt, KeepingAt
<1>2. UNCHANGED <<app, tools, pkgs>> /\ ~HasJournal'
  BY <1>1 DEF InstallBegins, SnapshotDatabase, InstallCommits, PublishPending, ClearActive, ClearPending, runtime,
     packages, HasJournal, media
<1>3. ~(ins'.active /\ ins'.state \in RestorableStates)
  <2>1. CASE InstallBegins
    BY <2>1 DEF InstallBegins, RestorableStates
  <2>2. CASE InstallCommits
    BY <2>2, InsFields DEF InstallCommits, Ins, InsRecords, RestorableStates
  <2>3. CASE SnapshotDatabase \/ PublishPending \/ ClearActive \/ ClearPending
    <3>1. ins'.state = ins.state /\ (ins'.active => ins.active)
      BY <2>3, InsFields DEF SnapshotDatabase, PublishPending, ClearActive, ClearPending, InsRecords
    <3> QED BY <1>1, <3>1 DEF Restoring
  <2> QED BY <2>1, <2>2, <2>3
<1>4. ~Restoring'
  BY <1>3 DEF Restoring
<1> QED BY <1>1, <1>2, <1>4, PresentSettled

LEMMA InstallPreparesSettled ==
    ASSUME DInv, DInv', UNCHANGED media, InstallPrepares PROVE Settled' = Settled
<1>1. /\ ~HasJournal /\ ~Restoring /\ ins.app = app /\ ins.tools = tools
      /\ ins.active /\ ins.state = "OBSERVING"
  BY DEF InstallPrepares, DInv, Core, Apart, InsSaved, InstallMarker, Restoring, RestorableStates
<1>2. ins'.app = ins.app /\ ins'.tools = ins.tools /\ ins'.active = ins.active /\ ins'.state = "PREPARED"
  BY InsFields DEF InstallPrepares, Ins, InsRecords
<1>3. UNCHANGED pkgs /\ Restoring'
  BY <1>1, <1>2 DEF InstallPrepares, packages, Restoring, RestorableStates
<1>4. Settled = PresentRuntime /\ Settled' = PastRuntime'
  BY <1>1, <1>3, SettledSoon, SettledNext DEF Settles
<1>5. PastRuntime' = PresentRuntime
  BY <1>1, <1>2, <1>3 DEF PastRuntime, PresentRuntime
<1> QED BY <1>4, <1>5

LEMMA DecideSettled ==
    ASSUME DInv, DInv', UNCHANGED media, Decide PROVE Settled' = Settled
<1>1. UNCHANGED <<app, host, schema, tools, pkgs, journal, apt>> /\ ~HasJournal
  BY DEF Decide, At, runtime, database, packages, media, DInv, Places, PlaceOK, RecoverPlace, Core, Apart
<1>2. CASE Restoring /\ Ins("RESTORING")
  <2>1. ins'.app = ins.app /\ ins'.tools = ins.tools /\ Restoring'
    BY <1>2, InsFields DEF Ins, InsRecords, Restoring, RestorableStates
  <2> QED BY <1>1, <1>2, <2>1, PastSettled
<1>3. CASE ins.state = "OBSERVING" /\ Ins("RESTORED")
  <2>1. ~Restoring /\ ~Restoring' /\ ~HasJournal'
    BY <1>1, <1>3, InsFields DEF Ins, InsRecords, Restoring, RestorableStates, HasJournal
  <2> QED BY <1>1, <2>1, PresentSettled
<1>4. CASE UNCHANGED ins
  BY <1>1, <1>4, MovesSettled
<1> QED BY <1>2, <1>3, <1>4 DEF Decide, Restoring

LEMMA RestoredSettled ==
    ASSUME DInv, DInv', UNCHANGED media, Restored PROVE Settled' = Settled
<1>1. Restoring /\ app = ins.app /\ tools = ins.tools /\ ~HasJournal
  BY DEF Restored, At, DInv, Places, PlaceOK, RecoverPlace, RestoringAt, Restoring, RestorableStates, Core, Apart,
     InstallMarker
<1>2. UNCHANGED <<app, tools, pkgs>> /\ ~HasJournal' /\ ~Restoring'
  BY <1>1, InsFields DEF Restored, runtime, packages, HasJournal, media, Ins, InsRecords, Restoring, RestorableStates
<1>3. Settled = PastRuntime /\ Settled' = PresentRuntime'
  BY <1>1, <1>2, SettledSoon, SettledNext DEF Settles
<1>4. PresentRuntime' = PastRuntime
  BY <1>1, <1>2 DEF PastRuntime, PresentRuntime
<1> QED BY <1>3, <1>4

LEMMA RestoreFailsSettled ==
    ASSUME DInv, DInv', UNCHANGED media, RestoreFails PROVE Settled' = Settled
<1>1. Restoring
  <2>1. proc.at \in RestoringAt /\ proc.at # "end"
    BY DEF RestoreFails, RestoringAt
  <2> QED BY <2>1 DEF DInv, Aims, Places, PlaceOK, RecoverPlace, Restoring, RestorableStates
<1>2. ins'.app = ins.app /\ ins'.tools = ins.tools /\ UNCHANGED pkgs /\ Restoring'
  BY <1>1, InsFields DEF RestoreFails, Ins, InsRecords, packages, Restoring, RestorableStates
<1> QED BY <1>1, <1>2, PastSettled

\* The installation is tried out: all its parts replace the old ones.
LEMMA InstallHealthySettled ==
    ASSUME DInv, DInv', UNCHANGED media, InstallHealthy
    PROVE  Atomic!Replace({"app", "host", "schema", "tools"})
<1>1. Restoring /\ app = ins.id /\ tools = ins.id /\ ~HasJournal
  BY DEF InstallHealthy, At, DInv, Places, PlaceOK, InsPlace, PreparedAt, Switched, AfterHost, Restoring,
     RestorableStates, Core, Apart, InstallMarker
<1>2. UNCHANGED <<app, tools, pkgs>> /\ ~HasJournal' /\ ~Restoring'
  BY <1>1, InsFields DEF InstallHealthy, runtime, packages, HasJournal, media, Ins, InsRecords, Restoring,
     RestorableStates
<1>3. Settled = [app |-> ins.app, host |-> ins.app, schema |-> ins.app, pkgs |-> pkgs, tools |-> ins.tools]
  BY <1>1, SettledSoon DEF Settles, PastRuntime
<1>4. Settled' = [app |-> ins.id, host |-> ins.id, schema |-> ins.id, pkgs |-> pkgs, tools |-> ins.id]
  BY <1>1, <1>2, SettledNext DEF Settles, PresentRuntime
<1>5. ins.id > ins.app /\ ins.id > ins.tools /\ ins.id > pkgs
  BY <1>1, InsFields, Numbers DEF DInv, Core, InsSaved
<1> QED BY <1>3, <1>4, <1>5 DEF Atomic!Replace

-----------------------------------------------------------------------------
\* Every step replaces one kit as a whole or leaves the runtime alone.
Replaces == Atomic!Next \/ UNCHANGED Settled

LEMMA OneKit ==
    /\ Atomic!Replace({"tools"}) => Atomic!Next
    /\ Atomic!Replace({"pkgs", "tools"}) => Atomic!Next
    /\ Atomic!Replace({"app", "host", "schema", "tools"}) => Atomic!Next
BY DEF Atomic!Next

LEMMA WorldReplaces ==
    ASSUME (JobSteps \/ SystemSteps \/ Disturbances) /\ UNCHANGED <<media, ins>> PROVE Replaces
<1>1. UNCHANGED <<app, tools, host, schema, pkgs, journal, apt, ins>>
  BY DEF JobSteps, SystemSteps, Disturbances, Look, Claim, LeaveJob, Request, BootUnits, NativeStart, NativeEnd,
     ChildEnds, WorkerDies, Kill, Reboot, units, database, runtime, packages, media
<1> QED BY <1>1, MovesSettled DEF Replaces

LEMMA UpdateReplaces ==
    ASSUME DInv, DInv', Outcome, UNCHANGED ins, UpdateNext PROVE Replaces
<1>1. CASE \/ UpdateStopsApi \/ UpdateLooksAtQueue \/ UpdateStopsWorker \/ PauseTimers \/ NativeIsOver
           \/ AptFindsNothing \/ UpdateBuilds \/ UpdateTests \/ UpdateRemoves \/ ValidationStarts \/ ValidationStops
  <2>1. UNCHANGED <<app, tools, host, schema, pkgs, journal, apt, ins>>
    BY <1>1 DEF UpdateStopsApi, UpdateLooksAtQueue, UpdateStopsWorker, PauseTimers, NativeIsOver, AptFindsNothing,
       UpdateBuilds, UpdateTests, UpdateRemoves, ValidationStarts, ValidationStops, database, runtime, packages, media
  <2> QED BY <2>1, MovesSettled DEF Replaces
<1>2. CASE ~(\/ UpdateStopsApi \/ UpdateLooksAtQueue \/ UpdateStopsWorker \/ PauseTimers \/ NativeIsOver
             \/ AptFindsNothing \/ UpdateBuilds \/ UpdateTests \/ UpdateRemoves \/ ValidationStarts \/ ValidationStops)
  BY <1>2, PartsSettled, PackagesSettled, AptPrepareSettled, MarkerSettled, JournalSettled, UpdateCommitsSettled,
     UpdateBeginsSettled, UpdateHealthySettled, AptCommitSettled, OneKit DEF UpdateNext, Replaces
<1> QED BY <1>1, <1>2

LEMMA RecoveryReplaces ==
    ASSUME DInv, DInv', Outcome, UNCHANGED ins, RuntimeRecoveryNext PROVE Replaces
<1>1. CASE RecoveryLooks \/ RecoveryStops \/ RecoveryDiscards \/ RestoreTimers \/ RestoreUnits \/ RecoveryEnds
  <2>1. UNCHANGED <<app, tools, host, schema, pkgs, journal, apt, ins>>
    BY <1>1 DEF RecoveryLooks, RecoveryStops, RecoveryDiscards, RestoreTimers, RestoreUnits, RecoveryEnds,
       database, runtime, packages, media
  <2> QED BY <2>1, MovesSettled DEF Replaces
<1>2. CASE RecoveryGoesBack \/ AptRecovers \/ AptRolledBack \/ AptCleared \/ RecoveryGoesForth \/ JournalCleared
  BY <1>2, PartsSettled, PackagesSettled, MarkerSettled, JournalClearedSettled DEF Replaces
<1> QED BY <1>1, <1>2 DEF RuntimeRecoveryNext

LEMMA InstallReplaces ==
    ASSUME DInv, DInv', UNCHANGED media, InstallNext PROVE Replaces
<1>1. CASE \/ InstallStopsApi \/ InstallLooksAtQueue \/ InstallStopsWorker \/ InstallPausesTimers \/ InstallIsAlone
           \/ InstallApt \/ InstallAptEnded \/ InstallBuilds \/ InstallPublishesWeb \/ InstallEnables
           \/ InstallValidates \/ InstallStops
  <2>1. UNCHANGED <<app, tools, host, schema, pkgs, journal, apt, ins>>
    BY <1>1 DEF InstallStopsApi, InstallLooksAtQueue, InstallStopsWorker, InstallPausesTimers, InstallIsAlone,
       InstallApt, InstallAptEnded, InstallBuilds, InstallPublishesWeb, InstallEnables, InstallValidates,
       InstallStops, database, runtime, packages, media
  <2> QED BY <2>1, MovesSettled DEF Replaces
<1>2. CASE \/ InstallBegins \/ SnapshotDatabase \/ InstallPrepares \/ InstallConfigures \/ SwitchApp \/ SwitchTools
           \/ InstallHost \/ InitDatabase \/ InstallHealthy
  BY <1>2, RestSettled, InstallPreparesSettled, PutBackSettled, InstallHealthySettled, OneKit DEF Replaces
<1> QED BY <1>1, <1>2 DEF InstallNext

LEMMA RestoreReplaces ==
    ASSUME DInv, DInv', UNCHANGED media, InstallRecoveryNext PROVE Replaces
<1>1. CASE QuiesceChild \/ QuiesceNative \/ StopRuntime \/ RestoreEnablement \/ KeepEnablement \/ StartUnits
  <2>1. UNCHANGED <<app, tools, host, schema, pkgs, journal, apt, ins>>
    BY <1>1 DEF QuiesceChild, QuiesceNative, StopRuntime, RestoreEnablement, KeepEnablement, StartUnits,
       database, runtime, packages, media
  <2> QED BY <2>1, MovesSettled DEF Replaces
<1>2. CASE \/ Decide \/ RestoreDatabase \/ RestoreHost \/ RestoreApp \/ RestoreTools \/ Restored \/ InstallCommits
           \/ PublishPending \/ ClearActive \/ ClearPending
  BY <1>2, RestSettled, DecideSettled, PutBackSettled, RestoredSettled DEF Replaces
<1> QED BY <1>1, <1>2 DEF InstallRecoveryNext

LEMMA EveryStepReplaces ==
    ASSUME DInv, DInv', Outcome, [Next]_deployment PROVE Replaces
<1> USE DEF units, database, runtime, packages, media
<1>1. CASE \/ (UpdateFails \/ RecoveryFails) /\ UNCHANGED ins
           \/ (InstallRecovered(HasJournal) \/ InstallFails) /\ UNCHANGED media
           \/ UpdateStarts(Published \/ ins.pending) /\ UNCHANGED ins
           \/ InstallStarts(Published \/ ins.pending) /\ UNCHANGED media
           \/ FinalizerStarts \/ GateStarts \/ UNCHANGED deployment
  <2>1. UNCHANGED <<app, tools, host, schema, pkgs, journal, apt, ins>>
    BY <1>1 DEF UpdateFails, RecoveryFails, InstallRecovered, InstallFails, UpdateStarts, InstallStarts,
       FinalizerStarts, GateStarts, deployment
  <2> QED BY <2>1, MovesSettled DEF Replaces
<1>2. CASE AptRollbackFails /\ UNCHANGED ins
  BY <1>2, PackagesSettled DEF Replaces
<1>3. CASE RestoreFails /\ UNCHANGED media
  BY <1>3, RestoreFailsSettled DEF Replaces
<1> QED BY <1>1, <1>2, <1>3, WorldReplaces, UpdateReplaces, RecoveryReplaces, InstallReplaces, RestoreReplaces DEF Next

-----------------------------------------------------------------------------
\* The places of which Outcome speaks.
ClosingAt == EndAt \cup {"u-apt-commit"}

LEMMA Elsewhere ==
    ASSUME proc'.who # "none" => proc'.at \notin ClosingAt PROVE Outcome'
BY DEF Outcome, ClosingAt

LEMMA WorldOutcome ==
    ASSUME Outcome, (JobSteps \/ SystemSteps \/ Disturbances) /\ UNCHANGED <<media, ins>> PROVE Outcome'
<1>1. UNCHANGED <<tools, journal, apt>> /\ (proc' = proc \/ proc' = Nobody)
  BY DEF JobSteps, SystemSteps, Disturbances, Look, Claim, LeaveJob, Request, BootUnits, NativeStart, NativeEnd,
     ChildEnds, WorkerDies, Kill, Reboot, runtime, media
<1> QED BY <1>1 DEF Outcome, Nobody, KeepCandidate, PackagesChanged, PackageCommitted, HasJournal

\* Every step but these goes elsewhere.
Closes == RecoveryLooks \/ RecoveryDiscards \/ RestoreTimers \/ RestoreUnits \/ UpdateHealthy

LEMMA UpdateElsewhere ==
    ASSUME DInv, UpdateNext, ~Closes PROVE proc'.at \notin ClosingAt
<1> USE DEF At, Go, Procs, ClosingAt, EndAt
<1>1. proc \in Procs
  BY DEF DInv, Typed
<1>2. CASE UpdateBegins \/ UpdateStopsApi \/ UpdateStopsWorker \/ PauseTimers \/ NativeIsOver \/ AptFindsNothing
  BY <1>1, <1>2 DEF UpdateBegins, UpdateStopsApi, UpdateStopsWorker, PauseTimers, NativeIsOver, AptFindsNothing
<1>3. CASE UpdateLooksAtQueue \/ AptPrepare \/ AptPublish \/ UpdatePrepared \/ AptApply \/ AptApplied
  BY <1>1, <1>3 DEF UpdateLooksAtQueue, AptPrepare, AptPublish, UpdatePrepared, AptApply, AptApplied
<1>4. CASE AptValidate \/ UpdateStages \/ UpdateBuilds \/ UpdateTests \/ UpdateRemoves \/ CandidateDiscarded
  BY <1>1, <1>4 DEF AptValidate, UpdateStages, UpdateBuilds, UpdateTests, UpdateRemoves, CandidateDiscarded
<1>5. CASE \/ Activating \/ UpdateSwitches \/ ValidationStarts \/ ValidationStops \/ AptCommit \/ AptCommitted
           \/ UpdateCommits
  BY <1>1, <1>5 DEF Activating, UpdateSwitches, ValidationStarts, ValidationStops, AptCommit, AptCommitted,
     UpdateCommits
<1> QED BY <1>2, <1>3, <1>4, <1>5 DEF UpdateNext, Closes

LEMMA RecoveryElsewhere ==
    ASSUME DInv, RuntimeRecoveryNext, ~Closes PROVE proc'.who # "none" => proc'.at \notin ClosingAt
<1> USE DEF At, Go, Procs, ClosingAt, EndAt
<1>1. proc \in Procs
  BY DEF DInv, Typed
<1>2. CASE RecoveryStops \/ RecoveryGoesBack \/ AptRecovers \/ AptRolledBack \/ AptCleared
  BY <1>1, <1>2 DEF RecoveryStops, RecoveryGoesBack, AptRecovers, AptRolledBack, AptCleared
<1>3. CASE RecoveryGoesForth \/ JournalCleared
  BY <1>1, <1>3 DEF RecoveryGoesForth, JournalCleared
<1>4. CASE RecoveryEnds
  <2>1. CASE proc.next \in {"u-begin", "i-begin"}
    <3>1. PICK n \in {"u-begin", "i-begin"} : proc' = [proc EXCEPT !.at = n, !.next = "exit"]
      BY <1>4, <2>1 DEF RecoveryEnds
    <3>2. proc'.at = n
      BY <1>1, <3>1
    <3> QED BY <3>1, <3>2
  <2>2. CASE proc.next \notin {"u-begin", "i-begin"}
    BY <1>4, <2>2 DEF RecoveryEnds, End, Nobody
  <2> QED BY <2>1, <2>2
<1> QED BY <1>2, <1>3, <1>4 DEF RuntimeRecoveryNext, Closes

LEMMA InstallElsewhere ==
    ASSUME DInv, InstallNext PROVE proc'.at \notin ClosingAt
<1> USE DEF At, Go, Recover, Procs, ClosingAt, EndAt
<1>1. proc \in Procs
  BY DEF DInv, Typed
<1>2. CASE InstallBegins \/ InstallStopsApi \/ InstallLooksAtQueue \/ InstallStopsWorker \/ InstallPausesTimers
  BY <1>1, <1>2 DEF InstallBegins, InstallStopsApi, InstallLooksAtQueue, InstallStopsWorker, InstallPausesTimers
<1>3. CASE InstallIsAlone \/ SnapshotDatabase \/ InstallPrepares \/ InstallConfigures \/ InstallApt \/ InstallAptEnded
  BY <1>1, <1>3 DEF InstallIsAlone, SnapshotDatabase, InstallPrepares, InstallConfigures, InstallApt, InstallAptEnded
<1>4. CASE InstallBuilds \/ InstallPublishesWeb \/ SwitchApp \/ SwitchTools \/ InstallHost \/ InitDatabase
  BY <1>1, <1>4 DEF InstallBuilds, InstallPublishesWeb, SwitchApp, SwitchTools, InstallHost, InitDatabase
<1>5. CASE InstallEnables \/ InstallValidates \/ InstallStops \/ InstallHealthy
  BY <1>1, <1>5 DEF InstallEnables, InstallValidates, InstallStops, InstallHealthy
<1> QED BY <1>2, <1>3, <1>4, <1>5 DEF InstallNext

LEMMA RestoreElsewhere ==
    ASSUME DInv, InstallRecoveryNext PROVE proc'.at \notin ClosingAt
<1> USE DEF At, Go, Procs, ClosingAt, EndAt
<1>1. proc \in Procs
  BY DEF DInv, Typed
<1>2. CASE QuiesceChild \/ QuiesceNative \/ Decide \/ StopRuntime \/ RestoreDatabase \/ RestoreHost
  BY <1>1, <1>2 DEF QuiesceChild, QuiesceNative, Decide, StopRuntime, RestoreDatabase, RestoreHost
<1>3. CASE RestoreApp \/ RestoreTools \/ RestoreEnablement \/ Restored \/ KeepEnablement \/ InstallCommits
  BY <1>1, <1>3 DEF RestoreApp, RestoreTools, RestoreEnablement, Restored, KeepEnablement, InstallCommits
<1>4. CASE PublishPending \/ ClearActive \/ StartUnits \/ ClearPending
  BY <1>1, <1>4 DEF PublishPending, ClearActive, StartUnits, ClearPending
<1> QED BY <1>2, <1>3, <1>4 DEF InstallRecoveryNext

\* What calls or leaves a script.
LEMMA OthersElsewhere ==
    ASSUME DInv,
           \/ UpdateFails \/ AptRollbackFails \/ RecoveryFails \/ InstallFails \/ RestoreFails
           \/ UpdateStarts(Published \/ ins.pending) \/ InstallStarts(Published \/ ins.pending)
           \/ FinalizerStarts \/ GateStarts
    PROVE  proc'.who # "none" => proc'.at \notin ClosingAt
<1>1. proc \in Procs
  BY DEF DInv, Typed
<1>2. CASE UpdateFails \/ InstallFails
  BY <1>1, <1>2 DEF UpdateFails, InstallFails, Recover, Procs, ClosingAt, EndAt
<1>3. CASE AptRollbackFails \/ RecoveryFails \/ RestoreFails
  BY <1>3 DEF AptRollbackFails, RecoveryFails, RestoreFails, End, Nobody
<1>4. CASE \/ UpdateStarts(Published \/ ins.pending) \/ InstallStarts(Published \/ ins.pending)
           \/ FinalizerStarts \/ GateStarts
  BY <1>4 DEF UpdateStarts, InstallStarts, FinalizerStarts, GateStarts, RecoveryStarts, ClosingAt, EndAt
<1> QED BY <1>2, <1>3, <1>4

LEMMA RecoveredElsewhere ==
    ASSUME DInv, InstallRecovered(HasJournal) PROVE proc'.who # "none" => proc'.at \notin ClosingAt
<1>1. proc \in Procs
  BY DEF DInv, Typed
<1>2. CASE proc.next \in {"u-begin", "i-begin"} /\ ~HasJournal
  <2>1. proc' = [proc EXCEPT !.at = proc.next, !.next = "exit"]
    BY <1>2 DEF InstallRecovered
  <2>2. proc'.at = proc.next
    BY <1>1, <2>1 DEF Procs
  <2> QED BY <1>2, <2>2 DEF ClosingAt, EndAt
<1>3. CASE HasJournal /\ proc.next # "exit"
  BY <1>1, <1>3 DEF InstallRecovered, Go, Procs, ClosingAt, EndAt
<1>4. CASE proc.next = "exit" \/ (proc.next \notin {"u-begin", "i-begin"} /\ ~HasJournal)
  <2>1. End(TRUE)
    BY <1>4 DEF InstallRecovered
  <2> QED BY <2>1 DEF End, Nobody
<1> QED BY <1>2, <1>3, <1>4 DEF HasJournal

\* The steps to those places.
LEMMA ClosesWell ==
    ASSUME DInv, Outcome, UNCHANGED ins, Closes PROVE Outcome'
<1>1. proc \in Procs
  BY DEF DInv, Typed
<1>2. CASE RecoveryLooks
  <2>1. UNCHANGED <<tools, journal, apt>>
    BY <1>2 DEF RecoveryLooks, runtime, media
  <2>2. CASE HasJournal /\ journal.state \in {"BEGUN", "COMMITTED"} /\ ~apt.active
    <3>1. KeepCandidate \/ tools = journal.prev
      BY <2>2 DEF DInv, Core, MediaSaved
    <3>2. proc'.at = "r-timers"
      BY <1>1, <1>2, <2>2 DEF RecoveryLooks, MediaMarker, Go, Procs
    <3> QED BY <2>1, <3>1, <3>2 DEF Outcome, KeepCandidate, PackagesChanged, PackageCommitted, HasJournal
  <2>3. CASE ~(HasJournal /\ journal.state \in {"BEGUN", "COMMITTED"} /\ ~apt.active)
    <3>1. proc'.at \in {"r-end", "r-stop"}
      BY <1>1, <1>2, <2>3 DEF RecoveryLooks, Go, Procs
    <3> QED BY <3>1, Elsewhere DEF ClosingAt, EndAt
  <2> QED BY <2>2, <2>3
<1>3. CASE RecoveryDiscards
  <2>1. UNCHANGED <<tools, journal, apt>> /\ proc'.at = "r-timers"
    BY <1>1, <1>3 DEF RecoveryDiscards, runtime, Go, Procs
  <2>2. KeepCandidate \/ tools = journal.prev
    BY <1>3 DEF RecoveryDiscards, At, DInv, Places, PlaceOK, BackPlace, BackAt
  <2> QED BY <2>1, <2>2 DEF Outcome, KeepCandidate, PackagesChanged, PackageCommitted, HasJournal
<1>4. CASE RestoreTimers \/ RestoreUnits
  <2>1. UNCHANGED <<tools, journal, apt>> /\ proc'.at # "u-apt-commit"
    BY <1>1, <1>4 DEF RestoreTimers, RestoreUnits, runtime, media, Go, Procs
  <2>2. proc.who # "none" /\ proc.at \in EndAt
    BY <1>4 DEF RestoreTimers, RestoreUnits, At, EndAt
  <2> QED BY <2>1, <2>2 DEF Outcome, KeepCandidate, PackagesChanged, PackageCommitted, HasJournal
<1>5. CASE UpdateHealthy
  <2>1. CASE apt.active
    <3>1. proc'.at = "u-apt-commit"
      BY <1>1, <1>5, <2>1 DEF UpdateHealthy, Go, Procs
    <3>2. HasJournal /\ journal.cand = journal.id
      BY <1>5, <2>1 DEF UpdateHealthy, At, DInv, Places, PlaceOK, UpdatePlace, BegunPlace, BuildPlace, ForwardAt, TryAt
    <3>3. journal'.cand = journal.cand /\ journal'.id = journal.id
      BY <1>5, <3>2, JournalFields DEF UpdateHealthy, Journal, JournalRecords
    <3> QED BY <3>1, <3>2, <3>3 DEF Outcome, EndAt
  <2>2. CASE ~apt.active
    <3>1. proc'.at = "u-commit"
      BY <1>1, <1>5, <2>2 DEF UpdateHealthy, Go, Procs
    <3> QED BY <3>1, Elsewhere DEF ClosingAt, EndAt
  <2> QED BY <2>1, <2>2
<1> QED BY <1>2, <1>3, <1>4, <1>5 DEF Closes

LEMMA EveryStepCloses ==
    ASSUME DInv, Outcome, [Next]_deployment PROVE Outcome'
<1>1. CASE (UpdateNext \/ RuntimeRecoveryNext) /\ UNCHANGED ins
  BY <1>1, UpdateElsewhere, RecoveryElsewhere, ClosesWell, Elsewhere
<1>2. CASE InstallNext \/ InstallRecoveryNext \/ InstallRecovered(HasJournal)
  BY <1>2, InstallElsewhere, RestoreElsewhere, RecoveredElsewhere, Elsewhere
<1>3. CASE UNCHANGED deployment
  BY <1>3 DEF deployment, runtime, media, Outcome, KeepCandidate, PackagesChanged, PackageCommitted, HasJournal
<1> QED BY <1>1, <1>2, <1>3, WorldOutcome, OthersElsewhere, Elsewhere DEF Next

LEMMA OutcomeHolds == Spec => []Outcome
<1>1. Init => Outcome
  BY DEF Init, HostInit, Outcome, Nobody
<1>2. DInv /\ Outcome /\ [Next]_deployment => Outcome'
  BY EveryStepCloses
<1> QED BY <1>1, <1>2, DInvHolds, PTL DEF Spec

(* ImplementsAtomicRuntime of Deployment: the installer and the media        *)
(* updater replace the runtime atomically, whatever fails, is killed or      *)
(* loses power on the way.                                                   *)
THEOREM UpdatesAreAtomic == Spec => ImplementsAtomicRuntime
<1>1. Init => Atomic!Init
  <2> SUFFICES ASSUME Init PROVE Atomic!Init
    OBVIOUS
  <2>2. ~HasJournal /\ ~Restoring
    BY DEF Init, MediaInit, InstallInit, HasJournal, Restoring
  <2>3. app = 0 /\ tools = 0 /\ pkgs = 0
    BY DEF Init, HostInit
  <2>4. Settled = [app |-> 0, host |-> 0, schema |-> 0, pkgs |-> 0, tools |-> 0]
    BY <2>2, <2>3, Beginning, SettledSoon DEF Settles, PresentRuntime
  <2> QED BY <2>4 DEF Atomic!Init
<1>2. DInv /\ DInv' /\ Outcome /\ [Next]_deployment => [Atomic!Next]_Settled
  BY EveryStepReplaces DEF Replaces
<1> QED BY <1>1, <1>2, DInvHolds, OutcomeHolds, PTL DEF Spec, ImplementsAtomicRuntime, Atomic!Spec
=============================================================================
