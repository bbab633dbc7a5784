# Verification of BDEncode

BDEncode (`src/bdencode`, Python) turns Blu-ray discs into encoded releases. An HTTP API keeps
jobs in a SQLite database; a worker process scans discs, encodes, muxes, checks and compares the
results; a release service builds a torrent, seeds it and publishes it; a maintenance journal
deletes what is no longer needed; root-owned helpers under `install/` install and update the
system. This directory holds TLA+ models of the parts that keep state, TLC configurations that
check them on small instances, and TLAPS proofs for every size of instance.

Paths of the repository are given without their leading `src/`.

## 1. The system

| Component | State | Operations | Hard behaviour |
|---|---|---|---|
| Job store (`db.py`, `queue.py`, `models.py`) | tables `jobs`, `scans`, `job_events` | insert, claim for a lane, transition, pause / continue / cancel, acknowledge, retry, restart, selection, progress, scan updates, delete | API threads and two worker lanes interleave at transactions; two partial unique indexes; optimistic version and control revision; provenance of failures |
| Worker lanes (`worker.py` `process_job`, `run`) | one job in hand per lane, a stop flag | take, run a stage, commit, acknowledge a request, handle seven kinds of exceptions | stale copies of a job, requests between a look and a commit, stop and crash |
| Process runner (`process.py`) | child processes | run, run_pipeline, capture, interrupt, time out | a request, a service stop, a deadline and the end of a command meet |
| Stage bodies (`worker.py`) | workspace files, stage markers | scan, prepare, encode with a source check beside it, mux, QC, comparison, upload | checkpoints that outlive their inputs, crash between an output and its marker, a background thread |
| Source staging (`source_stage.py`) | a local copy of a slow disc with its manifest | plan, copy with several readers, reuse, remove | the disc changes while it is copied, stops, stages left by other jobs |
| Languages (`media/language*.py`) | samples, results of the speech model, a report | cut, listen, agree, decide, report | caches that outlive references and selections, declarations against content |
| CRF search (`crf_search.py`) | probes, checkpoints, report | next_crf, record, outcome, resume | scores that are not monotone, rounding, probes of an older reference |
| Dynamic HDR (`hdr_dynamic.py`, `dolby_vision_scan.py`) | metadata, report, injected stream | scan, plan, extract, inject, gate | tools come and go, a selection revised between the stages |
| QC and comparison (`qc/`, `worker.py`) | evidence and checkpoint of each check | measure, mark, judge, resume under a time limit | verdicts reached before or after the checkpoint |
| Maintenance journal (`maintenance.py`) | `maintenance_operations`, quarantine directories, leases | begin, detach, domain commit, finalize, roll back, recover | crash between any two steps, two processes that recover each other's work |
| Release service (`release_service.py`, `release_store.py`, `release/`) | `release_preparations`, kit directories, receipts | create, build, check duplicates, seed, publish, delete, recover | remote effects whose answer is lost, leases, concurrent deletion, files that change while they are hashed or sent |
| HTTP API (`api.py`, `api_extras.py`) | none of its own | routes to the stores above, purge and cleanup | checks and acts in different transactions |
| Backup and migration (`db_backup.py`, `db.py`) | backup files, manifests, the WAL | create, prune, verify, migrate, restore | crash between two file operations, two processes that prune |
| Install and update (`install/`) | install journal, runtime journal, APT transaction, tool pointer, markers | begin ... commit, recover, finalize | failures, kills and reboots at any step of nested transactions; deployment lock against the worker; Debian's own updater |
| Release updater (`install/release_update.py`) | `status.json`, a download | check, verify, install | tags that move while a run works; kills |
| Media planning, command construction, profiles, frontend, native scanner | none or one file | pure functions | numeric edges |

How they interact: the API and the worker share the database (each transaction is `BEGIN
IMMEDIATE`, so transactions are serial) and the file system. Both processes run the maintenance
journal and recover it when they start. The worker polls the database for the operator's requests,
and commits that a request has overtaken are refused. The release service lives in the API
process and excludes the deletion routes through rows of both tables. An updater holds the
deployment lock that the worker takes around each claim.

`PROJECT.json` lists the components with what is and is not modelled, the lines each definition
models, and the hazards, each at the line where it bites.

## 2. Modules

| Module | What it is |
|---|---|
| `JobStates` | the states, the transition tables and the pure rules on one row of `jobs` |
| `JobLifecycle` | abstract: what the store promises of the columns state, control and resume |
| `JobStore`, `MCJobStore` | the tables `jobs` and `scans` and the newest event, one action per operation |
| `Worker` | both lanes over `JobLifecycle` |
| `CommandRun` | one call of the process runner over a pipeline of commands |
| `MaintenancePromise` | abstract: a removal is all or nothing and decided once |
| `Maintenance`, `MCMaintenance` | the journal with its callers, leases, crashes and recovery |
| `RemoteEffect` | abstract: an effect outside the machine happens at most once |
| `Release`, `MCRelease` | preparations, remote systems, the deletions of the API |
| `UploadKit` | the bytes of one torrent and one kit, from the payload to what is sent |
| `Pipeline`, `MCPipeline` | the stage bodies of one job over its files, markers and image hosts |
| `QualityGate` | the order of checks, checkpoints and verdicts inside QC and comparison |
| `DynamicHdr` | HDR10+ and Dolby Vision of one job, from the disc to the gate of QC |
| `SourceStage` | the local copy of a disc and the remux that reads it |
| `Languages` | the languages of the tracks |
| `CrfSearch` | the search for a CRF with its checkpoints |
| `Backup` | backups, pruning, migration and restore |
| `AtomicRuntime` | abstract: the runtime is replaced part by part of a kit, in one step, forwards |
| `Host` | the machine as its updaters see it: lock, units, claims, database, pointers, packages |
| `MediaUpdate`, `Installation` | the two updaters with their journals and recoveries, over `Host` |
| `Deployment` | both updaters on one machine with the gate of a boot and the finalizer |
| `ReleaseUpdate` | the daily check for a release and the unattended update |
| `MCLive`, `MCHelpers` | components that share no state, checked side by side |
| `JobStoreProofs`, `WorkerProofs`, `MaintenanceProofs`, `ReleaseProofs`, `PipelineProofs` | theorems about the modules they are named for |
| `HelperProofs` | theorems about `CommandRun`, `CrfSearch`, `UploadKit`, `Backup` and `ReleaseUpdate` |
| `MediaProofs` | theorems about `SourceStage`, `Languages`, `DynamicHdr` and `QualityGate` |
| `DeploymentProofs` | theorems about `Deployment`, and through it `Host`, `MediaUpdate` and `Installation` |

What composes what: `Worker` runs over `JobLifecycle`, which `JobStore` is shown to refine;
`Deployment` is `MediaUpdate` and `Installation` over one `Host`, and refines `AtomicRuntime`;
`Release` uses the phases of `Maintenance` and refines `RemoteEffect` twice; `Maintenance` refines
`MaintenancePromise`. `MCLive` and `MCHelpers` are not compositions: a variable `part` says which
component a behaviour is of, the others stand at their beginning. That checks each of them as if
it were alone, in one run.

### Job store

A row of `jobs` is a record (`Row`), a missing row has state `Absent`; `scans` is a sequence of
scan states per job; of `job_events` only the newest state event is kept, because that is all
`retry_failed_job` reads. A transaction is one action. Three API calls use two transactions
(`resume_review`, `retry_upload`, `advance` from a handler); their second half is a separate action
and `call` holds what the first half read. `version` and `control_revision` are the two optimistic
locks. A call that raises changes nothing, so it has no action. `JobLifecycle` is the same system
seen through three columns and with no locks, and `ImplementsLifecycle` is the refinement.

Bounds (`JobStore.cfg`, `MCJobStore`): the first job lives alone up to version 10, control revision
4 and one scan, which lets it run the whole pipeline once and fail, be reviewed or be restarted on
the way. When the second job is inserted, the two share the same bounds, and scans, progress reports
and half-done calls other than a review resume are left to the first phase: then the competition for the
lanes is what matters, and a sum of ten lets one history be long while the other is short. The review
resume stays, up to a sum of nine, because what may happen between its two transactions is that the other
job is claimed; a review of the encode (version 5) and another job in the encode lane (version 4) fit.

`DecisionsAreCarriedOut` says what the second transaction of `resume_review` and `retry_upload` is worth.
The code does not compare the version it read, so a late decision may move a job that changed since; but
as long as the version is the one it read, the decision is carried out unless the job was paused. That
no other job can be in the way is not a check of this call: `ux_jobs_single_encoding` counts a job under
review or with a failed upload as a holder of the lane, from the moment it starts to wait. Only the
review of a scan gives way, to another disc that is being scanned.

### Worker

`lane[l]` says where a lane thread stands in `process_job` and which copy of the job it holds. Each
database call is a step, so requests and the other lane come between any two. A stage body ends in
any of the ways the handlers tell apart: done, interrupted, review, timeout, OS error, other error.
`Verdict` is the commit of a handler: a request that came after the handler looked refuses it, the
exception leaves `process_job` (`Escape`) and, from the encode lane, ends the process. `Exit` is the
end of the process and its start by systemd.

`RequeueInHand` says whether the operator may put a job back to work in the moments in which a lane
has committed a waiting state and has not yet read the job again. With it, a lane runs a stage that
is not its own (run `worker_two_encodes`); `live` and the proof exclude it, and say so by this constant.

Fairness: every lane goes on (threads are scheduled, the commands either end or are interrupted),
and a stopped process is started again (`Restart=on-failure` in the unit). Nothing is assumed of the
operator. `StaysUp` is an assumption inside the liveness properties: a verdict refused by a request
ends the worker, and an operator who did that for ever would keep it from answering anything.

### Process runner

`CommandRun` is one call of `run`, `run_pipeline` or `capture`. `child[i]` says what became of command
`i` (running, told to end, ended well, failed by itself, struck by the stop of the service, killed by
the runner); `runner` is where the call stands, `wish` a request nobody may have heard yet, `heard`
that the runner heard it, `late` the deadline. systemd signals the whole control group, so commands may
die of a stop the runner has yet to hear of: `Decides` and `Handles` model the second look at the
request (`LooksAgain`) and the third one in `process_job`. Three commands have a first, a last
and one between. Fairness: the runner goes on (Popen returns, the clock runs, SIGKILL kills); no command
has to end by itself. `RunnerAnswers` also takes it that reading the control column succeeds in the end.

### Maintenance

An operation walks INTENT, DETACHED, COMMITTED, FINALIZED, or ROLLED_BACK. `disk` says for each
target whether its content is at its origin, in a quarantine, half deleted or gone. A rename or a
transaction is a step. Threads belong to processes; a process may crash between any two steps, and
its start recovers whatever is unfinished and not leased by a living process. The variable `world` is
chosen at the beginning from `Worlds`: an interruptible recursive deletion, a restart of the job, the
late recovery by the release service. `CalmWorld` has none of these, `Disturbed` all of them on a
cleanup of the worker; run `maintenance` has both with three crashes, two overlapping operations, two
request threads of the API and the worker. Two runs show the cases that fail in worlds between
(`maintenance_partial`, `maintenance_late`). Fairness: threads go on and a dead process is started
again; `ServiceReturnsCalm` and `OperationsSettle` speak of the calm world only.

A further case is known and has no run of its own: a job that is retried while its purge holds its
workspace in quarantine gets a new workspace, the rollback then finds the target in two places, and
no later start gets past the recovery.

### Release

Two threads of the API serve preparations of one job. Versions are only compared with a version read
earlier, so a thread remembers whether its copy is still current. `wire` counts requests on their way
to a remote system; a request may be carried out after its sender has stopped waiting or has died.
`Adding` and `Publishing` map the rows to the ledger of `RemoteEffect`. The deletions of a release
and of a job are the operations of `Maintenance` reduced to their phases, because their recovery is
checked there; here they matter for what they check and remove. `force` is always given where the
API asks for it, because that is the permissive case.

Left out: a proxy in front of qBittorrent that answers in its place. The adapter takes every status
but 200 for a refusal (`release/adapters.py:622`), so with such a proxy an add that went through can be
recorded as REJECTED and repeated.

Bounds: two preparations are what one can do to its sibling, two threads what two requests can do
to one row; every write may fail and the process may die once (`release_safety`). In `live` there is
one preparation, two threads and one crash. Fairness: the calls a handler makes return (all network
calls have time limits), and a dead process is started again and gets a request.

`UploadKit` opens one preparation and looks at contents: `payload` and `picture` are versions, a
torrent is a sequence of piece hashes, each read at its own moment, `stage` and `kit` are a kit under
its temporary and its final name, `sender` is the copy in memory that is compared with the approved
manifest before it leaves. `Edit` and `Spoil` change the payload, the screenshots or the kit at any
moment. Two pieces are what it takes for a torrent of two versions, two edits for a change before and one
after the second hashing, two builds for a kit that meets its predecessor.

### Pipeline

`disk[a]` is the digest of an artifact, a number that stands for its content, and `made[n]` says from
which inputs content `n` was made: this is how a property can ask what a file really contains, which
the program itself only knows through its markers. 0 is the digest of a file that is missing, torn by
a tool that was killed, or changed by somebody else. `mark[a]` is the stage marker, the recorded
inputs and the recorded digest. Matroska files carry random identifiers, so writing one again gives
another digest (`Volatile`); scripts, reports and images are functions of their inputs.

`todo` is what the running stage still has to do and `step` how far it is with the first item: look
at the marker (`Reuse`, `RunTool`), tool ended (`ToolEnds`), checkpoint written (`Checkpoint`) or gate
not passed (`GateFails`). The upload stage goes `host`, `pin`, `send`, `sent`, `publish`, `copy`,
`sidecars`, `complete`. `check` is the thread that decodes the whole reference beside the encode.

`Stop` stands for everything that ends a stage early and lets the job come back: crash, service stop,
pause and continue, a failed command and its retry, cancel and restart. Which of these the job store
admits is the business of `JobStore` and `Worker`. The many sub-reports of QC and comparison are one
artifact each here; `QualityGate` opens them, and `DynamicHdr`, `SourceStage` and `Languages` open the
parts of preparation and encode that have state of their own.

Bounds: one stop, two revised selections, one changed file, two images, two hosts, three selections
that differ in crop, picture, CRF, tracks, title, host and name. Two revisions are what it takes to
leave a selection and return to it. `MaxMade` is never reached.

### Inside the stages

- `QualityGate`: `Kind` lists the checks of `_qc` and `_comparison` with the files they read, the files
  their checkpoint names, and whether they are judged before the checkpoint, after it or every time.
  `gate` is the stage, the check and how far it is; `clock` the measurements of one comparison.
  `flaws` are the checks the files do not pass. Bounds: a budget of three measurements, four reviews, one
  stop, revision or damage.
- `DynamicHdr`: the scan, the plan for a selection, extraction, frame counts, injection and the gate,
  with tools that come and go, revised selections and changed files; four discs, six selections and three
  such events.
- `SourceStage`: a version per file of the disc. The copy knows for each file and each reader which
  version it read; the remux reads once at its start and once at its end, so a change in between shows.
  Two titles that share a clip, two readers, two jobs, one change, one stop.
- `Languages`: samples carry the number of the reference they were cut from. The speech model may say
  anything of a sample. One sound track of each kind of declaration beside a subtitle, three samples
  (the least a consensus needs), two references, one revision, one crash.
- `CrfSearch`: a CRF is counted in quarters, a score in fortieths of a point above the target, and a
  probe may have any score: monotony is a hope of the search and no premise. One lower bound is no
  multiple of a quarter. Two configurations, of different bounds, four probes, one stop, one new selection
  or reference.

None of the five has liveness: they are checked for what they let through. That a stage ends is the
concern of `Worker` and `CommandRun`.

### Backup

`file` and `wal` are the database as SQLite sees it, `truth` what was committed last. A backup is
copied aside, renamed, described by a manifest and then pruned by group; worker, API and the command
line may each be in one of these, and any may die between two steps. A migration takes a backup first;
a restore runs with the services stopped, takes a safety backup, removes the WAL and replaces the file.
Bounds: three backups with one kept per group, one commit, one crash.

### Installation and update

`Host` has what the updaters share: the lock (`proc` is the script that holds it and its label), units
that run, wait for the boot gate or start with the machine, the claim of the worker in two looks, the
database with its schema, the pointers `app`, `tools`, `host`, the packages and Debian's own updater.
`MediaUpdate` is `daily-update.sh` with `update_runtime.py` and `apt_transaction.py`; `Installation` is
`install.sh` with `install_transaction.py`. One label is one durable step, before or after which the
script may fail or be killed. `Deployment` adds the recovery that systemd starts, by a path unit as long
as a marker exists, and by the gate of a boot. `Settled` is the runtime the journals say the machine will
come to, and the mapping to `AtomicRuntime`.

Bounds: two releases, so an installation may follow an update or the reverse; three failures, kills or
reboots, so a recovery may be interrupted and its own recovery too; one finished job. Fairness: a script
that runs goes on, the finalizer and the gate are started by systemd, the packages' processes end, and
queued units start. Nothing has to start an update and nothing has to fail.

`ReleaseUpdate` is one run at a time of the release updater over a repository whose tags appear, move and
vanish; the installer is one of three outcomes there, since its steps are `Installation`. Two versions,
two publications, four runs, one kill: two failures of one tag and a third attempt fit.

## 3. Runs

| Run | Properties | Shows |
|---|---|---|
| `store` | `ControlMatchesStage`, `Provenance`, `ResumeWellFounded`, `ProgressReachesStage`, `ImplementsLifecycle`, `ControlIsHeeded`, `LocksAreSound`, `DecisionsAreCarriedOut` | Requests are only pending where a worker answers them, failures and reviews remember their stage, the meter follows the stage, both optimistic locks hold, a cancellation is never taken back and a paused job stands still, a job that waits for a decision keeps its place until the decision comes, and the store refines `JobLifecycle`. |
| `worker_two_encodes` (violated) | `NoTwoEncodes` | Without the exclusion of `RequeueInHand` the scan lane executes the encode stage beside the encode lane. `docs/ARCHITECTURE.md:3` excludes that. |
| `maintenance` | `JournalIsTrue`, `KeepsPromise`, `ServiceReturnsCalm`, `OperationsSettle` | A rolled back operation has nothing left in quarantine, a finished one has freed its targets, and a removal is all or nothing, in both worlds; in the calm one committed is detached, every operation settles and the crashed process serves again. |
| `maintenance_partial` (violated) | `ServiceReturns` | A recursive deletion that dies half way leaves a tree its receipt does not describe, and no later start gets past it. |
| `maintenance_late` (violated) | `CommittedIsDetached` | The late recovery works on an operation of a living thread of its own process. |
| `release_safety` | `FilesStayInPlace`, `EffectsHappenOnce`, `OutcomeOutlivesRow` | Adds and publications refine the at-most-once ledger, remote work and a live kit keep their files, an uncertain outcome outlives everything but its explicit deletion. |
| `release_rebuild` (violated) | `FailedCanBeBuilt` | A kit that is built again removes the kit the row names, and the preparation is stuck. |
| `pipeline_files` | `ReleaseIsCurrent`, `EvidenceIsOfTheRelease`, `SourceChecked`, `ImagesAreTrue` | What is released is what the present selection asks for, film and tracks of one remux; published evidence and images are of the published file; nothing is muxed from an unchecked or corrupt source; images are on one host and the records of them true. |
| `pipeline_back` (violated) | `PreparationHolds` | An operator who tries another crop and returns is refused a stale checkpoint that no stage makes again. |
| `deployment` | `NoHalfIsUsed`, `OnePackageManager`, `JobsAreLeftAlone`, `WorkIsKept`, `ImplementsAtomicRuntime`, `ServicesComeBack` | Through three faults, what runs is a combination that was tried out, the old backend never meets a newer schema, package managers never overlap, jobs in hand and recorded results are left alone, the change is atomic, and the services come back. |
| `live` | `LanesAreSound`, `OutcomeIsTrue`, `JobsAreServed`, `LeasesSettle`, `RunnerAnswers` | Each of three components alone: a stage only runs for the lane the store gave the job to, every request is answered and every active job executed again; no preparation stays in a leased state; every call ends after a request or a deadline, with the right verdict. |
| `helpers` | `Bracketed`, `ChosenMeetsTarget`, `BackupsHold`, `UpdatesAreSound`, `OnlyTheApprovedLeaves`, `AcceptedIsSound`, `TimeIsNotLost`, `RetainedAsReviewed`, `ReferenceIsOfOneDisc`, `LanguagesAreEarned` | Each of eight components alone: the CRF chosen is justified by probes of this reference; a restore is safe and the newest backups of each group stay; no unwatched update is a downgrade or unsigned; only approved contents are sent; what is accepted passes every check, and a time limit only costs bounded work; dynamic HDR is as reviewed; a reference is of one disc; languages are earned. |

A violated run is a disagreement of the code with a sentence of its documentation, comments or tests;
the sentence is quoted under "findings" in `PROJECT.json`. Every other property holds, and for each
there is a mutant of a mapped definition (`Variant` in the modules) with which it does not. Deadlock is
not checked where a system may come to rest for good: every job ended, every bound used up.

### Seen while modelling

These have no run of their own; the line is where to look.

Store, worker and pipeline:
- `resume_review` advances a job it read in an earlier transaction (`queue.py:171`): a selection stored in
  between is overtaken; `JobStore` has the counterexample in four steps, and `DecisionsAreCarriedOut` says
  what holds all the same;
- a scan that needs review repeats while another job encodes (`worker.py:2571`);
- a source check that fails without a review interrupts the encode without a request, and the encode
  starts again for as long as the failure lasts (`worker.py:4328`);
- `uploads.json` is never invalidated, so a partial upload followed by a revised picture, or a skipped
  one followed by a selection that uploads, is refused at every resume (`worker.py:7404`, `:7459`);
- a selected image host that conflicts with the bound one is meant to be a review (`worker.py:7504`)
  but the handler at `:7639` turns it into `UPLOAD_FAILED`, in which no selection can be stored;
- corruption logs moved to the history do not come back when the playlist does (`worker.py:1346`).

Process runner:
- the look after the loop of `run_pipeline` does not cover a stop that arrives while the upstream commands
  are waited for, and `capture` has no second look; only the third look in `process_job` keeps the job from
  failing;
- a helper that outlives its group leader can hold the pipe of stderr open, and the join waits for it.

Inside the stages:
- CRF bounds that are no multiple of a quarter are rounded: a lower bound of 12.1 probes 12.0, and 0.1
  probes 0; an unreachable target is reported without a probe of the lower bound (`README.md:656`);
- QC: after a tampered mux report the comparison asks for `rerun_qc`, but a resume only repeats the comparison;
  packet sizes of the final file are measured for the efficiency check and not compared; a single command
  that needs more than the time limit is reviewed for ever (`TimeIsNotLost` assumes that one fits);
- dynamic HDR: metadata deleted after the preparation make every resume of the encode end in the same review,
  which only a revised selection repairs; a stop during the probe of the Dolby Vision layer is taken for a
  disc without one (`worker.py:2782`); the hash of the metadata is checked at the start of an encode, hours
  before the injection, which only compares the number of frames;
- staging: the readers check sizes and never sync; the free space is computed before the old stage is
  removed; a disc that changes while it is staged is read in place;
- languages: a service stop or a request of the operator during the sampling is swallowed by `except
  Exception` in `media/language_runtime.py`, so the track counts as unresolved and the job goes to review;
  the report is keyed by selection and scan, not by the reference; a report lost after the preparation is
  not noticed, the files then carry the declaration.

Backup, release and update:
- a crash between the rename of a backup and its manifest leaves a file that is neither listed nor pruned;
- `README.md:1307` documents `backup_keep_scheduled` as the retention of scheduled backups, and
  `Database.backup` (`db.py:563`) prunes with `DEFAULT_KEEP`; a restore opens the verified backup by its path and
  would create it empty if it were pruned in between, which nobody does while the services are stopped;
- a screenshot that changes between the check of its hash and its secure read goes into the kit
  unnoticed (`release/package.py:363`), with its new hash in the manifest;
- a withdrawn newer tag, or `install --tag` with an older one, makes the updater forget the failures of the
  tag it had blocked (`install/release_update.py:765`); a run killed inside the installer is never counted;
- the API answers during the validation of an installation, so a request accepted then is lost if the
  database is put back; the second look of `claim_lane` at the markers is redundant for `JobsAreLeftAlone`,
  and a kill of `daily-update.sh` takes effect between the steps of its helpers, which inherit the lock,
  while `apt-get` of the installer outlives its script (`child`).

## 4. Proofs

Each theorem holds for every value of the constants that the named assumptions admit; TLC evaluates
these assumptions in the runs.

| Theorem | States |
|---|---|
| `JobStoreProofs` `TypeCorrect` | `[]TypeOK` |
| `ControlIsAnswerable`, `FailureProvenance`, `ResumeIsWellFounded`, `ProgressFollowsStage` | `[]ControlMatchesStage`, `[]Provenance`, `[]ResumeWellFounded`, `[]ProgressReachesStage` |
| `JobStoreProofs` `OperatorIsHeeded`, `OptimisticLocks`, `DecisionsCount` | the action properties `ControlIsHeeded`, `LocksAreSound`, `DecisionsAreCarriedOut` |
| `JobStoreProofs` `StoreImplementsLifecycle` | `ImplementsLifecycle`: `JobStore` refines `JobLifecycle` |
| `WorkerProofs` `LanesHold` | `~RequeueInHand` gives `[]LanesAreSound` |
| `HelperProofs` `OutcomesAreTrue` | `[]OutcomeIsTrue`, for pipelines of any length |
| `ReleaseProofs` `BothEffectsHappenOnce` | the torrent is added and announced at most once: `Release` refines `RemoteEffect` for both effects and any finite set of threads |
| `ReleaseProofs` `OutcomesOutlive` | the action property `OutcomeOutlivesRow` |
| `ReleaseProofs` `FilesOutlastTheWork` | `[]FilesStayInPlace`, for any preparations and threads |
| `MaintenanceProofs` `JournalTellsTheTruth`, `JournalKeepsPromise` | `[]JournalIsTrue`, and that `Maintenance` implements `MaintenancePromise`, while no thread is late in its own process (`LateElsewhere`) |
| `PipelineProofs` `TheSelectionIsReleased`, `TheEvidenceIsReleased`, `OnlyCheckedSources`, `OneHostHoldsTheImages` | `[]ReleaseIsCurrent`, `[]EvidenceIsOfTheRelease`, `[]SourceChecked`, `[]ImagesAreTrue` |
| `HelperProofs` `OnlyApprovedContentsLeave` | `[]OnlyTheApprovedLeaves`, for any number of pieces and edits |
| `HelperProofs` `SearchStaysInBracket`, `TheChoiceMeetsTheTarget` | `[]Bracketed` and `[]ChosenMeetsTarget`, whatever the scores |
| `HelperProofs` `BackupsCanBeReliedOn` | `[]BackupsHold`, for any numbers of commits, backups and crashes and any retention |
| `HelperProofs` `UnattendedUpdatesAreSound` | the action property `UpdatesAreSound`, for any versions, publishings, runs and kills |
| `DeploymentProofs` `NothingIsHalfDone`, `PackageManagersExclude` | `[]NoHalfIsUsed` and `[]OnePackageManager`, for any number of releases, failures, kills, reboots and jobs |
| `DeploymentProofs` `FinishedWorkIsKept`, `JobsInHandAreLeftAlone` | the action properties `WorkIsKept` and `JobsAreLeftAlone` |
| `DeploymentProofs` `UpdatesAreAtomic` | `ImplementsAtomicRuntime`: `Deployment` refines `AtomicRuntime` |
| `MediaProofs` `StagedReferenceIsTrue` | `[]ReferenceIsOfOneDisc`, for any titles, readers, changes and stops |
| `MediaProofs` `LanguagesHold` | `[]LanguagesAreEarned`, for any tracks, samples and sayings of the speech model |
| `MediaProofs` `DynamicHdrIsAsReviewed` | `[]RetainedAsReviewed`, for any discs, requests, changes of tools and files, and stops |
| `MediaProofs` `AcceptedPassesEveryCheck` | `[]AcceptedIsSound`, for any number of pairs, any budget, reviews, stops, revisions and damages |
| `MediaProofs` `EveryTimeoutMakesProgress` | `[]TimeIsNotLost`, for any number of pairs and any budget |

Along which argument:

- **Job store.** `IInv`: `RowOK` says of a row alone that its columns fit each other (control with
  state, resume with state, progress with baseline), `EventOK` relates a row to its newest event,
  `UniqueLanes` is what the two partial indexes say of the table, `CallOK` types what a call carries from
  one transaction to the next. None of the properties is inductive alone. Lemmas on the rows an
  operation may write, one on a transaction that commits a good row into good tables, one per action.
  The action properties and the refinement are read off one lemma: a step writes at most one row, in one of
  seven ways (`StepEffect`), the event log having told a retry the stage that `resume_state` holds; a number
  that is still to be given out has no row (`Unborn`). A decision over two transactions needs what the first
  one leaves behind (`Remembered`): the version it read is not ahead of the row, and while they are equal the
  job still waits for this decision. Such a row holds the encode lane, so by `UniqueLanes` its move fits.
- **Worker.** `WorkerInv`: rows typed, lanes unique, the two threads apart (never the same job in hand),
  and `LaneOK`, which says for each place of a thread what its copy of the job still says of the row: a
  lane may hold a stale copy, but what it has in hand is in a stage of its own or in one of the states
  (`LeftStates`) into which a stage ends or the operator cancels. `~RequeueInHand` is needed exactly
  there, and `worker_two_encodes` shows that without it the theorem is false.
- **Process runner.** The invariant relates where the call stands to which commands may still run and to
  what the verdict rests on (`Known`, `Judged`); a struck command implies a stop of the service, which the later
  looks find.
- **Release.** `ReleaseInv`: `RowsOK` says that at most one row is leased for an effect; `ThreadsOK` that a
  copy which is current is of a row in a state fit for its place (`CopyOK`), and that the one holder of a
  lease knows what became of its request (`HolderOK`); `LedgerOK` that a request on its way, or an effect, is
  in the rows as a lease or a receipt. Every step then is a step of the ledger or leaves it alone (`Moves`).
  That the threads are finitely many (`ThreadAssumption`) is needed to tell a late answer from one somebody
  waits for, by counting.
- **Files of a preparation.** `FilesInv`, on top of `ReleaseInv`: a preparation that has left PREPARING has its
  kit where it belongs or in the quarantine of an operation that can still bring it back (`RowFiles`,
  `PayloadOK`), no kit is in two operations (`OpsOK`), a step of a deletion finds the phase it left (`TaskOK`),
  an operation that is not decided has one thread that carries it, or the service is down or recovers
  (`Undisputed`, `Attended`). A deletion therefore begins where nothing works on the files, and work begins
  where no deletion has them.
- **Maintenance.** `MInv` relates the journal to the disc place by place: what may be at the origin, in
  quarantine or gone for each phase, what the thread in the middle of a move has already done, and that one
  thread at a time serves an operation. The refinement maps an operation to undecided, committed or rolled back;
  every step but the two decisions is a stutter.
- **Pipeline.** `PipelineInv`: a marker says of the content it names what it was made from (`MarksAreTrue`;
  the encode and the comparison record an input of zero if a file is newer than its own marker), and a
  preparation that was certified was made that way (`PrepIsTrue`). `Certified` says what holds from each stage on:
  film, tracks, output and evidence form one chain down to the selection, and the decode passed on that very
  reference. `BodyIsTrue` is the same inside a stage, item by item. The stages keep the chain because each
  writes only artifacts that no earlier stage is about (`EarlierStays`); a revised selection gives it all up
  and goes through READY. `OneHost` and `UploadIsTrue` relate `uploads.json`, what is in memory and
  what the hosts hold: as long as the lock is open, nothing was posted.
- **Upload kit.** How far a build has got says what its files hold (`BuildOK`): a torrent that was checked
  by a second reading is of the version the preparation is bound to. What a sender holds was compared, file by
  file, with a manifest that was approved (`SenderOK`).
- **CRF search.** The bracket: every probe that met the target lies below every one that did not; the next
  CRF lies strictly between after rounding, whatever the interpolation gives. For the choice, a history
  variable `basis` keeps what each score was measured on (`MeasuredOn`): markers say what their file was measured
  on, so a score that a resumed search takes over is of the present selection and reference, and a
  report whose marker fits is of such scores.
- **Backups.** `RestoreAlone`: a restore runs with nothing else on the database, and the WAL is gone before the
  file is replaced. `FilesTrue`: a backup is a committed state, and its manifest is of that file. `TaskHolds`:
  what a pruner has on its list has enough newer backups of its group, which only grow in number, so two
  pruners cannot between them take the last ones; the proof counts the newer backups.
- **Unattended update.** `RunDecided`: between the decision and the installation the release stays newer than
  what is installed, because only the one run installs. `StrikesCounted` ties the failures of the newest release to the
  attempts in `status.json`. That a bounded set of versions has a newest one follows from the well-foundedness of the
  naturals (`LeastOf`, `GreatestOf`).
- **Deployment.** `DInv` has two kinds of parts. The first is what the journals tell: while the installer's journal
  is open, each thing it set out to change is as the journal says or as its backup is (`Apart`, `InsSaved`); the same of the
  media update (`MediaSaved`) and of the packages (`PackagesTrue`). The second is what a script knows where
  it stands (`InsPlace`, `RecoverPlace`, `UpdatePlace`, `BackPlace`). A kill or a reboot forgets the
  second and must not disturb the first; a recovery earns the second again from the first, step by step. That no job
  is in hand at the places that replace something (`InHand`, `IdlePlace`) rests on the lock and on the claim that
  looks again under it. In the refinement, `Settled` (of `Deployment`) is the runtime on which the journals
  will settle: a step that changes a file leaves it alone as long as a journal says that the change can be undone, and
  the step after which a journal goes back no more replaces the whole kit; `Outcome` says what is in place there.
- **Source staging.** A version of a file only grows, so whatever was read since the turn began lies between
  the marker's key and the disc, and if the two are equal it is that one version (`SinceTheStart`,
  `GoodCopy`).
- **Languages.** A marker names the reference its file was cut from (`TagsOK`), so a sample that fits its
  marker is of the present reference; the pass has a place for each track (to do, in hand, open, resolved or
  evident), so a pass that leaves nothing open has a language for each; a confident hearing leaves no other
  code (`StrongWins`).
- **Dynamic HDR.** The plan is true of the disc and answers the request, a scan that missed the second layer of a
  disc included; a marker of the extraction or of the report tells what its file was made for; the encode
  checkpoint names the layer that was injected, so the gate compares what the report says with what is in
  the file.
- **Quality gate.** Every file is remade together with the output, so evidence whose output version is the
  present one is of the present files (`EvidenceTrue`, `Pivot`), although most checkpoints name fewer files
  than the check reads. A checkpoint judged before it is written carries a verdict that held (`MarkOK`), and
  each check behind the present one has evidence that shows the flaws of these files, or the files do not have the
  flaw (`ChecksHold`). Verdicts that are read off other evidence come after it in the plan (`QcSources`,
  `ComparedSources`), whatever the number of pairs. `TimeInv` is an account: the time used, and the number of
  checks whose long measurement is still owed (`Owed`), are together at most all of them and what clean-ups and
  stops have thrown away. A measurement moves one unit from one side to the other, because what is measured has no
  valid checkpoint and gets one; while the files stay the same, measuring the planes of a pair again
  invalidates nothing (`PlanesTrue`).

Only model-checked: liveness (`JobsAreServed`, `RunnerAnswers`, `LeasesSettle`, `OperationsSettle`,
`ServiceReturnsCalm`, `ServicesComeBack`). Liveness under fairness and `ENABLED`, induction over data and
recursive operators are out of the prover's reach.

## 5. What is not modelled

- The contents of media, receipts, torrents, profiles and reports: a verification is what the state of
  the files makes of it.
- Construction of command lines, parsing of tool output, and the numeric verdicts of QC
  (`qc/*.py`, `audio.py`, `encode.py`): no state, and signal processing has no small instance.
- Disc analysis, the ranking of playlists and the rules of the planner (`analyzer.py`, `media/bluray.py`,
  `media/planner.py`, `media/profiles.py`): pure functions of one disc.
- Authentication, validation and listings of the API; the frontend, which keeps no shared state; the
  native scanner, a one-shot program.
- The profile library (one file replaced atomically under a lock of one process), recommendations,
  statistics, configuration, logs and the doctor.
- Uninstallation, the contents of a configuration upgrade and retention of old releases; the journal an
  emergency recovery makes up, which `RestIsValidated` shows is never needed; leases of another host in the
  maintenance journal.
- A gateway that answers in the place of qBittorrent, see `Release`.
- A manual `install.sh` beside an unattended run; the refusals of `release_update.py:855` are one outcome of
  the installer; a power loss in the boot gate itself; a media file changed behind its size, times and hash.

## 6. What could follow

1. The planner rules of `media/planner.py` and the frame pairing of `qc/video.py` as operators against
   references.
2. The deletion of a completed release through `Maintenance`, with its own domain guard.
