# TLA+ models of the DART backend

This directory models, model-checks and proves the stateful parts of DART: the
estimate service (submission form, PostgreSQL work queue, workers, the
preparation of inputs and the fit they run, and the deployment of it all), the
pass-scoped controllers of the time-offset loop, the booking of shadow
contacts, and the studies, campaigns and GPS products that are computed offline.
`src/` below stands for the repository.

## 1. The system

| Part | State it keeps | Operations | Talks to |
|---|---|---|---|
| Queue: `dart/service/database.py`, `migrations/*.sql` | `jobs`, `job_runs`, `estimates` and the rows that reference them, event log | submit, cancel, claim, heartbeat, set_stage, store_prior, persist, fail_or_retry, recover | called by API and workers, one transaction per call |
| Worker: `dart/service/worker.py` | the claim in hand, the heartbeat thread | run_once = recover, claim, process; run_forever | queue, input resolver, fit |
| Input resolution: `dart/service/resolver.py`, `profiles.py`, `dart/io/load.py`, `kogs.py`, `adx.py` | threads and their provider calls, the ADX client | prepare: load metadata, load telemetry, choose the ephemeris, check, number passes and receivers | KOGS and ADX, one thread per contact |
| Fit: `dart/od/__init__.py`, `dart/service/serialization.py` | the evaluation cached per point | scan, optimize, covariance, rows | forward model; called by the worker |
| API: `dart/service/api.py`, `gateway.py` | none | validate, submit (idempotency key), cancel (owner only) | queue |
| Form: `deploy/grafana/form.js` | pending key in sessionStorage, accepted body | load, change, submit | API, through the gateway |
| Deployment: `scripts/start_results.sh`, `bootstrap_results.py`, `dart-migrate`, `Database.migrate` | runtime file with passwords, schema, profiles, role, image, containers | prepare, migrate and seed under an advisory lock, set roles, build, recreate API and worker | PostgreSQL, docker |
| Acquisition: `dart/controller/acquisition.py` | sweep position, edges, outstanding command, samples | precheck, wait, start, acknowledge, confirm_applied, observe_lock, tick, abort, reset | antenna (commands out, readbacks and lock samples in) |
| Controller: `dart/controller/controller.py` | confirmed offset, pending write, integral, authorization | arm, enable_tracking, update, confirm_applied, hold, tick, terminate | offset writer, ADX readbacks |
| Shadow scheduler: `dart/shadow_scheduler.py` | none; an append-only audit file | plan, execute (book, assign, record, compensate) | KOGS |
| Studies: `experiment.py`, `experiments/forecast.py`, `results_v4.py`, `results_v5.py`, `_benchmark_io.py` | download cache, `<output>.working`, `<output>` | study, rerun, rebuild, export | providers, the file system, each other |
| Campaigns: `experiments/drag_v6.py`, `forecast_v7.py` with `fit_quality.py`, `results_v6.py`, `results_v7.py` | frozen source and bundle, checkpoints, report | prepare, resume, pool of fits, publish, score | the file system, pool processes |
| GPS products: `dart/gmat.py`, `dart/io/gps.py`, `dart/oem.py`, `scripts/smooth_gps.py` | manifest, stage directories, quality.json, the delivered OEM | prepare, run (fit, checkpoint, export, assess, deliver), validate | GMAT, the file system |
| Forward models, Doppler filter, TDM | none between calls | numerics, formatting | files |

What is hard here: leases that expire under a worker that is still running,
processes that share a worker ID, replies lost after a commit, cancellation
racing publication, crashes between any two calls or any two writes of a file,
provider threads that outlive the exception that ends their caller, a cache
filled at a point the optimizer then rejects, releases that change while jobs
are queued, telemetry that is late or about an earlier command, writes of
unknown outcome, limits (magnitude, step, rate, deadline) that interact, and
runs that share names, downloads and checkpoints. `PROJECT.json` lists these
under "hazards", each at its line.

What makes each part correct: an estimate is only affected by the attempt that
holds the live lease; every accepted job ends, and a canceled one ends canceled;
a fit is published with its outcome or not at all, each number under the name it
was computed for; retries reuse frozen inputs; nothing a preparation started
outlives it; what is deployed fits the database it runs on; a controller never
has two unconfirmed commands, knows where the antenna is whenever nothing is
outstanding, and ends a pass at zero or in a fault; a submission that is
repeated makes one job; a booking that fails is canceled or flagged in an audit
log that is true; no interruption costs a campaign more than the fit it
interrupted, no forecast is trained on its future, and what is published or
delivered is whole and was assessed.

## 2. Modules

| Module | Models | Relation |
|---|---|---|
| `JobLifecycle` | what a user of the service is promised about a job: abstract, no leases, workers or clock | abstract specification |
| `EstimateQueue` | the transactions of `database.py`, used by the most general client | implements `JobLifecycle` (`ImplementsLifecycle`) |
| `EstimateWorker` | the worker processes of `worker.py` over the queue | EXTENDS and implements `EstimateQueue` (`ImplementsQueue`) |
| `InputResolution` | `InputResolver.prepare` over `load_passes`, the provider threads | the preparation inside a worker's step |
| `OrbitFit` | the fit and the rows made of it | EXTENDS `InputResolution` |
| `EstimateSubmission` | `form.js` in several tabs, the network, the API and `submit_estimate` | the other end of `Submit` of `EstimateQueue` |
| `Deployment` | `start_results.sh`, `dart-migrate`, the queue between releases | |
| `Acquisition` | `BinaryLockAcquisition`, the antenna, the clock | hands an offset over to the controller (`Acquired`) |
| `OffsetController` | `TimeOffsetController`, the writer, the antenna | |
| `ShadowScheduler` | `plan` and `execute` as runs of the script, KOGS, the audit log | |
| `ForecastStudy` | the commands of versions 4 and 5 on shared names and downloads | |
| `FrozenCampaign` | preparation, resumption, pool and publication of versions 6 and 7 | |
| `PrefixStudy` | plan and scoring of version 7 for one spacecraft | what the fits of a campaign are about |
| `OrbitProduct` | one GPS orbit product, GMAT, the operator | |
| `Ordering` | Python's `sorted` of a finite set, and the value of a given rank | used by `InputResolution`, `OrbitFit`, `PrefixStudy` |
| `EstimateProofs` | theorems about `EstimateQueue`, `EstimateWorker`, `EstimateSubmission`, `InputResolution` and `OrbitFit` | EXTENDS them; those of the workers use those of the queue |
| `AntennaProofs` | theorems about `ShadowScheduler` and `OffsetController` | EXTENDS both |
| `CampaignProofs` | theorems about `FrozenCampaign` and `PrefixStudy` | EXTENDS both |
| `OrderingProofs` | what `Ordering` yields for every finite set; induction over the numbers | used by the proofs of studies, fits and products |
| other `*Proofs` | theorems about the module of that name | each EXTENDS its module |
| `MC*` | constants for TLC | |

Definitions marked "Mutant" are faulty variants of the definition after them.
No specification uses them; put in place of the right one, each makes a property
fail, which shows that the property depends on the code.

### EstimateQueue

Each public method of `Database` runs one transaction that locks the job row it
decides about, so each is one action. The transactions run at READ COMMITTED
(psycopg's default) and re-read the row under its lock. `SKIP LOCKED` in
`claim_job` and `recover_expired_leases` passes over rows other transactions
hold: the model lets a claim take any claimable row and a recovery any
non-empty part of the expired ones. `ORDER BY created_at` is thereby abstracted
(`Deployment` keeps it, where it matters).

A lease is the number of ticks it has left (0: expired, -1: NULL), a retry delay
likewise, so states do not depend on absolute time. `runs[j][n]` is the job_runs
row of attempt n. `claims` holds every `ClaimedJob` ever returned, and any of
them may be used at any time: a stalled worker, a restarted one with the same
ID, and a heartbeat that outlives its job are all included. `prior` and
`published_run` name the attempt that wrote them. A repeated submission and a
cancellation by someone who does not own the job change nothing and are left
out; the event log is left out, no transaction reads it.

`TablesAgree` joins the invariants that relate the tables: one open run per job
in execution, no job nobody can take up, a fit published with its outcome, an
error that explains it.

### EstimateWorker

`pc` is where the main thread of a process stands between two effects, `held`
its claim, `memory` the prior it computes from, `beats` its living heartbeat
threads. Every call of the database may fail without effect (`Fail`), or commit
and lose its reply (the second alternative of `GoesOn`, `Persist`, `Take`, ...),
which sends the worker to `_record_failure` after a transaction that took effect. The
heartbeat thread ends with its first exception, and one beat may come after
`join(timeout=1)` gave up. `Crash` may happen anywhere. `basis` is a history
variable: the prior a published fit was computed from.

### InputResolution and OrbitFit

One estimate from its request to its rows. Each contact has a thread (`thread`)
that asks KOGS for four documents in a row, and in a second round one that asks
ADX for samples; an executor of `PoolSize` threads runs them. Any call may fail
(`RequestFails`, `QueryFails`, by what the worker makes of the exception) or be
answered with something else (`RequestDocument`); the checks of identity are
`Identities` and `Identified`. `raised` is the exception that reaches `gather`
first; until the loop sees it (`CancelCalls`) the pool goes on to take queued
calls. `Unwind` is what `asyncio.run` and `prepare` then do with it. `PreparePrior`
is the rest of `prepare`: which ephemeris is meant, whether every contact is of
its spacecraft and has enough samples, and the numbering of passes and
receivers. The provider's clock and the ADX query text are left out; a sample
is its time, its contact, spacecraft and antenna, and whether it is usable.
`Meetable` says which requests sound providers can meet.

`OrbitFit` goes on from the prior, prepared now or restored on a retry
(`Restored`). The optimizer is a client that may ask for residuals and for the
Jacobian in any order, at points it accepts or rejects, up to `MaxEvaluations`
times; it may converge, stop unconverged, or meet an exception
(`EvaluatorRaises`). Numbers are abstract: a value names what made it and the
parameter it was made for, an evaluation names the point it was made at. So a
value in the wrong row, or a Jacobian of another point than the residuals, is
seen; the arithmetic is not. `Evaluate` is `_cached_functions`, `Expand` how fixed
and considered parameters are folded back in, `CovarianceEnabled` and
`OutputValid` decide what a fit is worth, `MakeRows` is `result_rows`.

### EstimateSubmission

`phase`, `sending` and `accepted` are what the page remembers (lost by
`Reload`), `pending` is its sessionStorage (kept, and copied by `Duplicate`).
`Begin` to `Succeed` are the parts of `submit` between its awaits; `GiveUp` is
any error in them, the 30 second limits of the form and of the gateway
included. A posted request stays in `requests` until it is dropped, and may be
served any number of times, also after its tab gave it up. `Serve` is
`submit_estimate` with `ON CONFLICT DO NOTHING` on the idempotency key, for one
actor; a request is named by its serialized body. Failures of the backend
before the commit are a `Drop`; lost replies a `GiveUp`. `AnswersAreTrue` says
that what is shown as accepted is stored as it was filled in and that no key
serves two requests, `KeyOutlivesDoubt` that nothing but another submission
takes the key of a request in doubt away.

### Deployment

`session[m]` is where a migrating process is: `start_results.sh` (one process,
from `prepare` to `docker compose up`) or a `dart-migrate` beside it. The
password travels from secrets, runtime file or a new draw (`OpenRuntimeFile`,
`WriteRuntimeFile`, twice per run, as the script calls `prepare` twice) to the
role (`SetRoles`) and the containers (`UpApi`, `UpWorker`). A migration is one
transaction: `Lock`, `ReadApplied`, `ApplyScript` for each script, `Seed`, whose
effects appear when it commits; `Seed` rolls everything back when a stored
profile has another definition. `Crash` kills a process anywhere. `Submit` and
`Claim` are the queue as far as releases matter: a job is readable by a worker
of its release or a later one, and `claim_job` takes the oldest or raises.
Scripts and profiles per release are constants. A release is not deployed again
after a later one is in the image (`image <= r`; see section 6).

### Acquisition and OffsetController

The runtime that would drive these objects is not in the repository, so their
methods are called in any order, `tick` before `start` included. The antenna is
external: it obeys an outstanding command some time after it was issued or
never. A readback that matches the outstanding command can only appear once the
antenna has obeyed it; all other readbacks are ignored by the code and change
nothing. Offsets are integers. In `Acquisition` one unit is half the configured
one, so the midpoint of two swept values is an integer. A sample has an age; its
`Lag` is how long before the antenna's last move it was measured, and a probe
remembers the longest lag it counted. In `OffsetController` a write
is accepted, refused, or ends with an exception; in the last case the antenna
may still apply it, at any later time (`strays`), and the history variable
`doubt` remembers that this happened. `enable_tracking` from the
initial state takes over whatever offset an acquisition left (`Acquired`).
Checks of the quality and age of an estimate reject it without a change of
state, so the model offers accepted estimates only.

`OffsetAccounted` is the promise of both: the object knows where the antenna is
whenever nothing is outstanding, and complete means zero. `ProbedWindow` adds
that tracking happens in the middle of a window whose edges were both probed, and
that a probe counts no sample measured longer before the move than the age limit
outlasts settling: none, if settling takes as long as the oldest sample;
`LimitsHold` that magnitude, step, rate, authorization and anti-windup hold at
once, the magnitude up to moves on the way back from beyond it.

`dart/controller/UKF.py` is a short usage example at this commit, so
`controller.py` cannot be imported as it stands; it is modelled from its source
and its tests.

### ShadowScheduler

A run is one execution of `book_shadowpass.py`; its `pc` stands between two
effects, and it may crash at each. A source contact is named by its place in the
order of start times, which is the order `plan` tries them in; whether it is
eligible, and whether contacts of others are in its way, is open. KOGS may carry
a request out and lose the reply; a booking it carries out is listed from then
on. Canceled contacts may or may not be listed (`ListsCanceled`: `list_contacts`
does not filter by state). A booked contact with the wrong identity has no
source. A line that cannot be appended to the log is not there at all. The
typed client `dart/io/kogs_scheduling` is not in the repository at this commit;
what its calls do to KOGS is taken from `dart/io/kogs.py`.

Nothing in the code keeps two overlapping runs from booking the same source, so
`OneShadowEach` is claimed of runs one after the other only (`Concurrent`), and
of equal margins (section 6).

### ForecastStudy

A process is one command: `study`, `rerun` and `rebuild` of a bundle, `export`
of a working directory, also of one whose run is alive. A snapshot (in `cache`
or in `work[o].inputs`) is its data, its prior and the manifest that says what
they were; `Readable` is `_read_snapshot`. Downloading (`Acquire`, `WriteFiles`,
`WriteManifest`) and freezing a copy under another prior (`Copy`,
`ReplacePrior`, `ReplaceChecksum`) are a step per write. `Execute` to
`CloseCase` are the fits of a case with their checkpoints, the pruned refits of
version 4 included; `OpenPublication` to `Clean` check, stage, rename and
remove. `Fail` is an exception or a kill anywhere: what is on the disk stays.

### FrozenCampaign

`layout` is what the output directory holds after each durable step of
`prepare`, the v5 bundle's own `experiment.json` included, which version 6
overwrites and version 7 sets aside first. `worker` are the processes of the
pool, `leftover` what a pool was handed whose main process died: its orphans go
on (`KillMain`), everything ends in a `Crash`. A fit is its data files
(`artifact`), `run.pending.json` (truncated, written, renamed) and `run.json`.
`ValidateResume`, `TasksFor` and `KeptAreValid` are what a resume checks and
what it leaves alone. The environment is the source with its native extension
(`Code`) and satkit's data (`Data`); `AsFrozen` says which of them a version
compares: version 6 the first, version 7 both. `EditSource` changes either at any
time, and a process of the pool loads what is installed when it is spawned
(`Take`); the history variable `edited` remembers a change under something that
ran. The report is computed (`StartReport`) and then written file by file
(`FinishReport`). `tied` is a campaign of version 7 with passes that end at the
same instant: its summary raises, and nothing is published. `Patient` says that
the operator resumes only when no process is left at work (section 6).

### PrefixStudy

One spacecraft and one method of version 7. `PlanFits` is the plan: every
chronological prefix of the passes of the collection window and every omission
of one pass from it, which `ValidationKind` names a forecast, a forward
prediction, an interpolation or a reconstruction. `PlanForecasts` is the plan of
version 5: single, rolling and cumulative fits, each after its last pass.
`Outcomes` is what a fit may become, `Causal` what it is refused for; `PrefixSummary` is the median over the omissions with the status it
is reported under, `FirstAttainment` the first prefix below a threshold and
`FiftyPercent` the time half the population needs. Inventories (`stop`,
`observed`, `late`), the age of the prior, the coverage of the reference orbit
and what other spacecraft attained are enumerated. Medians are doubled to stay integers.

### OrbitProduct

`run` of one satellite. `Screened` is `load_bestxyz` row by row: passed over,
rejected, or kept as the best of its epoch. `CheckRuntime` to `WriteScript` are
`prepare`; `ReadPrepared` to `RecordQuality` are `execute` with its two stages.
GMAT truncates its reports when it starts and has written them when it ends, so
a fit and an export have two steps each, and both may fail or be killed
(`StageFails`, `Crash`). GMAT's data may be updated, and put back, at any time
(`Update`, `Restore`), also while GMAT runs, which then reads the one or the other
(`HasRead`); `execute` compares it once (`ReadPrepared`), and the history variable
`updated` remembers an update behind that comparison. `good` fixes what the
assessment of each stage would say of a whole fit, under whichever GMAT.

## 3. Runs

| Run | Instance | Shows |
|---|---|---|
| `EstimateQueue.cfg` | 2 jobs, 2 worker IDs, 2 attempts, lease of 2 ticks, with symmetry | `TablesAgree`, `FencedEffects`, `NothingRevives`: consistency, fencing and finality whoever uses which claim when; `ImplementsLifecycle` |
| `EstimateWorker.cfg` | 1 job, 2 processes under one worker ID, 3 attempts, lease of 2 ticks | `OwnerShown`, `InputsFrozenOnce`, `ImplementsQueue`; `JobsFinish` and `CancellationWins` under fairness |
| `OrbitFit.cfg` | 3 contacts, 2 antennas, 4 worlds, 4 requests, 2 profiles, 2 threads, 2 faults, 3 evaluations | `InputsAsRequested`, `FailuresAreTrue`, `RowsAreOfTheFit`, `EstimateEnds` |
| `EstimateSubmission.cfg` | 2 tabs, 2 requests, 3 keys, with symmetry | `AnswersAreTrue`, `KeyOutlivesDoubt` |
| `Deployment.cfg` | the script and one migrator, 3 releases with 2, 3 and 3 migrations, the third with a changed profile; 2 crashes, 2 jobs | `MigrationsRunOnce`, `ServicesAgree`, `ProfilesKeepTheirMeaning`, `QueueMoves` |
| `Acquisition.cfg` | sweep -4..4 by 2, 2 consecutive samples, tolerance 1, settling 1, sample age 2 (the repository's test) | `ProbedWindow`, `OffsetAccounted`, `PassEnds` |
| `OffsetController.cfg` | offsets up to 1, step 2, rate 1, taken over at 0 or 4, writes accepted, refused or of unknown outcome | `OffsetAccounted`, `LimitsHold`, `SilenceIsNoticed` |
| `ShadowScheduler.cfg` | 3 sources, 3 runs one after the other, margins 3, with symmetry | `AuditTruth`, `LeftoverRecorded`, `OneShadowEach` |
| `ForecastStudy.cfg` | 2 processes, 2 spacecraft, 2 outputs, 1 fit per case, 1 fault, 3 categories asked for, with symmetry | `FitsUseFrozenInputs`, `PublishedIsWhole`, `NothingIsLost` |
| `FrozenCampaign.cfg` | versions 6 and 7, with and without passes that end together, 3 fits (one unfittable), 2 pool processes, 2 versions each of source and data, 2 faults | `PreparedAndWhole`, `CheckpointsKept`, `PreparedPublishes` |
| `PrefixStudy.cfg` | 3 passes at instants 0..3, collection 2, thresholds 2 and 3, errors 1 and 4, one other spacecraft | `CausalFits`, `ReportEarned` |
| `OrbitProduct.cfg` | files of 3 and 4 rows of 8 kinds, window 1..2, epoch 2 withheld, 2 GMAT installations (1 covers the window), 2 faults | `ObservationsAccounted`, `AcceptedWasAssessed`, `CheckpointsHold`, `RunsSettle` |

All runs pass. Where the code does something other than its documents or tests
say, or less than one would wish, no property claims it: section 6 lists these
places.

Why the bounds are enough. Jobs interact only through `recover_expired_leases`,
which treats rows independently: two jobs show a recovery of both, of one, and
of one while the other is in execution. Two attempts give a retry and an
exhausted job, three a retry between two others. A lease of two ticks has a
heartbeat between its start and its end. Two processes under one ID are the
worst case for ownership; with different IDs the fence is strictly stronger.

Three contacts show every order in which a request and the chronology may
disagree, two antennas a receiver used by two passes; two threads leave one
contact waiting when another fails; two faults let a second failure arrive while
the first unwinds. The worlds share a start (a tie), lack an orbit, lack
samples, mix spacecraft, and name an ephemeris of another spacecraft. The two profiles have every role and both versions
of the covariance rule.

Two tabs share a key after a duplication and compete for it; with two requests
and three keys a request can lose its key and get another. Two releases that fit
each other and a third that cannot be deployed over them give every mixture of
an old worker and a new API; one migrator and the script are the two sides of a race for the lock, and
two crashes hit one run in both halves or two runs.

The sweep of five values has a first, a last and three inner ones, so a window
may touch either bound, or neither, and its midpoint may be zero or not; a
tolerance of one unit is less than a step. Samples may be older than settling
lasts, so a probe may count one from before the move. Estimates for the controller
ask for more than the limits allow on one side and for little on the other, and an
offset taken over at 4 is further out than one move brings back. The first
two sources of the scheduler are closer than a setup and a teardown, the third
is clear of both; the third run meets what two failed ones left.

Two studies are a race for each name and each download; with three categories one
command asks for both priors of a spacecraft while the other uses its download.
In a campaign two workers leave one of three fits queued, and two faults are a
kill of the main process and one of its orphans, or a kill and an edit of the
source or the data under a run, between its processes or between two runs. Two faults
of a product are an update and its failure, a kill in each stage, or an update while
a command runs and another before the next.
Three passes with four instants give ties, passes outside the collection
window, and one, two and three omissions (odd and even medians). A rolling fit
takes two of them (three in the code), so one pass can leave it and one is too few. Rows of a
position file differ in everything the screening looks at; four rows give three
of one epoch.

Runs of the scheduler, an estimate and a prefix study end, and studies end by the
bound on their commands; then nothing happens, so these four configurations do
not check for deadlock. All others do.

## 4. Fairness

`EstimateWorker.cfg` assumes that the clock runs (WF on `Tick`), that a
dead worker is started again (WF on `Restart`; `restart: unless-stopped` in `deploy/compose.yml`), that a worker
which is up again and again gets its next step done (SF on `RunOnce`: polls
have a timeout, providers and fits end), and that the database does not refuse
the recovery or the claim of the same job for ever (SF on `Recover` and `Take` per
job). Nothing is assumed about the heartbeat, about how often calls fail, nor
about how often workers crash: jobs still end because attempts are counted.

`OrbitFit.cfg`: some step of the estimate is taken as long as one is possible
(provider calls have timeouts, an evaluation ends).

`Deployment.cfg`: a process that runs takes its next step (WF; it may be killed
instead), a waiting one gets the advisory lock in the end (SF: the lock is held by
transactions, which end), and an operator whose deployment failed runs the
script again, also with another release (SF on `RunScript` per release: otherwise
a release that cannot be seeded would be tried for ever). The worker's polls are
WF on `Claim`.

`Acquisition.cfg` and `OffsetController.cfg` assume a running clock and
that `tick` is called time and again; nothing about antenna or telemetry.

`FrozenCampaign.cfg`: processes run (WF on each pool process and on the steps of
the main one, writing the report included), and an operator with an unpublished
campaign restores what `--resume` complains of and resumes it (WF). `OrbitProduct.cfg`: a command runs (WF), the operator
repeats it until it is accepted (WF, under the GMAT the manifest names) and
keeps putting that GMAT back (SF on `Restore`). The faults of both are bounded in
number, so nothing interrupts for ever.

## 5. Proofs

The proofs hold for every value of the constants that satisfies the named
assumption of the module.

`EstimateProofs` has four parts. For the queue (any jobs, worker IDs, attempts,
lease, backoff) it proves everything the run checks: `TablesAgree`,
`FencedEffects`, `NothingRevives` and the refinement. The inductive invariant
`IInv` is the types together with, for each job, the agreement of its row, its
runs and its estimate (`RowInv`). Neither "published with its outcome" nor "the
error explains the outcome" is inductive alone: the first needs that a finished
job is not owned and that the run of an owning claim is the open one, the second
that a job in execution carries no error. There is one lemma per transaction;
the action properties and the refinement follow from `IInv` and a case split
over the same transactions.

For the workers (any number of processes under any worker IDs) it proves that
every step of a worker is a step of the queue or leaves it alone, so all queue
theorems hold for the workers, and then `OwnerShown` and `InputsFrozenOnce`.
Their invariant `OwnerInv` adds to that of the queue: no attempt is handed out
that `attempt_count` does not count (`Given`), none is handed out twice
(`Exclusive`), and what a process that owns its job knows of it at each place
(`Knows`): the stage it set, that the inputs are still open while it prepares
them, and that what it fits is what was frozen. Ownership is the equality of
attempts, so two owners would have been given one attempt; and no step of
another claim changes what the owner knows, because it is fenced
(`OwnerUndisturbed`, `KnowsStill`). `FitOfFrozenInputs` is not inductive without
`Knows`: at `persist` only the process knows which prior it used.

For the form (any number of tabs, requests and keys) it proves `AnswersAreTrue`
and `KeyOutlivesDoubt`. That no submission is answered with a conflict is not
inductive: a key could sit in a storage with another request than the one stored
under it. `OneBodyPerKey` excludes that for all places that remember a key
(requests under way, storages, stored jobs), and `KeysDrawn` makes it stable:
what is remembered was drawn, and new keys were not.

For the work on an estimate (any contacts, providers, requests, profiles, threads
and faults) it proves `InputsAsRequested`, `FailuresAreTrue` and
`RowsAreOfTheFit`. `ResolutionInv` is what the threads have read when they stand
where they stand: a frame is of its own contact (`FramesAreTrue`), no thread is at
work once the main one goes on (`ThreadsFollowMain`), the error raised is that of
a thread that failed (`RaisedIsOfAThread`), and what sound providers answered is
true (`Sound`). That they fail no request that can be met does not follow from
the verdict: it needs all of these, because the first error is that of whichever
thread raises it first. `FitInv` is about names: initial values, the optimizer's
point, the cached evaluation and the result each carry every number under its own
parameter's name and at its own point (`InitialIsOwn` to `OutputIsOwn`), whatever
the optimizer asks in which order. Three lists are matched on the way, in orders
of their own: the parameters of the profile with a bias for each pass, the
canonical names of the forward model, and the partition into estimated,
considered and fixed. They agree because each name is there once
(`NamesAreDistinct`, `CanonicalTyped`, `RolesListed`).

`Meetable` asks that each contact's own ephemeris is of its spacecraft, also when
the request names another one: `load_contact_metadata` refuses the metadata
otherwise. The proof of `FailuresAreExplained` fails without this, so the fourth
world of the run has such an ephemeris.

`DeploymentProofs` (any number of migrators, releases, migrations, profiles and
crashes) proves the three safety properties. The invariant says: a transaction
owns the lock, what it executed continues the schema it read, and what is left to
do is exactly the rest (`Sound`); what is built, running or about to be fits
the database (`AllFit`); and how far the password of this run has come
(`PasswordOnItsWay`). That services keep fitting rests on migrations and profiles
only ever being added (`FitsStays`).

`AcquisitionProofs` (any sweep, tolerance, settling and age) proves
`OffsetAccounted`. A command in effect has moved the antenna to where it says
(`InEffectIsThere`), a reset waits for its zero (`OnTheWay`), a lost lock resumes
only behind a reset (`ResumesFromZero`), and a search told to stop only leaves
(`StopIsFinal`). The last two are needed together: without them a stopped search
might resume.

It also proves `ProbedWindow`, without an assumption on the configuration. The
bound on the age of what is scored is sharp: with the sample age of the
repository's test, one above settling, a probe may count a sample measured one tick
before the move, and none older. The invariant `WindowInv` says where a search is
(`Searching`: at the swept value, or on the way to it), how long the antenna has
been there when nothing is outstanding (`Clocked`: the age of the move, the settling
that is left and the time by which a sample may outlast settling together cover
the age limit), what the counted samples have of it (`Scored`), and where the edges
are: the left one strictly inside the sweep, and the last probe at the value before
the present one (`LeftEdge`), both in order and inside it once the middle is
confirmed (`BothEdges`). The sweep is a sequence; that its values lie in the bounds
is proved once.

For the controller (any limits, any natural gains, targets, acquired offsets and
order of calls), `AntennaProofs` proves `OffsetAccounted` and `LimitsHold`. The
invariant of the first: without a write of unknown outcome nothing but the pending
write can come between the antenna and the confirmed offset (`AntennaInView`). The
second has to do with clamps that undo each other: the bound on the move comes
after that on the magnitude, so a write from an offset an acquisition left far out
is within the move and may be beyond the magnitude, but then it is closer to zero
than the confirmed offset (`OnTheWayBack`). `AntiWindup`: the integral after an
update lies between the present one and the one at which the request stands
exactly at an estimate, so it stays below what it takes to command some reachable
offset (`Reach`: the magnitude, or what an acquisition left) against some target,
though clamping and integration alternate in any order.

For the scheduler it proves types, `AuditTruth` and `LeftoverRecorded` for any
number of runs, overlapping ones included, and whatever KOGS lists: the place of
a run determines what its log and its contact may look like (`Placed`), and no
run touches what is another's. `OneShadowEach` is proved for runs one after the
other with equal margins: then only the run at work may add a contact
(`OneAtWork`), and the place it found free is still free when it books
(`PlaceIsFree`).

`CampaignProofs` has two parts. The first, about `FrozenCampaign` (any fits, pool
processes, sources, data, crashes, edits and resumptions), has two stages. Whatever
the operator does, only a prepared directory is executed, and under the environment
it was frozen with, as far as the version compares it, unless that is changed under
a run (`PreparedRunsOnly`). `DirectoryInv` keeps apart what is prepared and what
runs; an edit at rest is found by the next resume, so what is installed while a run
goes on (`Prepared`) and what its processes and the orphans of others have loaded
(`Loaded`) is `Recorded`: as frozen, or `edited` was set. With a `Patient` operator,
the condition of section 6, `PreparedAndWhole` and `CheckpointsKept` hold: a fit is
with one process or waits for one and has no checkpoint yet (`OneProcess`), a
process has written exactly what its step says (`Progress`), so every checkpoint is
that of a whole fit under a recorded environment (`CheckpointsGood`). None of the
three is inductive without the others: that a rename brings a good record depends on
nobody else writing `run.pending.json`.

The second is about `PrefixStudy` (any contacts, instants, collection window,
rolling length, thresholds, errors and other spacecraft). Its inductive invariant
`StudyInv` is short: fits are those of the plan, each with an outcome it may have,
and the summary is of all of them. The work is in what plan and summary are.
`CausalFits` needs the passes in time (`ChronologicalInTime`: all of them, each
once, the i-th with i up to it), from which the kinds of validation and the passes
of each forecast follow, two passes at one instant included. `ReportEarned` needs
that a checkpoint has one prefix, for otherwise the study raises
(`GroupOfOnePrefix`), that a median halves its values (`MedianSplits`), and that
the scan for the first attainment stops where it should (`AttainmentIsFirst`).

`ForecastStudyProofs` (any number of commands, spacecraft, output names, fits and
failures) proves all three properties of the run. `StudyInv` is about who may
write where (`Exclusive`: a working directory is written by the command that made
it, a snapshot in the cache filled by the command that opened it) and what a
command knows by the step it is at (`Filling` to `Publishing`): the cases it has
frozen carry the inputs of a bundle, those it has finished are finished, and what
it has gathered is what was saved. Everything on the disk is sound: work has
runs of frozen inputs only, and a publication has every case it claims. That
cleaning removes nothing that was not published is the last clause of
`Publishing`; it outlives the rename because a published name is never taken
again.

`OrbitProductProofs` (any position file, window, GMAT installations and faults)
proves `AcceptedWasAssessed` and `CheckpointsHold`. What is accepted is about
stages that were done, perhaps by several commands with failures and updates of
GMAT between them, so `ProductInv` carries what each stage leaves: scripts are of
the observations of their stage, a checkpoint is that of its fit (`Fits`), what is
installed and what GMAT may have read while a stage is at work is `Recorded`, that
of the manifest unless it was updated behind a comparison (`SameRuntime`; `execute`
compares it before anything else, and an update at rest is found by the next
command), and the final stage, the delivery and
the acceptance each stand behind what was assessed before (`Assessed`).
`ObservationsAccounted` rests on the screening: that the rows read so far are
accounted for (`Accounted`) is kept by the next one (`RowAccounted`), hence true
of the whole file (`ScreenedAccounts`). That an epoch keeps its best row is not
preserved alone; it needs that of each epoch at most one row is kept.

`OrderingProofs` carries what these proofs share. A finite set in the order of a
relation is defined by places (an element's place is the number of elements up to
it), so that `Ordered` has each element once and in order follows from
cardinalities, without an induction over sequences. Where one is needed (rows of a
file, elements of a finite set), it is a fact about a set of numbers:
`NaturalInduction` says that a set with 0 and with the successor of each of its
numbers holds all of them. The induction theorems of the library take an operator as
a parameter, which the installed provers cannot instantiate; a set is no operator.

Every safety invariant and action property a run checks is proved. Only
model-checked are the eight liveness properties (`JobsFinish`,
`CancellationWins`, `EstimateEnds`, `QueueMoves`, `PassEnds`,
`SilenceIsNoticed`, `PreparedPublishes`, `RunsSettle`): fairness and ENABLED are
out of the provers' reach.

## 6. Not modelled

### What the code does that the properties do not claim

The models contain each of these; the properties exclude it by the condition
named.

- Loss of lock while the midpoint is zero completes the pass: the resumed
  reset is trivial (`acquisition.py:274`), though a test's name says the search
  restarts. `PassEnds` accepts completion.
- With an age limit above the settling time, as in
  `tests/test_controller_acquisition.py:15`, samples from before the move are
  scored (`acquisition.py:192`), though a test is named
  `test_delayed_readback_and_settling_precede_scoring`. `ProbedWindow` bounds how
  long before the move: by what the age limit exceeds settling.
- After a write of unknown outcome the controller reports completion though the
  antenna may have moved (`controller.py:211`, `:273`). `OffsetAccounted` is
  claimed without such a write (`doubt`).
- When tracking takes over at an offset beyond the permitted magnitude by more
  than one move, which nothing prevents, the slew clamp of `_pi_request` lifts the
  request above that magnitude again (`controller.py:374`). `LimitsHold` allows
  this on the way back only.
- A rerun returns a contact that an earlier run booked without an ephemeris as
  if it were finished (`shadow_scheduler.py:185`). No property speaks of what is
  returned.
- `_has_conflict` pads the new contact with its margins and compares it with the
  bare windows of the others (`shadow_scheduler.py:366`): with a teardown shorter
  than the setup, an earlier contact planned later is booked into the setup of a
  shadow. `OneShadowEach` has equal margins.
- Two overlapping runs of the scheduler may book one source twice.
- `run.pending.json` is shared with the orphans of a pool whose main process was
  killed (`drag_v6.py:363`): resuming at once may rename a half-written record.
  The run assumes a `Patient` operator.
- The environment of a campaign is compared once, at `--resume`, and the processes
  of the pool import it as they are spawned; version 6 does not compare satkit's
  data (`drag_v6.py:442`). `PreparedAndWhole` speaks of the environment unless it
  was changed while something ran (`edited`), and of the data for version 7 only.
  The `publish` command beside another command of the same campaign is not
  modelled.
- GMAT's data is compared once (`gmat.py:395`), before GMAT runs up to four times.
  `AcceptedWasAssessed` speaks of the GMAT of fits and exports unless it was
  updated behind that comparison (`updated`).
- `gmat.py:231` writes the manifest before the stage directories: a `prepare`
  killed in between leaves a directory no run can finish. `RunsSettle` is claimed
  once both stages are prepared.
- Passes that end at the same instant share a checkpoint, and version 7 raises
  instead of summarizing them (`results_v7.py:101`). `PrefixStudy` ends in "raised",
  and such a campaign is never published: `PreparedPublishes` excepts it (`tied`).
- An export may take the name a running study will want (the study then keeps
  its work and publishes nothing), and publishes whatever is finished, without
  the refits of version 4. `PublishedIsWhole` asks for every case and refit only
  of what a run publishes of itself.
- A form holds one pending entry: submitting another request while the first is
  in doubt replaces it (`form.js:87`), and the first, submitted again, makes a
  second job. `KeyOutlivesDoubt` excepts exactly this.
- Rolling back to an older release with newer jobs queued leaves the queue
  standing (`database.py:283`), and two overlapping runs of `start_results.sh`
  share the runtime file. Neither is modelled.

### What is left out

- Forward models, the Doppler filter (`filters.rs`), the minimization, the linear
  algebra and the orbit conversions: real arithmetic.
- Measurement selection and initialization (`dart/od/selection.py`,
  `initialization.py`) beyond what fits and studies use of them: scores over
  real data.
- Tracking data messages: `tdm_executor.py` imports modules that are not in the
  repository at this commit; the rest is formatting.
- HTTP and query adapters beyond what their calls may return or raise;
  `resolver.py:126` reads the frequency file twice, an edit in between is not
  modelled. Whether a worker's client outlives threads of the older studies
  (`_benchmark_io._acquire` closes it before abandoned threads end) neither.
- Read-only endpoints, metrics, logging, the event log, plots, tables and prose of
  the reports; `accuracy_report.py`, `benchmark_runtime.py`, `ephemeris_drift.py`
  and `visualize.py`, which read finished results or draw.
- The retired solve and TDM jobs, which are in the tables only.

## 7. Plan

1. The steps of `InputResolution` in place of `Prepare` in `EstimateWorker`:
   a lease that expires while provider calls of an abandoned attempt go on.
2. `selection.py` and `initialization.py` against reference definitions over
   small inputs.
