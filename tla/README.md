# A verification project for DQX and DQX Studio

DQX is a data-quality library for Spark (`src/src/databricks/labs/dqx`). DQX
Studio (`src/app`) is the application built on it: people register rules, bind
them to tables, schedule runs and read results. An MCP server
(`src/mcp-server`) offers the library to assistants. Most of what can go wrong
lies between actors that share state no transaction spans: a scheduler loop,
HTTP requests, jobs on a cluster, polls, periodic clean-up, restarts. The rest
lies in the library's meaning: which rows a check flags, in Spark's three-valued
logic, and what becomes of them on the way to tables, metrics and alerts. These
modules model both.

Paths below are relative to
`src/app/src/databricks_labs_dqx_app/backend/` unless they start with `src/`.

## 1. The system

### Components

| Component | State | Operations | What makes it correct |
|---|---|---|---|
| Scheduler loop (`services/scheduler_service.py`) | tracker rows `dq_schedule_runs`; in memory `_force_recalc`, `_foreign_overlap_since`, the active runs of this tick | tick over scope configs, products, tables; seed, realign, fire, skip, defer, back off; `reload()` | every due occurrence is fired or skipped once; a schedule does not run over itself |
| Run submission and run sets (`services/binding_run_service.py`, `job_service.py`, `view_service.py`, `run_sets.py`) | temporary view, staged configuration, job, placeholder row, run set | create, submit, record, mint, join, roll back | a failure leaves nothing half made and removes nothing a live job needs |
| Task runner (`src/app/tasks/src/dqx_task_runner/runner.py`) | result row, quarantine, metrics, what it was staged with | read, count, append, persist, report an error, clean up | one outcome per run, told alike by its row, metrics, quarantine and exit |
| Run status and view clean-up (`run_status_manager.py`, `routes/v1/dryrun.py`, the scheduler's sweeps) | rows of `dq_validation_runs`, views | poll, cancel, list, reconcile, drop, collect | the history never goes backwards; every view is dropped in the end, none under a live job |
| Score refresh and cache (scheduler, `services/score_*.py`) | pending and seen runs, cached scores | track, collect, sweep, reconcile, retry | every run that ended reaches the scores |
| Rules registry (`services/registry_service.py`) | rules, versions, history | draft, submit, approve, reject, revoke, deprecate, delete | a version is written once; no stale copy undoes a decision unnoticed |
| Monitored tables, applied rules, materializer (`services/monitored_table*.py`, `apply_rules_service.py`, `materializer.py`) | bindings, applications, resolved checks, frozen versions | apply, pin, stage, render, submit, review, freeze | what runs was reviewed, and is what the store holds |
| Table spaces (`services/data_product_service.py`, `draft_run_gate_service.py`) | products, members, pins | edit, submit, review, gate a draft run | what is decided is what was submitted |
| Access (`services/role_service.py`, `permissions_service.py`, `entitlement_service.py`, `schedule_grant_service.py`) | role mappings, grants, verified readers | grant, revoke, verify, check, repair | MANAGE is only handed down; failing rows are shown to readers only |
| Setup and the Genie space (`setup`, `startup.py`, `migrations`, `services/genie_space_service.py`) | configuration lock, overrides, migrations, vouchers, the space's settings | walk, save, confirm, grant, restart, ensure | READY is earned; one space with this release's content |
| Store executors (`sql_executor.py`, `pg_executor.py`) | login token, connection pool | build statements, read chunks, refresh the token | a statement reaches the rows it means; no login with an expired token |
| Settings, results, reviews, rule tests, assistance | settings rows; rows of the score view; statuses and histories; drafts and their rate | save, filter, page, review, test, draft | a save keeps the rest; views agree; a test decides like a run |
| Library: checks and engine (`check_funcs.py`, `geo`, `engine.py`, `executor.py`) | none, but for the metrics of runs in a pool | apply checks, split, save, observe | verdicts follow the documentation; tables and metrics account for every row |
| Library: rules, storage, contracts, profiler | rule tables | validate, save, load, generate, profile | rules survive storage; generated rules fit their data |
| Library: actions and lineage (`actions`) | last fired, last status, events | evaluate, gate, deliver, persist | an alert goes out once per window; a stopped run leaves evidence |
| Library: anomaly (`anomaly`) | the table of models | train, archive, score, explain | a model is there until the next is; rows keep their identity |
| MCP server (`src/mcp-server`) | runs, views, staged files, results | submit, poll, sweep | runs are private; inputs and results are there in time |

Parts that are not modelled (retention and database reset, discovery and tags,
the command line and installer, the user interface, demo content) are listed in
`PROJECT.json` with the reason.

### How they interact

The scheduler calls the same submission services as the routes. Submission
starts a job through the Jobs API and returns; the job writes to Delta tables
on its own. Nothing calls back: the application learns about the end of a job
by polling the Jobs API and by reading rows. The scheduler keeps its memory in
the tracker rows; a restart loses everything else. The registry, the bindings
and the table spaces share rows through request handlers that read a row,
decide on the copy and write it back. The library is called by the job and by
users' pipelines; its stores are Delta tables, files or Lakebase.

### What is hard

Interleavings of a tick with edits, jobs and requests; a crash between the
start of a job and the write that remembers it; a failing write that is only
logged; copies that are written back out of date; lists that are read once and
reused; lookups that are capped; rows that several writers append to; clean-up
that infers from a row that a job is over; tokens and results that expire while
somebody waits; NULL, and plans that Spark evaluates once more. `PROJECT.json`
lists each of these hazards at its line.

## 2. The modules

In every module a definition whose comment begins with "Mutant", "Seeded fault"
or "A bug" is not used by the specification: it is a plausible wrong version of
the definition that follows it, kept to show that the properties notice the
difference.

| Modules | Model | Checked by | Proofs |
|---|---|---|---|
| `Scheduler` | the loop, the tracker, schedule rows, active jobs, crash and restart | `cron_safety`, `cron_degraded`, `cron_liveness` | `SchedulerProofs` |
| `RunLifecycle` | request, runner, routes and clean-up of validation runs | `run_safety`, `sweep_liveness`, `history_liveness`, `sweep_drops_source` | `RunLifecycleProofs` |
| `TaskRunner` | one run of the job, from its configuration to the rows it leaves | `services` | `McpProofs` |
| `Registry`, `VersionStore` | the registry's calls as their statements; what readers of versions rely on | `registry_safety` | `RegistryProofs` |
| `Binding` | a monitored table, its rules, checks, review and versions, against `VersionStore` | `binding_safety` | `BindingProofs` |
| `ScoreRefresh`, `TokenRefresh` | how scores learn of runs; the token of the pool | `services` | `StudioProofs` |
| `Settings`, `GenieSpace` | shared settings; the space and its settings | `services` | `StudioProofs` |
| `Products`, `Reviews` | table spaces; review statuses and their history | `services` | `StudioProofs` |
| `Access`, `Entitlements`, `ScheduleGrants` | roles and grants; verified readers; grants of a schedule | `services` | `StudioProofs` |
| `AiDrafts` | drafting a rule through the gateway | `services`, `ai_rate_limit` | `StudioProofs` |
| `McpServer` | tool calls, runner, sweeps | `services` | `McpProofs` |
| `Setup` | the walk, its lock, restarts | `services` | `McpProofs` |
| `RuleStore`, `AnomalyModels` | rule sets in a table; training and the table of models | `library` | `LibraryProofs` |
| `EngineRuns`, `Actions` | run configurations in a pool of threads; alerts and their store | `library` | `LibraryProofs` |
| `SparkSQL`, `RowChecks`, `DatasetChecks`, `GeoChecks`, `SchemaChecks`, `Engine` | pure: three-valued logic, the check functions, `apply_checks` and its metrics | `library` | - |
| `Rules`, `Contracts`, `Profiling` | pure: rules as data; rules from contracts; profiles and keys | `library` | - |
| `Anomaly`, `Lineage` | pure: features, scoring, explanations; the walk through lineage | `library` | - |
| `DqResults`, `SqlStatements`, `RuleTests` | pure: results, pages and scores; SQL that is built; forms and the Test tab | `services` | - |
| `MCParts` | the root of both runs: one part per component, with the constants of its small instance | `library`, `services`, `ai_rate_limit` | `PartsProofs` |

`MCParts` chooses a part in the initial state and stays with it: a run is the
disjoint union of the instances of its `Parts`, and a property of a run is the
conjunction of its parts' properties. The pure modules have a next-state
relation of one step, from any input to its output, so that TLC visits every
input of the bounded domain. Components with theorems are reached through the
module that proves them (`Studio`, `Tools`, `Library` are instances of
`StudioProofs`, `McpProofs`, `LibraryProofs`), so that what is proved and what
is checked are instances of one specification; `PartsProofs` says so, property
by property.

### Scheduler

`next`, `last`, `lastIds`, `status` are the columns of `dq_schedule_runs`;
`cadence` and `paused` are the schedule rows; `forceRecalc` and `foreignSince`
are attributes of the service; `notifyPending` is a route between its commit
and `notify_scheduler()`; `phase`, `todo`, `row`, `tickNow`, `seenJobs` are
local to one `_tick`. `jobs` is what the Jobs API would answer.

One tick is several actions, because every store access and submission runs in
a worker thread (`asyncio.to_thread`) while users and jobs go on: `BeginTick`,
`LoadRows` per source, then per schedule `PassPaused`, or `Align` (seed,
recompute, realign), `ReadActiveRuns` (once per tick), and one of `Defer`,
`Skip`, `StartFiring` with `Submit` per sub-run and `Finish`, or
`TriggerFails`. `Crash` may fall between any two of them.

Time is counted in minutes, the unit of an occurrence. `tickBefore` is the
minute of `now - 1 second`, which is the same minute or the one before.
`NextRun(c, after)` is the contract of the two next-run computations: the least
occurrence after `after`, or none when the expression raises. Run ids are
numbers; id 0 is the id minted for a firing that submitted nothing.

Left out: the wording of statuses and logs, the sampling scope of a schedule,
the adaptive sleep (it only decides when `BeginTick` happens), and the passes
over retention and metadata that follow the tick.

### RunLifecycle and TaskRunner

`pc[r]` is the place of the request in `run_binding` or `submit_dry_run`;
`view`, `staged` and `job` are the objects it creates outside the store; `rows`
is `dq_validation_runs`, where the placeholder and the runner's rows are
distinct rows of one run; `runSet` and `member` are the OLTP side. `Shown(r)`
is the deduplication every listing applies.

- The runner dates its SUCCESS row back to its own start, and the listing
  prefers terminal rows, then newer ones. `now` gives each stamp its own
  instant, so that this order is modelled and not assumed.
- The runner reads the view a second time to persist quarantine and metrics,
  after its SUCCESS row: `running`, then `persisting`.
- Ages are the three steps the code tells apart: fresh, past
  `_STALE_RUNNING_MAX_AGE_HOURS`, past `_GC_AGE_HOURS`.
- Whether a call fails is chosen by `May(kind)`, any number of times, for the
  kinds the instance allows.
- `DirectRuns` are scheduled scope-config runs whose source is itself a view;
  they have no temporary view and name the source in their row.
- A large configuration is staged in a step of its own before `run_now`, and the
  runner arranges its removal only once it has read it: a crash in between, or a
  job that cannot read it, leaves the row (`crashed` requests, jobs that ended
  without a start).
- The runner drops the view with its own principal, which may lack the right.

`TaskRunner` opens the runner's box: its steps in the order of `main`, with
every count a scan of its own. The table may change once, the view may go, and a
limit may cut any rows; what the row and the metrics say is what the first scan
observed (`seen.observed`), not what the engine reports by then (`seen.live`).

Left out: profiler runs of the lifecycle (same steps on another table), the 30
second cache of job states, the 500-row limit of the previews' listing, a
`run_now` whose reply is lost, a configuration that is still too large once it
is staged (`RunConfigTooLargeError`), the retention sweep that removes staged
rows nobody needs. A run is cancelled at most once.

### Registry, Binding, Products

A service call is a sequence of statements: read the row, decide on the copy,
write every column back, insert the snapshot or the history. Each statement is
an action, and two requests interleave between any two of them, as they do on
the application's worker threads. `Registry` is shown to implement
`VersionStore`, the write-once registers that the materializer and the frozen
versions of tables rely on, and `Binding` runs against those registers. In
`Binding` a request is a plan, a sequence of phases, one per service call.
`Products` keeps what a review decided on (`sent`) and what had changed behind
it (`strayed`); the gate of a submission and the submission itself read the
product one after the other.

### Access, Settings, Setup and the other services

`Access` grants in two statements, delete and insert, other requests between;
`Entitlements` asks for the privilege, asks for filters and writes the record in
three steps, and keeps when each was last so and when the request behind a
record began. `ScoreRefresh` has the scheduler's lists in memory, a window of
recent run sets, and restarts; the job writes its row before its metrics. `TokenRefresh` counts time since the token was
fetched and lets the pool log in at any moment. `Settings` follows one page per
behaviour under two administrators. `Setup` walks the steps under the
activation lock; a check may answer anything, and the model follows what the
walk concludes, stores and creates. `McpServer` has users, calls, the job's
run, the views and files it reads, the result and the sweeps.

### The library

`SparkSQL` gives NULL and Kleene's connectives; `RowChecks`, `DatasetChecks`,
`GeoChecks` and `SchemaChecks` translate the check functions to expressions
over it, each next to a statement in plain terms of which values it is to flag.
Texts, geometries, types and JSON objects are reduced to what the functions
tell apart. `Engine` composes checks as `apply_checks` does, shared aggregates
included. `EngineRuns`, `RuleStore`, `AnomalyModels` and `Actions` are the
library's stateful parts, with two actors each. In `AnomalyModels` a save asks
for the table, creates it in mode overwrite or archives, and appends, one step
at a time.

`DqResults` expands the rows as of a run as the view does (`Expansion`), caps a
page at a batch (`Batch`: a member run stands for its set; a row without a date
is dropped under a cap, and a batch without one caps nothing), and leaves ties
of time to a choice (`tie`), since the SQL orders by time alone.

## 3. The runs

Passing runs:

| Run | Instance | Shows |
|---|---|---|
| `cron_safety` | a product and a scope config, a valid and a broken cadence, one crash, lost write, failed submission or failed bookkeeping, one user operation | types; no schedule runs over itself |
| `cron_degraded` | one product with profiling and DQ, two cadences, an unreachable Jobs API, failing queries | `next_run_at` stays after `last_run_at`, every firing is owed, no owed occurrence disappears |
| `cron_liveness` | one table schedule, faults and an edit | every owed run is fired or skipped |
| `run_safety` | a table run with a large configuration and a direct run, cancellation, killed jobs, intermittent Jobs API, a crash of the application, and failures of the view, the staging, `run_now`, the run set, the configuration, the checks, the quarantine and the FAILED row | the seven safety properties of `RunLifecycle` |
| `history_liveness` | two runs, jobs killed, no Jobs API, a lookup cap of one | an ended run does not stay RUNNING in a history that is read |
| `sweep_liveness` | a run and a preview, jobs killed, requests cut short, nobody watching | every ended run's view is dropped |
| `registry_safety` | two rules, two requests, crashes, lost snapshots | types, versions accounted for, deleted stays deleted, only stale copies break the life cycle, `VersionStore` is implemented |
| `binding_safety` | a table, a rule, two applications, two requests | types, only reviewed versions run, the store holds what runs, nothing staged or checked is lost |
| `library` | `MCParts` with fifteen parts of the library | one property per family of parts |
| `services` | `MCParts` with nineteen parts of the application and the MCP server | one property per family of parts |

Runs in which the code does something other than its own documentation says
(the quotations are under `findings` in `PROJECT.json`):

| Run | Property | What happens |
|---|---|---|
| `sweep_drops_source` | `SourceIsKept` | the daily sweep issues DROP VIEW for whatever a terminal row names, a source that is a view included |
| `ai_rate_limit` | `RateIsLimited` | every request builds its own gateway, and with it an empty log of the calls that are limited |

### Bounds

`Scheduler` bounds faults, user operations and the clock by name (`MaxFaults`,
`MaxUserOps`, `MaxTime`). One fault and one edit in two or three minutes, with
cadences of two and three minutes, put a firing, a second occurrence, an edit
and a recovery in one behaviour; the clock stops at `MaxTime`, which is why
these runs do not check for deadlock. One schedule per instance is enough for
the per-schedule properties, which the proofs state for any number.

`RunLifecycle` needs no bound on faults: its state is finite because each run
is submitted once. Two runs are the smallest number for which the caps
(`MaxReconcile`, `MaxSweep`, one or two) matter. In `sweep_liveness` the sweep's
cap is the number of runs: with less, placeholders that stay RUNNING starve it
(section 5), so that what its cap costs is described and not checked.

`Registry` and `Binding` bound versions and operations (`MaxVersion`, `MaxOps`):
two versions and three or four operations allow a decision, a stale copy of it,
a second decision and a crash. Two requests are what it takes to interleave.

The bounds of the parts of `library` and `services` are the constants of the
`INSTANCE`s in `MCParts`, each named in its module: two actors; two or
three events, saves, trainings, retries or faults; tables of two or three rows;
times of one or two ticks where the code compares durations (`TTL`,
`_TTL_SECONDS`, windows). Each is chosen so that its counterexamples (every
mutant under `mutants`, a plausible bug of the code) still happen. Actors,
requests, writers and reviewers are symmetric.

What the parts abstract on purpose:

- `Actions` evaluates one run at a time up to the engine's callbacks, and time
  passes only between steps; `Setup`, `GenieSpace` and `Actions` are one process
  at a time, which may end and start again. `Setup` shares one budget between
  changes, failures and restarts.
- `RuleStore`: the rows of one save are one block; Delta saves are several
  commits, Lakebase's one.
- `Access` leaves out rows that only record history; `ScheduleGrants` looks at
  one missing level at a time, the others held.
- `Products` has one table and at most two edits, and a published flag instead
  of version numbers; Lakebase's uniqueness is assumed.
- `ScoreRefresh` has a restart as an initial state with runs in any state, and
  one reconcile attempt. `TokenRefresh` assumes that a refused attempt to fetch
  a token fails promptly.
- `SqlStatements` lets faults lose rows of a result, never invent them.
- `RuleTests` leaves out comparisons of numbers with text under ANSI mode and
  lists of texts; forms have aggregates only where the code groups.
- `McpServer` reads a result in one step. `EngineRuns` has one trigger, at most
  two micro-batches, one failure; a progress event reaches its listeners in one
  step. `AnomalyModels` takes a Delta write as atomic, and names in two cases.
- `DqResults` has two checks and three runs; `Lineage` at most two events; a
  LIMIT or a sample is any subset of that size.
- `TaskRunner`'s table changes at most once; labels are dictionaries.
- `Binding` and `TaskRunner` take None for a value no other value equals.

### Fairness

`FairSpec` of the scheduler: the loop catches every exception of a tick and
goes on (`_loop`), jobs have a timeout and end, time passes. No fairness is
assumed of users or faults. Runs started by others end as well: that one which
never ends defers a schedule only for a while is not exercised.

`Progress` of the run lifecycle: a request that has begun continues, a started
job continues, time passes. `WatchedSpec` adds that somebody reads the history,
which `EndedRunIsReported` is about. `UnattendedSpec` adds only the two periodic
passes of the scheduler loop. Polls, cancellations and kills are never fair.

## 4. The proofs

Every theorem holds for any values of the constants that satisfy the named
assumption in its statement; there is no bound on data, requests, faults or
time unless the statement names it. The shape is always the same: an inductive
invariant with named parts, a lemma that the initial states satisfy it, one
lemma per action (or group of alike actions) that it is kept, and the property
as a consequence. The invariants were model-checked on the small instances
first.

`SchedulerProofs`:

- `TypeCorrect`; `NextStaysAfterLast`; `FiringsAreOwed`; `OwedRunsAreKept`.
- `OwnRunsNeverOverlap`: no schedule runs over itself, assuming that the Jobs
  API answers and that member lists can be read ("jobs_api" and "load" are not
  among the faults). Crashes, lost tracker writes and unrecorded jobs are
  included.

`NextAfterLast` is not inductive: a seed is computed from `tickBefore`, a
firing from `tickNow`. The strengthening has three layers. *Control* says where
in the loop the process is; *Timeline* orders `last`, `tickNow` and `clock`,
and has `next` after `last`; *Snapshot* says that the list of active runs read
once in the tick still covers every job of each schedule that the tick has yet
to decide about, which is why a stale list is harmless for a schedule's own
runs although it is not across schedules.

`RunLifecycleProofs`, for any set of runs and any caps:

| Theorem | Assumes | Inductive invariant |
|---|---|---|
| `RunTypeCorrect` | - | `TypeOK` |
| `SuccessesAreShown`, `FinishedRunsStayFinished` | - (every fault allowed) | `HistoryInv` |
| `LiveViewsAreKept` | the weekly collection can read the rows ("gc_read" excluded) | `RequestIsYoung`, `JobAfterSubmission` |
| `MembersHaveRows` | placeholder inserts succeed | `RecordedFirst` |
| `RunSetsAreNotEmpty` | roll-backs succeed | itself; a set without its member belongs to a request that is joining it or was cut short by a crash |
| `StagedConfigsAreNeeded` | deletions succeed | `StagedInOrder`: where the request is, and whether the job has read it, says whether the row is there |

What a listing shows is a CHOOSE of the first row of an order. `Dated` (no row
lies in the future) makes that row exist, by well-foundedness of the naturals;
`RunnerReports` says the runner's rows are exactly as it wrote them, since every
update touches RUNNING rows only (`RowsRestated`). From there the two history
theorems follow whatever the placeholder went through. For the views,
`WhyDropped` collects every reason for which a view disappears, and
`RequestIsYoung` shows that none of them applies to a live run that the
application knows of and that has not reported.

`RegistryProofs`, for any rules, contents, users and number of requests:
`RegistryTypeCorrect`, `EveryVersionIsAccountedFor`, `DeletedRulesStayDeleted`,
`LifeCycleBreaksOnlyByStaleCopies`, and the refinement
`RegistryImplementsVersionStore`. They assume that `NoRow` is not a row and, for
the refinement, the unique (rule, version) that Lakebase enforces
(`Dialect = "postgres"`). The invariant ties every copy a request holds to the
check that let it pass (`RequestsOK`), keeps ids of rules still to be inserted
fresh (`FreshIds`), and says of rows and of copies alike that what they show was
saved and that its versions are frozen, about to be, or known to be lost
(`RowsBacked`, `CopiesBacked`): without the second half a stale write could
bring back anything.

`BindingProofs`, for any number of requests, rules, mappings and groups:
`BindingTypeCorrect`, `OnlyReviewedVersionsRun`, `NothingGetsLost`,
`WhatRunsIsStored`. Each request's plan, copies and cursor are part of the
invariant, since a phase acts on what the phases before it read; `NothingIsLost`
is an action property and takes that invariant at both ends of a step.

`StudioProofs`, about the services of Studio:

| Theorem | Assumes | Argument |
|---|---|---|
| `ScoresAreTakenUp` (`ScoreRefresh`) | `ScoreAssumption` | every ended run is in one of the places the property lists; each pass moves it from one to the next, and a run whose row was taken before its metrics is given up |
| `TokensOutliveTheirRetries` (`TokenRefresh`) | `TokenAssumption`: the retries fit between a refresh and the end of the token | the time waited after n failures is bounded by n longest waits |
| `SavesAreToThePoint` (`Settings`) | `SettingsAssumption` | `SettingsInv`: the page, the labels, what each administrator has read and not yet written, and that the logos a document names are the stored ones unless a save strayed; an action property on top of it |
| `OneSpaceIsKept` (`GenieSpace`) | `GenieAssumption`: None is no id | `GenieInv`: what the call under way knows of the space it found or made, the hash against the content, and that a second space needs a lookup that missed the first |
| `DecisionsAreAboutWhatWasSubmitted` (`Products`) | - | `sent` against the members and pins, and what a request has read but not written |
| `HistoriesTellTheStory` (`Reviews`) | `Statuses # {}` | the last entry and the status, each reviewer's copy of it |
| `ManageIsOnlyHandedDown` (`Access`) | - | who passed the check held MANAGE then; `given` records every grant of it |
| `RowsAreShownToReaders` (`Entitlements`) | `EntitlementAssumption` | what each request has been answered was so since it began (`AnswersWereSo`), and so is what its record rests on (`RecordsWereSo`) |
| `SchedulesCanRead` (`ScheduleGrants`) | - | each way an inspection may answer, against the privileges that are held: an answer "yes" or "no" is the truth about every level asked for |
| `DraftsAreBindable` (`AiDrafts`) | `DraftAssumption`: None is no draft | `DraftInv`; the judgement of an answer, shape by shape, with undeclared bare columns passing for literals as in the code |

`McpProofs`, about what runs outside the application, and what starts it:

| Theorem | Assumes | Argument |
|---|---|---|
| `McpServerKeepsItsWord` (`McpServer`) | `McpAssumption` | ages of views, files and results against the state of the run that reads them; the sweep's clock |
| `RunsTellTheirStory` (`TaskRunner`) | `JobAssumption`: sizes are numbers, None is neither a number nor a row | `JobInv` says, step by step, which rows the job has appended, and that each SUCCESS row speaks of the one scan in `seen.observed`; that a scan adds up (`ScansAddUp`) and that a summary names a failed check where there is one (`SummariesNameFailures`) are lemmas about cardinalities |
| `SetupKeepsItsPromises` (`Setup`) | `SetupAssumption`: names are numbers, None is nothing that is stored | `SetupInv`: at each step what the walk has settled by then (`Settled`), what a published READY rests on (`Earned`), that overrides and memory name only what was confirmed or verified (`VouchInv`), and that a migration has left to do what is not recorded (`Ahead`) |

`LibraryProofs`, about the library's stores, pools and alerts:

| Theorem | Assumes | Argument |
|---|---|---|
| `RuleSetsAreSavedOnceAndLoadedForward` (`RuleStore`) | None is no rule set | `StoreInv`: blocks carry the time of their save, a writer's place says what its lookup of the fingerprint can have seen, and a load under way sees a prefix of the history |
| `ModelsHaveSuccessors` (`AnomalyModels`) | - | `ModelInv`: while no two trainings overlap there is one active model and it is the newest; a name without one was left so by a save that broke off, or lost its record to a table created over it, which takes an overlap |
| `ConfigurationsAreAccountedFor` (`EngineRuns`) | - | `PoolInv`: stage by stage what a future has written, filled and registered for; every row of metrics comes from a batch of its own configuration |
| `AlertsGoOutOncePerWindow` (`Actions`) | `ActionAssumption`: actions of one name agree on kind and frequency, since state is kept by name | `AlertsInv`: a run that reserved the slot is the last to have fired, every execution of this process or on record is remembered (`Remembered`), and so any two are apart (`Apart`); what each place of a run has saved (`SavedBy`) gives the evidence of a stopped one |

The assumptions are about the constants, and TLC evaluates them for the small
instances (`ConstantsAreFit` in `MCParts`), but for `JobAssumption`, whose
last conjunct ranges over all rows: it stays a hypothesis of
`RunsTellTheirStory` and of `JobsAgreeWithThemselves`.

`PartsProofs` carries these theorems over to the properties the runs check: a
part never changes, so that a behaviour of `MCParts` is one of its component,
and the theorem of the component's instance applies. `SavedIsLoaded`,
`RunsAreTraced`, `SetupKeepsFaith`, `AccessGoesByTheRules`,
`DecisionsStandAsTaken`, `ScoresDoNotSlip`, `JobsAgreeWithThemselves`,
`ToolsArePrivateAndInTime` and `SettingsKeepTheRest` are the nine properties of
`library` and `services` that are about components with state.

### What is only model-checked

- The liveness properties (`OwedRunIsHandled`, `AbandonedViewIsReaped`,
  `EndedRunIsReported`): fairness is outside what the prover handles.
- The pure modules: `RowChecks`, `DatasetChecks`, `GeoChecks`, `SchemaChecks`,
  `Engine`, `Profiling`, `Contracts`, `Rules`, `Anomaly`, `Lineage`,
  `DqResults`, `SqlStatements`, `RuleTests`. What their folds and recursive
  functions compute for every input needs induction over data, for which the
  prover has no rule that can be instantiated. `ScheduleGrants` is the exception:
  its inspection has a fixed number of levels. (No module declares a RECURSIVE
  operator; recursion is by function.)

## 5. What the code does that a reader may not expect

Each is what the code does and what the modules say; no run is about it, or the
property that is has it as a condition. Where a property excuses a request that
overlapped or failed half way, it records the loss and shows what it takes; it
does not exclude it.

Scheduler and runs:

- A skip advances `next_run_at` but not `last_run_at`; the next realignment
  derives the skipped occurrence from `last_run_at` and fires it.
- Two schedules on one table that are due in the same tick both fire: active
  runs are listed once per tick. A tick between the commit of a resumption and
  its notification fires an occurrence missed while paused. `reload()` moves the
  due run of every scope config, not only of the edited one.
- Placeholders of successful runs stay RUNNING and fill the sweep's window; more
  of them than the window holds, and an older abandoned run is never examined.
- A configuration whose request died before `run_now`, or whose job could not
  read it, stays staged (`runner.py:1399-1404`, `:1464`).
- A run whose row is written and whose metrics are not is taken for finished
  while the jobs cannot be listed: its scores are refreshed without it
  (`services/scheduler_service.py:1697`). Runs whose refresh fails for good are
  given up (`:1564`). `NoScoreSlips` counts both as given up.
- A lost placeholder INSERT is only logged, so `MemberHasRow` needs that insert;
  a RUNNING row beyond the lookup cap is judged by age alone; the sweep may drop
  a view between the SUCCESS row and the quarantine write.
- In the task runner, `columns_profiled` counts profiles (`runner.py:459`); a
  preview whose configuration cannot be read leaves a FAILED row of type
  "dryrun"; runs of the scheduler read the whole table whatever sample size they
  are sent.

Rules and tables (each is a formula of its module that no run checks):

- `FrozenIsWhatWasReviewed` (`Binding`): a freeze reads severity, threshold and
  user metadata of the live applications, not of the reviewed checks
  (`services/monitored_table_versions.py:450`); an edit after the review is
  frozen without one. A version that nobody reviewed runs only where approvals
  carry over on their own.
- `EveryApprovalIsFrozen` (`Registry`): a snapshot that cannot be written is
  logged, and the rule stays approved at a version the store does not have.
- `TestsReadTextsAsRunsDo` (`RuleTests`): a text in a list of allowed values is
  a literal in the test and an expression in the run
  (`native_test_predicate.py:133`).
- `UsableRulesParse` (`RuleTests`): a form counts as usable although its first
  row compiles to nothing and is left out; its SQL then starts with the
  connective of the second row.

- An application added while a materialization is under way loses its checks to
  the sweep of orphans, which compares with the list read at the start
  (`services/materializer.py:893`). `NothingIsLost` has it as a condition, as
  `DecisionsStand` has an approval written over an edit it had not seen
  (`services/data_product_service.py:663`).

Access, results and assistance:

- The privilege to select, the absence of filters and the write of the record are
  three awaited calls, and the record has the time of the write
  (`services/entitlement_service.py:285-293`). A user may be verified who could
  never read the unfiltered rows at one moment, and sees failing rows for up to
  the time of the request longer than `TTL` after they last could.
- The preview's filter in SQL takes the mapped columns only where the list of
  columns is NULL (`routes/v1/dq_results.py:390-393`); the parser also where it is
  empty (`services/quarantine_sample_service.py:108-120`). Records of the old
  form, one object, match no filter in SQL, as its docstring says (`:360-362`).
  On all others the two agree; on these the preview shows fewer rows.
- A bare column that a native draft does not declare cannot be told from a literal
  and is let through (the KNOWN GAP of `services/ai_rules_service.py:1244-1252`):
  the draft has no slot for it. `DraftsCanBeBound` speaks of declared columns.

Library:

- The record of an anomaly model is saved after asking whether the table exists,
  and a table that does not is created in mode overwrite
  (`src/src/databricks/labs/dqx/anomaly/model_registry.py:102-111`): of two
  trainings that overlap, the second may wipe the record of the first.
- `NullsAreExcluded` (`GeoChecks`): `are_polygons_mutually_disjoint` collects
  duplicates before it leaves out rows without a polygon, so two equal rows
  whose geometry is NULL are flagged.
- `AtLeastNDaysOldPasses` (`RowChecks`): a value exactly N days old is flagged by
  `is_older_than_n_days`.
- `MandatoryIsChecked` (`Contracts`): a required property that is an object gets
  no rule of its own.
- `OldModelIsReplaced` (`AnomalyModels`): training warns that the model of the
  same name is archived
  (`src/src/databricks/labs/dqx/anomaly/training_service.py:302-308`); what is
  archived is the model of the same name and segment, so one made with other
  segments stays active.

Settings:

- Saves that overlap, or fail half way, may leave a logo and the document that
  names it apart (`services/app_settings_service.py:1494`); `SavesKeepTheRest`
  has it as a condition.
- `SetupNeverOverridesAdmin` (`Setup`): setup reads who turned the assistant on
  and writes its own choice later (`setup/ai_access.py:98-100`, `:150`); switch
  and source are two rows (`services/app_settings_service.py:1102-1103`).
- `OtherModeKeepsItsLogo` (`Settings`): where logos are separate and the dark
  one is missing, an upload for the light mode changes what the dark mode shows.
- The Genie space's status is written apart from its id and hash
  (`services/genie_space_service.py:1771`, `:1889-1896`): a process that ends in
  between leaves a status that `routes/v1/genie.py:203-206` reads as final until
  the next start.

## 6. What is left

Every component with state has its theorem. What would come next:

1. The search of `_compute_next_cron_run` against `NextRun`, over calendars with
   gaps and overlaps.
2. An abstract scheduler, where each occurrence is fired or skipped exactly
   once, that `Scheduler` implements as long as no skip is undone.
3. Retention, whose DELETE statements race the listings of section 2.
4. Theorems about single definitions of the pure modules that need no
   induction, such as the thresholds of `Contracts` and the verdicts of
   `RowChecks` on one row.
