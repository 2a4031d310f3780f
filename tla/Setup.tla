------------------------------- MODULE Setup --------------------------------
(***************************************************************************)
(* Setting up DQX Studio (backend/setup, backend/startup.py,               *)
(* backend/migrations).  The orchestrator walks through a fixed list of    *)
(* steps under the activation lock, stops at the first that blocks, and    *)
(* publishes READY at the end; administrators save the configuration,      *)
(* confirm steps Studio cannot check, run grants and choose the identity   *)
(* of the task runner between the walks.  The process may end between any  *)
(* two calls and starts again from what is stored.                         *)
(*                                                                         *)
(* Who has which privilege in the workspace is not state here: a check     *)
(* gets any answer.  What a walk decides from the answers, what it stores  *)
(* and what it creates is.  A result is passed, action_required, failed,   *)
(* warning or overridden, offers an override or not, and lists GRANT       *)
(* statements or not.                                                      *)
(***************************************************************************)
EXTENDS Naturals, Sequences, FiniteSets

CONSTANTS
  Names,          \* positive numbers: names of catalogs, prefixes, groups, warehouses, service principals
  None,           \* what is not there
  MaxEvents,      \* bound: how often a configuration is saved, the process ends, or something of the next line happens
  MaxChanges      \* bound: what others change in the workspace and in the settings, and what writes are lost

VARIABLES
  deployed,   \* a bundle set the configuration and the job
  stored,     \* the settings in Lakebase
  world,      \* schemas, Delta and Postgres migrations, jobs and their identities
  process,    \* what the running process has bound, opened and found
  report,     \* what setup_runtime publishes
  run,        \* who holds the activation lock, and at which step
  vouched,    \* what an administrator confirmed, and what was verified in full
  budget

vars == <<deployed, stored, world, process, report, run, vouched, budget>>

Steps == {"identity", "lakebase", "configuration", "unity_catalog", "storage", "warehouse", "task_runner", "wheels",
          "migrations", "activation", "access", "ai", "app_sharing"}
OVERRIDABLE_STEPS == {"unity_catalog", "warehouse", "task_runner", "access", "ai", "app_sharing"}
Scopes == {"unity_catalog", "task_runner", "task_runner_outputs"}
Field == {"catalog", "prefix", "group"}
Config == [Field -> Names]
Uniform(n) == [f \in Field |-> n]
Bundle == Uniform(CHOOSE n \in Names : TRUE)   \* what a bundle configures
Location == Names \X Names
Place(c) == <<c.catalog, c.prefix>>
App == 0   \* the app's own service principal

SetupAssumption ==
  /\ 1 \in Names /\ Names \subseteq Nat \ {App}
  /\ None \notin {1, 2} /\ None \notin Config
  /\ None \notin OVERRIDABLE_STEPS \X Config \X (Names \cup {None})
  /\ None \notin Scopes \X Names \X Names /\ None \notin Scopes \X Location \X (Names \cup {App})

\* MIGRATIONS: the statements of each version, in order; one stands for several.
Statements == << <<"create runs">>, <<"create configs">> >>
Versions == 1 .. Len(Statements)

Idle == [pc |-> "idle"]
Blank == [offers |-> {}, grants |-> {}, overridden |-> {}, trusted |-> {}]
Checking == [state |-> "checking", shown |-> Blank]
Closed == [config |-> None, opened |-> FALSE, active |-> FALSE]
Down == [up |-> FALSE, bound |-> None, context |-> Closed, job |-> None]

Init ==
  /\ deployed \in BOOLEAN
  /\ stored = [choices |-> [f \in Field |-> None], locked |-> FALSE,
               overrides |-> [s \in OVERRIDABLE_STEPS |-> None], memo |-> [s \in Scopes |-> None],
               ai |-> [enabled |-> TRUE, source |-> "setup"], warehouse |-> CHOOSE n \in Names : TRUE,
               completed |-> FALSE]
  /\ \E s \in IF deployed THEN {"absent", "managed"} ELSE {"absent"}, n \in IF deployed THEN {App, 1} ELSE {App} :
       world = [schemas |-> [l \in Location |-> IF l = Place(Bundle) THEN s ELSE "absent"],
                delta |-> [l \in Location |-> [done |-> {}, recorded |-> {}]],
                postgres |-> 0, jobs |-> IF deployed THEN {1} ELSE {}, runAs |-> [j \in {1, 2} |-> IF j = 1 THEN n ELSE App]]
  /\ process = Down
  /\ report = Checking
  /\ run = Idle
  /\ vouched = [confirmed |-> {}, verified |-> {}]
  /\ \E c \in 0 .. MaxChanges : budget = [events |-> MaxEvents - c, changes |-> c]

-----------------------------------------------------------------------------
(* Results, overrides and the memo of verifications *)

_passed == [state |-> "passed", override |-> FALSE, grants |-> FALSE]
_failed == [state |-> "failed", override |-> FALSE, grants |-> FALSE]
_action_required == [state |-> "action_required", override |-> FALSE, grants |-> FALSE]
Overridable(grants) == [state |-> "action_required", override |-> TRUE, grants |-> grants]
Warning(override, grants) == [state |-> "warning", override |-> override, grants |-> grants]

\* What an override of a step is about: the storage and the audience, and the
\* warehouse where the step is about one.
Subject(step, c) == <<step, c, IF step = "warehouse" THEN stored.warehouse ELSE None>>

override_fingerprint(step, c) == <<step, c, IF step = "warehouse" THEN stored.warehouse ELSE None>>

\* _apply_override: a step that passes withdraws what was confirmed.
_apply_override(step, r) ==
  IF r.state = "passed" THEN _passed
  ELSE IF r.state \in {"action_required", "warning"} /\ r.override
          /\ stored.overrides[step] = override_fingerprint(step, process.bound)
  THEN [state |-> "overridden", override |-> FALSE, grants |-> FALSE]
  ELSE r

Cleared(step, r) == IF r.state = "passed" THEN [stored.overrides EXCEPT ![step] = None] ELSE stored.overrides

\* What a full verification of a scope covers: the runner's requirements name
\* the schemas and the principal as well.
Requirement(scope, c) ==
  IF scope = "unity_catalog" THEN <<scope, c.catalog, c.group>> ELSE <<scope, Place(c), world.runAs[process.job]>>

requirement_fingerprint(scope, c) ==
  IF scope = "unity_catalog" THEN <<scope, c.catalog, c.group>> ELSE <<scope, Place(c), world.runAs[process.job]>>

\* _reuses_verification: only when nobody is there to look.
Reuses(scope) == ~run.attended /\ stored.memo[scope] = requirement_fingerprint(scope, process.bound)

\* VerificationMemo.record; a write that fails is passed over.
Record(scope, o) ==
  \/ /\ stored' = [stored EXCEPT !.overrides = o, !.memo[scope] = requirement_fingerprint(scope, process.bound)]
     /\ vouched' = [vouched EXCEPT !.verified = @ \cup {Requirement(scope, process.bound)}]
     /\ UNCHANGED budget
  \/ /\ budget.changes > 0 /\ budget' = [budget EXCEPT !.changes = @ - 1]
     /\ stored' = [stored EXCEPT !.overrides = o]
     /\ UNCHANGED vouched

-----------------------------------------------------------------------------
(* The walk *)

\* _record: a step that blocks ends the walk.
Shown(step, r) ==
  [offers |-> IF r.override THEN run.shown.offers \cup {step} ELSE run.shown.offers \ {step},
   grants |-> IF r.grants THEN run.shown.grants \cup {step} ELSE run.shown.grants \ {step},
   overridden |-> IF r.state = "overridden" THEN run.shown.overridden \cup {Subject(step, process.bound)} ELSE run.shown.overridden,
   trusted |-> run.shown.trusted]

Blocking == {"action_required", "failed"}

_record(step, r, next) ==
  IF r.state \in Blocking
  THEN /\ report' = [state |-> "setup_required", shown |-> Shown(step, r)]
       /\ run' = Idle
  ELSE /\ report' = IF run.progress THEN [state |-> "initializing", shown |-> Shown(step, r)] ELSE report
       /\ run' = [run EXCEPT !.pc = next, !.shown = Shown(step, r)]

Stay == UNCHANGED <<deployed, vouched, budget>>
StayPut == UNCHANGED <<deployed, stored, world, process, vouched, budget>>

Walk(attended, progress) == [pc |-> "identity", attended |-> attended, progress |-> progress, shown |-> Blank, todo |-> <<>>]

\* start_studio: without its bindings or its connection there is nothing to walk.
start_studio ==
  /\ ~process.up /\ run.pc = "idle"
  /\ process' = [Down EXCEPT !.up = TRUE]
  /\ \/ /\ report' = Checking
        /\ run' = Walk(FALSE, TRUE)
     \/ /\ report' = [state |-> "setup_required", shown |-> Blank]
        /\ run' = Idle
  /\ UNCHANGED <<deployed, stored, world, vouched, budget>>

\* reconcile, for an administrator, asked for or at the end of one of the
\* requests below: READY stays published until a step blocks.
reconcile ==
  /\ process.up /\ run.pc = "idle"
  /\ report' = IF report.state = "ready" THEN report ELSE Checking
  /\ run' = Walk(TRUE, report.state # "ready")
  /\ StayPut

\* check_app_identity, check_lakebase, ensure_lakebase_schema: one of them stops the walk, or none.
Bootstrap(step, r) == run.pc = "identity" /\ (r = _passed => step = "lakebase") /\ _record(step, r, "postgres") /\ StayPut

\* PgMigrationRunner.run_all: a version and its row commit together; a failure
\* leaves the versions before it.
RunPostgresMigrations(upto) ==
  /\ run.pc = "postgres" /\ upto \in world.postgres .. Len(Statements)
  /\ world' = [world EXCEPT !.postgres = upto]
  /\ _record("lakebase", IF upto = Len(Statements) THEN _passed ELSE _failed, "configuration")
  /\ UNCHANGED <<stored, process>> /\ Stay

Stored == stored.choices
Complete == \A f \in Field : Stored[f] # None
\* resolve_configuration: the bundle's, or what is saved when all of it is.
Resolved == IF deployed THEN Bundle ELSE IF Complete THEN Stored ELSE None

\* deactivate_studio, of a context that was opened; its hooks may fail, it is closed all the same.
Released == Closed

\* _resolve_configuration and _configuration_step: other resources are bound
\* anew, after what was open for the old ones is closed.
_resolve_configuration(fails) ==
  /\ run.pc = "configuration"
  /\ IF Resolved = None \/ (fails /\ process.bound # Resolved)
     THEN /\ process' = IF Resolved = None THEN process ELSE [process EXCEPT !.bound = None, !.context = Released]
          /\ _record("configuration", IF Resolved = None THEN _action_required ELSE _failed, "unity_catalog")
     ELSE /\ process' = IF process.bound = Resolved THEN process
                        ELSE [process EXCEPT !.bound = Resolved, !.context = [Released EXCEPT !.config = Resolved]]
          /\ _record("configuration", _passed, "unity_catalog")
  /\ UNCHANGED <<stored, world>> /\ Stay

\* The settings cannot be read.
ResolveFails == run.pc = "configuration" /\ _record("configuration", _failed, "unity_catalog") /\ StayPut

\* A step that an override may settle.
AdvanceBound(step, r, next) ==
  /\ _record(step, _apply_override(step, r), next)
  /\ stored' = [stored EXCEPT !.overrides = Cleared(step, r)]

\* A result of a check with a memo: what is missing or unreadable blocks, unless
\* what cannot be read was verified in full before and nobody is there to look.
Verified(step, scope, answer, reusable, next) ==
  LET c == process.bound
      byMemo == answer = reusable /\ answer # {} /\ Reuses(scope)
      r == IF answer = {} \/ byMemo THEN _passed ELSE Overridable("missing" \in answer)
      a == _apply_override(step, r) IN
  /\ IF byMemo
     THEN /\ run' = [run EXCEPT !.pc = next, !.shown.trusted = @ \cup {Requirement(scope, c)}]
          /\ report' = IF run.progress THEN [state |-> "initializing", shown |-> run'.shown] ELSE report
     ELSE _record(step, a, next)
  /\ IF answer = {} THEN Record(scope, Cleared(step, r))
     ELSE stored' = [stored EXCEPT !.overrides = Cleared(step, r)] /\ UNCHANGED <<vouched, budget>>

\* check_unity_catalog: which privileges are missing, and whether all could be read.
check_unity_catalog(answer) ==
  /\ run.pc = "unity_catalog" /\ answer \in SUBSET {"missing", "catalog"}
  /\ Verified("unity_catalog", "unity_catalog", answer, {"catalog"}, "storage")
  /\ UNCHANGED <<deployed, world, process>>

\* _schema_status of the schemas at a location: what is there, and what the
\* inspection makes of it.
_schema_status(l) ==
  CASE world.schemas[l] = "absent"  -> {"missing", "failed"}
    [] world.schemas[l] = "ours"    -> {"ok", "failed"}
    [] world.schemas[l] = "foreign" -> {"collision", "failed"}
    [] world.schemas[l] = "managed" -> {"ok", "incomplete", "failed"}

\* ensure_storage: only a saved configuration is provisioned.
ensure_storage(status) ==
  /\ run.pc = "storage" /\ status \in _schema_status(Place(process.bound))
  /\ IF status = "ok" THEN run' = [run EXCEPT !.pc = "volume"] /\ UNCHANGED report
     ELSE IF status = "missing" /\ ~deployed THEN run' = [run EXCEPT !.pc = "create"] /\ UNCHANGED report
     ELSE _record("storage", [_action_required EXCEPT !.grants = (status = "incomplete")], "warehouse")
  /\ StayPut

\* _create_storage: CREATE SCHEMA IF NOT EXISTS, which leaves alone what has
\* come to be there in the meantime.
_create_storage(fails) ==
  /\ run.pc = "create"
  /\ IF fails THEN world' = world /\ _record("storage", _action_required, "warehouse")
     ELSE /\ world' = [world EXCEPT !.schemas[Place(process.bound)] = IF @ = "absent" THEN "ours" ELSE @]
          /\ run' = [run EXCEPT !.pc = "recheck"] /\ UNCHANGED report
  /\ UNCHANGED <<stored, process>> /\ Stay

\* Mutant: what was just created is taken to be Studio's.
Unchecked(status) ==
  /\ run.pc = "recheck" /\ status \in _schema_status(Place(process.bound))
  /\ run' = [run EXCEPT !.pc = "volume"] /\ UNCHANGED report
  /\ StayPut

\* The schemas that were missing are looked at again.
RecheckStorage(status) ==
  /\ run.pc = "recheck" /\ status \in _schema_status(Place(process.bound))
  /\ IF status = "ok" THEN run' = [run EXCEPT !.pc = "volume"] /\ UNCHANGED report
     ELSE _record("storage", _action_required, "warehouse")
  /\ StayPut

\* _check_volume_access
_check_volume_access(r) ==
  /\ run.pc = "volume" /\ r \in {_passed, _action_required, [_action_required EXCEPT !.grants = TRUE]}
  /\ IF r = _passed /\ ~stored.locked THEN run' = [run EXCEPT !.pc = "lock"] /\ UNCHANGED report
     ELSE _record("storage", r, "warehouse")
  /\ StayPut

\* _ensure_storage locks the configuration once its storage is there.
LockConfiguration(fails) ==
  /\ run.pc = "lock"
  /\ stored' = [stored EXCEPT !.locked = ~fails]
  /\ _record("storage", IF fails THEN _failed ELSE _passed, "warehouse")
  /\ UNCHANGED <<world, process>> /\ Stay

\* check_warehouse: the app's own access, then that of the audience.
check_warehouse(r) ==
  /\ run.pc = "warehouse" /\ r \in {_passed, Overridable(FALSE)}
  /\ AdvanceBound("warehouse", r, "task_runner")
  /\ UNCHANGED <<world, process>> /\ Stay

\* TaskRunnerJobManager.resolve: the job the process knows, the bundle's, one
\* with Studio's tags, or a new one, which has the tags from the start.
ResolveJob(j) ==
  IF process.job # None THEN j = process.job
  ELSE IF deployed THEN j = 1
  ELSE IF world.jobs # {} THEN j \in world.jobs ELSE j \in {1, 2}

\* _reconcile_job, up to the identity the job runs as: a job that is gone is forgotten.
_reconcile_job(j) ==
  /\ run.pc = "task_runner" /\ ResolveJob(j)
  /\ LET created == process.job = None /\ ~deployed /\ j \notin world.jobs
         missing == j \notin world.jobs /\ ~created IN
     /\ world' = IF created THEN [world EXCEPT !.jobs = @ \cup {j}, !.runAs[j] = App] ELSE world
     /\ process' = [process EXCEPT !.job = IF missing THEN None ELSE j]
     /\ IF missing THEN _record("task_runner", _failed, "wheels")
        ELSE IF world'.runAs[j] = App THEN _record("task_runner", _action_required, "wheels")
        ELSE run' = [run EXCEPT !.pc = "runner_access"] /\ UNCHANGED report
  /\ UNCHANGED stored /\ Stay

JobCallFails == run.pc = "task_runner" /\ _record("task_runner", _failed, "wheels") /\ StayPut

\* check_runner_access: a job that runs as the app, or as nobody, is not usable.
check_runner_access(pc, scope, answer, next) ==
  /\ run.pc = pc /\ answer \in SUBSET {"missing", "catalog", "schema"}
  /\ IF process.job \notin world.jobs \/ world.runAs[process.job] = App
     THEN _record("task_runner", _action_required, next) /\ UNCHANGED <<stored, vouched, budget>>
     ELSE Verified("task_runner", scope, answer, {"catalog"}, next)
  /\ UNCHANGED <<deployed, world, process>>

\* _reconcile_wheels
_reconcile_wheels(r) == run.pc = "wheels" /\ r \in {_passed, _failed} /\ _record("wheels", r, "plan") /\ StayPut

\* MigrationRunner.run_all: the statements of the versions without a row, each
\* version's row after its statements.
Unapplied(recorded) ==
  LET Of(v) == IF v \in recorded THEN <<>> ELSE [i \in 1 .. Len(Statements[v]) |-> <<v, i>>] \o << <<v, 0>> >> IN
  Of(1) \o Of(2)

PlanMigrations ==
  /\ run.pc = "plan"
  /\ run' = [run EXCEPT !.pc = "migrate", !.todo = Unapplied(world.delta[Place(process.bound)].recorded)]
  /\ UNCHANGED report /\ StayPut

\* _apply: a statement whose effect is there already is passed over; a failure
\* ends the step with what has been done.
_apply(fails) ==
  /\ run.pc = "migrate"
  /\ LET l == Place(process.bound) IN
     IF run.todo = <<>> THEN world' = world /\ _record("migrations", _passed, "outputs")
     ELSE IF fails THEN world' = world /\ _record("migrations", _failed, "outputs")
     ELSE /\ world' = IF Head(run.todo)[2] = 0
                      THEN [world EXCEPT !.delta[l].recorded = @ \cup {Head(run.todo)[1]}]
                      ELSE [world EXCEPT !.delta[l].done = @ \cup {Head(run.todo)}]
          /\ run' = [run EXCEPT !.todo = Tail(@)] /\ UNCHANGED report
  /\ UNCHANGED <<stored, process>> /\ Stay

record_setup_completion(fails) ==
  /\ run.pc = "completion"
  /\ stored' = [stored EXCEPT !.completed = @ \/ ~fails]
  /\ IF fails THEN _record("migrations", _failed, "activation") ELSE run' = [run EXCEPT !.pc = "activation"] /\ UNCHANGED report
  /\ UNCHANGED <<world, process>> /\ Stay

\* activate_studio: opened, then the hooks, then active; once active nothing is run again.
activate_studio(fails) ==
  /\ run.pc = "activation" /\ (fails => ~process.context.active)
  /\ process' = [process EXCEPT !.context.opened = TRUE, !.context.active = ~fails]
  /\ _record("activation", IF fails THEN _failed ELSE _passed, "access")
  /\ UNCHANGED <<stored, world>> /\ Stay

\* reconcile_access: grants in Unity Catalog, the Genie space and the dashboard.
reconcile_access(catalog, shared) ==
  /\ run.pc = "access" /\ catalog \in SUBSET {"missing", "unknown"} /\ shared \in {"granted", "missing", "unknown", "not_applicable"}
  /\ AdvanceBound("access",
       IF catalog = {} /\ shared \in {"granted", "not_applicable"} THEN _passed
       ELSE Overridable("missing" \in catalog /\ (shared # "unknown" \/ catalog # {})), "ai")
  /\ UNCHANGED <<world, process>> /\ Stay

\* check_ai_access, to the decision: setup changes only what is its own, with an
\* administrator there, on what is confirmed.
check_ai_access(problems) ==
  LET own == stored.ai.source # "admin"
      on == stored.ai.enabled
      wants == IF problems = {} THEN TRUE ELSE IF problems # {"unverified"} THEN FALSE ELSE on IN
  /\ run.pc = "ai" /\ problems \in SUBSET {"endpoint", "missing", "unverified"}
  /\ IF ~on /\ ~own THEN AdvanceBound("ai", _passed, "app_sharing")
     ELSE IF own /\ run.attended /\ wants # on THEN run' = [run EXCEPT !.pc = IF wants THEN "ai_on" ELSE "ai_off"] /\ UNCHANGED <<stored, report>>
     ELSE IF problems = {} THEN AdvanceBound("ai", IF on THEN _passed ELSE Warning(FALSE, FALSE), "app_sharing")
     ELSE AdvanceBound("ai", Warning(TRUE, "missing" \in problems), "app_sharing")
  /\ UNCHANGED <<world, process>> /\ Stay

\* Settings that cannot be read are a warning; only an unreadable source of it.
AiSettingsUnreadable == run.pc = "ai" /\ _record("ai", Warning(FALSE, FALSE), "app_sharing") /\ StayPut

\* save_ai_enabled with source setup, after the models have been inspected.
SaveAiEnabled(fails) ==
  LET on == run.pc = "ai_on"
      ai == IF fails THEN stored.ai ELSE [enabled |-> on, source |-> "setup"]
      r == IF ~on THEN Warning(TRUE, FALSE) ELSE IF fails THEN Warning(FALSE, FALSE) ELSE _passed IN
  /\ run.pc \in {"ai_on", "ai_off"}
  /\ _record("ai", _apply_override("ai", r), "app_sharing")
  /\ stored' = [stored EXCEPT !.overrides = Cleared("ai", r), !.ai = ai]
  /\ UNCHANGED <<world, process>> /\ Stay

\* check_app_sharing and what follows it: READY is published.  That the
\* background is started after it, or not, changes nothing here.
check_app_sharing(r) ==
  LET a == _apply_override("app_sharing", r) IN
  /\ run.pc = "app_sharing" /\ r \in {_passed, Warning(TRUE, FALSE), Overridable(FALSE)}
  /\ stored' = [stored EXCEPT !.overrides = Cleared("app_sharing", r)]
  /\ report' = [state |-> IF a.state \in Blocking THEN "setup_required" ELSE "ready", shown |-> Shown("app_sharing", a)]
  /\ run' = Idle
  /\ UNCHANGED <<world, process>> /\ Stay

-----------------------------------------------------------------------------
(* Administrators, between the walks.  A request ends with a walk of its own  *)
(* once it has released the lock; others may come before it, and reconcile    *)
(* is always possible.                                                        *)

Free == process.up /\ run.pc = "idle"

\* save_configuration: refused by the route for a bundle, and once locked.
save_configuration(n) ==
  /\ Free /\ budget.events > 0 /\ ~deployed /\ ~stored.locked /\ world.postgres > 0
  /\ stored' = [stored EXCEPT !.choices.catalog = n]
  /\ run' = [pc |-> "save_prefix", name |-> n]
  /\ budget' = [budget EXCEPT !.events = @ - 1]
  /\ UNCHANGED <<deployed, world, process, report, vouched>>

\* SetupConfigurationStore.save writes one setting after the other.
SaveNext ==
  \/ /\ run.pc = "save_prefix"
     /\ stored' = [stored EXCEPT !.choices.prefix = run.name]
     /\ run' = [run EXCEPT !.pc = "save_group"]
     /\ UNCHANGED <<deployed, world, process, report, vouched, budget>>
  \/ /\ run.pc = "save_group"
     /\ stored' = [stored EXCEPT !.choices.group = run.name]
     /\ run' = Idle
     /\ UNCHANGED <<deployed, world, process, report, vouched, budget>>

\* A write fails: the request does, and what it wrote stays.
SaveFails == run.pc \in {"save_prefix", "save_group"} /\ run' = Idle /\ UNCHANGED <<deployed, stored, world, process, report, vouched, budget>>

\* override: only what the published step offers; AI is switched on first, and
\* the administrator's from then on.
override(step, fails) ==
  /\ Free /\ process.bound # None /\ step \in report.shown.offers /\ budget.changes > 0
  /\ stored' = [stored EXCEPT !.ai = IF step = "ai" THEN [enabled |-> TRUE, source |-> "admin"] ELSE @,
                              !.overrides[step] = IF fails THEN @ ELSE override_fingerprint(step, process.bound)]
  /\ vouched' = IF fails THEN vouched ELSE [vouched EXCEPT !.confirmed = @ \cup {Subject(step, process.bound)}]
  /\ budget' = [budget EXCEPT !.changes = @ - 1]
  /\ UNCHANGED <<deployed, world, process, report, run>>

\* apply_grants: the step is checked again with the administrator's eyes before
\* its statements are run.
apply_grants(step, complete) ==
  /\ Free /\ process.bound # None /\ step \in report.shown.grants
  /\ LET scope == IF step = "task_runner" THEN "task_runner" ELSE "unity_catalog" IN
     IF step \in {"unity_catalog", "task_runner"} /\ complete /\ (step = "task_runner" => process.job \in world.jobs /\ world.runAs[process.job] # App)
     THEN /\ stored' = [stored EXCEPT !.memo[scope] = requirement_fingerprint(scope, process.bound)]
          /\ vouched' = [vouched EXCEPT !.verified = @ \cup {Requirement(scope, process.bound)}]
     ELSE UNCHANGED <<stored, vouched>>
  /\ UNCHANGED <<deployed, world, process, report, run, budget>>

\* set_task_runner_run_as
set_task_runner_run_as(n) ==
  /\ Free /\ ~deployed /\ process.job \in world.jobs /\ world.runAs[process.job] # n
  /\ world.runAs[process.job] = App \/ budget.changes > 0
  /\ world' = [world EXCEPT !.runAs[process.job] = n]
  /\ budget' = [budget EXCEPT !.changes = IF world.runAs[process.job] = App THEN @ ELSE @ - 1]
  /\ UNCHANGED <<deployed, stored, process, report, run, vouched>>

\* The settings page: the warehouse Studio uses, and the switch for AI.  It does
\* not take the activation lock.
ChangeWarehouse(n) ==
  /\ report.state = "ready" /\ budget.changes > 0 /\ n # stored.warehouse
  /\ stored' = [stored EXCEPT !.warehouse = n]
  /\ budget' = [budget EXCEPT !.changes = @ - 1]
  /\ UNCHANGED <<deployed, world, process, report, run, vouched>>

SwitchAi(on) ==
  /\ report.state = "ready" /\ budget.changes > 0
  /\ stored' = [stored EXCEPT !.ai = [enabled |-> on, source |-> "admin"]]
  /\ budget' = [budget EXCEPT !.changes = @ - 1]
  /\ UNCHANGED <<deployed, world, process, report, run, vouched>>

\* Others in the workspace: a schema comes to be where Studio would create its
\* own, with or without MANAGE for Studio; a job is deleted, or the bundle's runs as another.
Workspace ==
  /\ budget.changes > 0
  /\ \/ /\ Resolved # None /\ world.schemas[Place(Resolved)] = "absent"
        /\ \E s \in {"foreign", "managed"} : world' = [world EXCEPT !.schemas[Place(Resolved)] = s]
     \/ \E j \in world.jobs : world' = [world EXCEPT !.jobs = @ \ {j}]
     \/ deployed /\ \E n \in Names : world' = [world EXCEPT !.runAs[1] = n]
  /\ budget' = [budget EXCEPT !.changes = @ - 1]
  /\ UNCHANGED <<deployed, stored, process, report, run, vouched>>

\* The process ends; what it had opened ends with it.
Crash ==
  /\ process.up /\ budget.events > 0
  /\ process' = Down
  /\ report' = Checking
  /\ run' = Idle
  /\ budget' = [budget EXCEPT !.events = @ - 1]
  /\ UNCHANGED <<deployed, stored, world, vouched>>

Next ==
  \/ start_studio \/ reconcile
  \/ \E s \in {"identity", "lakebase"}, r \in {_passed, _action_required} : Bootstrap(s, r)
  \/ \E upto \in 0 .. Len(Statements) : RunPostgresMigrations(upto)
  \/ \E f \in BOOLEAN : _resolve_configuration(f)
  \/ ResolveFails
  \/ \E a \in SUBSET {"missing", "catalog"} : check_unity_catalog(a)
  \/ \E s \in {"ok", "missing", "collision", "incomplete", "failed"} : ensure_storage(s) \/ RecheckStorage(s)
  \/ \E f \in BOOLEAN : _create_storage(f) \/ LockConfiguration(f) \/ _apply(f) \/ record_setup_completion(f) \/ activate_studio(f) \/ SaveAiEnabled(f)
  \/ \E r \in {_passed, _action_required, [_action_required EXCEPT !.grants = TRUE]} : _check_volume_access(r)
  \/ \E r \in {_passed, Overridable(FALSE)} : check_warehouse(r)
  \/ \E j \in {1, 2} : _reconcile_job(j)
  \/ JobCallFails
  \/ \E a \in SUBSET {"missing", "catalog", "schema"} :
       check_runner_access("runner_access", "task_runner", a, "wheels") \/ check_runner_access("outputs", "task_runner_outputs", a, "completion")
  \/ \E r \in {_passed, _failed} : _reconcile_wheels(r)
  \/ PlanMigrations
  \/ \E c \in SUBSET {"missing", "unknown"}, s \in {"granted", "missing", "unknown", "not_applicable"} : reconcile_access(c, s)
  \/ \E p \in SUBSET {"endpoint", "missing", "unverified"} : check_ai_access(p)
  \/ AiSettingsUnreadable
  \/ \E r \in {_passed, Warning(TRUE, FALSE), Overridable(FALSE)} : check_app_sharing(r)
  \/ \E n \in Names : save_configuration(n) \/ set_task_runner_run_as(n) \/ ChangeWarehouse(n)
  \/ SaveNext \/ SaveFails
  \/ \E s \in OVERRIDABLE_STEPS, f \in BOOLEAN : override(s, f)
  \/ \E s \in Steps, c \in BOOLEAN : apply_grants(s, c)
  \/ \E on \in BOOLEAN : SwitchAi(on)
  \/ Workspace \/ Crash

Spec == Init /\ [][Next]_vars

-----------------------------------------------------------------------------
(* Properties *)

\* A locked configuration is the one whose storage Studio owns or manages, and
\* the one that is bound: neither a save during a walk, nor a schema that
\* appears between the check and CREATE IF NOT EXISTS, nor the end of the
\* process between creating and locking makes it another.
LockNamesTheStorage ==
  stored.locked =>
    /\ Resolved # None
    /\ world.schemas[Place(Resolved)] \in {"ours", "managed"}
    /\ process.bound \in {None, Resolved}

\* READY, which opens the API, is published only when what it promises is
\* there: the configuration is locked and bound, Studio is active for it, a
\* job is known, every migration is recorded, and none is recorded before its
\* statements took effect.  There is never a second job with Studio's tags.
ReadyIsEarned ==
  /\ report.state = "ready" =>
       /\ stored.locked /\ process.bound = Resolved /\ process.context.config = Resolved /\ process.context.active
       /\ process.job # None /\ stored.completed /\ world.postgres = Len(Statements)
       /\ world.delta[Place(Resolved)].recorded = Versions
  /\ \A l \in Location : \A v \in world.delta[l].recorded : \A i \in 1 .. Len(Statements[v]) : <<v, i>> \in world.delta[l].done
  /\ Cardinality(world.jobs) <= 1

\* A step shown as overridden was confirmed for the same storage, audience and
\* warehouse, and one passed from memory was verified for the same catalog,
\* groups, schemas and principal: neither outlives a change of what it is about.
VouchedForThis ==
  /\ report.shown.overridden \subseteq vouched.confirmed
  /\ report.shown.trusted \subseteq vouched.verified

\* "Setup never overrides an administrator's choice": setup does not change
\* the switch for AI while it is the administrator's.
SetupNeverOverridesAdmin == [][(stored.ai.source = "admin" /\ stored'.ai # stored.ai) => stored'.ai.source = "admin"]_vars
=============================================================================
