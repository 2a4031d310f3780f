----------------------------- MODULE TaskRunner -----------------------------
(***************************************************************************)
(* One run of the task runner job (app/tasks): it reads its configuration  *)
(* and its view, counts, appends the row of the run, then the quarantined  *)
(* rows and the metrics; whatever fails appends a FAILED row instead, and  *)
(* what the run was staged with is removed at the end.  Every count is a   *)
(* scan of its own: the table may change, and a limit cut elsewhere.       *)
(***************************************************************************)
EXTENDS Naturals, Sequences, FiniteSets, FiniteSetsExt

CONSTANTS
  None,
  Contents,                    \* what a view may show: per row the checks it fails
  ShownRows, SummaryRows, _SQL_QUARANTINE_MAX_ROWS,   \* rows of a sample, of a summary, of an SQL check's quarantine
  MaxFaults                    \* bound

VARIABLES
  config,      \* the configuration the run was submitted with
  runner,      \* its step, whether it knows the configuration and has to clean it up, how it exits, the faults it met
  table,       \* the rows the view shows, and whether they changed under the run
  seen,        \* its locals: the metrics it copied, those the engine reports by now, the invalid rows
  results,     \* the rows appended for the run
  quarantine,  \* the rows quarantined for it
  metrics,     \* its metrics
  left         \* what is left of its staging: "config", "view"

runnerVars == <<config, runner, table, seen, results, quarantine, metrics, left>>

\* A check on errors and one on warnings; an SQL check has one check only.
Level(c) == IF c = "w" THEN "warning" ELSE "error"

Config(task, is_sql, samples, skip, run_types) ==
  [task : {task}, is_sql : {is_sql}, sample : samples, skip : {skip}, run_type : run_types,
   query : IF task = "scheduled" /\ is_sql THEN {"safe", "unsafe"} ELSE {None},
   checks : IF task = "profile" THEN {{}} ELSE IF is_sql THEN {{"e"}} ELSE {{"e", "w"}},
   custom : IF skip \/ task = "profile" \/ is_sql THEN {{}} ELSE {{}, {"malformed"}, {"fine", "breaking"}},
   labels : IF task = "profile" THEN {{}} ELSE {{<<"team", 1>>}},
   stored : IF skip \/ task = "profile" THEN {"inline", "manifest"} ELSE {"manifest", "volume"},
   job_run_id : IF skip THEN {"", "{{job.run_id}}"} ELSE {"7"}]

\* As the routes and the scheduler submit: a preview is a dry run, a table's own
\* schedule a dry run of type scheduled.  The scheduler sends a sample size, too.
Configs ==
  Config("profile", FALSE, {0, 1}, FALSE, {None})
    \cup UNION {Config("dryrun", q, {0, 1}, TRUE, {None}) \cup Config("dryrun", q, {0, 1}, FALSE, {None, "scheduled"})
                  \cup Config("scheduled", q, {1}, FALSE, {None}) : q \in BOOLEAN}

Init ==
  /\ config \in Configs
  /\ runner = [step |-> "resolve", known |-> FALSE, cleanup |-> FALSE, code |-> 0, faults |-> 0]
  /\ table \in [rows : Contents, changed : {FALSE}]
  /\ seen = [observed |-> None, live |-> None, invalid |-> 0]
  /\ results = <<>> /\ quarantine = None /\ metrics = None
  /\ left = (IF config.stored = "inline" THEN {} ELSE {"config"}) \cup (IF config.task = "scheduled" THEN {} ELSE {"view"})

-----------------------------------------------------------------------------
(* What is counted *)

\* Rows of the view, any of them where there is a limit; 0 is no limit.
Limited(limit) ==
  IF limit = 0 \/ limit >= Len(table.rows) THEN {DOMAIN table.rows} ELSE kSubset(limit, DOMAIN table.rows)

\* The SQL check's rows are its violations.
Failed(i) == IF config.is_sql THEN config.checks ELSE table.rows[i] \cap config.checks
Invalid(S) == {i \in S : Failed(i) # {}}
CountOf(S, level) == Cardinality({i \in S : \E c \in Failed(i) : Level(c) = level})

\* A bug: the rows that pass are those the split calls valid, warnings included.
ObserveSplit(S) ==
  [input |-> Cardinality(S), error |-> CountOf(S, "error"), warning |-> CountOf(S, "warning"),
   valid |-> Cardinality(S) - CountOf(S, "error"), per_check |-> [c \in config.checks |-> Cardinality({i \in S : c \in Failed(i)})]]

\* The metrics of the observer; those of an SQL check are made up to match.
Observe(S) ==
  [input |-> Cardinality(S), error |-> CountOf(S, "error"), warning |-> CountOf(S, "warning"),
   valid |-> Cardinality(S \ Invalid(S)), per_check |-> [c \in config.checks |-> Cardinality({i \in S : c \in Failed(i)})]]

_validate_custom_metrics == config.custom \ {"malformed", "unsafe"}

\* The scheduler's runs read the whole table, whatever sample size they are sent.
SampleSize == IF config.task = "scheduled" THEN 0 ELSE config.sample

\* The checks that failed, those with most rows only.
_check_metrics_to_error_summary(m) ==
  LET failed == {c \in config.checks : m.per_check[c] > 0}
  IN {T \in SUBSET failed :
        /\ Cardinality(T) = (IF Cardinality(failed) > SummaryRows THEN SummaryRows ELSE Cardinality(failed))
        /\ \A c \in T, d \in failed \ T : m.per_check[c] >= m.per_check[d]}

\* A label is the run's if every check has it, with the same value.
_aggregate_rule_labels == {p \in config.labels : \A c \in config.checks : p \in config.labels}

RunType ==
  IF config.skip THEN "preview" ELSE IF config.task = "scheduled" THEN "scheduled"
  ELSE IF config.run_type # None THEN config.run_type ELSE "dryrun"

\* A failure that comes before the configuration is read knows none of it.
ErrorRunType == IF runner.known THEN RunType ELSE IF config.task = "scheduled" THEN "scheduled" ELSE "dryrun"

\* updated_at is now; created_at the start of a run that is timed.  The parameter
\* may come as the reference it should have been replaced for.
_stamp_run_provenance(timed) ==
  [created_at |-> IF timed THEN "start" ELSE "end", job_run_id |-> IF config.job_run_id = "7" THEN 7 ELSE None]

_compute_fingerprint == IF runner.known /\ config.checks # {} THEN config.checks ELSE None

-----------------------------------------------------------------------------
(* The steps of main *)

Go(from, to) == runner.step = from /\ runner' = [runner EXCEPT !.step = to]

\* The steps that read the view: the dry runs' quarantine counts, an SQL check's
\* reads where there is something.
Collects == seen.invalid > 0 /\ (config.task # "scheduled" \/ config.is_sql)
Scanning ==
  \/ runner.step \in {"count", "profile"}
  \/ runner.step = "show" /\ Collects
  \/ runner.step = "quarantine" /\ (~config.is_sql \/ seen.invalid > 0)

Blind == Scanning /\ config.task # "scheduled" /\ "view" \notin left

\* The configuration is in the parameters, in the manifest table or, by older
\* submissions, in a file.  Only one that was read is removed in the end.
_resolve_run_config ==
  /\ runner.step = "resolve"
  /\ runner' = [runner EXCEPT !.step = "count", !.known = TRUE, !.cleanup = config.stored # "inline"]
  /\ UNCHANGED <<config, table, seen, results, quarantine, metrics, left>>

\* The first scan, by which the engine observes its metrics; they are copied.
Count ==
  /\ Go("count", IF config.task = "profile" THEN "profile" ELSE "show")
  /\ config.query # "unsafe" /\ "breaking" \notin _validate_custom_metrics
  /\ ~Blind
  /\ \E S \in Limited(IF config.task = "profile" THEN 0 ELSE SampleSize) :
       seen' = [observed |-> Observe(S), live |-> Observe(S), invalid |-> Cardinality(Invalid(S))]
  /\ UNCHANGED <<config, table, results, quarantine, metrics, left>>

\* The profiler's own scan of the view; the row holds the count from before.
_run_profile ==
  /\ Go("profile", "finally") /\ ~Blind
  /\ results' = Append(results,
       [status |-> "SUCCESS", run_type |-> None, total |-> seen.observed.input, profiled |-> Len(table.rows),
        sample |-> config.sample, stamp |-> _stamp_run_provenance(FALSE)])
  /\ UNCHANGED <<config, table, seen, quarantine, metrics, left>>

\* Some invalid rows are collected for the row of a manual run: a scan that stops
\* early, after which the engine reports other metrics.
Show ==
  /\ Go("show", "row") /\ ~Blind
  /\ IF Collects THEN \E S \in Limited(ShownRows) : seen' = [seen EXCEPT !.live = Observe(S)] ELSE UNCHANGED seen
  /\ UNCHANGED <<config, table, results, quarantine, metrics, left>>

\* The metrics the row and the metrics table get.
Reported == seen.observed

_run_dryrun ==
  /\ Go("row", IF RunType = "preview" THEN "finally" ELSE "quarantine")
  /\ \E T \in _check_metrics_to_error_summary(Reported) :
       results' = Append(results,
         [status |-> "SUCCESS", run_type |-> RunType, total |-> Reported.input, valid |-> Reported.valid, invalid |-> seen.invalid,
          error |-> Reported.error, warning |-> Reported.warning, sample |-> SampleSize,
          summary |-> [c \in T |-> Reported.per_check[c]], fingerprint |-> _compute_fingerprint,
          stamp |-> _stamp_run_provenance(TRUE)])
  /\ UNCHANGED <<config, table, seen, quarantine, metrics, left>>

\* The invalid rows are counted and read again; those of an SQL check were, and
\* there may be too many of them.
_write_quarantine_records ==
  \E S \in Limited(SampleSize), T \in Limited(SampleSize) :
    quarantine' = IF Invalid(S) = {} THEN None ELSE Cardinality(Invalid(T))

_write_sql_quarantine_records ==
  LET n == IF seen.invalid > _SQL_QUARANTINE_MAX_ROWS THEN _SQL_QUARANTINE_MAX_ROWS ELSE seen.invalid
  IN \E S \in Limited(SampleSize) :
       quarantine' = IF n = 0 THEN None ELSE IF Cardinality(S) < n THEN Cardinality(S) ELSE n

Quarantine ==
  /\ Go("quarantine", "metrics") /\ ~Blind
  /\ IF config.is_sql THEN _write_sql_quarantine_records ELSE _write_quarantine_records
  /\ UNCHANGED <<config, table, seen, results, metrics, left>>

_persist_observed_metrics ==
  /\ Go("metrics", "finally")
  /\ metrics' = [values |-> Reported, labels |-> _aggregate_rule_labels, fingerprint |-> _compute_fingerprint,
                 quarantined |-> ~config.is_sql \/ seen.invalid > 0,
                 custom |-> IF config.is_sql THEN {} ELSE _validate_custom_metrics]
  /\ UNCHANGED <<config, table, seen, results, quarantine, left>>

\* What cannot go on: the configuration is gone, the view is, the query is not
\* safe, a metric cannot be computed; or anything a cluster may answer.
CannotGoOn == Blind \/ (runner.step = "count" /\ (config.query = "unsafe" \/ "breaking" \in _validate_custom_metrics))

Working == {"resolve", "count", "profile", "show", "row", "quarantine", "metrics"}

\* The FAILED row of main, unless that fails, too.
_write_error ==
  /\ runner.step \in Working
  /\ \E lost \in BOOLEAN :
       LET spent == (IF CannotGoOn THEN 0 ELSE 1) + (IF lost THEN 1 ELSE 0)
       IN /\ runner.faults + spent <= MaxFaults
          /\ runner' = [runner EXCEPT !.step = "finally", !.code = 1, !.faults = @ + spent]
          /\ results' = IF lost THEN results
               ELSE Append(results,
                 [status |-> "FAILED", run_type |-> IF config.task = "profile" THEN None ELSE ErrorRunType,
                  fingerprint |-> _compute_fingerprint, stamp |-> _stamp_run_provenance(FALSE)])
  /\ UNCHANGED <<config, table, seen, quarantine, metrics, left>>

\* The configuration is removed, or its removal fails and is logged.
_cleanup_run_config ==
  /\ runner.step = "finally"
  /\ \E fails \in BOOLEAN :
       /\ fails => runner.cleanup /\ runner.faults < MaxFaults
       /\ runner' = [runner EXCEPT !.step = "drop", !.faults = @ + (IF fails THEN 1 ELSE 0)]
       /\ left' = IF runner.cleanup /\ ~fails THEN left \ {"config"} ELSE left
  /\ UNCHANGED <<config, table, seen, results, quarantine, metrics>>

\* The view is dropped through the warehouse, else by Spark; neither principal
\* may have the right to.  The scheduler's runs have no view of their own.
DropView ==
  /\ Go("drop", "ended")
  /\ \E denied \in BOOLEAN : left' = IF denied \/ config.task = "scheduled" THEN left ELSE left \ {"view"}
  /\ UNCHANGED <<config, table, seen, results, quarantine, metrics>>

\* Meanwhile the table changes once, or the request's cleanup drops the view.
TableChanges ==
  /\ runner.step \in Working /\ ~table.changed
  /\ \E rows \in {<<>>, Append(table.rows, {"e"})} : table' = [rows |-> rows, changed |-> TRUE]
  /\ UNCHANGED <<config, runner, seen, results, quarantine, metrics, left>>

ViewIsDropped ==
  /\ runner.step \in Working /\ "view" \in left
  /\ left' = left \ {"view"}
  /\ UNCHANGED <<config, runner, table, seen, results, quarantine, metrics>>

Next ==
  \/ _resolve_run_config \/ Count \/ _run_profile \/ Show \/ _run_dryrun \/ Quarantine \/ _persist_observed_metrics
  \/ _write_error \/ _cleanup_run_config \/ DropView \/ TableChanges \/ ViewIsDropped

Spec == Init /\ [][Next]_runnerVars

-----------------------------------------------------------------------------
(* Properties *)

Rows(status) == {i \in DOMAIN results : results[i].status = status}
Ended == runner.step = "ended"

\* The row of a run adds up, whatever happens to the table between its scans,
\* and its metrics are the row's: _run_dryrun, _run_dryrun_sql_check.
CountsAddUp ==
  \A i \in Rows("SUCCESS") : config.task # "profile" =>
    LET r == results[i]
    IN /\ r.total = r.valid + r.invalid
       /\ r.invalid <= r.error + r.warning /\ r.error <= r.invalid /\ r.warning <= r.invalid
       /\ \A c \in DOMAIN r.summary : r.summary[c] > 0
       /\ r.invalid > 0 => DOMAIN r.summary # {}
       /\ metrics # None => metrics.values.input = r.total /\ metrics.values.error = r.error /\ metrics.values.valid = r.valid

\* A run exits well if and only if its rows say so: a FAILED row follows whatever
\* was appended before the failure, or the failure of that was met, too.
ExitTellsTheRows ==
  Ended =>
    /\ runner.code = 0 <=> Rows("SUCCESS") # {} /\ Rows("FAILED") = {} /\ (metrics # None \/ config.task = "profile" \/ config.skip)
    /\ runner.code = 1 /\ runner.faults = 0 => Rows("FAILED") # {}
    /\ runner.code = 0 /\ ~table.changed /\ SampleSize = 0 /\ metrics # None =>
         (IF quarantine = None THEN 0 ELSE quarantine) =
           IF config.is_sql /\ seen.invalid > _SQL_QUARANTINE_MAX_ROWS THEN _SQL_QUARANTINE_MAX_ROWS ELSE seen.invalid

\* A preview that could be read leaves nothing in the history, failed or not, and
\* a run is shown as the kind it was started as.
KindIsKept ==
  /\ config.skip => quarantine = None /\ metrics = None
  /\ runner.known /\ config.task # "profile" => \A i \in DOMAIN results : results[i].run_type = RunType

\* A configuration that was read is gone when the run ends, unless its removal failed.
ConfigIsRemoved == Ended /\ runner.cleanup /\ "config" \in left => runner.faults > 0

RunsTellOneStory == CountsAddUp /\ ExitTellsTheRows /\ KindIsKept /\ ConfigIsRemoved
=============================================================================
