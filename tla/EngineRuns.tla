----------------------------- MODULE EngineRuns -----------------------------
(***************************************************************************)
(* Run configurations that the engine checks in a pool of threads: each    *)
(* loads its checks, reads its input, saves results in tables, batch or    *)
(* stream, and records summary metrics of its own run.  The metrics of a   *)
(* batch are read from an observation once an action has filled it, those  *)
(* of a stream arrive as progress events, for every listener alike.        *)
(***************************************************************************)
EXTENDS Integers, FiniteSets, FiniteSetsExt, Sequences

CONSTANTS
  Null,
  Slots,                       \* the futures of the pool, and the tables a pattern matches
  MaxParallelism,
  MaxBatches, MaxFailures      \* bounds: micro-batches and failures of a behaviour

VARIABLES
  configs,                     \* the run configuration of each future
  observer,                    \* whether the engine has a metrics observer
  run,                         \* where each future is
  queries,                     \* the streaming queries that were started
  tables,                      \* what was written: to which table, from which input and batch
  events,                      \* progress events the listeners have not been given
  metrics,                     \* rows of the metrics table
  caller                       \* how apply_checks_and_save_in_tables went

vars == <<configs, observer, run, queries, tables, events, metrics, caller>>

-----------------------------------------------------------------------------
(* Run configurations *)

\* What a configuration asks for.  One that is given has its frames computed by
\* the caller and saved with save_results_in_table.
Shape == [given : BOOLEAN, stream : BOOLEAN, once : BOOLEAN, output : BOOLEAN, quarantine : BOOLEAN, metrics : BOOLEAN, actions : BOOLEAN]

\* Triggers are of streams; frames that are given have no actions of their own.
Shapes == {s \in Shape : (s.once => s.stream) /\ (s.given => ~s.actions /\ (s.output \/ s.quarantine))}

\* create_for_run_config: a table keeps the rules of every configuration, by its
\* name; files are one per configuration.
ChecksOf(name, in_table) ==
  IF in_table THEN [location |-> "checks", run_config_name |-> name] ELSE [location |-> name, run_config_name |-> Null]

For(shape, table, in_table) ==
  [checks |-> ChecksOf(table, in_table), given |-> shape.given, stream |-> shape.stream, once |-> shape.once, metrics |-> shape.metrics, actions |-> shape.actions,
   input |-> table,
   output |-> IF shape.output THEN <<table, "output">> ELSE Null,
   quarantine |-> IF shape.quarantine THEN <<table, "quarantine">> ELSE Null]

\* A template without tables to write asks for the checked output.
WithOutput(shape) ==
  [shape EXCEPT !.output = shape.output \/ (~shape.quarantine /\ ~shape.metrics)]

\* apply_checks_and_save_in_tables_for_patterns: a copy of the template per table.
FromTemplate(shape, in_table) == [s \in Slots |-> For(WithOutput(shape), s, in_table)]

\* Shapes that two configurations of one call may have.
Mixed ==
  {s \in Shapes : ~s.given /\ s.metrics /\ s.quarantine /\ s.actions = s.once /\ s.output}

Explicit(choice) == [s \in Slots |-> For(choice[s], s, TRUE)]

-----------------------------------------------------------------------------
(* A future *)

\* Actions of a configuration come with an engine, and an observer, of its own.
_engine_for_run_config(s) == IF configs[s].actions THEN s ELSE "shared"
Observed(s) == observer \/ configs[s].actions

Raises(s) ==
  LET c == configs[s]
  IN \/ c.output = Null /\ c.quarantine = Null /\ ~c.metrics
     \/ c.metrics /\ ~Observed(s)
     \/ c.output = Null /\ c.quarantine = Null /\ c.stream

At(s, stage) == run[s].stage = stage
Goes(s, stage) == run' = [run EXCEPT ![s].stage = stage]
Pooled == {s \in Slots : ~configs[s].given}
Running == {s \in Pooled : run[s].stage \notin {"queued", "done", "failed"}}

\* persist_if_supported: what two tables are written from, unless it is a stream.
Cached(s) == ~configs[s].given /\ ~configs[s].stream /\ configs[s].output # Null /\ configs[s].quarantine # Null

\* submit: the pool runs so many at a time.  Checks are loaded, the input is read.
Start(s) ==
  /\ At(s, "queued") /\ ~configs[s].given /\ Cardinality(Running) < MaxParallelism
  /\ IF Raises(s) THEN Goes(s, "failed") ELSE run' = [run EXCEPT ![s].stage = "output", ![s].cached = Cached(s)]
  /\ UNCHANGED <<configs, observer, queries, tables, events, metrics, caller>>

\* save_results_in_table, outside the pool: the frames are there, and saved alike.
SaveResults(s) ==
  /\ At(s, "queued") /\ configs[s].given
  /\ Goes(s, "output")
  /\ UNCHANGED <<configs, observer, queries, tables, events, metrics, caller>>

\* save_dataframe_as_table: a query is started, or the rows are written, by which
\* the observation is filled.
SaveTo(s, location, next, cached) ==
  IF location = Null THEN
    /\ run' = [run EXCEPT ![s].stage = next, ![s].cached = cached]
    /\ UNCHANGED <<queries, tables>>
  ELSE IF configs[s].stream THEN
    /\ queries' = queries \cup {[of |-> s, to |-> location, batches |-> 0, ended |-> FALSE, raised |-> FALSE]}
    /\ run' = [run EXCEPT ![s].stage = next, ![s].cached = cached]
    /\ UNCHANGED tables
  ELSE
    /\ tables' = tables \cup {[to |-> location, input |-> configs[s].input, batch |-> 1]}
    /\ run' = [run EXCEPT ![s].stage = next, ![s].cached = cached, ![s].filled = TRUE]
    /\ UNCHANGED queries

SaveOutput(s) ==
  /\ At(s, "output") /\ SaveTo(s, configs[s].output, "quarantine", run[s].cached)
  /\ UNCHANGED <<configs, observer, events, metrics, caller>>

\* _save_valid_and_invalid releases the frame once both are written.
SaveQuarantine(s) ==
  /\ At(s, "quarantine") /\ SaveTo(s, configs[s].quarantine, "observe", FALSE)
  /\ UNCHANGED <<configs, observer, events, metrics, caller>>

\* _populate_batch_observation: a frame that no table is written from is counted.
Filled(s) == run[s].filled \/ (configs[s].metrics /\ Observed(s) /\ configs[s].output = Null /\ configs[s].quarantine = Null)

Target(s) ==
  {q \in queries : q.of = s /\ q.to = IF configs[s].quarantine # Null THEN configs[s].quarantine ELSE configs[s].output}

\* A listener is registered for the target query of a stream.
Observe(s) ==
  /\ At(s, "observe")
  /\ run' = [run EXCEPT ![s].stage = "wait", ![s].filled = Filled(s),
       ![s].listens = Observed(s) /\ (configs[s].metrics \/ configs[s].actions) /\ Target(s) # {}]
  /\ UNCHANGED <<configs, observer, queries, tables, events, metrics, caller>>

\* Triggers that end are waited for, the output's query first; a query that
\* raised raises here.
Wait(s) ==
  /\ At(s, "wait")
  /\ \/ /\ configs[s].once
        /\ \E q \in queries :
             /\ q.of = s /\ q.raised
             /\ \A o \in queries : o.of = s /\ o.to = configs[s].output => o.ended
        /\ Goes(s, "failed")
     \/ /\ configs[s].once => \A q \in queries : q.of = s => q.ended /\ ~q.raised
        /\ Goes(s, IF Target(s) = {} /\ Observed(s) THEN "metrics" ELSE "done")
  /\ UNCHANGED <<configs, observer, queries, tables, events, metrics, caller>>

Row(s, q, batch) ==
  [input |-> configs[s].input, output |-> configs[s].output, quarantine |-> configs[s].quarantine,
   of |-> configs[q.of].input, from |-> q.to, batch |-> batch]

\* The metrics of a batch: reading them waits for the observation to be filled.
SaveMetrics(s) ==
  /\ At(s, "metrics") /\ (configs[s].metrics => run[s].filled)
  /\ metrics' = IF configs[s].metrics THEN metrics \cup {Row(s, [of |-> s, to |-> Null], 1)} ELSE metrics
  /\ Goes(s, IF configs[s].actions THEN "actions" ELSE "done")
  /\ UNCHANGED <<configs, observer, queries, tables, events, caller>>

\* The actions of a batch; one that stops the pipeline raises.
EvaluateActions(s) ==
  /\ At(s, "actions") /\ run[s].filled
  /\ \E end \in {"done", "failed"} : Goes(s, end)
  /\ UNCHANGED <<configs, observer, queries, tables, events, metrics, caller>>

Failures == Cardinality({s \in Slots : run[s].stage = "failed" /\ run[s].broke}) + Cardinality({q \in queries : q.raised})

\* What stays cached of a run that fails: the frame is released finally.
CachedAfterFailure(s) == FALSE

\* Loading, reading or saving fails.
Fail(s) ==
  /\ run[s].stage \in {"output", "quarantine", "metrics"} /\ Failures < MaxFailures
  /\ run' = [run EXCEPT ![s].stage = "failed", ![s].broke = TRUE, ![s].cached = CachedAfterFailure(s)]
  /\ UNCHANGED <<configs, observer, queries, tables, events, metrics, caller>>

-----------------------------------------------------------------------------
(* Streams *)

Batches == FoldSet(LAMBDA q, n : q.batches + n, 0, queries)

\* _observe_metrics: the frames of one engine carry its run_id.
ProgressOf(q) ==
  [query |-> [of |-> q.of, to |-> q.to], batch |-> q.batches + 1, run_id |-> _engine_for_run_config(q.of)]

\* A query commits a micro-batch and posts its progress.
MicroBatch(q) ==
  /\ ~q.ended /\ Batches < MaxBatches
  /\ queries' = (queries \ {q}) \cup {[q EXCEPT !.batches = q.batches + 1]}
  /\ tables' = tables \cup {[to |-> q.to, input |-> configs[q.of].input, batch |-> q.batches + 1]}
  /\ events' = Append(events, ProgressOf(q))
  /\ UNCHANGED <<configs, observer, run, metrics, caller>>

\* One that is triggered once ends with what was available.
QueryEnds(q) ==
  /\ ~q.ended /\ configs[q.of].once
  /\ queries' = (queries \ {q}) \cup {[q EXCEPT !.ended = TRUE]}
  /\ UNCHANGED <<configs, observer, run, tables, events, metrics, caller>>

QueryFails(q) ==
  /\ ~q.ended /\ Failures < MaxFailures
  /\ queries' = (queries \ {q}) \cup {[q EXCEPT !.ended = TRUE, !.raised = TRUE]}
  /\ UNCHANGED <<configs, observer, run, tables, events, metrics, caller>>

\* The queries of one engine share its observation, so a listener asks for its
\* target query first.
Concerns(s, e) ==
  /\ \E q \in Target(s) : e.query.of = q.of /\ e.query.to = q.to
  /\ e.run_id = _engine_for_run_config(s)

\* onQueryProgress, of every listener there is.
Progress ==
  /\ events # <<>>
  /\ metrics' = metrics \cup {Row(s, Head(events).query, Head(events).batch) :
                                s \in {l \in Slots : run[l].listens /\ configs[l].metrics /\ Concerns(l, Head(events))}}
  /\ events' = Tail(events)
  /\ UNCHANGED <<configs, observer, run, queries, tables, caller>>

-----------------------------------------------------------------------------
(* The pool *)

\* A bug: the first failure that is collected returns to the caller.
AnyFailed == \E s \in Pooled : At(s, "failed")

\* as_completed raises the first failure, and leaving the pool waits for the rest.
Collected == \A s \in Pooled : run[s].stage \in {"done", "failed"}

Return ==
  /\ caller = "waits" /\ Collected
  /\ caller' = IF \E s \in Pooled : At(s, "failed") THEN "raised" ELSE "returned"
  /\ UNCHANGED <<configs, observer, run, queries, tables, events, metrics>>

Init ==
  /\ \/ \E shape \in {s \in Shapes : ~s.given}, in_table \in BOOLEAN : configs = FromTemplate(shape, in_table)
     \/ \E shape \in {s \in Shapes : s.given}, other \in Mixed, first \in Slots :
          configs = Explicit([s \in Slots |-> IF s = first THEN shape ELSE other])
     \/ \E choice \in [Slots -> Mixed] : configs = Explicit(choice)
  /\ observer \in BOOLEAN
  /\ run = [s \in Slots |-> [stage |-> "queued", cached |-> FALSE, filled |-> FALSE, listens |-> FALSE, broke |-> FALSE]]
  /\ queries = {} /\ tables = {} /\ events = <<>> /\ metrics = {} /\ caller = "waits"

Next ==
  \/ \E s \in Slots :
       \/ Start(s) \/ SaveResults(s) \/ SaveOutput(s) \/ SaveQuarantine(s) \/ Observe(s)
       \/ Wait(s) \/ SaveMetrics(s) \/ EvaluateActions(s) \/ Fail(s)
  \/ \E q \in queries : MicroBatch(q) \/ QueryEnds(q) \/ QueryFails(q)
  \/ Progress \/ Return

Spec == Init /\ [][Next]_vars

-----------------------------------------------------------------------------
(* Properties *)

\* Every row of metrics describes a batch of the configuration it names, as the
\* query saw it that the metrics are for, and no batch is counted twice.
MetricsAreOwn ==
  \A r \in metrics :
    /\ r.of = r.input
    /\ \A o \in metrics : o.input = r.input /\ o.batch = r.batch => o = r

\* The metrics of a batch are recorded after all its tables were written.
MetricsFollowTables ==
  \A r \in metrics : r.from = Null =>
    \A t \in {r.output, r.quarantine} \ {Null} : \E w \in tables : w.to = t /\ w.input = r.input

\* A table holds the results of one input only, and every configuration has its
\* own input and rules.
TablesAreOwn ==
  /\ \A w \in tables : w.to[1] = w.input
  /\ \A s, t \in Slots : s # t => configs[s].input # configs[t].input /\ configs[s].checks # configs[t].checks

\* Nobody waits for an observation that nothing will fill, and a frame is not
\* kept by a run that is over.
RunsEnd ==
  \A s \in Slots :
    /\ run[s].stage \in {"metrics", "actions"} /\ configs[s].metrics => run[s].filled
    /\ run[s].stage \in {"done", "failed"} => ~run[s].cached

\* The caller learns the outcome when all have run, and of every failure.
FailuresStopNobody ==
  caller # "waits" =>
    /\ \A s \in Pooled : run[s].stage \in {"done", "failed"}
    /\ caller = "raised" <=> AnyFailed

RunsAreAccountedFor == MetricsAreOwn /\ MetricsFollowTables /\ TablesAreOwn /\ RunsEnd /\ FailuresStopNobody
=============================================================================
