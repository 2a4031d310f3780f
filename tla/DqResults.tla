------------------------------ MODULE DqResults ------------------------------
(***************************************************************************)
(* What the results pages show (services/dq_results_service.py): the rows  *)
(* of the score view, one per check of a run, are capped at a batch,       *)
(* matched with the filters and grouped into boxes and trends.             *)
(*                                                                         *)
(* A row is a record with its table, run, date, check and failures; rates  *)
(* are fractions of Unit.  Null is a missing value.                        *)
(***************************************************************************)
EXTENDS Integers, FiniteSets, FiniteSetsExt, Sequences, SequencesExt

CONSTANTS Null, NoRule

VARIABLES input, output

Unit == 12

\* The newest of the known dates, Null when none is.
Newest(dates) ==
  LET known == dates \ {Null} IN IF known = {} THEN Null ELSE CHOOSE x \in known : \A y \in known : y <= x

-----------------------------------------------------------------------------
(* Rows *)

_rule_key(row) == IF row.rule # Null THEN row.rule ELSE row.name

Selected(chosen, value) == chosen = {} \/ value \in chosen
row_matches_facets(row, facets) ==
  /\ Selected(facets.tables, row.table) /\ Selected(facets.dimensions, row.dimension)
  /\ Selected(facets.rules, row.name) \/ row.rule \in facets.rules
  /\ facets.columns = {} \/ row.columns \cap facets.columns # {}
  /\ Selected(facets.outcomes, IF row.failed > 0 THEN "failed" ELSE "passed")

\* _breach_criticality: a row that stays under its threshold.
_breach_criticality(row) ==
  IF row.total \in {Null, 0} \/ (row.total - row.failed) * 100 >= row.threshold * row.total THEN Null
  ELSE IF row.criticality = "warn" THEN "warn" ELSE "error"

_worse_criticality(levels) ==
  IF "error" \in levels THEN "error" ELSE IF "warn" \in levels THEN "warn" ELSE Null

\* The badges of runs: breach_criticality_by_run
breach_criticality_by_run(rows) ==
  [run \in {r.run : r \in rows} |-> _worse_criticality({_breach_criticality(r) : r \in {q \in rows : q.run = run}})]

-----------------------------------------------------------------------------
(* Groups *)

CheckScore(row) ==
  IF row.granularity = "dataset" THEN IF row.failed > 0 THEN 0 ELSE Unit ELSE Unit - (Unit * row.failed) \div row.total

\* A rule weighs the same in every run of a table however many columns it is applied to.
Instance(row) == <<row.table, row.run, _rule_key(row)>>

\* A bug: the rows are what is averaged.
OfRows(rows) ==
  LET scored == {r \in rows : r.total \notin {Null, 0}}
  IN IF scored = {} THEN Null ELSE MapThenSumSet(CheckScore, scored) \div Cardinality(scored)

pass_rate(rows) ==
  LET scored == {r \in rows : r.total \notin {Null, 0}}
      instances == {Instance(r) : r \in scored}
      Mean(i) == LET of == {r \in scored : Instance(r) = i} IN MapThenSumSet(CheckScore, of) \div Cardinality(of)
  IN IF scored = {} THEN Null ELSE MapThenSumSet(Mean, instances) \div Cardinality(instances)

_GroupAcc(rows) ==
  [failed |-> MapThenSumSet(LAMBDA r : r.failed, rows),
   total |-> LET known == {r \in rows : r.total # Null} IN IF known = {} THEN Null ELSE MapThenSumSet(LAMBDA r : r.total, known),
   rules |-> Cardinality({_rule_key(r) : r \in rows}), checks |-> Cardinality(rows), rate |-> pass_rate(rows),
   breach |-> _worse_criticality({_breach_criticality(r) : r \in rows})]

\* _group_rows: the rows of each key; keyOf gives every row its key.
_group_rows(rows, keyOf) ==
  [key \in {keyOf[r] : r \in rows} |-> _GroupAcc({r \in rows : keyOf[r] = key})]

\* _by_column_rows: a row counts for each of its columns.
_by_column_rows(rows) ==
  [column \in UNION {r.columns : r \in rows} |-> _GroupAcc({r \in rows : column \in r.columns})]

\* _trend_asof: at each date the mean over the tables, a draft if any row is.
_trend_asof(rows) ==
  [date \in {r.date : r \in rows} |->
     LET at == {r \in rows : r.date = date}
         rates == _group_rows(at, [r \in at |-> r.table])
         known == {t \in DOMAIN rates : rates[t].rate # Null}
     IN [rate |-> IF known = {} THEN Null ELSE MapThenSumSet(LAMBDA t : rates[t].rate, known) \div Cardinality(known),
         draft |-> \E r \in at : r.mode = "draft",
         breach |-> _worse_criticality({_breach_criticality(r) : r \in at})]]

\* _trend_failures: the failed records are counted per run, where they are known.
_trend_failures(rows, records) ==
  [date \in {r.date : r \in rows} |->
     LET at == {r \in rows : r.date = date}
         runs == {r.run : r \in {q \in at : q.run # Null /\ records[q.run] # Null}}
     IN [rules |-> Cardinality({_rule_key(r) : r \in {q \in at : q.failed > 0}}),
         checks |-> Cardinality({r \in at : r.failed > 0}), tests |-> MapThenSumSet(LAMBDA r : r.failed, at),
         records |-> IF runs = {} THEN Null ELSE MapThenSumSet(LAMBDA run : records[run], runs)]]

\* annotate_trend_versions: the version last frozen when a run started, 0 before the first.
annotate_trend_versions(date, freezes) ==
  LET before == {f \in freezes : f[2] <= date} IN
  IF date = Null \/ freezes = {} THEN Null
  ELSE IF before = {} THEN 0 ELSE (CHOOSE f \in before : \A g \in before : g[2] <= f[2])[1]

-----------------------------------------------------------------------------
(* Batches: runs that were started together share a run set. *)

batch_key_of(row, run_sets) == IF row.run \in DOMAIN run_sets THEN run_sets[row.run] ELSE row.run

Batch(key, rows, run_sets) == {r \in rows : r.run # Null /\ batch_key_of(r, run_sets) = key}

\* instant_of: the newest date of the batch.
instant_of(row, rows, run_sets) ==
  IF row.run = Null THEN row.date
  ELSE Newest({r.date : r \in Batch(batch_key_of(row, run_sets), rows, run_sets)})

\* as_of_batch is a member run, as the picker returns it, or the batch itself.  A
\* batch that is unknown or has no date caps nothing; under a cap no row without a
\* date is kept.
within_cap(row, rows, run_sets, as_of) ==
  LET cap_key == IF as_of \in DOMAIN run_sets THEN run_sets[as_of] ELSE as_of
      cap_instant == Newest({r.date : r \in Batch(cap_key, rows, run_sets)})
      row_instant == instant_of(row, rows, run_sets)
  IN cap_instant = Null \/ (row_instant # Null /\ row_instant <= cap_instant)

_latest_instant_by_table(rows, all, run_sets) ==
  [t \in {r.table : r \in rows} |-> Newest({instant_of(r, all, run_sets) : r \in {q \in rows : q.table = t}})]

\* v_dq_check_results_asof, read beside the rows: at every instant at which any
\* table of the workspace ran, the rows of each table's latest run so far, under
\* the date of the instant.  Of two runs at the same time the view takes one, tie.
v_dq_check_results_asof(rows, tie) ==
  LET dated == {r \in rows : r.date # Null}
      Latest(r, instant) ==
        /\ r.date <= instant
        /\ \A q \in dated : q.table = r.table /\ q.run # r.run /\ q.date <= instant =>
             q.date < r.date \/ (q.date = r.date /\ r.run = tie)
  IN {[p[1] EXCEPT !.date = p[2]] : p \in {q \in dated \X {r.date : r \in dated} : Latest(q[1], q[2])}}

\* The rows of the trend: of the instants at which the page's own tables ran.
Expansion(asof_rows, capped, facets) ==
  {r \in asof_rows : r.date \in {q.date : q \in capped} /\ row_matches_facets(r, facets)}

\* compute_entity_results, on the page of a product or of all tables: the boxes
\* show the latest batch of each table, the box of tables whatever tables are picked.
compute_entity_results(rows, asof_rows, facets, run_sets, as_of, records) ==
  LET capped == {r \in rows : within_cap(r, rows, run_sets, as_of)}
      matched == {r \in capped : row_matches_facets(r, facets)}
      latest == _latest_instant_by_table(capped, rows, run_sets)
      IsLatest(r) == instant_of(r, rows, run_sets) = latest[r.table]
      boxes == {r \in matched : IsLatest(r)}
      tables == {r \in capped : row_matches_facets(r, [facets EXCEPT !.tables = {}]) /\ IsLatest(r)}
      expansion == Expansion(asof_rows, capped, facets)
  IN [capped |-> capped, boxes |-> boxes, expansion |-> expansion,
      by_dimension |-> _group_rows(boxes, [r \in boxes |-> r.dimension]), by_rule |-> _group_rows(boxes, [r \in boxes |-> _rule_key(r)]),
      by_column |-> _by_column_rows(boxes), by_table |-> _group_rows(tables, [r \in tables |-> r.table]),
      trend |-> _trend_asof(expansion), trend_failures |-> _trend_failures(matched, records)]

-----------------------------------------------------------------------------
(* Three checks, of two rules; two tables with three runs between them. *)

Checks == {[name |-> "c1", rule |-> "x", dimension |-> "d", columns |-> {"a"}, granularity |-> "row", criticality |-> "error", threshold |-> 100],
           [name |-> "c2", rule |-> "x", dimension |-> "e", columns |-> {"a", "b"}, granularity |-> "row", criticality |-> "warn", threshold |-> 50],
           [name |-> "c3", rule |-> Null, dimension |-> Null, columns |-> {}, granularity |-> "dataset", criticality |-> Null, threshold |-> 100]}
Runs == {"r1", "r2", "r3"}
TableOf(run) == IF run = "r2" THEN "t" ELSE "s"

Row(check, run, date, total, mode, failed) ==
  [name |-> check.name, rule |-> check.rule, dimension |-> check.dimension, columns |-> check.columns,
   granularity |-> check.granularity, criticality |-> check.criticality, threshold |-> check.threshold,
   table |-> TableOf(run), run |-> run, date |-> date, total |-> total, mode |-> mode, failed |-> failed]

NoFacets == [tables |-> {}, dimensions |-> {}, rules |-> {}, columns |-> {}, outcomes |-> {}]
Facets == {NoFacets, [NoFacets EXCEPT !.dimensions = {"d"}], [NoFacets EXCEPT !.rules = {"x"}, !.tables = {"s"}],
           [NoFacets EXCEPT !.columns = {"b"}, !.outcomes = {"failed"}]}

\* What a check of a run found; some checks are not run.
Skipped == -1
Checked == {p \in {"r1", "r2"} \X Checks : p[1] = "r1" \/ p[2].name = "c1"}
Found == {Skipped, 0, 1, 2}

\* A run that ended between the two reads: the view knows it, the page does not yet.
Late == Row(CHOOSE c \in Checks : c.name = "c1", "r4", 3, 2, "published", 1)

Init ==
  /\ \/ \E found \in [Checked -> Found], total \in {Null, 0, 2}, facets \in Facets :
          LET rows == {Row(p[2], p[1], 1, IF p[1] = "r1" THEN total ELSE 2, "published", found[p]) :
                         p \in {q \in DOMAIN found : found[q] # Skipped}}
          IN /\ total = 0 => \A p \in Checked : p[1] = "r1" => found[p] \in {Skipped, 0}
             /\ input = [rows |-> rows, asof_rows |-> v_dq_check_results_asof(rows, Null), facets |-> facets, run_sets |-> <<>>,
                         as_of |-> Null, records |-> [r \in Runs |-> IF r = "r1" THEN 2 ELSE Null], freezes |-> {}]
     \/ \E found \in [Runs -> {Skipped, 0, 1}], dates \in [Runs -> {Null, 1, 2}], together \in SUBSET Runs, as_of \in {"r1", "b", Null},
           facets \in {NoFacets, [NoFacets EXCEPT !.outcomes = {"failed"}]}, tie \in {"r1", "r3"}, late \in SUBSET {Late} :
          LET rows == {Row(CHOOSE c \in Checks : c.name = "c1", r, dates[r], 2, IF r = "r3" THEN "draft" ELSE "published", found[r]) :
                         r \in {q \in Runs : found[q] # Skipped}}
          IN /\ tie = "r3" => dates["r1"] = dates["r3"]
             /\ input = [rows |-> rows, asof_rows |-> v_dq_check_results_asof(rows \cup late, tie), facets |-> facets,
                         run_sets |-> [r \in together |-> "b"], as_of |-> as_of, records |-> [r \in Runs |-> 1],
                         freezes |-> {<<1, 2>>, <<2, 3>>}]
  /\ output = <<>>

Next ==
  /\ output = <<>> /\ UNCHANGED input
  /\ output' = compute_entity_results(input.rows, input.asof_rows, input.facets, input.run_sets, input.as_of, input.records)

-----------------------------------------------------------------------------

\* Runs that were started together are shown together, whatever cap and table
\* the page has: no box holds half a batch of a table.
BatchesStayWhole ==
  output # <<>> =>
    \A p, q \in input.rows :
      /\ p.run # q.run /\ batch_key_of(p, input.run_sets) = batch_key_of(q, input.run_sets) =>
           /\ p \in output.capped <=> q \in output.capped
           /\ p.table = q.table /\ p \in output.boxes /\ row_matches_facets(q, input.facets) => q \in output.boxes

\* The same failures make the same rate, breach and counts wherever they are
\* shown: a table with one run, its badge, its last trend point and its boxes.
BoxesAgree ==
  output # <<>> =>
    LET o == output
        Failed(groups) == MapThenSumSet(LAMBDA k : groups[k].failed, DOMAIN groups)
    IN /\ Failed(o.by_dimension) = Failed(o.by_rule)
       /\ input.facets.tables = {} => Failed(o.by_table) = Failed(o.by_rule)
       /\ \A date \in DOMAIN o.trend :
            LET at == {r \in o.expansion : r.date = date}
                runs == breach_criticality_by_run(at)
            IN /\ o.trend[date].breach = _worse_criticality({runs[run] : run \in DOMAIN runs})
               /\ o.trend[date].rate = Unit => \A r \in at : r.failed = 0 \/ r.total = Null
               /\ Cardinality({r.table : r \in at}) = 1 => o.trend[date].rate = pass_rate(at)
       /\ \A date \in DOMAIN o.trend_failures :
            /\ o.trend_failures[date].rules <= o.trend_failures[date].checks
            /\ (o.trend_failures[date].tests = 0) = (o.trend_failures[date].checks = 0)

\* The average goes by the runs of the page: it carries none that lies beyond the
\* cap or ended after the page was read, and where no runs were started together
\* and no two at once it ends where the boxes stand.
TrendEndsAtTheBoxes ==
  output # <<>> =>
    LET o == output
        dates == {r.date : r \in o.capped} \ {Null}
        last == Newest(dates)
        Undated(rows) == {[r EXCEPT !.date = Null] : r \in rows}
        dated == {r \in input.rows : r.date # Null}
        AtOnce == \E p, q \in dated : p.table = q.table /\ p.run # q.run /\ p.date = q.date
    IN /\ DOMAIN o.trend \subseteq dates
       /\ \A r \in o.expansion : \E q \in input.rows : q.run = r.run /\ q.date <= r.date
       /\ input.run_sets = <<>> /\ ~AtOnce /\ last # Null =>
            Undated({r \in o.expansion : r.date = last}) = Undated({r \in o.boxes : r.date # Null})

\* In a box a rule of many columns weighs what a rule of one does.
RulesWeighEquallyInBoxes ==
  output # <<>> /\ input.facets = NoFacets =>
    \A t \in DOMAIN output.by_table :
      LET rows == {r \in output.boxes : r.table = t /\ r.total # Null /\ r.total # 0}
          Rate(key) == pass_rate({r \in rows : _rule_key(r) = key})
          keys == {_rule_key(r) : r \in rows}
      IN Cardinality({r.run : r \in rows}) = 1 =>
           output.by_table[t].rate = MapThenSumSet(Rate, keys) \div Cardinality(keys)

\* A later run is never shown under an earlier version.
VersionsFollowRuns ==
  \A d, e \in {r.date : r \in input.rows} \ {Null} :
    d <= e /\ input.freezes # {} => annotate_trend_versions(d, input.freezes) <= annotate_trend_versions(e, input.freezes)

\* The page that is capped at a run ends with it, and with all that was started
\* with it.
CapsEndAtTheirBatch ==
  output # <<>> =>
    \A p \in input.rows : p.run = input.as_of =>
      /\ \A q \in Batch(batch_key_of(p, input.run_sets), input.rows, input.run_sets) :
           instant_of(q, input.rows, input.run_sets) # Null => q \in output.capped
      /\ instant_of(p, input.rows, input.run_sets) # Null =>
           \A r \in output.capped, q \in input.rows :
             q = r \/ batch_key_of(q, input.run_sets) = batch_key_of(r, input.run_sets) =>
               q.date = Null \/ q.date <= instant_of(p, input.rows, input.run_sets)

ResultsAgree ==
  /\ BatchesStayWhole /\ BoxesAgree /\ TrendEndsAtTheBoxes /\ CapsEndAtTheirBatch
  /\ RulesWeighEquallyInBoxes /\ VersionsFollowRuns

-----------------------------------------------------------------------------
(***************************************************************************)
(* Pages                                                                   *)
(*                                                                         *)
(* The routes around the results (routes/v1/dq_results.py,                 *)
(* services/quarantine_sample_service.py): whose rows a page is made of,   *)
(* the threshold a check is held to on it, the list of runs with its       *)
(* badges, and the preview of failing records, which filters in the        *)
(* warehouse what the results filter in the app.                           *)
(***************************************************************************)

(* Thresholds *)

Strictest(S) == IF S \ {Null} = {} THEN Null ELSE CHOOSE x \in S \ {Null} : \A y \in S \ {Null} : y <= x

\* _applied_threshold_overrides: of the applications on a page.
_applied_threshold_overrides(applied) ==
  [rule |-> Strictest({a.threshold : a \in applied}),
   columns |-> LET columns == UNION {DOMAIN a.columns : a \in applied}
               IN [c \in columns |-> Strictest({a.columns[c] : a \in {b \in applied : c \in DOMAIN b.columns}})]]

FirstOf(candidates) == SelectSeq(candidates, LAMBDA x : x # Null)[1]

\* A bug: a run is judged by what is configured now.
LiveThreshold(row, overrides, settings) ==
  FirstOf(<<Strictest({overrides.columns[c] : c \in row.columns \cap DOMAIN overrides.columns}),
            overrides.rule, settings.registry, settings.admin>>)

\* _build_threshold_resolver, resolve_pass_threshold: what a run was frozen with stands.
resolve(row, overrides, settings) ==
  FirstOf(<<row.frozen, Strictest({overrides.columns[c] : c \in row.columns \cap DOMAIN overrides.columns}),
            overrides.rule, settings.registry, settings.admin>>)

-----------------------------------------------------------------------------
(* Pages *)

\* The tables a page is about: one, the members of a product, those a rule is
\* applied to, or all; only tables in catalogs the reader may browse.
TablesOf(page, tables) ==
  CASE page.kind = "table" -> {page.table} [] page.kind = "product" -> page.members
    [] page.kind = "rule" -> {a.table : a \in page.applied} [] OTHER -> tables
CatalogOf(t) == IF t = "a.t" THEN "a" ELSE "b"
Accessible(tables, catalogs) == {t \in tables : CatalogOf(t) \in catalogs}

\* The applications whose overrides count on the page: none on the global one.
Applications(page, tables) ==
  IF page.kind = "global" THEN {} ELSE {a \in page.applied : a.table \in tables}

PageRows(page, rows, catalogs) ==
  LET tables == Accessible(TablesOf(page, {r.table : r \in rows}), catalogs)
  IN {r \in rows : r.table \in tables /\ (page.drafts \/ r.mode = "published")}

\* The rows as the results service gets them, with the threshold they are held to.
Judged(page, rows, catalogs, settings) ==
  LET shown == PageRows(page, rows, catalogs)
      overrides == _applied_threshold_overrides(Applications(page, {r.table : r \in shown}))
  IN {[r EXCEPT !.threshold = resolve(r, overrides, settings)] : r \in shown}

\* The badges of the list of runs.
_table_breach_by_run(page, rows, catalogs, settings) ==
  breach_criticality_by_run(Judged(page, rows, catalogs, settings))

-----------------------------------------------------------------------------
(* The list of runs *)

\* The failures of a set of runs: unknown when no run knows its own.
FailedOf(S) ==
  LET known == {r \in S : r.failed # Null} IN IF known = {} THEN Null ELSE MapThenSumSet(LAMBDA r : r.failed, known)

BatchBreach(members) == _worse_criticality({m.breach : m \in members})

\* _consolidate_runs: runs of one run set are one entry, named after the latest.
_consolidate_runs(runs, run_sets) ==
  LET KeyOf(r) == IF r.id \in DOMAIN run_sets THEN run_sets[r.id] ELSE r.id
      Entry(members) == LET latest == CHOOSE m \in members : \A n \in members : n.ts <= m.ts IN
        [id |-> latest.id, ts |-> latest.ts, failed |-> FailedOf(members), breach |-> BatchBreach(members),
         mode |-> IF \E m \in members : m.mode = "published" THEN "published" ELSE "draft"]
  IN {Entry({r \in runs : KeyOf(r) = key}) : key \in {KeyOf(r) : r \in runs}}

-----------------------------------------------------------------------------
(* The preview of failing records *)

\* Asked as the reader: may they select, and does nothing hide rows or columns of them?
MayPreview(reader) == reader.select /\ ~reader.hidden

(* What a run wrote of a record is a list of failures or, from before there *)
(* were structs, an object of names and messages.                           *)

\* parse_failures: an object has names only.  Mapped columns stand in for
\* those a check does not name: for none, and for an empty list of them.
parse_failures(payload) ==
  IF payload.legacy THEN {[f EXCEPT !.columns = {}] : f \in payload.failures}
  ELSE {[f EXCEPT !.columns = IF f.columns \notin {Null, {}} THEN f.columns ELSE f.mapped] : f \in payload.failures}

Picks(chosen, failures, Has(_, _)) == chosen = {} \/ \E f \in failures, c \in chosen : Has(f, c)

\* row_matches_filters: any failure may meet a filter, each filter another one.
row_matches_filters(record, facets) ==
  LET failures == parse_failures(record.errors) \cup parse_failures(record.warnings) IN
  /\ Picks(facets.dimensions, failures, LAMBDA f, c : f.dimension = c)
  /\ Picks(facets.rules, failures, LAMBDA f, c : f.name = c \/ f.rule = c)
  /\ Picks(facets.columns, failures, LAMBDA f, c : c \in f.columns)

\* _facet_pushdown_predicate: per filter, a failure in either of the two lists.
\* The coalesce takes the mapped columns for none only, not for an empty list.
_facet_pushdown_predicate(record, facets) ==
  LET Exists(chosen, payload, Has(_, _)) == Picks(chosen, IF payload.legacy THEN {} ELSE payload.failures, Has)
      Either(chosen, Has(_, _)) == Exists(chosen, record.errors, Has) \/ Exists(chosen, record.warnings, Has)
  IN /\ Either(facets.dimensions, LAMBDA f, c : f.dimension = c)
     /\ Either(facets.rules, LAMBDA f, c : f.rule = c \/ f.name = c)
     /\ Either(facets.columns, LAMBDA f, c : c \in (IF f.columns # Null THEN f.columns ELSE f.mapped))

\* get_dq_results_failed_rows: a page of the latest run's records and the number
\* there are, in the order they are shown.  Without a filter the number is the
\* one the run reported, which is taken to be that of its records.
FailedRows(reader, records, facets, limit, offset) ==
  IF ~MayPreview(reader) THEN [rows |-> <<>>, total |-> 0]
  ELSE LET matching == SelectSeq(records, LAMBDA r : _facet_pushdown_predicate(r, facets))
           rows == SubSeq(matching, offset + 1, Min({offset + limit, Len(matching)}))
       IN [rows |-> rows, total |-> IF rows = <<>> THEN 0 ELSE Len(matching)]

-----------------------------------------------------------------------------

Tables == {"a.t", "b.t"}

Judgeable(table, run, frozen, failed, mode) ==
  [table |-> table, run |-> run, frozen |-> frozen, failed |-> failed, total |-> 4, columns |-> {"x"}, rule |-> "r",
   mode |-> mode, criticality |-> "error", threshold |-> Null]
Applied(table, threshold, column) ==
  [table |-> table, threshold |-> threshold, columns |-> IF column = Null THEN <<>> ELSE [c \in {"x"} |-> column]]

Failures == {[dimension |-> d, rule |-> r, name |-> "n", columns |-> c, mapped |-> m] :
               d \in {"d", Null}, r \in {"r", Null}, c \in {{"x"}, {}, Null}, m \in {{}, {"y"}}}
Payload(legacy, failures) == [legacy |-> legacy, failures |-> failures]
Old == Payload(TRUE, {[dimension |-> Null, rule |-> Null, name |-> "n", columns |-> Null, mapped |-> {}]})
RECORDS == {[errors |-> e, warnings |-> w] :
              e \in {Old} \cup {Payload(FALSE, {f}) : f \in Failures},
              w \in {Old, Payload(FALSE, {})} \cup {Payload(FALSE, {f}) : f \in {g \in Failures : g.dimension = Null}}}
Filters == [dimensions : SUBSET {"d"}, rules : {{}, {"r"}, {"n"}}, columns : {{}, {"x"}, {"y"}}]

pagesInit ==
  /\ \/ \E kind \in {"table", "product", "rule", "global"}, frozen \in {Null, 50, 100}, failed \in 0..3, mode \in {"published", "draft"},
           catalogs \in SUBSET {"a", "b"}, thresholds \in [Tables -> {Null, 25, 75}], column \in {Null, 100}, registry \in {Null, 50} :
          input = [of |-> "page", catalogs |-> catalogs, settings |-> [registry |-> registry, admin |-> 75],
                   page |-> [kind |-> kind, table |-> "a.t", members |-> Tables, drafts |-> FALSE,
                             applied |-> {Applied("a.t", thresholds["a.t"], column), Applied("b.t", thresholds["b.t"], Null)}],
                   rows |-> {Judgeable("a.t", "1", frozen, failed, "published"), Judgeable("b.t", "2", 50, 3, mode)}]
     \/ \E breach \in [1..3 -> {Null, "warn", "error"}], mode \in [1..3 -> {"published", "draft"}], together \in SUBSET (1..3) :
          input = [of |-> "runs", run_sets |-> [i \in together |-> 0],
                   runs |-> {[id |-> i, ts |-> i, failed |-> IF breach[i] = Null THEN Null ELSE i, breach |-> breach[i], mode |-> mode[i]] : i \in 1..3}]
     \/ \E record \in RECORDS, facets \in Filters, select \in BOOLEAN, hidden \in BOOLEAN, others \in 0..2 :
          input = [of |-> "preview", reader |-> [select |-> select, hidden |-> hidden], facets |-> facets, limit |-> 2,
                   records |-> [i \in 1..(others + 1) |-> IF i = 2 THEN [record EXCEPT !.warnings = Payload(FALSE, {})] ELSE record]]
  /\ output = <<>>

pagesNext ==
  /\ output = <<>> /\ UNCHANGED input
  /\ output' = CASE input.of = "page" -> <<Judged(input.page, input.rows, input.catalogs, input.settings),
                                             _table_breach_by_run(input.page, input.rows, input.catalogs, input.settings)>>
                 [] input.of = "runs" -> <<_consolidate_runs(input.runs, input.run_sets)>>
                 [] OTHER -> [i \in 1..2 |-> FailedRows(input.reader, input.records, input.facets, input.limit, (i - 1) * input.limit)]

-----------------------------------------------------------------------------

\* What a run was judged by is frozen with it: no page and no later setting gives
\* it another verdict, and no page shows a table outside the reader's catalogs.
FrozenVerdictsStand ==
  output # <<>> /\ input.of = "page" =>
    /\ \A r \in output[1] :
         /\ CatalogOf(r.table) \in input.catalogs
         /\ r.frozen # Null => output[2][r.run] = IF (4 - r.failed) * 100 >= r.frozen * 4 THEN Null ELSE "error"
         \* An application is never judged more leniently than it asks for on its own.
         /\ r.frozen = Null /\ input.page.kind # "global" =>
              \A a \in input.page.applied :
                a.table = r.table /\ a.columns = <<>> /\ a.threshold # Null => r.threshold >= a.threshold
    /\ \A r \in input.rows : r.mode = "draft" => ~\E s \in output[1] : s.run = r.run

\* Batches keep their failures and the worst of their verdicts, each run counted once.
BadgesAreThoseOfTheRuns ==
  output # <<>> /\ input.of = "runs" =>
    /\ FailedOf(output[1]) = FailedOf(input.runs)
    /\ \A level \in {"warn", "error"} :
         (\E r \in input.runs : r.breach = level) => \E e \in output[1] : e.breach = level \/ e.breach = "error"
    /\ \A e \in output[1] : e.breach # Null => \E r \in input.runs : r.breach = e.breach

\* What the SQL and the app read in two ways.
ReadAlike(record) ==
  \A payload \in {record.errors, record.warnings} :
    ~payload.legacy /\ \A f \in payload.failures : f.columns = {} => f.mapped = {}

\* The pages of the preview hold, each once and in order, records that the filters
\* of the app would pass, and all of them but for those that the SQL reads in
\* another way: objects of old, and empty lists of columns beside mapped ones.
\* They say how many there are; who may not select sees none.
PreviewMirrorsTheFilters ==
  output # <<>> /\ input.of = "preview" =>
    LET Filtered(r) == row_matches_filters(r, input.facets)
        shown == output[1].rows \o output[2].rows
    IN IF ~input.reader.select \/ input.reader.hidden THEN \A i \in 1..2 : output[i].rows = <<>> /\ output[i].total = 0
       ELSE /\ \A i \in DOMAIN shown : Filtered(shown[i])
            /\ SelectSeq(shown, ReadAlike) = SelectSeq(input.records, LAMBDA r : ReadAlike(r) /\ Filtered(r))
            /\ \A i \in 1..2 : output[i].rows # <<>> => output[i].total = Len(shown)

PagesAgree == FrozenVerdictsStand /\ BadgesAreThoseOfTheRuns /\ PreviewMirrorsTheFilters

-----------------------------------------------------------------------------
(***************************************************************************)
(* Scores                                                                  *)
(*                                                                         *)
(* What the score views compute (services/score_view_service.py) and what  *)
(* the cache keeps of it (services/score_cache_service.py).  Scores are    *)
(* fractions of Whole.  A check of a run is a record: its name, the        *)
(* registry rule it was rendered from, NoRule if none, its granularity and *)
(* the number of rows it failed.                                           *)
(***************************************************************************)

Whole == 36
Rows == {Null, 0, 2}

-----------------------------------------------------------------------------
(* The checks a run was frozen with (v_dq_check_attribution). *)

\* The newest row of the run with a payload counts, the first check of a name,
\* and none without a name.
Attributed(payload, name) ==
  {i \in DOMAIN payload : payload[i].name = name /\ \A j \in 1..(i - 1) : payload[j].name # name}

\* sql_query gives a verdict per row only when it has merge columns; unknown
\* functions are of rows.
check_granularity(function) ==
  IF function \in {"sql_query", "is_aggr_not_greater_than"} THEN "dataset" ELSE "row"

\* The left join: a check of the metrics that the payload does not name has no rule.
Joined(payload, failed) ==
  {[name |-> n, failed |-> failed[n],
    rule |-> IF Attributed(payload, n) = {} THEN NoRule ELSE payload[CHOOSE i \in Attributed(payload, n) : TRUE].rule,
    granularity |-> IF Attributed(payload, n) = {} THEN "row"
                    ELSE check_granularity(payload[CHOOSE i \in Attributed(payload, n) : TRUE].function)] :
     n \in DOMAIN failed}

-----------------------------------------------------------------------------
(* A row per check and run (v_dq_check_results). *)

check_score(check, rows) ==
  IF rows = 0 THEN Null
  ELSE IF check.granularity = "dataset" THEN IF check.failed > 0 THEN 0 ELSE Whole
  ELSE IF rows = Null THEN Null
  ELSE Whole - (Whole * check.failed) \div rows

RuleKey(check) == IF check.rule # NoRule THEN check.rule ELSE check.name
rule_check_count(check, checks) == Cardinality({c \in checks : RuleKey(c) = RuleKey(check)})

\* A run without checks has one row, of nothing known.
_score(checks, rows) ==
  LET known == {c \in checks : check_score(c, rows) # Null}
  IN IF known = {} THEN Null
     ELSE MapThenSumSet(LAMBDA c : check_score(c, rows) \div rule_check_count(c, checks), known)
            \div Cardinality({RuleKey(c) : c \in checks})

-----------------------------------------------------------------------------
(* Runs: [table, at, mode], mode one of published, draft and Null, which *)
(* is what runs of before the tag have.                                     *)

run_mode(run) == IF run.mode = Null THEN "published" ELSE run.mode
\* A bug: the expansion is built over all runs.
AllRuns(runs, include_drafts) == {r \in runs : r.at # Null}

\* v_dq_check_results_asof: at each instant of a scope, the latest run of each
\* table in the scope.
Scoped(runs, include_drafts) == {r \in runs : r.at # Null /\ (include_drafts \/ run_mode(r) = "published")}
AsOf(runs, include_drafts) ==
  LET scoped == Scoped(runs, include_drafts)
  IN {pair \in {s.at : s \in scoped} \X scoped :
        LET instant == pair[1]  r == pair[2] IN
        r.at <= instant /\ \A s \in scoped : s.table = r.table /\ s.at <= instant => s.at <= r.at}

\* _query_latest_published_scores
LatestPublished(runs, table) ==
  LET published == {r \in runs : r.table = table /\ r.at # Null /\ run_mode(r) = "published"}
  IN {r \in published : \A s \in published : s.at <= r.at}

\* refresh_product, refresh_global: the mean of the scores of approved tables
\* that have one.
Aggregate(scores, approved) ==
  LET counted == {t \in approved : scores[t] # Null}
  IN IF counted = {} THEN Null ELSE MapThenSumSet(LAMBDA t : scores[t], counted) \div Cardinality(counted)

\* _append_history: the newest rows are kept, and with them all that share the
\* time of the oldest of them.
Trimmed(times, keep) ==
  {t \in times : Cardinality({u \in times : u > t}) < keep}

-----------------------------------------------------------------------------

Names == {"a", "b", "c"}
Payloads == SeqOf([name : {"a", "b", Null}, rule : {NoRule, "r"},
                   function : {"is_not_null", "sql_query", "sql_query with merge columns"}], 2)

\* At most one run of a table at a time.
Slots == {"s", "t"} \X {1, 2, Null}
Held(f) == {[table |-> p[1], at |-> p[2], mode |-> f[p]] : p \in {q \in Slots : f[q] # "none"}}

scoresInit ==
  /\ \/ \E names \in SUBSET Names, rows \in Rows, payload \in Payloads : \E failed \in [names -> 0..2] :
          /\ rows = 0 => \A n \in names : failed[n] = 0
          /\ input = [of |-> "run", payload |-> payload, failed |-> failed, rows |-> rows]
     \/ \E f \in [Slots -> {"none", "published", "draft", Null}] : input = [of |-> "runs", runs |-> Held(f)]
     \/ \E scores \in [{"s", "t"} -> {Null, 0, 18, Whole}], approved \in SUBSET {"s", "t"}, times \in SUBSET (1..4) :
          input = [of |-> "cache", scores |-> scores, approved |-> approved, times |-> times]
  /\ output = <<>>

scoresNext ==
  /\ output = <<>> /\ UNCHANGED input
  /\ output' = IF input.of = "run" THEN <<_score(Joined(input.payload, input.failed), input.rows)>>
               ELSE IF input.of = "cache" THEN <<Aggregate(input.scores, input.approved), Trimmed(input.times, 2)>>
               ELSE <<AsOf(input.runs, FALSE), [t \in {"s", "t"} |-> LatestPublished(input.runs, t)]>>

-----------------------------------------------------------------------------

\* A rule counts once however many columns it is applied to: the score is the
\* mean over the rules of the mean over their checks.
RulesWeighEqually ==
  output # <<>> /\ input.of = "run" /\ input.rows = 2 /\ DOMAIN input.failed # {} =>
    LET checks == Joined(input.payload, input.failed)
        keys == {RuleKey(c) : c \in checks}
        Of(k) == {c \in checks : RuleKey(c) = k}
        Mean(k) == MapThenSumSet(LAMBDA c : IF c.granularity = "row" THEN Whole - (Whole \div 2) * c.failed
                                            ELSE IF c.failed = 0 THEN Whole ELSE 0, Of(k)) \div Cardinality(Of(k))
    IN output[1] = MapThenSumSet(Mean, keys) \div Cardinality(keys)

\* A trend ends where the cached score stands: the last instant of the published
\* scope carries, for every table, the run the cache takes.
TrendEndsAtTheScore ==
  output # <<>> /\ input.of = "runs" =>
    \A t \in {"s", "t"} :
      {p[2] : p \in {q \in output[1] : q[2].table = t /\ \A o \in output[1] : o[1] <= q[1]}} = output[2][t]
==============================================================================
