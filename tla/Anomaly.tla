------------------------------ MODULE Anomaly -------------------------------
(***************************************************************************)
(* Row anomaly detection (anomaly/): the features a model is trained on    *)
(* and scored with, severities, the scoring of rows by the models of their *)
(* segments, the groups of rows the language model explains, drift, and    *)
(* the columns chosen when none are given.  The forest and the language    *)
(* model are external: a score is whatever the model gives.                *)
(***************************************************************************)
EXTENDS SparkSQL, Sequences, FiniteSetsExt

CONSTANTS Raised

VARIABLES input, output

-----------------------------------------------------------------------------
(* Features: a column of the training sample, and the values met later.     *)

MISSING == "MISSING"
Filled(kind, v) ==
  IF v # Null THEN v ELSE CASE kind = "categorical" -> MISSING [] kind = "boolean" -> FALSE [] OTHER -> 0

\* analyze_columns: what is remembered of a column.
analyze_columns(kind, sample, threshold) ==
  LET present == {sample[i] : i \in DOMAIN sample} \ {Null}
  IN [kind |-> kind, nulls |-> Cardinality({i \in DOMAIN sample : sample[i] = Null}),
      onehot |-> kind = "categorical" /\ Cardinality(present) <= threshold, present |-> present]

\* Of two categories one tells them apart; of more, all are kept.
Categories(info) ==
  IF Cardinality(info.present) = 2 THEN {{c} : c \in info.present} ELSE {info.present}

Frequencies(kind, sample) ==
  LET Key(i) == Filled(kind, sample[i])
  IN [k \in {Key(i) : i \in DOMAIN sample} |-> Cardinality({i \in DOMAIN sample : Key(i) = k})]

\* The metadata a training stores.
Metadata(kind, sample, threshold) ==
  LET info == analyze_columns(kind, sample, threshold)
  IN {[info |-> info, categories |-> c, frequencies |-> Frequencies(kind, sample)] :
        c \in IF info.onehot THEN Categories(info) ELSE {{}}}

_add_null_indicator(meta, v) == IF meta.info.nulls > 0 THEN <<v = Null>> ELSE <<>>

\* Instants share their features when they share hour, weekday and month.
Calendar(instant) == instant % 2

\* apply_feature_engineering, with the stored metadata or while making them; a
\* one-hot column without categories is refused once they are stored.
apply_feature_engineering(meta, v, is_training) ==
  LET x == Filled(meta.info.kind, v)
      Feature == CASE meta.info.kind = "categorical" /\ meta.info.onehot -> [c \in meta.categories |-> x = c]
                   [] meta.info.kind = "categorical" ->
                        IF x \in DOMAIN meta.frequencies THEN meta.frequencies[x] ELSE 0
                   [] meta.info.kind = "datetime" -> Calendar(x)
                   [] OTHER -> x
  IN IF ~is_training /\ meta.info.onehot /\ meta.categories = {} THEN Raised
     ELSE <<_add_null_indicator(meta, v), Feature>>

\* Training scores its own sample for the quantiles, with the stored metadata.
Train(kind, sample, threshold) ==
  {IF \E i \in DOMAIN sample : apply_feature_engineering(meta, sample[i], FALSE) = Raised THEN Raised ELSE meta :
     meta \in Metadata(kind, sample, threshold)}

-----------------------------------------------------------------------------
(* Severity: the score's place among the quantiles of the training scores.  *)

Percentiles == <<0, 36, 72>>

Between(p, q, k, score) ==
  p[k - 1] + ((score - q[k - 1]) * (p[k] - p[k - 1])) \div (q[k] - q[k - 1])

\* add_severity_percentile_column: the first interval that reaches the score.
add_severity_percentile_column(q, score) ==
  IF score = Null THEN Null
  ELSE IF score <= q[1] THEN Percentiles[1]
  ELSE IF score > q[3] THEN Percentiles[3]
  ELSE LET k == Min({j \in 2..3 : score <= q[j]})
       IN IF q[k] = q[k - 1] THEN Percentiles[k] ELSE Between(Percentiles, q, k, score)

\* severity_from_scores (numpy.interp): the last interval that starts at or
\* below the score.
severity_from_scores(q, score) ==
  IF score < q[1] THEN Percentiles[1]
  ELSE IF score >= q[3] THEN Percentiles[3]
  ELSE LET k == Max({j \in 2..3 : q[j - 1] <= score}) IN Between(Percentiles, q, k, score)

\* compute_gated_shap_contributions, whose epsilon is below what is told apart here.
compute_gated_shap_contributions(q, score, threshold) == severity_from_scores(q, score) >= threshold

\* add_info_column
add_info_column(q, score, threshold) ==
  LET severity == add_severity_percentile_column(q, score)
      anomalous == severity # Null /\ severity >= threshold
  IN [is_anomaly |-> anomalous, severity |-> severity,
      contributions |-> anomalous /\ compute_gated_shap_contributions(q, score, threshold)]

-----------------------------------------------------------------------------
(* Scoring.  A row: [region, tier, in]; a model covers the rows that have   *)
(* its segment values, [region |-> "a"] or [tier |-> "x"], and [] all.      *)

\* build_segment_filter: equality, which no NULL meets.
Covers(model, row) == \A key \in DOMAIN model : row[key] = model[key]

\* apply_row_filter
Filtered(rows, row_filter) == {i \in DOMAIN rows : row_filter => rows[i].in}

\* score_single_segment over the segments that have rows, and their union.
Scored(rows, models, row_filter, score) ==
  {scored \in Filtered(rows, row_filter) \X models : Covers(scored[2], rows[scored[1]])}

\* A bug: rows are joined with every score they have.
JoinAll(rows, scored, score) ==
  {<<p[1], score[p]>> : p \in scored} \cup {<<i, Null>> : i \in DOMAIN rows \ {p[1] : p \in scored}}
\* join_filtered_results_back: the highest score of a row, none for the others.
join_filtered_results_back(rows, scored, score) ==
  {<<i, IF \E p \in scored : p[1] = i THEN Max({score[p] : p \in {s \in scored : s[1] = i}}) ELSE Null>> :
     i \in DOMAIN rows}

Eligible(rows, models, row_filter) == {m \in models : \E i \in Filtered(rows, row_filter) : Covers(m, rows[i])}

\* _split_max_groups_budget: at least one group for a segment.
_split_max_groups_budget(max_groups, segments) == Max({1, max_groups \div segments})

-----------------------------------------------------------------------------
(* Explanations.  An anomalous row: [severity, contributions], the latter a *)
(* map from features to weights, Null where the row had NULLs.              *)

Weighed(row, redact) == {f \in DOMAIN row.contributions \ redact : row.contributions[f] # Null}

\* pattern_spark_expr: the two heaviest features, {} is "unknown".  Weights of
\* a row are distinct.
pattern_spark_expr(row, redact) ==
  LET known == Weighed(row, redact)
      Heavier(f) == {g \in known : row.contributions[g] > row.contributions[f]}
  IN {f \in known : Cardinality(Heavier(f)) < 2}

Group(rows, anomalous, redact, pattern) == {i \in anomalous : pattern_spark_expr(rows[i], redact) = pattern}

\* Rank: the number of rows times their mean severity, which is the sum.
Rank(rows, group) == MapThenSumSet(LAMBDA i : rows[i].severity, group)

\* _aggregate_groups_spark: the groups of the highest rank, ties by the name.
_aggregate_groups_spark(rows, anomalous, redact, max_groups, before) ==
  LET patterns == {pattern_spark_expr(rows[i], redact) : i \in anomalous}
      R(p) == Rank(rows, Group(rows, anomalous, redact, p))
      Ahead(p) == {o \in patterns : R(o) > R(p) \/ (R(o) = R(p) /\ before[o] < before[p])}
  IN {p \in patterns : Cardinality(Ahead(p)) < max_groups}

\* _call_llm_for_groups_ai_query names the features of the group that are not
\* redacted; _attach_explanation_struct gives a row the answer of its group.
Prompted(rows, group, redact) == UNION {DOMAIN rows[i].contributions : i \in group} \ redact
_attach_explanation_struct(rows, threshold, redact, max_groups, before, answered) ==
  LET anomalous == {i \in DOMAIN rows : rows[i].severity >= threshold}
      kept == _aggregate_groups_spark(rows, anomalous, redact, max_groups, before)
      Pattern(i) == pattern_spark_expr(rows[i], redact)
  IN [i \in DOMAIN rows |->
        IF i \in anomalous /\ Pattern(i) \in kept \cap answered
        THEN [top_features |-> Pattern(i), group_size |-> Cardinality(Group(rows, anomalous, redact, Pattern(i))),
              prompt |-> Prompted(rows, Group(rows, anomalous, redact, Pattern(i)), redact)]
        ELSE Null]

-----------------------------------------------------------------------------
(* Drift, in tenths; statistics are [mean, std], Null for a column of NULLs. *)

MIN_SAMPLE_SIZE_FOR_DRIFT == 2

_compute_column_drift_score(base, now) ==
  LET mean == IF now.mean = Null THEN base.mean ELSE now.mean
      std == IF now.std = Null THEN 0 ELSE now.std
      z == IF base.std = 0 THEN 7 * Abs(mean - base.mean) ELSE (7 * Abs(mean - base.mean)) \div base.std
      change == IF base.std = 0 THEN 0 ELSE IF std = 0 THEN 3 ELSE (3 * Abs(std - base.std)) \div base.std
  IN z + change

compute_drift_score(rows, bases, nows, threshold) ==
  IF rows < MIN_SAMPLE_SIZE_FOR_DRIFT THEN {}
  ELSE {c \in DOMAIN bases : _compute_column_drift_score(bases[c], nows[c]) >= threshold}

-----------------------------------------------------------------------------
(* The columns chosen when none are given.  A field: [name, kind, nulls,    *)
(* distinct] out of Total rows; numeric fields that do not vary have        *)
(* distinct = 1.                                                            *)

Total == 1000
IsId(field) == field.name = "order_id"

Priority(field) ==
  CASE field.kind = "boolean" -> 2 [] field.kind = "datetime" -> 4
    [] field.kind \in {"double", "int"} -> IF field.distinct > 1 THEN 1 ELSE 0
    [] field.kind = "text" -> IF field.distinct <= 20 THEN 3 ELSE IF field.distinct <= 100 THEN 5 ELSE 0
    [] OTHER -> 0

Candidates(fields) == {f \in fields : ~IsId(f) /\ 2 * f.nulls < Total /\ Priority(f) # 0}

\* _select_top_columns, ties by the name.
_select_top_columns(fields, max_columns, before) ==
  LET Ahead(f) == {g \in Candidates(fields) :
                     Priority(g) < Priority(f) \/ (Priority(g) = Priority(f) /\ before[g.name] < before[f.name])}
  IN {f \in Candidates(fields) : Cardinality(Ahead(f)) < max_columns}

\* _select_segment_columns: the one with the fewest segments; columns already
\* used as numbers do not make segments.
_select_segment_columns(fields, columns) ==
  LET fit == {f \in fields : /\ f.kind \in {"text", "int"} /\ ~(f.kind = "int" /\ f \in columns)
                             /\ ~IsId(f) /\ f.distinct \in 2..20
                             /\ 10 * f.nulls < Total /\ Total >= 100 * f.distinct}
  IN {f \in fit : \A g \in fit : f.distinct <= g.distinct}

WithoutSegments(columns, segment) == columns \ {segment}

_auto_discover_heuristic(fields, max_columns, before) ==
  LET columns == _select_top_columns(fields, max_columns, before)
      fit == _select_segment_columns(fields, columns)
  IN IF fit = {} THEN {[columns |-> columns, segment |-> Null]}
     ELSE {[columns |-> WithoutSegments(columns, s), segment |-> s] : s \in fit}

-----------------------------------------------------------------------------

Values(kind) ==
  CASE kind = "categorical" -> {"A", "B", MISSING, Null} [] kind = "boolean" -> {TRUE, FALSE, Null}
    [] OTHER -> {0, 1, 2, Null}
Kinds == {"categorical", "boolean", "datetime", "numeric"}

Quantiles == {q \in [1..3 -> 0..3] : q[1] <= q[2] /\ q[2] <= q[3]}

RowsToScore == [region : {"a", Null}, tier : {"x", "y"}, in : BOOLEAN]
Models == {[region |-> "a"], [tier |-> "x"], [region |-> "a", tier |-> "y"]}

Features == {"f", "g", "h"}
Weights == {[f |-> 1, g |-> 2, h |-> 3], [f |-> 3, g |-> 2, h |-> 1], [f |-> 3, g |-> 1, h |-> 2], [f |-> Null, g |-> Null, h |-> Null]}
Ordered == [p \in SUBSET Features |-> (IF "f" \in p THEN 1 ELSE 0) + (IF "g" \in p THEN 2 ELSE 0) + (IF "h" \in p THEN 4 ELSE 0)]

Field(n, k, u, d) == [name |-> n, kind |-> k, nulls |-> u, distinct |-> d]
Others == {Field("amount", "double", u, d) : u \in {0, 500}, d \in {1, 500}}
          \cup {Field("order_id", "int", 0, 1000), Field("done", "boolean", 0, 2), Field("at", "datetime", 499, 900)}
Dimensions(n) == {Field(n, k, u, d) : k \in {"text", "int"}, u \in {99, 100}, d \in {1, 2, 10, 60}}
Names == [amount |-> 1, at |-> 2, done |-> 3, order_id |-> 4, region |-> 5, tier |-> 6]

Stats == [mean : {0, 1, 9, Null}, std : {0, 1, 3, Null}]

Init ==
  /\ \/ \E kind \in Kinds, t \in 0..2 : \E sample \in UNION {[1..n -> Values(kind)] : n \in 1..3} :
          input = [of |-> "features", kind |-> kind, sample |-> sample, threshold |-> t]
     \/ \E q \in Quantiles, t \in {0, 18, 36, 48, 72} : input = [of |-> "severity", q |-> q, threshold |-> t]
     \/ \E rows \in [1..2 -> RowsToScore], models \in SUBSET Models, f \in BOOLEAN, b \in 1..3 :
          \E score \in [(1..2) \X models -> 1..2] :
          input = [of |-> "rows", rows |-> rows, models |-> models, filter |-> f, budget |-> b, score |-> score]
     \/ \E rows \in [1..3 -> [severity : {1, 2, 4}, contributions : Weights]], redact \in {{}, {"f"}, {"f", "h"}, Features},
           n \in 1..2 :
          input = [of |-> "explain", rows |-> rows, redact |-> redact, max_groups |-> n]
     \/ \E base \in [mean : {0, 1}, std : {0, 1, 3}], now \in Stats, rows \in 1..2 :
          /\ now.mean = Null => now.std = Null
          /\ input = [of |-> "drift", base |-> base, now |-> now, rows |-> rows]
     \/ \E other \in Others, region \in Dimensions("region"), tier \in Dimensions("tier"), n \in 1..2 :
          input = [of |-> "discover", fields |-> {other, region, tier}, max |-> n]
  /\ output = <<>>

Next ==
  /\ output = <<>> /\ UNCHANGED input
  /\ \/ input.of = "features" /\ \E meta \in Train(input.kind, input.sample, input.threshold) : output' = <<meta>>
     \/ /\ input.of = "severity"
        /\ output' = <<[score \in 0..4 |-> add_info_column(input.q, score, input.threshold)]>>
     \/ /\ input.of = "rows"
        /\ LET scored == Scored(input.rows, input.models, input.filter, input.score)
               eligible == Eligible(input.rows, input.models, input.filter)
           IN output' = <<join_filtered_results_back(input.rows, scored, input.score),
                          IF eligible = {} THEN 0
                          ELSE Cardinality(eligible) * _split_max_groups_budget(input.budget, Cardinality(eligible))>>
     \/ /\ input.of = "explain"
        /\ \E answered \in {SUBSET Features, {{"f", "g"}}} :
             output' = <<_attach_explanation_struct(input.rows, 2, input.redact, input.max_groups, Ordered, answered), answered>>
     \/ /\ input.of = "drift"
        /\ output' = <<compute_drift_score(input.rows, [c |-> input.base], [c |-> input.now], 30)>>
     \/ input.of = "discover" /\ \E found \in _auto_discover_heuristic(input.fields, input.max, Names) : output' = <<found>>

Done(of) == output # <<>> /\ input.of = of

-----------------------------------------------------------------------------

\* What a model saw in training it sees again in scoring: a row of the sample has
\* the same features, NULL is told from every value, and a category of a column
\* with few of them from every other.
ScoredAsTrained ==
  Done("features") /\ output[1] # Raised =>
    LET seen == {input.sample[i] : i \in DOMAIN input.sample}
        meta == output[1]
        Seen(v) == apply_feature_engineering(meta, v, FALSE)
    IN \A v \in seen :
         /\ Seen(v) = apply_feature_engineering(meta, v, TRUE)
         /\ \A w \in seen \ {v} : (v = Null \/ meta.info.onehot) => Seen(v) # Seen(w)

\* Severity follows the score, and a row that is flagged has contributions: the
\* two computations of the severity agree about the threshold.
FlaggedRowsHaveContributions ==
  Done("severity") =>
    \A s \in 0..4 :
      /\ output[1][s].is_anomaly => output[1][s].contributions
      /\ \A t \in 0..s : output[1][t].severity <= output[1][s].severity

\* Scoring keeps the rows, each once, with the worst of the scores its models
\* give; the language model is not asked more often than the budget says, or
\* than once per segment.
ScoringKeepsTheRows ==
  Done("rows") =>
    /\ \A i \in DOMAIN input.rows : Cardinality({p \in output[1] : p[1] = i}) = 1
    /\ \A p \in output[1] :
         LET row == input.rows[p[1]]
             models == {m \in input.models : Covers(m, row)}
         IN IF models = {} \/ (input.filter /\ ~row.in) THEN p[2] = Null
            ELSE p[2] \in {input.score[<<p[1], m>>] : m \in models} /\ \A m \in models : p[2] >= input.score[<<p[1], m>>]
    /\ output[2] <= Max({input.budget, Cardinality(input.models)})

\* Rows of a group share its explanation, which names nothing that is redacted;
\* no group goes unexplained for one of lower rank.
ExplanationsFitTheRows ==
  Done("explain") =>
    LET given == {i \in DOMAIN input.rows : output[1][i] # Null}
        anomalous == {i \in DOMAIN input.rows : input.rows[i].severity >= 2}
        Pattern(i) == pattern_spark_expr(input.rows[i], input.redact)
        Weight(i) == Rank(input.rows, Group(input.rows, anomalous, input.redact, Pattern(i)))
    IN /\ given \subseteq anomalous
       /\ Cardinality({output[1][i].top_features : i \in given}) <= input.max_groups
       /\ \A i \in given :
            /\ \A j \in anomalous \ given : Pattern(j) \in output[2] => Weight(j) <= Weight(i)
            /\ output[1][i].top_features \cap input.redact = {} /\ output[1][i].prompt \cap input.redact = {}
            /\ \A j \in given : output[1][j].top_features = output[1][i].top_features => output[1][j] = output[1][i]
            /\ output[1][i].group_size =
                 Cardinality({j \in anomalous : Pattern(j) = output[1][i].top_features})

\* Data like the training data do not drift, data whose mean moved by many
\* standard deviations do, unless there are few of them.
DriftIsADifference ==
  Done("drift") =>
    /\ input.now = input.base \/ input.rows < MIN_SAMPLE_SIZE_FOR_DRIFT => output[1] = {}
    /\ input.rows >= MIN_SAMPLE_SIZE_FOR_DRIFT /\ input.now.mean = 9 /\ input.base.std <= 1 => output[1] # {}

\* A segment column is not a feature of its own segments, has the rows a model
\* needs, and columns are never identifiers.
DiscoveredColumnsAreUsable ==
  Done("discover") =>
    /\ output[1].segment \notin output[1].columns
    /\ Cardinality(output[1].columns) <= input.max
    /\ \A f \in output[1].columns : f.name # "order_id" /\ (f.distinct > 1 \/ f.kind \in {"boolean", "datetime", "text"})
    /\ output[1].segment # Null =>
         LET s == output[1].segment IN s.name # "order_id" /\ (Total - s.nulls) \div s.distinct >= 90

=============================================================================
