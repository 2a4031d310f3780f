----------------------------- MODULE Profiling ------------------------------
(***************************************************************************)
(* The profiler (profiler/profiler.py, profile_builder.py, semantic.py)    *)
(* looks at a sample of a column and proposes profiles; the generator      *)
(* (generator.py) turns each profile into a check.  The checks are those   *)
(* of RowChecks and GeoChecks, so that what the profiler proposes can be   *)
(* applied to the data it has looked at.                                   *)
(*                                                                         *)
(* Numbers, dates and times are counted in halves: a whole number, a day   *)
(* or a midnight is even.  Ratios in the options are halves as well.       *)
(***************************************************************************)
EXTENDS SparkSQL, Sequences, FiniteSetsExt, SequencesExt

CONSTANTS Pending, Malformed, ColumnY, Refused, Raised

VARIABLES
  input,    \* the column's type, its rows, the options
  output    \* the rows of the sample and the generated checks

R == INSTANCE RowChecks
Geo == INSTANCE GeoChecks

Numeric == {"int", "double", "byte"}
Temporal == {"date", "timestamp"}
Spatial == {"geometry", "geography"}

-----------------------------------------------------------------------------
(* The sample and the metrics of a column *)

\* validate_profile_options: columns are allowed or denied, not both.
validate_profile_options(o) == ~(o.allowed /\ o.denied)

\* _sample, _stratified_sample: after the filter, a limit, a fraction or a
\* fraction per value keeps any of the rows.
Samples(rows, o) ==
  LET scope == {i \in DOMAIN rows : o.filter => rows[i].in} IN
  IF o.sampled THEN SUBSET scope ELSE {scope}

Trim(t) == CASE t = " a" -> "a" [] t = " " -> "" [] OTHER -> t
Length(t) == IF t = "" THEN 0 ELSE 1

\* _prepare_column_df: without NULLs, and trimmed.
Prepared(type, o, x) == IF type = "text" /\ o.trim THEN Trim(x) ELSE x

\* _build_column_metrics, _get_df_summary_as_dict, build_registered_metric_aggregations
Metrics(type, rows, sample, o) ==
  LET present == {i \in sample : rows[i].x # Null}
      Value(i) == Prepared(type, o, rows[i].x)
      values == {Value(i) : i \in present}
      ordered == type \in Numeric \cup Temporal /\ present # {}
  IN [present |-> present, value |-> [i \in present |-> Value(i)], values |-> values,
      count |-> Cardinality(sample), non_null |-> Cardinality(present),
      count_null |-> Cardinality(sample) - Cardinality(present),
      empty |-> IF type = "text" THEN Cardinality({i \in present : Value(i) = ""}) ELSE 0,
      distinct |-> Cardinality(values),
      min |-> IF ordered THEN Min(values) ELSE Null, max |-> IF ordered THEN Max(values) ELSE Null,
      sum |-> IF ordered THEN MapThenSumSet(Value, present) ELSE 0,
      squares |-> IF ordered THEN MapThenSumSet(LAMBDA i : Value(i) * Value(i), present) ELSE 0]

AtMostHalf(count, halves, total) == 2 * count <= halves * total

\* Few values, each of them repeated: max_in_count and distinct_ratio.
FewValues(m, o) == m.distinct < o.in_count /\ m.distinct < m.non_null

\* _detect_enum, _detect_key (_detect_numeric_key, _detect_text_key),
\* _detect_measurement and _detect_text, the first that answers.
SemanticType(type, m, o) ==
  IF ~o.semantic \/ m.non_null = 0 THEN Null
  ELSE IF type \in {"text", "int"} /\ FewValues(m, o) THEN "enum"
  ELSE IF /\ m.distinct = m.non_null
          /\ \/ type = "int" /\ 2 * m.distinct = m.max - m.min + 2
             \/ type = "text" /\ {Length(t) : t \in m.values} = {1} THEN "key"
  ELSE IF type \in Numeric THEN "measurement"
  ELSE IF type = "text" THEN "text" ELSE Null

-----------------------------------------------------------------------------
(* Profiles *)

\* make_null_or_empty_profile
NullProfiles(type, m, o) ==
  LET not_null == AtMostHalf(m.count_null, o.nulls, m.count)
      not_empty == type = "text" /\ AtMostHalf(m.empty, o.empties, m.count)
  IN IF not_null /\ not_empty THEN {[name |-> "is_not_null_or_empty", trim |-> o.trim]}
     ELSE IF not_null THEN {[name |-> "is_not_null"]}
     ELSE IF not_empty THEN {[name |-> "is_not_empty", trim |-> o.trim]} ELSE {}

\* make_is_in_profile
IsInProfiles(type, m, o, semantic) ==
  IF /\ type \in {"text", "int"} /\ m.non_null > 0
     /\ IF semantic # Null THEN semantic = "enum" ELSE FewValues(m, o)
  THEN {[name |-> "is_in", in |-> m.values]} ELSE {}

Floor(v) == v - (v % 2)
Ceil(v) == v + (v % 2)

\* Mutant: a limit is rounded to the nearest whole number below, whichever side it is on.
RoundDown(v, direction, o) == IF o.round THEN Floor(v) ELSE v

\* _round_value with _round_datetime, _round_float and _round_decimal.
RoundValue(v, direction, o) == IF ~o.round THEN v ELSE IF direction = "down" THEN Floor(v) ELSE Ceil(v)

\* Limits num_sigmas standard deviations around the mean are irrational: they
\* are kept as such, and compared by way of squares.  Sigmas is num_sigmas.
Sigmas == 1
Deviation(w, m) == m.non_null * w - m.sum
Squared(w, m) == Deviation(w, m) * Deviation(w, m) * (m.non_null - 1)
Variance(m) == Sigmas * Sigmas * m.non_null * (m.non_null * m.squares - m.sum * m.sum)

\* mean - Sigmas * stddev < w, and so on.
LowBelow(w, m) == Deviation(w, m) > 0 \/ Squared(w, m) < Variance(m)
LowAtMost(w, m) == Deviation(w, m) >= 0 \/ Squared(w, m) <= Variance(m)
HighBelow(w, m) == Deviation(w, m) > 0 /\ Squared(w, m) > Variance(m)
HighAtMost(w, m) == Deviation(w, m) >= 0 /\ Squared(w, m) >= Variance(m)

\* _adjust_min_max_limits: how a limit that is not whole is made a value of the column's type.
Adjusted(type, direction, o) ==
  CASE type = "date" -> "floor"
    [] type = "timestamp" \/ (type = "int" /\ o.round) ->
         IF ~o.round THEN "exact" ELSE IF direction = "down" THEN "floor" ELSE "ceil"
    [] type = "int" /\ ~o.round -> "truncated"
    [] OTHER -> "exact"

\* The values at or above the lower limit, at or below the upper one.
AboveLow(w, m, how) ==
  CASE how = "exact" -> LowAtMost(w, m)
    [] how = "floor" \/ (how = "truncated" /\ ~LowBelow(0, m)) -> LowBelow(Floor(w) + 2, m)
    [] OTHER -> LowAtMost(Floor(w), m)
BelowHigh(w, m, how) ==
  CASE how = "exact" -> ~HighBelow(w, m)
    [] how = "floor" \/ (how = "truncated" /\ ~HighBelow(0, m)) -> ~HighBelow(Ceil(w), m)
    [] OTHER -> ~HighAtMost(Ceil(w) - 2, m)

\* _get_min_max_limits: whether a limit is the real value or capped.
Capped(m) ==
  LET low_out == LowBelow(m.min, m)   low_in == ~LowAtMost(m.min, m)
      high_out == ~HighAtMost(m.max, m)   high_in == HighBelow(m.max, m)
  IN IF m.non_null = 1 \/ (low_out /\ high_out) THEN [low |-> FALSE, high |-> FALSE]
     ELSE IF low_in /\ high_in THEN [low |-> TRUE, high |-> TRUE]
     ELSE IF low_out THEN [low |-> FALSE, high |-> TRUE]
     ELSE IF high_out THEN [low |-> TRUE, high |-> FALSE]
     ELSE [low |-> FALSE, high |-> FALSE]

Rounded(type, v, direction, o) ==
  IF type = "date" \/ (o.remove_outliers /\ type \notin {"int", "timestamp"}) THEN v ELSE RoundValue(v, direction, o)

\* make_min_max_profile, with and without removal of outliers.
MinMaxProfiles(type, m, o, semantic) ==
  IF m.non_null = 0 \/ type \notin (Numeric \ {"byte"}) \cup Temporal \/ semantic \notin {Null, "measurement"} THEN {}
  ELSE {[name |-> "min_max",
         min |-> Rounded(type, m.min, "down", o), max |-> Rounded(type, m.max, "up", o),
         capped |-> IF o.remove_outliers THEN Capped(m) ELSE [low |-> FALSE, high |-> FALSE]]}

\* calculate_median_absolute_deviation_bounds: the bounds, doubled.
MedianOf(m, f) ==
  CHOOSE v \in {f[i] : i \in m.present} :
    /\ 2 * Cardinality({i \in m.present : f[i] <= v}) >= m.non_null
    /\ \A w \in {f[i] : i \in m.present} : w < v => 2 * Cardinality({i \in m.present : f[i] <= w}) < m.non_null
Outliers(m) ==
  LET median == MedianOf(m, m.value)
      mad == MedianOf(m, [i \in m.present |-> Abs(m.value[i] - median)])
  IN IF mad = 0 THEN Null ELSE {i \in m.present : 2 * Abs(m.value[i] - median) > 7 * mad}

\* make_has_no_outliers_profile
OutlierProfiles(type, m, o, semantic) ==
  IF \/ type \notin Numeric \/ semantic \notin {Null, "measurement"} \/ ~o.outliers \/ m.non_null = 0
     \/ (o.denied \/ Outliers(m) = Null) THEN {}
  ELSE IF AtMostHalf(Cardinality(Outliers(m)), o.outlier_ratio, m.non_null) THEN {[name |-> "has_no_outliers"]} ELSE {}

\* _compute_geospatial_stats: the ranges of what is not empty, and the kinds.
GeoStats(m) ==
  LET filled == {g \in m.values : ~Geo!st_isempty(g)}
      Limits(S) == <<Min(S), Max(S)>>
  IN [kinds |-> {g.kind : g \in m.values}, filled |-> filled # {},
      coordinate |-> IF filled = {} THEN Null ELSE <<Min({g.lo : g \in filled}), Max({g.hi : g \in filled})>>,
      area |-> IF filled = {} THEN Null ELSE Limits({Geo!st_area(g) : g \in filled}),
      points |-> IF filled = {} THEN Null ELSE Limits({Geo!st_npoints(g) : g \in filled})]

\* _build_geospatial_range_profiles
GeoRangeProfiles(type, s, o) ==
  LET Between(name, l) == [name |-> name, min |-> RoundValue(l[1], "down", o), max |-> RoundValue(l[2], "up", o)] IN
  IF ~s.filled THEN {}
  ELSE (IF type = "geography" THEN {} ELSE {Between("has_coordinate_between", s.coordinate)})
    \cup (IF s.kinds = {"ST_Polygon"} THEN {Between("is_area_between", s.area)} ELSE {})
    \cup (IF s.kinds = {"ST_Point"} THEN {} ELSE {[name |-> "is_num_points_between", min |-> s.points[1], max |-> s.points[2]]})

\* _build_geospatial_quality_profiles
GeoQualityProfiles(type, m, s, o) ==
  LET Violating(p) == Cardinality({i \in m.present : Geo!PropertyViolation([fn |-> p], m.value[i])}) IN
  {[name |-> n] : n \in {p \in {"is_non_empty", "is_ogc_valid", "is_not_null_island"} :
     /\ type = "geography" => p = "is_non_empty"
     /\ p = "is_not_null_island" => s.kinds = {"ST_Point"}
     /\ AtMostHalf(Violating(p), o.nulls, m.non_null)}}

\* make_geospatial_profile, _build_geospatial_profiles
GeoProfiles(type, m, o) ==
  IF type \notin Spatial \/ ~o.geospatial \/ ~o.routines \/ m.non_null = 0 THEN {}
  ELSE LET s == GeoStats(m) IN
       {[name |-> "geometry_type", kind |-> k] : k \in {j \in s.kinds : Cardinality(s.kinds) = 1}}
       \cup GeoRangeProfiles(type, s, o) \cup GeoQualityProfiles(type, m, s, o)

\* DuplicateValidator._check_duplicates: a query that fails finds nothing.
has_duplicates(rows, sample, o) ==
  ~o.query_fails /\ \E i, j \in sample : i # j /\ rows[i].x = rows[j].x

\* ValidationChain.validate_all: ColumnExistenceValidator, then DuplicateValidator.
Validated(answer, rows, sample, o) == answer = "column" /\ ~has_duplicates(rows, sample, o)

\* RetryStrategy.should_retry: only duplicates are worth another question.
ShouldRetry(answer, rows, sample, o) == answer = "column" /\ has_duplicates(rows, sample, o)

\* _detection_loop: the model is asked again as long as its answer has
\* duplicates; an unknown column or an error of the model ends the search.
Detected(rows, sample, o) ==
  \E a \in DOMAIN o.answers :
    /\ Validated(o.answers[a], rows, sample, o)
    /\ \A b \in 1..a - 1 : ShouldRetry(o.answers[b], rows, sample, o)

\* _add_llm_primary_key_for_dataframe
KeyProfiles(rows, sample, o) == IF Detected(rows, sample, o) THEN {[name |-> "is_unique"]} ELSE {}

\* profile, _build_profiles_for_column: nothing is proposed for an empty sample.
Profiles(type, rows, sample, o) ==
  LET m == Metrics(type, rows, sample, o)
      semantic == SemanticType(type, m, o)
  IN IF m.count = 0 THEN {}
     ELSE NullProfiles(type, m, o) \cup IsInProfiles(type, m, o, semantic) \cup MinMaxProfiles(type, m, o, semantic)
          \cup OutlierProfiles(type, m, o, semantic) \cup GeoProfiles(type, m, o) \cup KeyProfiles(rows, sample, o)

-----------------------------------------------------------------------------
(* Checks *)

\* dq_generate_is_area_not_less_than and its three siblings.
OutsideOf(c, x) ==
  LET Compared(op, value) ==
        IF c.name = "is_area_between" THEN Geo!Area([fn |-> "compare", quantity |-> "area", op |-> op, value |-> value], x)
        ELSE Geo!NumPoints([fn |-> "compare", quantity |-> "points", op |-> op, value |-> value], x)
  IN Or(Compared("lt", c.min), Compared("gt", c.max))

\* dq_generate_geometry_type, dq_generate_has_x_coordinate_between, ...
FlagsGeometry(c, x) ==
  CASE c.name = "geometry_type" -> Geo!GeometryProperty([fn |-> "is_kind", kind |-> c.kind], x)
    [] c.name = "has_coordinate_between" -> Geo!GeometryProperty([fn |-> "coordinate_between", min |-> c.min, max |-> c.max], x)
    [] c.name \in {"is_area_between", "is_num_points_between"} -> OutsideOf(c, x)
    [] OTHER -> Geo!GeometryProperty([fn |-> c.name], x)

\* dq_generate_is_unique: NULLs are values like any other.
FlagsDuplicate(rows, i) == \E j \in DOMAIN rows \ {i} : rows[j].x = rows[i].x /\ (input.o.filter => rows[j].in)

\* dq_generate_min_max: a range, in the values of the column's type.
OutOfRange(c, type, x, m) ==
  IF x = Null THEN Null
  ELSE \/ IF c.capped.low THEN ~AboveLow(x, m, Adjusted(type, "down", input.o)) ELSE x < c.min
       \/ IF c.capped.high THEN ~BelowHigh(x, m, Adjusted(type, "up", input.o)) ELSE x > c.max

\* The check of a profile, and whether it flags a row of the data.
Flags(c, type, rows, i, m) ==
  CASE c.name = "is_not_null" -> R!is_not_null(c, rows[i])
    [] c.name = "is_not_null_or_empty" -> R!is_not_null_and_not_empty(c, rows[i])
    [] c.name = "is_not_empty" -> R!is_not_empty(c, rows[i])
    [] c.name = "is_in" -> R!is_in_list([list |-> c.in, case_sensitive |-> TRUE], rows[i])
    [] c.name = "min_max" -> OutOfRange(c, type, rows[i].x, m)
    [] c.name = "has_no_outliers" -> i \in Outliers(m)
    [] c.name = "is_unique" -> FlagsDuplicate(rows, i)
    [] OTHER -> FlagsGeometry(c, rows[i].x)

\* The filter of the profile is the filter of the check.
FlaggedRows(c, type, rows, m, o) ==
  {i \in DOMAIN rows : (o.filter => rows[i].in) /\ Flags(c, type, rows, i, m) = TRUE}

-----------------------------------------------------------------------------
(* Inputs and evaluation *)

Defaults ==
  [trim |-> TRUE, round |-> TRUE, nulls |-> 0, empties |-> 0, in_count |-> 3, remove_outliers |-> FALSE, filter |-> FALSE,
   semantic |-> FALSE, outliers |-> FALSE, outlier_ratio |-> 0, allowed |-> FALSE, denied |-> FALSE, geospatial |-> TRUE,
   routines |-> TRUE, sampled |-> FALSE, answers |-> <<>>, query_fails |-> FALSE]

With(choices) == {[f \in DOMAIN Defaults |-> IF f \in DOMAIN c THEN c[f] ELSE Defaults[f]] : c \in choices}

SeqsOf(S, n) == UNION {[1..k -> S] : k \in 0..n}
In(values) == [x : values, in : {TRUE}]
InOrOut(values) == [x : values, in : BOOLEAN]

Geometry(kind, lo, hi, valid) == [kind |-> kind, lo |-> lo, hi |-> hi, srid |-> 0, valid |-> valid]
Geometries ==
  {Geometry("ST_Point", 0, 0, TRUE), Geometry("ST_Point", 1, 1, TRUE), Geometry("ST_Polygon", 1, 3, TRUE),
   Geometry("ST_Polygon", 0, 3, FALSE), Geometry("ST_Polygon", 1, 0, TRUE), Null}

Options ==
  [text |-> With([trim : BOOLEAN, nulls : {0, 1}, empties : {0, 1}, semantic : BOOLEAN, filter : BOOLEAN]),
   int |-> With([round : BOOLEAN, remove_outliers : BOOLEAN, semantic : BOOLEAN, outliers : BOOLEAN, outlier_ratio : {0, 1},
                     allowed : BOOLEAN, denied : BOOLEAN]),
   timestamp |-> With([round : BOOLEAN, remove_outliers : BOOLEAN, sampled : BOOLEAN, filter : BOOLEAN]),
   key |-> With([answers : SeqsOf({"column", "unknown", "error"}, 2), query_fails : BOOLEAN, filter : BOOLEAN]),
   geometry |-> With([nulls : {0, 1}, round : BOOLEAN, geospatial : BOOLEAN, routines : BOOLEAN])]

Inputs ==
  [type : {"text"}, rows : SeqsOf(InOrOut({Null, "", " ", "a", " a"}), 2) \cup [1..3 -> In({Null, "", "a", " a"})], o : Options.text]
  \cup [type : {"int", "byte"}, rows : SeqsOf(In({Null, -4, 0, 2, 8}), 3), o : Options.int]
  \cup [type : {"double", "date"}, rows : SeqsOf(In({Null, -4, 0, 2, 8}), 3), o : With([round : BOOLEAN, remove_outliers : BOOLEAN])]
  \cup [type : {"double", "timestamp"}, rows : SeqsOf(InOrOut({Null, -3, 1, 2, 9}), 2) \cup [1..3 -> In({-3, 1, 2, 9})], o : Options.timestamp]
  \cup [type : {"int"}, rows : SeqsOf(InOrOut({Null, 0, 2}), 2), o : Options.key]
  \cup [type : Spatial, rows : SeqsOf(In(Geometries), 2), o : Options.geometry]

Init == input \in Inputs /\ output = Pending

\* generate_dq_rules on the profiles of a sample.
Profile ==
  /\ output = Pending
  /\ IF validate_profile_options(input.o)
     THEN \E sample \in Samples(input.rows, input.o) :
            output' = [sample |-> sample, checks |-> Profiles(input.type, input.rows, sample, input.o)]
     ELSE output' = Raised
  /\ UNCHANGED input

Next == Profile

-----------------------------------------------------------------------------
(* Properties *)

\* The rows a check may flag among those it was derived from: what the
\* options tolerate of NULLs, empty texts and outliers, values that trimming
\* has changed, values beyond the deviations asked for, empty geometries.
Tolerated(c, flagged, m, rows, o) ==
  LET count == Cardinality(flagged) IN
  CASE c.name = "is_not_null" -> AtMostHalf(count, o.nulls, m.count)
    [] c.name = "is_not_empty" -> AtMostHalf(count, o.empties, m.count)
    [] c.name = "is_not_null_or_empty" -> AtMostHalf(count, o.nulls + o.empties, m.count)
    [] c.name = "is_in" -> \A i \in flagged : m.value[i] # rows[i].x
    [] c.name = "min_max" -> \A i \in flagged : o.remove_outliers /\ ~(LowAtMost(rows[i].x, m) /\ ~HighBelow(rows[i].x, m))
    [] c.name = "has_no_outliers" -> AtMostHalf(count, o.outlier_ratio, m.non_null)
    [] c.name \in {"geometry_type", "has_coordinate_between"} -> count = 0
    [] c.name \in {"is_area_between", "is_num_points_between"} -> \A i \in flagged : Geo!st_isempty(rows[i].x)
    [] c.name = "is_unique" -> count = 0 \/ o.query_fails
    [] OTHER -> AtMostHalf(count, o.nulls, m.non_null)

\* Applied to the data it was derived from, a generated check flags nothing
\* but what the options tolerate (make_*_profile, dq_generate_*).
ProfiledDataPasses ==
  output \notin {Pending, Raised} =>
    LET m == Metrics(input.type, input.rows, output.sample, input.o) IN
    \A c \in output.checks :
      LET flagged == FlaggedRows(c, input.type, input.rows, m, input.o)
      IN Tolerated(c, flagged \cap output.sample, m, input.rows, input.o)

-----------------------------------------------------------------------------
(***************************************************************************)
(* Keys                                                                    *)
(*                                                                         *)
(* Primary keys that a model guesses (llm_pk_detector.py): an answer is    *)
(* checked against the table, an ambiguous one is told to the model and    *)
(* asked again, so many times; what the profiler makes a rule of.          *)
(***************************************************************************)

MaxRetries == 3
Columns == {"a", "b"}

-----------------------------------------------------------------------------
(* The table *)

\* Rows of a table are a sequence of records; some tables hold a row twice.
Row == [Columns -> {1, Null}]
TableOf == {<<>>} \cup {<<r, s>> : r, s \in Row}

\* An answer with no names splits into one that is empty.
Answers == {{"a"}, {"b"}, {"a", "b"}, {"a", "z"}, {""}}

GroupKey(row, key) == [c \in key |-> row[c]]

\* GROUP BY takes NULLs for alike.
Alike(rows, key, i, j) == GroupKey(rows[i], key) = GroupKey(rows[j], key)

Ambiguous(rows, key) == \E i, j \in DOMAIN rows : i # j /\ Alike(rows, key, i, j)

-----------------------------------------------------------------------------
(* Validation of an answer *)

Verdict(valid, retry, error) == [valid |-> valid, should_retry |-> retry, error |-> error]

ColumnsExist(key) ==
  IF key \subseteq Columns THEN Verdict(TRUE, FALSE, Null) ELSE Verdict(FALSE, FALSE, "not exist")

\* A bug: rows without a value of the key are left out of the query.
AmongValues(key) ==
  input.checkable /\ \E i, j \in DOMAIN input.rows : i # j /\ Alike(input.rows, key, i, j) /\ \A c \in key : input.rows[i][c] # Null

\* A query that fails counts as one that found nothing.
_check_duplicates(key) == input.checkable /\ Ambiguous(input.rows, key)

NoDuplicates(key) ==
  IF _check_duplicates(key) THEN Verdict(FALSE, TRUE, "duplicate") ELSE Verdict(TRUE, FALSE, Null)

\* The chain ends at the first that objects.
validate_all(key) == IF ColumnsExist(key).valid THEN NoDuplicates(key) ELSE ColumnsExist(key)

\* The duplicates of an answer that got as far as that question.
HasDuplicates(key, before) == IF ColumnsExist(key).valid THEN _check_duplicates(key) ELSE before

should_retry(attempt, verdict) == attempt < MaxRetries /\ verdict.should_retry

Status(verdict) ==
  CASE verdict.error = "duplicate" -> "max_retries_reached_with_duplicates"
    [] verdict.error = "not exist" -> "invalid_columns"

-----------------------------------------------------------------------------
(* The detection *)

Asking == [view |-> TRUE, attempts |-> <<>>, feedback |-> <<>>, status |-> Pending, has_duplicates |-> Null, rule |-> {}]

\* The frame becomes a view, whose columns and definition are gathered.
Gather ==
  /\ output = Null
  /\ output' = IF input.readable THEN Asking ELSE [Asking EXCEPT !.status = "metadata_error"]
  /\ UNCHANGED input

\* The model answers, or the call raises.
Predict(answer) ==
  /\ output # Null /\ output.status = Pending
  /\ IF answer = Raised THEN output' = [output EXCEPT !.status = "prediction_error"]
     ELSE LET verdict == validate_all(answer)
              next == [output EXCEPT !.attempts = Append(@, answer), !.has_duplicates = HasDuplicates(answer, @)]
          IN output' = IF verdict.valid THEN [next EXCEPT !.status = "success"]
                       ELSE IF should_retry(Len(output.attempts), verdict)
                         THEN [next EXCEPT !.feedback = Append(@, [tried |-> answer, error |-> verdict.error])]
                       ELSE [next EXCEPT !.status = Status(verdict)]
  /\ UNCHANGED input

\* _add_llm_primary_key_for_dataframe: columns the frame has make a rule.
RuleOf(d) ==
  IF d.status = "success" /\ d.has_duplicates # TRUE THEN Last(d.attempts) \cap Columns ELSE {}

\* The view is dropped whatever happened.
ProfileKey ==
  /\ output # Null /\ output.status # Pending /\ output.view
  /\ output' = [output EXCEPT !.view = FALSE, !.rule = RuleOf(output)]
  /\ UNCHANGED input

keysInit ==
  /\ input \in [rows : TableOf, readable : BOOLEAN, checkable : BOOLEAN]
  /\ output = Null

keysNext == Gather \/ ProfileKey \/ \E answer \in Answers \cup {Raised} : Predict(answer)


-----------------------------------------------------------------------------
(* Properties *)

\* A key that becomes a rule is one of the table: its columns exist, and no two
\* rows have it in common, NULLs taken for alike as the rule will, unless the
\* query for duplicates could not be run.
KeyRulesHold ==
  (output # Null /\ output.rule # {}) =>
    /\ output.rule \subseteq Columns
    /\ input.checkable =>
         \A i, j \in DOMAIN input.rows : (\A c \in output.rule : input.rows[i][c] = input.rows[j][c]) => i = j

\* Only ambiguous keys are asked again, each is told to the model in the order
\* of the attempts, and the history that is printed says so.
HistoryIsTrue ==
  output # Null =>
    /\ Len(output.attempts) <= MaxRetries + 1
    /\ \A n \in DOMAIN output.feedback : output.feedback[n] = [tried |-> output.attempts[n], error |-> "duplicate"]
    /\ Len(output.feedback) >= Len(output.attempts) - 1
    /\ \A n \in 1 .. Len(output.attempts) - 1 : Ambiguous(input.rows, output.attempts[n])
    /\ output.status = "success" => output.has_duplicates = FALSE

KeysAreFound == KeyRulesHold /\ HistoryIsTrue
==============================================================================
