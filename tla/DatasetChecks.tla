--------------------------- MODULE DatasetChecks ----------------------------
(***************************************************************************)
(* The dataset-level check functions of check_funcs.py: a check reads the  *)
(* whole DataFrame, and often a reference, and adds a condition to every   *)
(* row by windows and joins.                                               *)
(*                                                                         *)
(* A DataFrame is a sequence of rows with a key k, a value v and the       *)
(* outcome of the row filter; a reference has k and v.  The result of a    *)
(* check is the set of its output rows: the source row, the reference row  *)
(* it was joined with (0 for none) and the condition.                      *)
(***************************************************************************)
EXTENDS SparkSQL, Sequences, SequencesExt, FiniteSetsExt

CONSTANTS Pending, Raised

VARIABLES
  input,    \* the check, the DataFrame and the reference
  output    \* its output rows, or Raised

-----------------------------------------------------------------------------
(* Joins and windows *)

Out(i, j, c) == [row |-> i, ref |-> j, flag |-> c = TRUE]

\* left outer: a row without a match is kept once.
LeftJoin(df, ref, On(_, _)) ==
  UNION {LET hits == {j \in DOMAIN ref : On(i, j) = TRUE}
         IN IF hits = {} THEN {<<i, 0>>} ELSE {<<i, j>> : j \in hits} : i \in DOMAIN df}

\* full outer: so is a reference row.
FullJoin(df, ref, On(_, _)) ==
  LeftJoin(df, ref, On) \cup {<<0, j>> : j \in {j \in DOMAIN ref : \A i \in DOMAIN df : On(i, j) # TRUE}}

\* _build_join_condition
SameKey(null_safe, x, y) == IF null_safe THEN EqNullSafe(x, y) ELSE Eq(x, y)

\* The rows of df that a window partitioned by Key puts together with row i.
Partition(df, Key(_), i) == {j \in DOMAIN df : Key(j) = Key(i)}

\* row_number over a window: position of i in the order of Precedes.
RowNumber(partition, Precedes(_, _), i) == 1 + Cardinality({j \in partition : Precedes(j, i)})

\* safe_filter_expr: without a filter every row is in scope.
InScope(c, df, i) == IF c.filtered THEN df[i].in ELSE TRUE

-----------------------------------------------------------------------------
(* Uniqueness and references *)

KeyOf(c, row) == IF c.composite THEN <<row.k, row.v>> ELSE row.k
HasNull(c, row) == row.k = Null \/ (c.composite /\ row.v = Null)

is_unique(c, df) ==
  LET counts(i) == And(InScope(c, df, i), c.nulls_distinct => ~HasNull(c, df[i]))
      Key(i) == KeyOf(c, df[i])
      count(i) == Cardinality({j \in Partition(df, Key, i) : counts(j) = TRUE})
  IN {Out(i, 0, And(counts(i), count(i) > 1)) : i \in DOMAIN df}

\* _get_distinct_reference_values
Distinct(S) == SetToSeq(S)

\* Mutant: the reference is joined as it is.
AsItIs(c, ref) == [j \in DOMAIN ref |-> KeyOf(c, ref[j])]

ReferenceValues(c, ref) == Distinct({KeyOf(c, ref[j]) : j \in DOMAIN ref})

\* A struct of columns is not NULL, whatever it holds (_handle_fk_composite_keys).
IsStruct(c) == c.composite \/ c.null_safe
KeyNotNull(c, row) == IsStruct(c) \/ row.k # Null

foreign_key(c, df, ref) ==
  LET values == ReferenceValues(c, ref)
      On(i, j) == And(And(IF IsStruct(c) THEN KeyOf(c, df[i]) = values[j] ELSE Eq(KeyOf(c, df[i]), values[j]),
                          KeyNotNull(c, df[i])), InScope(c, df, i))
      base(i) == And(And((IsStruct(c) /\ ~c.null_safe) => ~HasNull(c, df[i]), KeyNotNull(c, df[i])), InScope(c, df, i))
      missing(j) == j = 0 \/ values[j] = Null
  IN {Out(p[1], p[2], And(base(p[1]), IF c.negate THEN ~missing(p[2]) ELSE missing(p[2]))) :
        p \in LeftJoin(df, values, On)}

\* sql_query with merge columns: a verdict per key, the largest of several.
VerdictOf(ref, k) ==
  LET vs == {ref[j].v : j \in {j \in DOMAIN ref : ref[j].k = k}} \ {Null} IN IF vs = {} THEN Null ELSE Max(vs) = 2

\* _apply_dataset_level_sql_check: one row holds the verdict for all, none means
\* no violation, and several are refused.
Whole(ref) == IF ref = <<>> THEN FALSE ELSE IF ref[1].v = Null THEN Null ELSE ref[1].v = 2

sql_query(c, df, ref) ==
  LET keys == Distinct({ref[j].k : j \in DOMAIN ref})
      On(i, j) == EqNullSafe(df[i].k, keys[j])
      verdict(p) == IF p[2] = 0 THEN Null ELSE VerdictOf(ref, keys[p[2]])
  IN IF ~c.merge /\ Len(ref) > 1 THEN Raised
     ELSE IF c.merge
     THEN {Out(p[1], p[2], IF c.negate THEN Not(verdict(p)) ELSE verdict(p)) : p \in LeftJoin(df, keys, On)}
     ELSE {Out(i, 0, LET w == When(InScope(c, df, i), Whole(ref), Null) IN IF c.negate THEN Not(w) ELSE w) : i \in DOMAIN df}

-----------------------------------------------------------------------------
(* Aggregates: NULLs, and rows out of scope, do not take part *)

Metric(aggr, values) ==
  CASE aggr = "count"          -> Len(values)
    [] aggr = "count_distinct" -> Cardinality(Range(values))
    [] aggr = "sum"            -> IF values = <<>> THEN Null ELSE FoldLeft(LAMBDA a, b : a + b, 0, values)
    [] aggr = "max"            -> IF values = <<>> THEN Null ELSE Max(Range(values))

\* build_filtered_aggregate_input
Values(rows, taking) ==
  LET taken == SelectSeq([i \in DOMAIN rows |-> <<rows[i].v, taking[i]>>], LAMBDA p : p[1] # Null /\ p[2] = TRUE)
  IN [i \in DOMAIN taken |-> taken[i][1]]

MatchesWithin(x, y, tolerance) == Leq(Abs(Minus(x, y)), tolerance)

Compare(op, x, y) ==
  CASE op = "gt" -> Gt(x, y) [] op = "lt" -> Lt(x, y) [] op = "ne" -> Not(Eq(x, y)) [] op = "eq" -> Eq(x, y)

\* _build_aggr_condition_result
AggrCondition(c, metric, limit) ==
  LET plain == IF c.tolerance > 0 /\ c.op \in {"ne", "eq"}
               THEN (IF c.op = "ne" THEN Not(MatchesWithin(metric, limit, c.tolerance))
                                    ELSE MatchesWithin(metric, limit, c.tolerance))
               ELSE Compare(c.op, metric, limit)
  IN IF ~c.null_safe THEN plain
     ELSE IF metric = Null /\ limit = Null THEN c.op # "ne"
     ELSE IF metric = Null \/ limit = Null THEN c.op = "ne" ELSE plain

MetricAt(c, df, i) ==
  Metric(c.aggr, Values(df, [j \in DOMAIN df |-> And(InScope(c, df, j), c.grouped => df[j].k = df[i].k)]))

\* _is_aggr_compare: a window over the group, or one value joined to all.
is_aggr_compare(c, df) == {Out(i, 0, AggrCondition(c, MetricAt(c, df, i), c.limit)) : i \in DOMAIN df}

\* aggr_matches_dataset: the limit is the reference's metric, per group if any.
RefMetric(c, ref, k) == Metric(c.aggr, Values(ref, [j \in DOMAIN ref |-> c.grouped => ref[j].k = k]))

aggr_matches_dataset(c, df, ref) ==
  LET groups == IF c.grouped THEN Distinct({ref[j].k : j \in DOMAIN ref}) ELSE <<Null>>
      On(i, j) == c.grouped => EqNullSafe(df[i].k, groups[j])
      limit(p) == IF p[2] = 0 THEN Null ELSE RefMetric(c, ref, groups[p[2]])
  IN {Out(p[1], p[2], AggrCondition(c, MetricAt(c, df, p[1]), limit(p))) : p \in LeftJoin(df, groups, On)}

\* has_no_outliers: 3.5 median absolute deviations around the median.
Median(values) ==
  CHOOSE m \in Range(values) :
    /\ 2 * Len(SelectSeq(values, LAMBDA v : v <= m)) >= Len(values)
    /\ \A n \in Range(values) : n < m => 2 * Len(SelectSeq(values, LAMBDA v : v <= n)) < Len(values)

has_no_outliers(c, df) ==
  LET values == Values(df, [i \in DOMAIN df |-> InScope(c, df, i)])
      median == Median(values)
      mad == Median([i \in DOMAIN values |-> Abs(values[i] - median)])
      outside(i) == IF values = <<>> \/ df[i].v = Null THEN Null ELSE 2 * Abs(df[i].v - median) > 7 * mad
  IN {Out(i, 0, When(And(InScope(c, df, i), outside(i)), TRUE, FALSE)) : i \in DOMAIN df}

\* has_no_aggr_outliers: k is the interval; the newest metric against those
\* of the lookback intervals before it, in whole numbers.
has_no_aggr_outliers(c, df) ==
  LET grains == SetToSortSeq({df[i].k : i \in DOMAIN df} \ {Null}, LAMBDA a, b : a > b)
      metric(g) == Metric(c.aggr, Values(df, [i \in DOMAIN df |-> df[i].k = g /\ InScope(c, df, i) = TRUE]))
      hist == SelectSeq([n \in 1..Len(grains) |-> IF n \in 2..c.lookback + 1 THEN metric(grains[n]) ELSE Null], isNotNull)
      n == Cardinality({m \in DOMAIN grains : m \in 2..c.lookback + 1})
      total == FoldLeft(LAMBDA a, b : a + b, 0, hist)
      squares == FoldLeft(LAMBDA a, b : a + b * b, 0, hist)
      variance == Len(hist) * squares - total * total
      current == metric(grains[1])
      far == LET d == Len(hist) * current - total IN d * d > c.sigma * c.sigma * variance
      bad == IF n < c.warmup \/ hist = <<>> THEN FALSE ELSE IF variance = 0 \/ current = Null THEN FALSE ELSE far
  IN {Out(i, 0, bad) : i \in DOMAIN df}

\* _is_in_distribution_validate_distribution: shares are not negative and no
\* more than the whole.
IsDistribution(percent) == (\A v \in DOMAIN percent : percent[v] >= 0) /\ percent[1] + percent[2] <= 100

\* What is expected of the listed values, and of all others together.
Deviations(percent, total, count) ==
  Abs(percent[1] * total - 100 * count[1]) + Abs(percent[2] * total - 100 * count[2])
    + Abs((100 - percent[1] - percent[2]) * total - 100 * (total - count[1] - count[2]))

\* is_in_distribution: total variation distance, in units of 1 / (2 * total).
is_in_distribution(c, df) ==
  LET values == Values(df, [i \in DOMAIN df |-> InScope(c, df, i)])
      total == Len(values)
      count == [v \in DOMAIN c.percent |-> Len(SelectSeq(values, LAMBDA w : w = v))]
      far == total # 0 /\ Deviations(c.percent, total, count) > 2 * c.distance * total
  IN IF IsDistribution(c.percent) THEN {Out(i, 0, far) : i \in DOMAIN df} ELSE Raised

-----------------------------------------------------------------------------
(* Time windows: v is a time, windows are Width units long *)

Width == 2
WindowOf(t) == t - (t % Width)

\* A NULL time falls into the window of 1900-01-01, here before all others.
LongAgo == -4
WindowStart(row) == WindowOf(IF row.v = Null THEN LongAgo ELSE row.v)

is_data_fresh_per_time_window(c, df) ==
  LET taken(i) == And(And(InScope(c, df, i), Geq(df[i].v, c.now - Width * c.lookback)), Leq(df[i].v, c.now))
      start(i) == WindowStart(df[i])
      count(i) == Cardinality({j \in Partition(df, start, i) : taken(j) = TRUE})
  IN {Out(i, 0, When(And(count(i) < c.min, taken(i)), TRUE, FALSE)) : i \in DOMAIN df}

\* has_no_gaps_per_time_window: distinct windows of a group in order, each
\* compared with the next, the last one with the current time if asked to.
has_no_gaps_per_time_window(c, df) ==
  LET start(i) == WindowStart(df[i])
      windows == Distinct({<<df[i].k, start(i)>> : i \in {i \in DOMAIN df : df[i].v # Null}})
      later(w) == {windows[n][2] : n \in {n \in DOMAIN windows : windows[n][1] = w[1] /\ windows[n][2] > w[2]}}
      next(w) == IF later(w) # {} THEN Min(later(w)) ELSE IF c.trailing THEN WindowOf(c.now) ELSE Null
      gap(w) == And(isNotNull(next(w)), Gt(Minus(next(w), w[2]), Width))
      On(i, n) == EqNullSafe(<<df[i].k, start(i)>>, windows[n])
  IN {Out(p[1], p[2], IF p[2] = 0 THEN Null ELSE gap(windows[p[2]])) : p \in LeftJoin(df, windows, On)}

-----------------------------------------------------------------------------
(* compare_datasets *)

\* nulls first
Order(v) == IF v = Null THEN 0 ELSE v

\* _add_column_diffs, _add_numeric_tolerance_condition
ValueChanged(c, x, y) ==
  IF c.tolerance > 0
  THEN LET near == MatchesWithin(x, y, c.tolerance) IN
       IF c.null_safe_value THEN Not(Or(x = Null /\ y = Null, And(~(x = Null \/ y = Null), near)))
                            ELSE Not(Or(x = Null \/ y = Null, near))
  ELSE IF c.null_safe_value THEN ~EqNullSafe(x, y) ELSE Not(Eq(x, y))

\* _add_lazy_pairing_columns: n-th source row of a key, by value.
PositionIn(rows, i) ==
  RowNumber({j \in DOMAIN rows : rows[j].k = rows[i].k},
            LAMBDA j, l : Order(rows[j].v) < Order(rows[l].v) \/ (rows[j].v = rows[l].v /\ j < l), i)

\* _add_exact_value_pairing_columns: rows in scope claim references with the
\* same values first; the rest, rows in scope before others, go by position.
Scoped(df, i) == df[i].in = TRUE

ExactRank(df, i) ==
  RowNumber({j \in DOMAIN df : df[j].k = df[i].k /\ df[j].v = df[i].v},
            LAMBDA j, l : (Scoped(df, j) /\ ~Scoped(df, l)) \/ (Scoped(df, j) = Scoped(df, l) /\ j < l), i)

ExactRankRef(ref, j) == RowNumber({l \in DOMAIN ref : ref[l].k = ref[j].k /\ ref[l].v = ref[j].v}, LAMBDA a, b : a < b, j)

Counterparts(c, k, v, rows, taken) ==
  Cardinality({j \in taken : SameKey(c.null_safe, k, rows[j].k) = TRUE /\ rows[j].v = v})

ExactPair(c, df, ref, i) ==
  Scoped(df, i) /\ ExactRank(df, i) <= Counterparts(c, df[i].k, df[i].v, ref, DOMAIN ref)

ExactPairRef(c, df, ref, j) ==
  ExactRankRef(ref, j) <= Counterparts(c, ref[j].k, ref[j].v, df, {i \in DOMAIN df : Scoped(df, i)})

ResidualRank(c, df, ref, i) ==
  RowNumber({j \in DOMAIN df : df[j].k = df[i].k /\ ExactPair(c, df, ref, j) = ExactPair(c, df, ref, i)},
            LAMBDA j, l : \/ Scoped(df, j) /\ ~Scoped(df, l)
                          \/ /\ Scoped(df, j) = Scoped(df, l)
                             /\ (Order(df[j].v) < Order(df[l].v) \/ (df[j].v = df[l].v /\ j < l)), i)

ResidualRankRef(c, df, ref, j) ==
  RowNumber({l \in DOMAIN ref : ref[l].k = ref[j].k /\ ExactPairRef(c, df, ref, l) = ExactPairRef(c, df, ref, j)},
            LAMBDA a, b : Order(ref[a].v) < Order(ref[b].v) \/ (ref[a].v = ref[b].v /\ a < b), j)

\* _match_paired_rows
Paired(c, df, ref, i, j) ==
  LET exact == ExactPair(c, df, ref, i)
      lone == \A l \in DOMAIN df : df[l].k = df[i].k => ~Scoped(df, l)
  IN CASE c.pairing = "raise" -> SameKey(c.null_safe, df[i].k, ref[j].k)
       [] c.pairing = "lazy"  -> And(SameKey(c.null_safe, df[i].k, ref[j].k), PositionIn(df, i) = PositionIn(ref, j))
       [] c.pairing = "exact" ->
            And(SameKey(c.null_safe, df[i].k, ref[j].k),
                /\ exact = ExactPairRef(c, df, ref, j)
                /\ (IF exact THEN ExactRank(df, i) = ExactRankRef(ref, j)
                             ELSE ResidualRank(c, df, ref, i) = ResidualRankRef(c, df, ref, j))
                /\ (Scoped(df, i) \/ lone)
                /\ (exact => df[i].v = ref[j].v))

\* The eager check of raise_on_duplicate_keys.
HasDuplicateKeys(c, rows, taken) ==
  \E i, j \in taken : i # j /\ rows[i].k = rows[j].k /\ (c.null_safe \/ rows[i].k # Null)

\* _add_row_diffs: the row number, which is never NULL, is among the columns that
\* are all NULL when a side is missing.
Unpaired(p) == p[1] = 0 \/ p[2] = 0

compare_datasets(c, df, ref) ==
  LET On(i, j) == Paired(c, df, ref, i, j)
      pairs == IF c.missing THEN FullJoin(df, ref, On) ELSE LeftJoin(df, ref, On)
      changed(p) == ValueChanged(c, IF p[1] = 0 THEN Null ELSE df[p[1]].v, IF p[2] = 0 THEN Null ELSE ref[p[2]].v) = TRUE
      scope(p) == IF p[1] = 0 THEN Null ELSE IF c.pairing = "lazy" THEN TRUE ELSE df[p[1]].in
  IN IF c.pairing = "raise"
        /\ (HasDuplicateKeys(c, df, {i \in DOMAIN df : Scoped(df, i)}) \/ HasDuplicateKeys(c, ref, DOMAIN ref))
     THEN Raised
     ELSE {Out(p[1], p[2], And(Or(p[1] = 0, scope(p)), Unpaired(p) \/ changed(p))) : p \in pairs}

-----------------------------------------------------------------------------
(* Inputs and evaluation *)

Rows == [k : {1, Null}, v : {1, 2, Null}, in : BOOLEAN]
RefRows == [k : {1, Null}, v : {1, 2, Null}]

\* Up to two rows with NULLs, and three of one key.
Frames == SeqOf(Rows, 2)
References == SeqOf(RefRows, 2)
OneKey == [1..3 -> [k : {1}, v : {1, 2}, in : BOOLEAN]]
OneKeyReferences == SeqOf([k : {1}, v : {1, 2}], 3)
Times == SeqOf([k : {1, 2}, v : {Null, 0, 1, 2, 5}, in : {TRUE}], 3)

\* The parameters each check is given.
Uniqueness == [fn : {"is_unique"}, filtered : BOOLEAN, composite : BOOLEAN, nulls_distinct : BOOLEAN]
ForeignKeys == [fn : {"foreign_key"}, filtered : BOOLEAN, composite : BOOLEAN, null_safe : BOOLEAN, negate : BOOLEAN]
Queries == [fn : {"sql_query"}, filtered : BOOLEAN, merge : BOOLEAN, negate : BOOLEAN]
Aggregates ==
  [fn : {"aggr_compare"}, aggr : {"count", "count_distinct", "sum", "max"}, op : {"gt", "lt", "ne", "eq"}, filtered : BOOLEAN,
   grouped : BOOLEAN, null_safe : {FALSE}, tolerance : {0, 1}, limit : {2}]
RefAggregates ==
  [fn : {"aggr_matches"}, aggr : {"count", "max"}, op : {"ne"}, filtered : BOOLEAN, grouped : BOOLEAN, null_safe : {TRUE}, tolerance : {0}]
Outliers == [fn : {"has_no_outliers"}, filtered : BOOLEAN]

\* As many intervals to warm up as are looked back at, at most.
AggrOutliers ==
  {c \in [fn : {"has_no_aggr_outliers"}, filtered : {FALSE}, aggr : {"sum"}, lookback : {2}, warmup : 1 .. 3, sigma : {1}] :
     c.warmup <= c.lookback}

\* Shares in percent; what they leave is of all other values.
Distributions ==
  [fn : {"is_in_distribution"}, filtered : BOOLEAN, percent : {<<50, 50>>, <<40, 40>>, <<60, 60>>}, distance : {10, 30}]

Freshness == [fn : {"fresh"}, filtered : {FALSE}, lookback : {1, 2}, min : {1, 2}, now : {5}]
Gaps == [fn : {"gaps"}, filtered : {FALSE}, trailing : BOOLEAN, now : {5, 6}]

Comparisons ==
  [fn : {"compare_datasets"}, pairing : {"raise", "lazy", "exact"}, missing : BOOLEAN, null_safe : BOOLEAN,
   null_safe_value : {TRUE}, tolerance : {0}]

Inputs ==
  ((Uniqueness \cup Aggregates \cup Distributions) \X Frames \X {<<>>})
  \cup (Outliers \X OneKey \X {<<>>})
  \cup ((AggrOutliers \cup Freshness \cup Gaps) \X Times \X {<<>>})
  \cup ((ForeignKeys \cup Queries \cup RefAggregates) \X SeqOf(Rows, 1) \X References)
  \cup (Comparisons \X Frames \X References)
  \cup ({c \in Comparisons : c.null_safe} \X OneKey \X OneKeyReferences)

Run(c, df, ref) ==
  CASE c.fn = "is_unique"            -> is_unique(c, df)
    [] c.fn = "foreign_key"          -> foreign_key(c, df, ref)
    [] c.fn = "sql_query"            -> sql_query(c, df, ref)
    [] c.fn = "aggr_compare"         -> is_aggr_compare(c, df)
    [] c.fn = "aggr_matches"         -> aggr_matches_dataset(c, df, ref)
    [] c.fn = "has_no_outliers"      -> has_no_outliers(c, df)
    [] c.fn = "has_no_aggr_outliers" -> has_no_aggr_outliers(c, df)
    [] c.fn = "is_in_distribution"   -> is_in_distribution(c, df)
    [] c.fn = "fresh"                -> is_data_fresh_per_time_window(c, df)
    [] c.fn = "gaps"                 -> has_no_gaps_per_time_window(c, df)
    [] c.fn = "compare_datasets"     -> compare_datasets(c, df, ref)

Init == input \in Inputs /\ output = Pending

Evaluate ==
  /\ output = Pending
  /\ output' = Run(input[1], input[2], input[3])
  /\ UNCHANGED input

Next == Evaluate

-----------------------------------------------------------------------------
(* Properties *)

Done == output # Pending /\ output # Raised

\* A check neither loses nor multiplies rows, however often a key occurs in
\* the data or in the reference (the decorators row_preserving); only
\* check_missing_records adds rows, one for every reference row no source
\* row was paired with; and a pairing uses a reference row once.
RowsArePreserved ==
  Done =>
    /\ \A i \in DOMAIN input[2] : Cardinality({o \in output : o.row = i}) = 1
    /\ input[1].fn # "compare_datasets" => \A o \in output : o.row # 0
    /\ input[1].fn = "compare_datasets" =>
         /\ input[1].missing => \A j \in DOMAIN input[3] : \E o \in output : o.ref = j
         /\ input[1].pairing # "raise" => \A o, p \in output : o.ref = p.ref /\ o.ref # 0 => o = p

Flagged(i) == \E o \in output : o.row = i /\ o.flag

\* How many rows of a frame have key k and value v and are in scope.
Occurrences(rows, k, v) == Cardinality({i \in DOMAIN rows : rows[i].k = k /\ rows[i].v = v /\ rows[i].in})

\* The windows and joins compute what the documentation says: a key is
\* reported when it occurs twice among the rows in scope; a foreign key when
\* it occurs in scope and nowhere in the reference; a gap when no record of
\* the group lies in the next window and a later one, or now, is further
\* away; and exact pairing reports, of equal rows, those in excess of the
\* equal reference rows (is_unique, foreign_key, has_no_gaps_per_time_window,
\* _add_exact_value_pairing_columns).
VerdictsMatchTheData ==
  LET c == input[1]  df == input[2]  ref == input[3]
      within(i) == ~c.filtered \/ df[i].in
  IN Done =>
    /\ c.fn = "is_unique" /\ ~c.composite => \A i \in DOMAIN df :
         Flagged(i) <=> /\ within(i) /\ (df[i].k = Null => ~c.nulls_distinct)
                        /\ \E j \in DOMAIN df \ {i} : within(j) /\ df[j].k = df[i].k
    /\ c.fn = "foreign_key" /\ ~c.composite /\ ~c.null_safe => \A i \in DOMAIN df :
         Flagged(i) <=> within(i) /\ df[i].k # Null /\ ((\E j \in DOMAIN ref : ref[j].k = df[i].k) <=> c.negate)
    /\ c.fn = "gaps" => \A i \in DOMAIN df :
         LET mine == {WindowOf(df[j].v) : j \in {j \in DOMAIN df : df[j].k = df[i].k /\ df[j].v # Null}}
                       \cup (IF c.trailing THEN {WindowOf(c.now)} ELSE {})
         IN Flagged(i) <=> df[i].v # Null /\ (\E w \in mine : w > WindowOf(df[i].v) + Width)
                                          /\ WindowOf(df[i].v) + Width \notin mine
    /\ c.fn = "compare_datasets" /\ c.pairing = "exact" /\ c.null_safe => \A i \in DOMAIN df : df[i].in =>
         Cardinality({j \in DOMAIN df : df[j].in /\ df[j].k = df[i].k /\ df[j].v = df[i].v /\ Flagged(j)})
           = Max({0, Occurrences(df, df[i].k, df[i].v)
                       - Cardinality({j \in DOMAIN ref : ref[j].k = df[i].k /\ ref[j].v = df[i].v})})
=============================================================================
