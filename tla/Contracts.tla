----------------------------- MODULE Contracts ------------------------------
(***************************************************************************)
(* Rules from a data contract (datacontract/contract_rules_generator.py,   *)
(* library_metrics.py): the constraints of a property, the library metrics *)
(* of a property or schema with their thresholds, explicit rules, and the  *)
(* schema rule.  A generated rule is applied to a small table at once, so  *)
(* that its verdict can be held against what the contract asks for.        *)
(*                                                                         *)
(* A value stands for itself, for a text of that length, and for a text    *)
(* that does or does not match the contract's pattern and lists.           *)
(***************************************************************************)
EXTENDS SparkSQL, SequencesExt

CONSTANTS Pending, Raised, Malformed

VARIABLES
  input,    \* the contract's entry and the rows of the table
  output    \* what is generated and the rows it flags

Values == {1, 2, 3}
Matching == {1, 3}      \* what the pattern matches
Listed == {1, 2}        \* validValues
Sentinels == {3}        \* missingValues

InScope(rows, filtered) == {i \in DOMAIN rows : filtered => rows[i].in}

-----------------------------------------------------------------------------
(* The schema rule *)

MaxTypeRecursionDepth == 2

\* What a type is apart from the types in its angle brackets: _validate_decimal,
\* _validate_array_type, _validate_map_type, _validate_struct_type.
Shaped(t) ==
  /\ t.kind \in {"simple", "decimal", "array", "map", "struct", "spatial"}
  /\ t.kind = "decimal" => t.precision \in 1..38 /\ t.scale \in 0..t.precision
  /\ t.kind = "array" => Len(t.of) >= 1
  /\ t.kind = "map" => Len(t.of) = 2
  /\ t.kind = "struct" => Len(t.of) >= 1 /\ t.named

Inside(t) == IF t.kind \in {"array", "map", "struct"} THEN {t.of[n] : n \in DOMAIN t.of} ELSE {}

\* Every type is well-shaped, and none is nested deeper than is allowed.
_validate_unity_physical_type(t) ==
  LET level[d \in 0..MaxTypeRecursionDepth + 1] == IF d = 0 THEN {t} ELSE UNION {Inside(u) : u \in level[d - 1]}
  IN level[MaxTypeRecursionDepth + 1] = {} /\ \A d \in 0..MaxTypeRecursionDepth : \A u \in level[d] : Shaped(u)

\* _schema_object_to_ddl: the properties that have a name; a missing or
\* invalid type ends the generation.
_schema_object_to_ddl(props) ==
  LET named == SelectSeq(props, LAMBDA p : p.named)
  IN IF \E n \in DOMAIN named : named[n].type = Null \/ ~_validate_unity_physical_type(named[n].type)
     THEN Raised ELSE named

\* _generate_schema_validation_rules_for_schema
SchemaRules(c) ==
  LET ddl == _schema_object_to_ddl(c.props)
  IN IF ~c.generate_schema_validation THEN {} ELSE IF ddl = Raised THEN Raised
     ELSE IF ddl = <<>> THEN {} ELSE {[fn |-> "has_valid_schema", fields |-> ddl, strict |-> c.strict]}

-----------------------------------------------------------------------------
(* Predefined rules *)

\* _generate_range_rules_from_options
RangeRules(p) ==
  LET float == p.float /\ (p.minimum # Null \/ p.maximum # Null)
      row == [fn |-> IF float THEN "sql_expression" ELSE "is_in_range", lo |-> p.minimum, hi |-> p.maximum]
  IN CASE p.minimum # Null /\ p.maximum # Null -> {row}
       [] p.minimum # Null /\ p.maximum = Null -> {IF float THEN row ELSE [fn |-> "is_aggr_not_less_than", limit |-> p.minimum]}
       [] p.minimum = Null /\ p.maximum # Null -> {IF float THEN row ELSE [fn |-> "is_aggr_not_greater_than", limit |-> p.maximum]}
       [] OTHER -> {}

\* _generate_string_length_rules_from_options
LengthRules(p) ==
  IF p.minLength = Null /\ p.maxLength = Null THEN {}
  ELSE {[fn |-> "sql_expression", lo |-> p.minLength, hi |-> p.maxLength]}

\* _generate_rules_from_logical_type_options
OptionRules(p) ==
  (IF p.pattern THEN {[fn |-> "regex_match"]} ELSE {}) \cup RangeRules(p) \cup LengthRules(p)

\* _generate_rules_from_direct_attributes
AttributeRules(p) ==
  (IF p.required THEN {[fn |-> "is_not_null"]} ELSE {}) \cup (IF p.unique THEN {[fn |-> "is_unique"]} ELSE {})

\* _generate_predefined_rules_for_property: of an object only the properties
\* inside it count.
PropertyRules(p) == IF ~p.named \/ p.object THEN {} ELSE AttributeRules(p) \cup OptionRules(p)

\* A bound that is not there holds.
Within(x, lo, hi) == And(IF lo = Null THEN TRUE ELSE Geq(x, lo), IF hi = Null THEN TRUE ELSE Leq(x, hi))

\* The rows a row-level or a dataset-level rule flags.
Flagged(rule, rows, scope) ==
  LET values == {rows[i].v : i \in scope} \ {Null} IN
  CASE rule.fn = "is_not_null" -> {i \in scope : rows[i].v = Null}
    [] rule.fn = "is_unique" -> {i \in scope : rows[i].v # Null /\ \E j \in scope \ {i} : rows[j].v = rows[i].v}
    [] rule.fn \in {"is_in_range", "sql_expression"} -> {i \in scope : Not(Within(rows[i].v, rule.lo, rule.hi)) = TRUE}
    [] rule.fn = "is_aggr_not_less_than" -> IF values # {} /\ Min(values) < rule.limit THEN scope ELSE {}
    [] rule.fn = "is_aggr_not_greater_than" -> IF values # {} /\ Max(values) > rule.limit THEN scope ELSE {}
    [] rule.fn = "regex_match" -> {i \in scope : rows[i].v \notin Matching \cup {Null}}
    [] rule.fn = "is_in_list" -> {i \in scope : rows[i].v \notin Listed \cup {Null}}
    [] rule.fn = "is_not_in_list" -> {i \in scope : rows[i].v \in Sentinels}

-----------------------------------------------------------------------------
(* Library metrics *)

\* A rule is about rows that are bad, about all rows or about the values that recur.
Metrics == {"rowCount", "nullValues", "missingValues", "invalidValues", "duplicateValues"}

\* resolve_thresholds, _as_number, _as_bounds: what is no number, or no pair
\* of numbers in order, is left out.
Usable(t) ==
  IF t.field \in {"mustBeBetween", "mustNotBeBetween"}
  THEN t.value # Malformed /\ t.value[1] <= t.value[2] ELSE t.value # Malformed

\* LibraryMetricRulesBuilder._build: where the metric may stand.
Placed(e) == IF e.metric = "rowCount" THEN ~e.on_property ELSE e.on_property \/ e.metric = "duplicateValues"

\* MetricPlan.zero_checks of NullValuesMetric, MissingValuesMetric, ...
ZeroChecks(e) ==
  CASE e.metric = "rowCount" -> {}
    [] e.metric = "nullValues" -> {[fn |-> "is_not_null"]}
    [] e.metric = "missingValues" -> {[fn |-> "is_not_null"], [fn |-> "is_not_in_list"]}
    [] e.metric = "invalidValues" -> {[fn |-> IF a = "list" THEN "is_in_list" ELSE "regex_match"] : a \in e.arguments}
    [] e.metric = "duplicateValues" -> {[fn |-> "is_unique"]}

\* The metric has what it needs to be planned (_read_scalar_list, _read_pattern).
Planned(e) == e.metric = "invalidValues" => e.arguments # {}

is_zero_must_be(t) == t.field = "mustBe" /\ t.value = <<0>>

\* BadRowMeasure's predicates
BadRow(e, v) ==
  CASE e.metric = "nullValues" -> v = Null
    [] e.metric = "missingValues" -> v = Null \/ v \in Sentinels
    [] e.metric = "invalidValues" ->
         v # Null /\ (("list" \in e.arguments /\ v \notin Listed) \/ ("pattern" \in e.arguments /\ v \notin Matching))

\* The measure as a fraction: RowCountMeasure, BadRowMeasure, DuplicateValuesMeasure.
Measure(e, unit, rows, scope) ==
  LET recurring == {v \in Values : \E i, j \in scope : i # j /\ rows[i].v = v /\ rows[j].v = v}
      count == CASE e.metric = "rowCount" -> Cardinality(scope)
                 [] e.metric = "duplicateValues" -> Cardinality(recurring)
                 [] OTHER -> Cardinality({i \in scope : BadRow(e, rows[i].v)})
  IN IF unit = "percent" THEN [num |-> 100 * count, den |-> Cardinality(scope)] ELSE [num |-> count, den |-> 1]

\* The comparison of a measure with a number; AVG over no rows is NULL.
Compared(measure, op, value) ==
  IF measure.den = 0 THEN Null
  ELSE LET x == measure.num  y == value * measure.den IN
       CASE op = "<>" -> x # y [] op = "=" -> x = y [] op = "<" -> x < y [] op = ">" -> x > y
         [] op = "<=" -> x <= y [] op = ">=" -> x >= y

\* Mutant: a strict threshold is treated like the other.
LooseOperators ==
  [mustBe |-> "<>", mustNotBe |-> "=", mustBeGreaterOrEqualTo |-> "<", mustBeLessOrEqualTo |-> ">",
   mustBeGreaterThan |-> "<", mustBeLessThan |-> ">"]

\* _VIOLATION_OPERATORS, and _AGGREGATE_FUNCTIONS for the first four
ViolationOperators ==
  [mustBe |-> "<>", mustNotBe |-> "=", mustBeGreaterOrEqualTo |-> "<", mustBeLessOrEqualTo |-> ">",
   mustBeGreaterThan |-> "<=", mustBeLessThan |-> ">="]
AggregateFields == {"mustBe", "mustNotBe", "mustBeGreaterOrEqualTo", "mustBeLessOrEqualTo"}

\* Threshold.violation_sql; the query replaces a percentage of nothing by 0.
ViolationSql(t, measure) ==
  LET m == IF measure.den = 0 THEN [num |-> 0, den |-> 1] ELSE measure IN
  IF t.field \in {"mustBeBetween", "mustNotBeBetween"}
  THEN LET within == Compared(m, ">=", t.value[1]) /\ Compared(m, "<=", t.value[2])
       IN IF t.field = "mustNotBeBetween" THEN within ELSE ~within
  ELSE Compared(m, ViolationOperators[t.field], t.value[1])

\* _threshold_check: an aggregate where there is one, a query otherwise.
ThresholdFlags(e, t, unit, rows, scope) ==
  LET m == Measure(e, unit, rows, scope)
      violated == IF t.field \in AggregateFields /\ e.metric # "duplicateValues"
                  THEN Compared(m, ViolationOperators[t.field], t.value[1]) ELSE ViolationSql(t, m)
  IN IF violated = TRUE THEN scope ELSE {}

\* _build, _build_for_threshold: the thresholds rules are made of, and the rows these flag.
Thresholds(e) ==
  IF ~Placed(e) \/ ~Planned(e) THEN {}
  ELSE {t \in e.thresholds :
          Usable(t) /\ (e.unit \in {"rows", "percent"} \ (IF e.metric = "rowCount" THEN {"percent"} ELSE {})
                        \/ (is_zero_must_be(t) /\ ZeroChecks(e) # {}))}

LibraryFlags(e, rows) ==
  LET scope == InScope(rows, e.filtered) IN
  UNION {IF is_zero_must_be(t) /\ ZeroChecks(e) # {}
         THEN UNION {Flagged(rule, rows, scope) : rule \in ZeroChecks(e)}
         ELSE ThresholdFlags(e, t, IF e.unit = "other" THEN "rows" ELSE e.unit, rows, scope) : t \in Thresholds(e)}

-----------------------------------------------------------------------------
(* Explicit rules and names *)

\* _is_dqx_explicit_rule, _build_explicit_rule_from_implementation: the
\* implementation's own filter goes before the row_filter of the entry.
ExplicitRules(q) ==
  IF q.type # "custom" \/ q.engine # "dqx" \/ ~q.has_check THEN {}
  ELSE {[fn |-> "explicit", filter |-> IF q.filter # Null THEN q.filter ELSE q.row_filter,
         owner |-> IF q.owner # Null THEN q.owner ELSE q.team_owner]}

\* _with_unique_names: the first free name <<base, n>>, n = 1 being the base itself.
Renamed(taken, base) ==
  <<base, CHOOSE n \in 1..Cardinality(taken) + 1 : <<base, n>> \notin taken /\ \A k \in 1..n - 1 : <<base, k>> \in taken>>

_with_unique_names(bases, taken) ==
  FoldLeft(LAMBDA acc, base : LET name == Renamed(acc.taken, base)
                              IN [names |-> Append(acc.names, name), taken |-> acc.taken \cup {name}],
           [names |-> <<>>, taken |-> taken], bases).names

-----------------------------------------------------------------------------
(* Inputs and evaluation *)

Tables(n) == UNION {[1..k -> [v : Values \cup {Null}, in : {TRUE}]] : k \in 0..n}
FilteredTables == UNION {[1..k -> [v : {1, 3, Null}, in : BOOLEAN]] : k \in 0..2}

Property(required, unique, pattern, float, object, bounds, lengths) ==
  [named |-> TRUE, object |-> object, required |-> required, unique |-> unique, pattern |-> pattern, float |-> float,
   minimum |-> bounds[1], maximum |-> bounds[2], minLength |-> lengths[1], maxLength |-> lengths[2]]

Bounds == {Null, 2} \X {Null, 2, 3}

Properties ==
  {Property(r, u, FALSE, f, o, b, <<Null, Null>>) : r, u, f, o \in BOOLEAN, b \in Bounds}
  \cup {Property(FALSE, FALSE, p, FALSE, o, <<Null, Null>>, b) : p, o \in BOOLEAN, b \in Bounds}

Threshold == [field : DOMAIN ViolationOperators, value : {<<0>>, <<1>>, <<2>>, <<50>>, Malformed}]
             \cup [field : {"mustBeBetween", "mustNotBeBetween"}, value : {<<0, 1>>, <<2, 1>>, <<1, 50>>, Malformed}]

Entries ==
  [metric : Metrics, thresholds : {{t} : t \in Threshold}, unit : {"rows", "percent", "other"}, on_property : BOOLEAN,
   arguments : SUBSET {"list", "pattern"}, filtered : {FALSE}]
  \cup [metric : Metrics \ {"rowCount"}, thresholds : {{t} : t \in Threshold}, unit : {"rows", "percent"}, on_property : {TRUE},
        arguments : {{"list"}}, filtered : {TRUE}]

Simple == [kind |-> "simple"]
Types == {Simple, [kind |-> "unknown"], Null} \cup [kind : {"decimal"}, precision : {0, 38, 39}, scale : {0, 38}]
         \cup [kind : {"array", "map"}, of : {<<>>, <<Simple>>, <<Simple, Simple>>, <<[kind |-> "unknown"]>>}]
         \cup {[kind |-> "struct", named |-> b, of |-> <<[kind |-> "array", of |-> <<[kind |-> "array", of |-> <<Simple>>]>>]>>] : b \in BOOLEAN}

Inputs ==
  [part : {"property"}, entry : Properties, rows : Tables(3)]
  \cup [part : {"metric"}, entry : {e \in Entries : ~e.filtered}, rows : Tables(2)]
  \cup [part : {"metric"}, entry : {e \in Entries : e.filtered}, rows : FilteredTables]
  \cup [part : {"schema"}, entry : [generate_schema_validation : BOOLEAN, strict : BOOLEAN,
                                    props : {<<[named |-> b, type |-> t]>> : b \in BOOLEAN, t \in Types}], rows : {<<>>}]
  \cup [part : {"explicit"}, entry : [type : {"custom", "text"}, engine : {"dqx", "other"}, has_check : BOOLEAN, filter : {Null, 1},
                                      row_filter : {Null, 2}, owner : {Null, 1}, team_owner : {Null, 2}], rows : {<<>>}]
  \cup [part : {"names"}, entry : [bases : UNION {[1..n -> {"a", "b"}] : n \in 0..3}, taken : SUBSET ({"a", "b"} \X {1, 2})], rows : {<<>>}]

Init == input \in Inputs /\ output = Pending

\* generate_rules_from_contract, one entry at a time.
Generate ==
  /\ output = Pending
  /\ LET e == input.entry  rows == input.rows IN
     output' = CASE input.part = "property" -> UNION {Flagged(rule, rows, DOMAIN rows) : rule \in PropertyRules(e)}
                 [] input.part = "metric" -> LibraryFlags(e, rows)
                 [] input.part = "schema" -> SchemaRules(e)
                 [] input.part = "explicit" -> ExplicitRules(e)
                 [] input.part = "names" -> _with_unique_names(e.bases, e.taken)
  /\ UNCHANGED input

Next == Generate

-----------------------------------------------------------------------------
(* Properties *)

\* What the constraints of a property say of a table.
Conforms(p, rows) ==
  /\ \A i \in DOMAIN rows :
       LET v == rows[i].v IN
       /\ p.required => v # Null
       /\ v # Null =>
            /\ p.pattern => v \in Matching
            /\ p.unique => \A j \in DOMAIN rows \ {i} : rows[j].v # v
            /\ \A lo \in {p.minimum, p.minLength} : lo # Null => v >= lo
            /\ \A hi \in {p.maximum, p.maxLength} : hi # Null => v <= hi

\* What a threshold says of a measure.
Satisfied(t, m) ==
  LET x == m.num  d == m.den
      between == t.value[1] * d <= x /\ x <= t.value[2] * d
  IN CASE t.field = "mustBe" -> x = t.value[1] * d
       [] t.field = "mustNotBe" -> x # t.value[1] * d
       [] t.field = "mustBeGreaterOrEqualTo" -> x >= t.value[1] * d
       [] t.field = "mustBeLessOrEqualTo" -> x <= t.value[1] * d
       [] t.field = "mustBeGreaterThan" -> x > t.value[1] * d
       [] t.field = "mustBeLessThan" -> x < t.value[1] * d
       [] t.field = "mustBeBetween" -> between
       [] t.field = "mustNotBeBetween" -> ~between

\* The rules made of a property's constraints, or of a metric and its
\* thresholds, flag a row exactly when the table breaks the contract,
\* whichever check they were made into; and no library rule takes a name that
\* is in use (_generate_range_rules_from_options, _threshold_check,
\* _with_unique_names).
RulesDecideTheContract ==
  output # Pending =>
    /\ input.part = "property" /\ ~input.entry.object => (output = {} <=> Conforms(input.entry, input.rows))
    /\ input.part = "metric" /\ InScope(input.rows, input.entry.filtered) # {} =>
         (output = {} <=> \A t \in Thresholds(input.entry) :
            Satisfied(t, Measure(input.entry, IF input.entry.unit = "other" THEN "rows" ELSE input.entry.unit,
                                 input.rows, InScope(input.rows, input.entry.filtered))))
    /\ input.part = "names" =>
         \A i \in DOMAIN output : output[i] \notin input.entry.taken /\ \A j \in 1..i - 1 : output[j] # output[i]

\* As documented: a mandatory property is never NULL.
MandatoryIsChecked ==
  output # Pending /\ input.part = "property" /\ input.entry.required =>
    \A i \in DOMAIN input.rows : input.rows[i].v = Null => i \in output
=============================================================================
