------------------------------ MODULE RuleTests -----------------------------
(***************************************************************************)
(* The Test tab of a rule: the rule is turned into one SQL query that says *)
(* of every row whether it passes (native_test_predicate.py,               *)
(* rule_test_sql.py, services/rule_test_service.py).  The verdict shown is *)
(* set against that of a run, which evaluates the check function itself.   *)
(***************************************************************************)
EXTENDS SparkSQL, Sequences, FiniteSetsExt, SequencesExt

CONSTANTS Pending, Malformed, ColumnY, Raised

VARIABLES input, output

Run == INSTANCE RowChecks

-----------------------------------------------------------------------------
(* Predicates of native checks: TRUE of a row that satisfies the rule *)

Word(x, trim) == IF trim /\ x # Null THEN Run!Trim(x) ELSE x

\* _sql_scalar: an argument is a literal, as it is written.  The run reads texts
\* as expressions (get_limit_expr): one in quotes is a literal, a bare word the
\* name of a column.
AsWritten(e) == IF e.quoted THEN Malformed ELSE e.text
AsExpression(e) == IF e.quoted THEN e.text ELSE ColumnY

\* The name of a column is a text that no number compares with.
Comparable(c) == "limit" \notin DOMAIN c \/ c.limit # ColumnY \/ c.fn = "is_data_fresh"

\* _sql_in_list
_sql_in_list(x, values, case_sensitive) ==
  IsIn(Run!Folded(case_sensitive, x), {Run!Folded(case_sensitive, v) : v \in values})

\* _tolerance_pass: a tolerance that is not positive is left out.
_tolerance_pass(x, v, abs, rel) ==
  LET diff == Abs(Minus(x, v))
      within == Leq(diff, abs)
      near == Leq(IF diff = Null THEN Null ELSE 100 * diff, rel * Greatest(Abs(x), Abs(v)))
  IN CASE abs > 0 /\ rel > 0 -> Or(within, near)
       [] abs > 0 /\ rel <= 0 -> within
       [] abs <= 0 /\ rel > 0 -> near
       [] OTHER -> Eq(x, v)

_COMPILERS ==
  {"is_not_null", "is_null", "is_empty", "is_not_empty", "is_null_or_empty", "is_not_null_and_not_empty",
   "is_not_null_and_not_empty_array", "is_in_range", "is_not_in_range", "is_not_less_than", "is_not_greater_than",
   "is_equal_to", "is_not_equal_to", "is_in_list", "is_not_in_list", "is_not_null_and_is_in_list", "regex_match",
   "is_valid_ipv4_address", "is_valid_email", "is_valid_date", "is_data_fresh", "is_not_in_future",
   "is_not_in_near_future", "is_older_than_n_days", "is_older_than_col2_for_n_days", "sql_expression"}

\* An empty list is turned down when the predicate is compiled.
Testable(c) == c.fn \in _COMPILERS /\ ("list" \in DOMAIN c => c.list # {})

compile_native_test_predicate(c, row) ==
  LET x == row.x IN
  CASE c.fn = "is_not_null" -> isNotNull(x)
    [] c.fn = "is_null" -> isNull(x)
    [] c.fn = "is_empty" -> Eq(Word(x, c.trim), "")
    [] c.fn = "is_not_empty" -> Not(Eq(Word(x, c.trim), ""))
    [] c.fn = "is_null_or_empty" -> Or(isNull(x), Eq(Word(x, c.trim), ""))
    [] c.fn = "is_not_null_and_not_empty" -> And(isNotNull(x), Not(Eq(Word(x, c.trim), "")))
    [] c.fn = "is_not_null_and_not_empty_array" -> And(isNotNull(x), Gt(IF x = Null THEN Null ELSE Len(x), 0))
    [] c.fn = "is_in_range" -> And(Geq(x, c.min), Leq(x, c.limit))
    [] c.fn = "is_not_in_range" -> Or(Lt(x, c.min), Gt(x, c.limit))
    [] c.fn = "is_not_less_than" -> Geq(x, c.limit)
    [] c.fn = "is_not_greater_than" -> Leq(x, c.limit)
    [] c.fn = "is_equal_to" -> _tolerance_pass(x, c.limit, c.abs, c.rel)
    [] c.fn = "is_not_equal_to" -> Not(_tolerance_pass(x, c.limit, c.abs, c.rel))
    [] c.fn = "is_in_list" -> _sql_in_list(x, c.list, c.case_sensitive)
    [] c.fn = "is_not_in_list" -> Not(_sql_in_list(x, c.list, c.case_sensitive))
    [] c.fn = "is_not_null_and_is_in_list" -> And(isNotNull(x), _sql_in_list(x, c.list, c.case_sensitive))
    [] c.fn = "regex_match" -> Run!rlike(x, c.pattern)
    [] c.fn = "is_valid_ipv4_address" -> Run!rlike(x, "IPV4")
    [] c.fn = "is_valid_email" -> Run!rlike(x, "EMAIL")
    [] c.fn = "is_valid_date" -> Or(isNull(x), isNotNull(IF x # Null /\ c.pattern \in x THEN x ELSE Null))
    [] c.fn = "is_data_fresh" -> Geq(x, Minus(IF c.limit = ColumnY THEN row.y ELSE c.limit, c.age))
    [] c.fn = "is_not_in_future" -> Leq(x, c.now + c.offset)
    [] c.fn = "is_not_in_near_future" -> Or(Leq(x, c.now), Geq(x, c.now + c.offset))
    [] c.fn = "is_older_than_n_days" -> Lt(x, c.now - c.days)
    [] c.fn = "is_older_than_col2_for_n_days" -> Lt(x, Minus(row.y, c.days))
    [] c.fn = "sql_expression" -> x

\* The polarity of a native rule says whether its check is negated.
Polarity(c) == IF "negate" \in DOMAIN c /\ c.negate THEN "fail" ELSE "pass"

-----------------------------------------------------------------------------
(* Verdicts *)

\* A bug: the condition column of a query is read like a predicate.
ReadsThePredicate(condition, polarity) == IF polarity = "pass" THEN condition = TRUE ELSE Not(condition) = TRUE

\* passed_expr
passed_expr(predicate, polarity) == IF polarity = "pass" THEN predicate ELSE Not(predicate)

\* condition_passed_expr: the condition column of a query says what fails.
Coalesce(x, default) == IF x = Null THEN default ELSE x
condition_passed_expr(condition, polarity) ==
  IF polarity = "fail" THEN Coalesce(condition, TRUE) ELSE ~Coalesce(condition, FALSE)

\* _coerce_passed: only TRUE is a pass.
_coerce_passed(raw) == raw = TRUE

-----------------------------------------------------------------------------
(* Queries.  A query rule reads the sample through its placeholder, or does *)
(* not, and joins tables; in a manual test each of them is given as a grid. *)

\* require_input_view: columns of the sample are of no use without it.
require_input_view(q) == q.reads_view \/ q.slots \cap q.mapping = {}

Missing(q) == {t \in q.refs : q.grids[t] = {}}

\* build_query_test_sql, build_adhoc_query_sql: the tables the query will read,
\* or a refusal.
build_query(q) ==
  IF ~q.returns_condition \/ ~require_input_view(q) THEN Raised
  ELSE IF ~q.manual THEN {q.table} \cup q.refs
  ELSE IF Missing(q) # {} THEN Raised
       ELSE {t \in q.refs : q.grids[t] = {}}

\* parse_result: display_cap rows are asked for, and as many mean there may be more.
Shown(rows, cap) == IF rows > cap THEN cap ELSE rows
Truncated(rows, cap) == Shown(rows, cap) >= cap

\* _grid_select and _lit: an empty cell is NULL, a row is padded to the columns,
\* what is beyond them dropped; cells are cast to the family of their column.
_lit(cell) == IF cell = "" THEN Null ELSE cell
_grid_select(columns, row) == [i \in 1 .. columns |-> IF i <= Len(row) THEN _lit(row[i]) ELSE Null]

\* _parse_generated: rows from the model, normalised to the columns asked for.
_parse_generated(columns, rows) ==
  LET kept == SelectSeq(rows, LAMBDA r : r # Malformed)
  IN [i \in DOMAIN kept |-> [j \in 1 .. columns |-> IF j <= Len(kept[i]) THEN kept[i][j] ELSE Null]]

-----------------------------------------------------------------------------
(* What is put in. *)

Tables == {"main.a", "main.b"}
Queries ==
  [returns_condition : BOOLEAN, reads_view : BOOLEAN, slots : SUBSET {"s"}, mapping : SUBSET {"s"}, manual : BOOLEAN,
   table : {"main.t"}, refs : SUBSET Tables, grids : [Tables -> SUBSET {"c"}]]
\* Lists of numbers, and of texts with and without quotes, on cells of their kind.
ListsOf(entries, case_sensitive, cells) ==
  [fn : {"is_in_list", "is_not_in_list", "is_not_null_and_is_in_list"}, case_sensitive : case_sensitive, list : SUBSET entries]
    \X [x : cells, y : cells]
Numbers == ListsOf({1, 2}, {TRUE}, {1, 3, Null})
TextLists == ListsOf([text : {"A", "b"}, quoted : BOOLEAN], BOOLEAN, {"a", "A", "b", Null})
GridRows == UNION {[1 .. n -> {"", "a", Null}] : n \in 0 .. 2}
Generated == UNION {[1 .. n -> GridRows \cup {Malformed}] : n \in 0 .. 2}

Init ==
  /\ \/ \E i \in {j \in Run!Inputs : "list" \notin DOMAIN j[1]} : input = [kind |-> "native", check |-> i[1], row |-> i[2]]
     \/ \E i \in Numbers : input = [kind |-> "native", check |-> i[1], row |-> i[2]]
     \/ \E i \in TextLists : input = [kind |-> "texts", check |-> i[1], row |-> i[2]]
     \/ \E v \in BOOLEAN \cup {Null} : \E polarity \in {"pass", "fail"} : \E shape \in {"expression", "query"} :
          input = [kind |-> shape, value |-> v, polarity |-> polarity]
     \/ \E q \in Queries : input = [kind |-> "plan", query |-> q]
     \/ \E g \in Generated : \E cap \in 1 .. 3 : input = [kind |-> "grid", rows |-> g, cap |-> cap]
  /\ output = [kind |-> "none"]

Flagged(condition) == condition = TRUE

Verdict(c, row, run) ==
  IF ~Testable(c) \/ ~Comparable(c) THEN [kind |-> "refused"]
  ELSE LET predicate == compile_native_test_predicate(c, row)
       IN [kind |-> "verdict", predicate |-> predicate, built |-> Run!Valid(run),
           passed |-> _coerce_passed(passed_expr(predicate, Polarity(c))), run |-> ~Flagged(Run!Condition3(run, row))]

\* A list as the test and as the run reads it.
Read(c, R(_)) == [c EXCEPT !.list = {R(e) : e \in @}]

\* The verdict of the test and that of the run of the materialized check.
Next ==
  /\ output.kind = "none"
  /\ output' =
       CASE input.kind = "native" -> Verdict(input.check, input.row, input.check)
         [] input.kind = "texts" ->
              Verdict(Read(input.check, AsWritten), input.row, Read(input.check, AsExpression))
         [] input.kind = "expression" ->
              [kind |-> "verdict", predicate |-> input.value, built |-> TRUE,
               passed |-> _coerce_passed(passed_expr(input.value, input.polarity)),
               run |-> ~Flagged(Run!sql_expression([negate |-> input.polarity = "fail"], [x |-> input.value]))]
         [] input.kind = "query" ->
              [kind |-> "verdict", predicate |-> input.value, built |-> TRUE,
               passed |-> _coerce_passed(condition_passed_expr(input.value, input.polarity)),
               run |-> ~Flagged(IF input.polarity = "fail" THEN Not(input.value) ELSE input.value)]
         [] input.kind = "plan" -> [kind |-> "plan", reads |-> build_query(input.query)]
         [] input.kind = "grid" ->
              LET rows == _parse_generated(2, input.rows)
              IN [kind |-> "grid", rows |-> [i \in DOMAIN rows |-> _grid_select(2, rows[i])],
                  shown |-> Shown(Len(rows), input.cap), truncated |-> Truncated(Len(rows), input.cap)]
  /\ UNCHANGED input

-----------------------------------------------------------------------------

Known == output.kind = "verdict" /\ output.built /\ (input.kind = "query" \/ output.predicate # Null)

\* Of a row on which the rule has an answer the test shows the verdict of the
\* run, whichever way the rule is written and whatever its polarity.
\* Lists of texts are another matter.
TestsAgreeWithRuns == Known /\ input.kind # "texts" => output.passed = output.run

\* The same of lists of texts: a row satisfies the rule in the test when it does
\* in a run (compile_native_test_predicate).
TestsReadTextsAsRunsDo == Known /\ input.kind = "texts" => output.passed = output.run

\* A manual test reads no table, only what was typed in or made up for it; its
\* grids are rectangular, and a cut list says so.
ManualTestsStandAlone ==
  /\ output.kind = "plan" /\ input.query.manual => output.reads \in {Raised, {}}
  /\ output.kind = "grid" =>
       /\ \A i \in DOMAIN output.rows : Len(output.rows[i]) = 2 /\ "" \notin Range(output.rows[i])
       /\ output.shown < Len(output.rows) => output.truncated

-----------------------------------------------------------------------------
(***************************************************************************)
(* Forms                                                                   *)
(*                                                                         *)
(* Rules put together from rows of conditions (lowcode_compile.py).  A     *)
(* compiled fragment is what it stands for: whether there is any, its      *)
(* value in three-valued logic, and the placeholders in its text.  Raised  *)
(* is also text the SQL parser refuses.                                    *)
(***************************************************************************)

(* Operators.  Words have a trimmed form and a case; numbers are halves, so  *)
(* that some are whole; an instant is a count of units, days have two.      *)

Words == {"", " ", "a", "A"}
Trimmed(w) == IF w = " " THEN "" ELSE w
Lowered(w) == IF w = "A" THEN "a" ELSE w
Uppered(w) == IF w = "a" THEN "A" ELSE w
Length(w) == IF w = "" THEN 0 ELSE 1
Holds(w, part) == part = "" \/ w = part
Day(t) == t \div 2

Of(F(_), x) == IF x = Null THEN Null ELSE F(x)
InRange(x, lo, hi) == And(Geq(x, lo), Leq(x, hi))

\* A bug: blanks count as contents.
CountsBlanks(w) == Length(w) > 0
NotEmpty(w) == Length(Trimmed(w)) > 0

\* _row_sql: the condition of one operator on a cell x with value v; now is the
\* current instant.  An operator it does not know compiles to nothing.
_row_sql(x, op, v, now) ==
  CASE op \in {"=", "equals"} -> Eq(x, v)
    [] op \in {"!=", "not equals"} -> Not(Eq(x, v))
    [] op \in {"<", "before"} -> Lt(x, v)
    [] op \in {"<=", "on or before"} -> Leq(x, v)
    [] op \in {">", "after"} -> Gt(x, v)
    [] op \in {">=", "on or after"} -> Geq(x, v)
    [] op = "between" -> InRange(x, v[1], v[2])
    [] op = "in" -> IsIn(x, v)
    [] op = "not in" -> Not(IsIn(x, v))
    [] op = "is null" -> isNull(x)
    [] op = "is not null" -> isNotNull(x)
    [] op = "is true" -> Eq(x, TRUE)
    [] op = "is false" -> Eq(x, FALSE)
    [] op = "is positive" -> Gt(x, 0)
    [] op = "is negative" -> Lt(x, 0)
    [] op = "is non-negative" -> Geq(x, 0)
    [] op = "is a whole number" -> Of(LAMBDA n : n % 2 = 0, x)
    [] op = "is a multiple of" -> Of(LAMBDA n : n % v = 0, x)
    [] op \in {"contains", "starts with", "ends with", "matches regex"} -> Of(LAMBDA w : Holds(w, v), x)
    [] op \in {"does not contain", "does not match regex"} -> Not(Of(LAMBDA w : Holds(w, v), x))
    [] op = "has length" -> Of(LAMBDA w : Length(w) = v, x)
    [] op = "is longer than" -> Of(LAMBDA w : Length(w) > v, x)
    [] op = "is shorter than" -> Of(LAMBDA w : Length(w) < v, x)
    [] op = "length between" -> Of(LAMBDA w : v[1] <= Length(w) /\ Length(w) <= v[2], x)
    [] op = "is not empty" -> Of(NotEmpty, x)
    [] op = "is empty" -> Of(LAMBDA w : Length(Trimmed(w)) = 0, x)
    [] op = "is uppercase" -> Of(LAMBDA w : w = Uppered(w), x)
    [] op = "is lowercase" -> Of(LAMBDA w : w = Lowered(w), x)
    [] op = "has leading or trailing whitespace" -> Of(LAMBDA w : w # Trimmed(w), x)
    [] op = "has no leading or trailing whitespace" -> Of(LAMBDA w : w = Trimmed(w), x)
    [] op = "is a valid" -> Of(LAMBDA w : w \in v, x) = TRUE
    [] op = "is not a valid" -> Of(LAMBDA w : w \in v, x) # TRUE
    [] op = "is in last" -> Geq(x, now - v)
    [] op = "is in the future" -> Gt(x, now)
    [] op = "is in the past" -> Lt(x, now)
    [] op = "is today" -> Of(LAMBDA t : Day(t) = Day(now), x)

OPERATORS_BY_FAMILY ==
  [numeric |-> {"between", "=", "!=", ">=", ">", "<=", "<", "in", "not in", "is positive", "is negative", "is non-negative",
                "is a whole number", "is a multiple of"},
   text |-> {"equals", "not equals", "contains", "does not contain", "starts with", "ends with", "in", "not in",
             "matches regex", "does not match regex", "has length", "is longer than", "is shorter than", "length between",
             "is not empty", "is empty", "is uppercase", "is lowercase", "has leading or trailing whitespace",
             "has no leading or trailing whitespace", "is a valid", "is not a valid"},
   temporal |-> {"on or after", "on or before", "after", "before", "between", "is in last", "is in the future",
                 "is in the past", "is today", "=", "!="},
   boolean |-> {"is true", "is false"},
   any |-> {"is null", "is not null"}]

-----------------------------------------------------------------------------
(* Rows.  A row compares a column with a literal or with another column; a   *)
(* row without a column, or with an unknown operator, compiles to nothing.  *)

Nothing == [text |-> FALSE, val |-> Null, refs |-> {}]

\* _value_sql: {"$col": ...} stands for the other column.
ValueOf(row, cells) == IF row.other = Null THEN row.value ELSE cells[row.other]
Refs(row) == {row.column} \cup (IF row.other = Null THEN {} ELSE {row.other})

_compile_row(row, cells) ==
  IF row.column = Null \/ row.op = "unknown" THEN Nothing
  ELSE [text |-> TRUE, val |-> _row_sql(cells[row.column], row.op, ValueOf(row, cells), 0), refs |-> Refs(row)]

\* compile_ast_to_sql: what compiles to nothing is left out, and every fragment
\* but that of the first row is led by its combinator.
compile_ast_to_sql(rows, cells) ==
  LET parts == [i \in DOMAIN rows |-> [comb |-> IF i = 1 THEN "" ELSE rows[i].comb, frag |-> _compile_row(rows[i], cells)]]
  IN SelectSeq(parts, LAMBDA p : p.frag.text)

Placeholders(parts) == UNION {p.frag.refs : p \in Range(parts)}

\* How SQL reads the fragments: AND binds tighter than OR, and a text that
\* begins with a connective is none.
Conjunction(parts) == FoldSeq(LAMBDA p, acc : And(p.frag.val, acc), TRUE, parts)
Evaluate(parts) ==
  IF parts # <<>> /\ parts[1].comb # "" THEN Raised
  ELSE LET starts == {i \in DOMAIN parts : i = 1 \/ parts[i].comb = "OR"}
           last(i) == Min({j - 1 : j \in {k \in starts : k > i}} \cup {Len(parts)})
       IN FoldSet(LAMBDA i, acc : Or(Conjunction(SubSeq(parts, i, last(i))), acc), FALSE, starts)

lowcode_is_usable(rows, cells) == compile_ast_to_sql(rows, cells) # <<>>

-----------------------------------------------------------------------------
(* Joins, groups and the body.  A join has keys, each with a column of our   *)
(* own; one without is left out.  Under a group by the rows compare          *)
(* aggregates, and the cells stand for those of the group.                  *)

compile_joins_to_sql(joins) == SelectSeq(joins, LAMBDA j : j.type = "CROSS" \/ j.keys # {})
_join_key_refs(joins) == UNION {j.keys : j \in {k \in Range(joins) : k.type # "CROSS"}}

\* extract_slot_tokens over the predicate, the query and the merge columns: the
\* query names the keys of its joins and the columns of its groups.
extract_slot_tokens(rows, joins, group_by, cells) ==
  Placeholders(compile_ast_to_sql(rows, cells)) \cup _join_key_refs(compile_joins_to_sql(joins)) \cup group_by

fail_cond(predicate) == Not(predicate)

\* compile_lowcode_body: a predicate, or a query as soon as it joins or groups,
\* whose condition column says which rows fail.
compile_lowcode_body(rows, joins, group_by, cells) ==
  LET predicate == Evaluate(compile_ast_to_sql(rows, cells))
  IN IF compile_joins_to_sql(joins) = <<>> /\ group_by = {}
     THEN [kind |-> "predicate", value |-> predicate, merge |-> {}]
     ELSE [kind |-> "sql_query", value |-> IF predicate = Raised THEN Raised ELSE fail_cond(predicate),
           merge |-> IF group_by # {} THEN group_by ELSE _join_key_refs(compile_joins_to_sql(joins))]

\* What the check made of a body flags: sql_expression flags what is not TRUE of
\* a passing condition, sql_query what its condition column says, each the other
\* way round under polarity "fail".
FlaggedByBody(body, polarity) ==
  IF body.value = Raised THEN Raised
  ELSE IF (body.kind = "predicate") = (polarity = "pass") THEN body.value = FALSE ELSE body.value = TRUE

-----------------------------------------------------------------------------
(* What is put in. *)

Values(family, op) ==
  CASE op \in {"between", "length between"} -> {<<0, 0>>, <<0, 1>>, <<1, 0>>}
    [] op \in {"in", "not in"} -> IF family = "text" THEN {{}, {"a"}, {"a", Null}} ELSE {{}, {1}, {1, Null}}
    [] op \in {"is a valid", "is not a valid"} -> {{"a"}}
    [] op = "is a multiple of" -> {1, 2}
    [] op \in {"is in last", "has length", "is longer than", "is shorter than"} -> {0, 1}
    [] family = "text" -> Words
    [] OTHER -> {-1, 0, 1}

CellsOf(family) ==
  {Null} \cup CASE family = "text" -> Words [] family = "boolean" -> BOOLEAN [] OTHER -> -2 .. 2

Columns == {"x", "y"}
Rows ==
  [column : {"x", Null}, op : {"="}, value : {1}, other : {Null, "y"}, comb : {"AND", "OR"}]
    \cup [column : {"y"}, op : {"is null", "unknown"}, value : {1}, other : {Null}, comb : {"AND", "OR"}]
JoinLists == {<<>>} \cup {<<[type |-> t, keys |-> k]>> : t \in {"LEFT", "CROSS"}, k \in {{}, {"y"}}}

formsInit ==
  /\ \/ \E family \in DOMAIN OPERATORS_BY_FAMILY : \E op \in OPERATORS_BY_FAMILY[family] :
        \E v \in Values(family, op) : \E x \in CellsOf(family) :
          input = [kind |-> "operator", family |-> family, op |-> op, value |-> v, x |-> x]
     \/ \E n \in 1 .. 3 : \E rows \in [1 .. n -> Rows] : \E joins \in JoinLists : \E group_by \in {{}, {"x"}} :
        \E cells \in [Columns -> {1, 2, Null}] :
          input = [kind |-> "body", rows |-> rows, joins |-> joins, group_by |-> group_by, cells |-> cells]
  /\ output = [kind |-> "none"]

formsNext ==
  /\ output.kind = "none"
  /\ output' =
       CASE input.kind = "operator" -> [kind |-> "operator", result |-> _row_sql(input.x, input.op, input.value, 0)]
         [] input.kind = "body" ->
              [kind |-> "body", usable |-> lowcode_is_usable(input.rows, input.cells),
               body |-> compile_lowcode_body(input.rows, input.joins, input.group_by, input.cells),
               plain |-> compile_lowcode_body(input.rows, <<>>, {}, input.cells),
               slots |-> extract_slot_tokens(input.rows, input.joins, input.group_by, input.cells)]
  /\ UNCHANGED input

-----------------------------------------------------------------------------

Opposites ==
  {<<"=", "!=">>, <<"equals", "not equals">>, <<"<", ">=">>, <<"<=", ">">>, <<"before", "on or after">>, <<"after", "on or before">>,
   <<"is negative", "is non-negative">>, <<"contains", "does not contain">>, <<"matches regex", "does not match regex">>,
   <<"is empty", "is not empty">>, <<"has leading or trailing whitespace", "has no leading or trailing whitespace">>,
   <<"is a valid", "is not a valid">>, <<"is null", "is not null">>, <<"in", "not in">>, <<"is true", "is false">>}

\* A condition and the one that is called its opposite are never both true or
\* both false of a cell.
OppositesAreOpposite ==
  output.kind = "operator" =>
    \A p \in Opposites :
      p[1] = input.op => LET other == _row_sql(input.x, p[2], input.value, 0)
                         IN \/ output.result = Null /\ other = Null
                            \/ output.result \in BOOLEAN /\ other \in BOOLEAN /\ other # output.result

\* A join alone changes the shape of the stored body, not what its check flags,
\* under either polarity.
ShapeChangesNothing ==
  output.kind = "body" /\ input.group_by = {} =>
    \A polarity \in {"pass", "fail"} : FlaggedByBody(output.body, polarity) = FlaggedByBody(output.plain, polarity)

\* Every column the body compares, joins or groups by has a slot to bind it.
OwnColumnsHaveSlots ==
  output.kind = "body" /\ output.usable =>
    /\ UNION {Refs(r) : r \in {q \in Range(input.rows) : q.column # Null /\ q.op # "unknown"}} \subseteq output.slots
    /\ output.body.merge \subseteq output.slots

\* Rows the compiler can represent make SQL that can be parsed.
UsableRulesParse == output.kind = "body" /\ output.usable => output.body.value # Raised
==============================================================================
