----------------------------- MODULE RowChecks ------------------------------
(***************************************************************************)
(* The row-level check functions of check_funcs.py.  A check is a column   *)
(* expression: the condition under which a row is flagged, in Spark's      *)
(* three-valued logic.  Columns x and y of a row are cells, y serving      *)
(* where a check takes a column as its limit, list entry or second column. *)
(*                                                                         *)
(* Texts are drawn from a handful of words with their lower-case and       *)
(* trimmed forms; what a regular expression, a format or a code list says  *)
(* of a text is the set of patterns the cell matches.  Time is counted in  *)
(* whole units.                                                            *)
(***************************************************************************)
EXTENDS SparkSQL, Sequences

CONSTANTS
  Pending,
  Malformed,  \* a text that cannot be read as a number or an address
  ColumnY     \* an argument that names column y

VARIABLES
  input,    \* the check and the row
  output    \* whether the row was flagged

-----------------------------------------------------------------------------
(* Conversions *)

Texts == {"", " ", "a", "A", "b"}
Lower(t) == IF t = "A" THEN "a" ELSE t
Trim(t) == IF t = " " THEN "" ELSE t
Upper(t) == IF t = "a" THEN "A" ELSE IF t = "b" THEN "B" ELSE t

\* get_limit_expr: without a limit there is no check.
get_limit_expr(limit, row) == IF limit = ColumnY THEN row.y ELSE limit

\* to_lowercase
Folded(case_sensitive, t) == IF case_sensitive \/ t = Null THEN t ELSE Lower(t)

\* The values of a list argument.
Listed(list, case_sensitive, row) == {Folded(case_sensitive, get_limit_expr(v, row)) : v \in list}

\* Mutant: allow_nulls is not looked at.
ConditionOnly(allow_nulls, x, condition) == condition

\* make_condition, _make_condition_handling_nulls
Condition(allow_nulls, x, condition) == IF allow_nulls THEN condition ELSE Or(isNull(x), condition)

-----------------------------------------------------------------------------
(* Nulls and emptiness *)

Trimmed(c, row) == IF c.trim /\ row.x # Null THEN Trim(row.x) ELSE row.x

is_not_null_and_not_empty(c, row) == LET x == Trimmed(c, row) IN Or(isNull(x), Or(isNull(x), Eq(x, "")))
is_not_empty(c, row) == Eq(Trimmed(c, row), "")
is_not_null(c, row) == isNull(row.x)
is_null(c, row) == isNotNull(row.x)
is_empty(c, row) == Not(Eq(Trimmed(c, row), ""))
is_null_or_empty(c, row) ==
  LET x == Trimmed(c, row) IN And(isNotNull(x), And(isNotNull(x), Not(Eq(x, ""))))

\* An array cell is NULL or a sequence.
is_not_null_and_not_empty_array(c, row) ==
  Or(isNull(row.x), Eq(IF row.x = Null THEN Null ELSE Len(row.x), 0))

-----------------------------------------------------------------------------
(* Lists, case and expressions *)

has_valid_string_case(c, row) ==
  Not(Eq(row.x, IF row.x = Null THEN Null ELSE IF c.lower THEN Lower(row.x) ELSE Upper(row.x)))

is_not_null_and_is_in_list(c, row) ==
  Or(isNull(row.x), Not(IsIn(Folded(c.case_sensitive, row.x), Listed(c.list, c.case_sensitive, row))))
is_in_list(c, row) == Not(IsIn(Folded(c.case_sensitive, row.x), Listed(c.list, c.case_sensitive, row)))
is_not_in_list(c, row) == IsIn(Folded(c.case_sensitive, row.x), Listed(c.list, c.case_sensitive, row))

\* The expression is a Boolean column.
sql_expression(c, row) == IF c.negate THEN row.x ELSE Not(row.x)

-----------------------------------------------------------------------------
(* Dates and times *)

is_older_than_col2_for_n_days(c, row) ==
  LET condition == Geq(row.x, Minus(row.y, c.days)) IN IF c.negate THEN Not(condition) ELSE condition
is_older_than_n_days(c, row) ==
  LET condition == Geq(row.x, Minus(c.now, c.days)) IN IF c.negate THEN Not(condition) ELSE condition
is_not_in_future(c, row) == Gt(row.x, c.now + c.offset)
is_not_in_near_future(c, row) == And(Gt(row.x, c.now), Lt(row.x, c.now + c.offset))
is_data_fresh(c, row) == Lt(row.x, Minus(get_limit_expr(c.limit, row), c.age))

-----------------------------------------------------------------------------
(* Limits *)

\* _match_values_with_tolerance: the relative tolerance is in percent.
MatchWithTolerance(x, v, abs_tolerance, percent) ==
  LET diff == Abs(Minus(x, v))
      largest == Greatest(Abs(x), Abs(v))
  IN Or(Leq(diff, abs_tolerance), Leq(IF diff = Null THEN Null ELSE 100 * diff,
                                      IF largest = Null THEN Null ELSE percent * largest))

\* A tolerance counts only when the value is a number, not a column.
Matches(c, row) ==
  LET v == get_limit_expr(c.limit, row) IN
  IF (c.abs > 0 \/ c.rel > 0) /\ c.limit # ColumnY THEN MatchWithTolerance(row.x, v, c.abs, c.rel) ELSE Eq(row.x, v)

is_equal_to(c, row) == Condition(c.allow_nulls, row.x, Not(Matches(c, row)))
is_not_equal_to(c, row) == Condition(c.allow_nulls, row.x, Matches(c, row))
is_not_less_than(c, row) == Condition(c.allow_nulls, row.x, Lt(row.x, get_limit_expr(c.limit, row)))
is_not_greater_than(c, row) == Condition(c.allow_nulls, row.x, Gt(row.x, get_limit_expr(c.limit, row)))
is_in_range(c, row) ==
  Condition(c.allow_nulls, row.x, Or(Lt(row.x, c.min), Gt(row.x, get_limit_expr(c.limit, row))))
is_not_in_range(c, row) ==
  Condition(c.allow_nulls, row.x, And(Geq(row.x, c.min), Leq(row.x, get_limit_expr(c.limit, row))))

\* The string form of a number: the digits before and after the point and the
\* exponent; NaN, Infinity and other texts are not numeric.
TrailingZeros(digits) ==
  CHOOSE n \in 0..Len(digits) :
    /\ \A i \in Len(digits) - n + 1..Len(digits) : digits[i] = 0
    /\ n < Len(digits) => digits[Len(digits) - n] # 0

DecimalPlaces(num) ==
  LET digits == num.integer \o num.fraction IN
  IF TrailingZeros(digits) = Len(digits) THEN 0
  ELSE Greatest(Len(num.fraction) - TrailingZeros(digits) - num.exponent, 0)

has_num_decimal_places(c, row) ==
  LET limit == get_limit_expr(c.limit, row)
      numeric == IF row.x = Null THEN Null ELSE row.x # Malformed
      places == IF numeric = TRUE THEN DecimalPlaces(row.x) ELSE Null
  IN Condition(c.allow_nulls, row.x,
       Or(Or(And(isNotNull(row.x), isNull(limit)), Not(numeric)), Gt(places, limit)))

-----------------------------------------------------------------------------
(* Patterns, formats and codes: a cell is the set of what its text matches *)

rlike(x, pattern) == IF x = Null THEN Null ELSE pattern \in x

regex_match(c, row) == IF c.negate THEN rlike(row.x, c.pattern) ELSE Not(rlike(row.x, c.pattern))

\* _matches_pattern
matches_pattern(x, pattern) == When(isNotNull(x), Not(rlike(x, pattern)), Null)

is_valid_ipv4_address(c, row) == matches_pattern(row.x, "IPV4")
is_valid_email(c, row) == matches_pattern(row.x, "EMAIL")
is_valid_url(c, row) == matches_pattern(row.x, "URL")
is_valid_national_id(c, row) == matches_pattern(row.x, c.country)
is_valid_uuid(c, row) == matches_pattern(row.x, IF c.strict THEN "UUID_STRICT" ELSE "UUID")

\* try_to_timestamp is NULL for a text it cannot parse.
is_valid_date(c, row) == When(isNull(row.x), Null, isNull(IF c.pattern \in row.x THEN row.x ELSE Null))

\* _is_valid_iso_code: a text is in a code list as written, or in lower case.
is_valid_iso_code(c, row) ==
  Not(IF row.x = Null THEN Null
      ELSE "ISO" \in row.x \/ (~c.case_sensitive /\ c.pattern # "numeric" /\ "iso" \in row.x))

\* is_valid_subdivision_code: the prefix of the code is the country's; the
\* country in y is a text as well.
is_valid_subdivision_code(c, row) ==
  LET known == IF row.x = Null THEN Null ELSE "ISO" \in row.x \/ (~c.case_sensitive /\ "iso" \in row.x)
      prefix == IF row.x = Null THEN Null ELSE IF "ISO" \in row.x THEN "A" ELSE IF "iso" \in row.x THEN "a" ELSE "b"
  IN IF ~c.country THEN Not(known)
     ELSE Or(Not(known), Not(Eq(Folded(c.case_sensitive, prefix), Folded(c.case_sensitive, row.y))))

-----------------------------------------------------------------------------
(* Addresses of Bits bits, most significant first *)

Bits == 3
Addresses == [1..Bits -> 0..1]

\* _get_network_address: the first bits, padded with zeros.
NetworkAddress(bits, prefix) == [i \in 1..Bits |-> IF i <= prefix THEN bits[i] ELSE 0]

\* is_ipv4_address_in_cidr; a text that is no address is Malformed.
is_ipv4_address_in_cidr(c, row) ==
  LET invalid == isNotNull(row.x) /\ row.x = Malformed
      net == IF row.x = Null \/ row.x = Malformed THEN Null ELSE NetworkAddress(row.x, c.prefix)
  IN Or(invalid, Not(Eq(net, NetworkAddress(c.block, c.prefix))))

\* is_ipv6_address_in_cidr; ipaddress decides membership.
is_ipv6_address_in_cidr(c, row) ==
  When(isNull(row.x), Null,
       When(row.x = Malformed, TRUE,
            Not(\A i \in 1..c.prefix : row.x # Malformed /\ row.x[i] = c.block[i])))

-----------------------------------------------------------------------------
Condition3(c, row) ==
  CASE c.fn = "is_not_null_and_not_empty"        -> is_not_null_and_not_empty(c, row)
    [] c.fn = "is_not_empty"                     -> is_not_empty(c, row)
    [] c.fn = "is_not_null"                      -> is_not_null(c, row)
    [] c.fn = "is_null"                          -> is_null(c, row)
    [] c.fn = "is_empty"                         -> is_empty(c, row)
    [] c.fn = "is_null_or_empty"                 -> is_null_or_empty(c, row)
    [] c.fn = "is_not_null_and_not_empty_array"  -> is_not_null_and_not_empty_array(c, row)
    [] c.fn = "has_valid_string_case"            -> has_valid_string_case(c, row)
    [] c.fn = "is_not_null_and_is_in_list"       -> is_not_null_and_is_in_list(c, row)
    [] c.fn = "is_in_list"                       -> is_in_list(c, row)
    [] c.fn = "is_not_in_list"                   -> is_not_in_list(c, row)
    [] c.fn = "sql_expression"                   -> sql_expression(c, row)
    [] c.fn = "is_older_than_col2_for_n_days"    -> is_older_than_col2_for_n_days(c, row)
    [] c.fn = "is_older_than_n_days"             -> is_older_than_n_days(c, row)
    [] c.fn = "is_not_in_future"                 -> is_not_in_future(c, row)
    [] c.fn = "is_not_in_near_future"            -> is_not_in_near_future(c, row)
    [] c.fn = "is_data_fresh"                    -> is_data_fresh(c, row)
    [] c.fn = "is_equal_to"                      -> is_equal_to(c, row)
    [] c.fn = "is_not_equal_to"                  -> is_not_equal_to(c, row)
    [] c.fn = "is_not_less_than"                 -> is_not_less_than(c, row)
    [] c.fn = "is_not_greater_than"              -> is_not_greater_than(c, row)
    [] c.fn = "is_in_range"                      -> is_in_range(c, row)
    [] c.fn = "is_not_in_range"                  -> is_not_in_range(c, row)
    [] c.fn = "has_num_decimal_places"           -> has_num_decimal_places(c, row)
    [] c.fn = "regex_match"                      -> regex_match(c, row)
    [] c.fn = "is_valid_ipv4_address"            -> is_valid_ipv4_address(c, row)
    [] c.fn = "is_valid_email"                   -> is_valid_email(c, row)
    [] c.fn = "is_valid_url"                     -> is_valid_url(c, row)
    [] c.fn = "is_valid_national_id"             -> is_valid_national_id(c, row)
    [] c.fn = "is_valid_uuid"                    -> is_valid_uuid(c, row)
    [] c.fn = "is_valid_date"                    -> is_valid_date(c, row)
    [] c.fn = "is_valid_iso_code"                -> is_valid_iso_code(c, row)
    [] c.fn = "is_valid_subdivision_code"        -> is_valid_subdivision_code(c, row)
    [] c.fn = "is_ipv4_address_in_cidr"          -> is_ipv4_address_in_cidr(c, row)
    [] c.fn = "is_ipv6_address_in_cidr"          -> is_ipv6_address_in_cidr(c, row)

-----------------------------------------------------------------------------
(* Arguments a function refuses when the check is built *)

SupportedCountries == {"IN", "US"}

Valid(c) ==
  CASE c.fn \in {"is_in_list", "is_not_in_list", "is_not_null_and_is_in_list"} -> c.list # {}
    [] c.fn \in {"is_equal_to", "is_not_equal_to"} -> c.abs >= 0 /\ c.rel >= 0
    [] c.fn \in {"is_ipv4_address_in_cidr", "is_ipv6_address_in_cidr"} -> c.prefix <= Bits
    [] c.fn = "is_valid_national_id" -> c.country \in SupportedCountries
    [] OTHER -> TRUE

-----------------------------------------------------------------------------
(* The instances that are checked *)

Numbers == {Null, 0, 1, 2, 3, 4}
Words == Texts \cup {Null}
Cells(values) == [x : values, y : values]
Only(values) == [x : values, y : {Null}]
Traits == {"UUID", "UUID_STRICT", "EMAIL", "URL", "IPV4", "US", "ISO", "iso"}
TraitSets == {T \in SUBSET Traits : ("UUID_STRICT" \in T => "UUID" \in T) /\ Cardinality(T) <= 2} \cup {Null}

\* At most two digits before and after the point, at least one in all.
Decimals ==
  [integer : {<<>>} \cup [1..1 -> {0, 5}] \cup [1..2 -> {0, 5}], fraction : {<<>>} \cup [1..1 -> {0, 5}] \cup [1..2 -> {0, 5}],
   exponent : -2..2]

Inputs ==
  ([fn : {"is_not_null_and_not_empty", "is_not_empty", "is_not_null", "is_null", "is_empty", "is_null_or_empty"},
    trim : BOOLEAN] \X Only(Words))
  \cup ([fn : {"is_not_null_and_not_empty_array"}] \X Only({Null, <<>>, <<1>>}))
  \cup ([fn : {"has_valid_string_case"}, lower : BOOLEAN] \X Only(Words))
  \cup ([fn : {"is_in_list", "is_not_in_list", "is_not_null_and_is_in_list"}, case_sensitive : BOOLEAN,
          list : {{}, {"A"}, {"a", "b"}, {"b", ColumnY}}] \X Cells(Words))
  \cup ([fn : {"sql_expression"}, negate : BOOLEAN] \X Only({TRUE, FALSE, Null}))
  \cup ([fn : {"is_older_than_col2_for_n_days", "is_older_than_n_days"}, days : 0..2, now : {3}, negate : BOOLEAN]
         \X Cells(Numbers))
  \cup ([fn : {"is_not_in_future", "is_not_in_near_future"}, now : {2}, offset : 0..2] \X Only(Numbers))
  \cup ([fn : {"is_data_fresh"}, limit : {2, ColumnY}, age : 0..2] \X Cells(Numbers))
  \cup ([fn : {"is_equal_to", "is_not_equal_to"}, limit : {2, ColumnY}, abs : -1..1, rel : {0, 50}, allow_nulls : BOOLEAN]
         \X Cells(Numbers))
  \cup ([fn : {"is_not_less_than", "is_not_greater_than"}, limit : {2, ColumnY}, allow_nulls : BOOLEAN] \X Cells(Numbers))
  \cup ([fn : {"is_in_range", "is_not_in_range"}, min : {1}, limit : {3, ColumnY}, allow_nulls : BOOLEAN] \X Cells(Numbers))
  \cup ([fn : {"has_num_decimal_places"}, limit : {0, 1, 2, ColumnY}, allow_nulls : BOOLEAN]
         \X Only({d \in Decimals : d.integer \o d.fraction # <<>>} \cup {Null, Malformed}))
  \cup ([fn : {"regex_match"}, pattern : {"EMAIL"}, negate : BOOLEAN] \X Only(TraitSets))
  \cup ([fn : {"is_valid_date"}, pattern : {"EMAIL"}] \X Only(TraitSets))
  \cup ([fn : {"is_valid_ipv4_address", "is_valid_email", "is_valid_url"}] \X Only(TraitSets))
  \cup ([fn : {"is_valid_national_id"}, country : {"US", "XX"}] \X Only(TraitSets))
  \cup ([fn : {"is_valid_uuid"}, strict : BOOLEAN] \X Only(TraitSets))
  \cup ([fn : {"is_valid_iso_code"}, pattern : {"alpha", "numeric"}, case_sensitive : BOOLEAN] \X Only(TraitSets))
  \cup ([fn : {"is_valid_subdivision_code"}, country : BOOLEAN, case_sensitive : BOOLEAN] \X [x : TraitSets, y : Words])
  \cup ([fn : {"is_ipv4_address_in_cidr", "is_ipv6_address_in_cidr"}, prefix : 0..Bits + 1, block : Addresses]
         \X Only(Addresses \cup {Null, Malformed}))

Init == input \in Inputs /\ output = Pending

\* The check is built, or refused, and its condition evaluated on the row;
\* make_condition leaves NULL unless the condition is TRUE.
Evaluate ==
  /\ output = Pending
  /\ output' = IF ~Valid(input[1]) THEN "refused"
               ELSE IF Condition3(input[1], input[2]) = TRUE THEN "flagged" ELSE "passed"
  /\ UNCHANGED input

Next == Evaluate

-----------------------------------------------------------------------------
(* Properties *)

Has(c, field) == field \in DOMAIN c

Rejecting == {"is_not_null", "is_not_null_and_not_empty", "is_not_null_and_is_in_list", "is_not_null_and_not_empty_array"}

\* A NULL cell is flagged by the checks that are documented to refuse it and
\* by no other, whatever the limit, the list or the second column hold
\* (make_condition, _make_condition_handling_nulls).
NullsPassUnlessRefused ==
  LET c == input[1] IN
  output \in {"flagged", "passed"} /\ input[2].x = Null =>
    (output = "flagged" <=> c.fn \in Rejecting \/ (Has(c, "allow_nulls") /\ ~c.allow_nulls))

ValueOf(base, digits) ==
  LET value[n \in 0..Len(digits)] == IF n = 0 THEN 0 ELSE base * value[n - 1] + digits[n] IN value[Len(digits)]

\* num * 10^places is an integer.
FitsIn(num, places) ==
  LET shift == num.exponent - Len(num.fraction) + places IN
  shift >= 0 \/ ValueOf(10, num.integer \o num.fraction) % 10 ^ (-shift) = 0

SameNetwork(a, b, prefix) ==
  ValueOf(2, a) \div 2 ^ (Bits - prefix) = ValueOf(2, b) \div 2 ^ (Bits - prefix)

\* What the functions document of a cell that is not NULL, in arithmetic and
\* sets instead of column expressions.
Documented(c, x, y) ==
  LET v == get_limit_expr(c.limit, [x |-> x, y |-> y]) IN
  CASE c.fn = "is_in_range"      -> IF v = Null THEN x < c.min ELSE x \notin c.min..v
    [] c.fn = "is_not_in_range"  -> v # Null /\ x \in c.min..v
    [] c.fn = "is_not_less_than" -> v # Null /\ x < v
    [] c.fn = "is_not_greater_than" -> v # Null /\ x > v
    [] c.fn = "is_equal_to"      -> v # Null /\ (IF c.limit = ColumnY THEN x # v ELSE x \notin (v - c.abs)..(v + c.abs)
                                                  /\ 100 * (IF x > v THEN x - v ELSE v - x) > c.rel * (IF x > v THEN x ELSE v))
    [] c.fn = "has_num_decimal_places" -> x = Malformed \/ v = Null \/ ~FitsIn(x, v)

\* Limits, ranges, tolerances and decimal places are judged by the value of
\* the number, and membership in a block of addresses by its value as a
\* number: the expressions the code builds on digits, bits and three-valued
\* comparisons agree with that (has_num_decimal_places,
\* _get_network_address, is_in_range, is_equal_to).
FlagsWhatIsDocumented ==
  LET c == input[1]  x == input[2].x  y == input[2].y IN
  output \in {"flagged", "passed"} /\ x # Null =>
    /\ c.fn \in {"is_in_range", "is_not_in_range", "is_not_less_than", "is_not_greater_than", "is_equal_to",
                 "has_num_decimal_places"} => (output = "flagged" <=> Documented(c, x, y))
    /\ c.fn \in {"is_ipv4_address_in_cidr", "is_ipv6_address_in_cidr"} =>
         (output = "flagged" <=> x = Malformed \/ ~SameNetwork(x, c.block, c.prefix))

\* What is_older_than_n_days documents: a value that is at least N days older
\* than the current date passes.
AtLeastNDaysOldPasses ==
  LET c == input[1] IN
  c.fn = "is_older_than_n_days" /\ ~c.negate /\ input[2].x # Null /\ output # Pending =>
    (input[2].x <= c.now - c.days => output = "passed")
=============================================================================
