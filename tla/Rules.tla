------------------------------- MODULE Rules --------------------------------
(***************************************************************************)
(* Quality rules as data: a check written as a dictionary is validated     *)
(* (checks_validator.py), turned into rules (checks_serializer.py,         *)
(* rule.py), and stored as a file, as rows of a table or as JSON, from     *)
(* where it is read back (checks_storage.py).                              *)
(*                                                                         *)
(* A dictionary has every key; a key that is not there has value Null.     *)
(* The arguments of a check are a function on the names that are given.    *)
(* Argument values carry their Python type.                                *)
(***************************************************************************)
EXTENDS SequencesExt

CONSTANTS Null, Pending, Malformed, Raised

VARIABLES input, output

-----------------------------------------------------------------------------
(* Check functions *)

\* inspect.signature and CHECK_FUNC_REGISTRY for five kinds of functions; the
\* last is a function of the user that is not registered.
Function(type, required, optional) == [type |-> type, parameters |-> required \o optional, required |-> ToSet(required)]

Signatures ==
  [in_range       |-> Function("row", <<"column">>, <<"limit">>),
   is_unique      |-> Function("dataset", <<"columns">>, <<"row_filter">>),
   is_aggr        |-> Function("dataset", <<"column", "limit">>, <<"row_filter">>),
   sql_expression |-> Function("row", <<"limit">>, <<"columns">>),
   custom         |-> Function(Null, <<"column">>, <<"limit">>)]

Predefined == DOMAIN Signatures \ {"custom"}

\* resolve_check_function: predefined functions, then those of the caller.
resolve_check_function(name, customs) == name \in Predefined \cup customs

Parameters(f) == ToSet(Signatures[f].parameters)

\* _is_optional_argument, for an argument the function has
Optional(f, p) == p \in Parameters(f) \ Signatures[f].required

\* _matches_type: columns are lists, everything else is no list.
_matches_type(p, v) ==
  IF p = "columns" THEN v[1] = "list" /\ \A n \in DOMAIN v[2] : v[2][n] # Null
  ELSE IF p \in {"column", "row_filter"} THEN v[1] = "text" ELSE v[1] \in {"int", "text", "date", "decimal"}

-----------------------------------------------------------------------------
(* Validation *)

\* _validate_func_args, _missing_required_arguments
ArgumentsFit(f, args) ==
  /\ DOMAIN args # {}
  /\ \A p \in DOMAIN args : p \in Parameters(f) /\ _matches_type(p, args[p])
  /\ Signatures[f].required \subseteq DOMAIN args

\* _validate_check_function_arguments: each column of for_each_column in turn.
EffectiveArguments(c) ==
  IF c.for_each = Null THEN {c.arguments}
  ELSE LET p == IF "columns" \in Parameters(c.function) THEN "columns" ELSE "column"
       IN {[q \in DOMAIN c.arguments \cup {p} |-> IF q = p THEN c.for_each[n] ELSE c.arguments[q]] : n \in DOMAIN c.for_each}

\* CheckSpec.criticality_errors
CriticalityFits(c) == c.criticality \in {Null, "warn", "error"}

\* validate_checks: ChecksValidator.validate_and_parse, CheckBlock, CheckSpec.
validate_check(c, customs) ==
  /\ c.function # Null /\ c.arguments # Malformed
  /\ c.for_each \notin {Malformed, <<>>}
  /\ CriticalityFits(c)
  /\ resolve_check_function(c.function, customs)
  /\ \A args \in EffectiveArguments(c) : ArgumentsFit(c.function, args)

-----------------------------------------------------------------------------
(* Rules *)

ValueAt(args, p) == IF p \in DOMAIN args THEN args[p] ELSE Null
Without(args, names) == [p \in DOMAIN args \ names |-> args[p]]

\* _build_args: the columns a function must have, then the positional arguments.
BuildArgs(r) ==
  LET Of(p, v) == IF v # Null /\ p \in Signatures[r.function].required THEN <<v>> ELSE <<>>
  IN Of("column", r.column) \o Of("columns", r.columns) \o r.args

\* _build_kwargs: the columns a function may have, and the rule's filter as
\* the row_filter of a function that has one.
BuildKwargs(r) ==
  LET f == r.function
      own == [p \in {q \in {"column", "columns"} : Optional(f, q) /\ r[q] # Null} |-> r[p]]
      filter == [p \in {q \in {"row_filter"} : r.filter # Null /\ q \in Parameters(f)} |-> r.filter]
      base == [p \in {q \in DOMAIN r.kwargs : q \in {"column", "columns"} => Optional(f, q)} |-> r.kwargs[p]]
  IN filter @@ own @@ base

\* prepare_check_func_args_and_kwargs bound to the signature; what cannot be
\* bound is a TypeError.
BoundTo(signature, args, kwargs) ==
  LET names == signature.parameters
      positional == {names[n] : n \in 1..IF Len(args) < Len(names) THEN Len(args) ELSE Len(names)}
  IN IF \/ Len(args) > Len(names) \/ positional \cap DOMAIN kwargs # {} \/ DOMAIN kwargs \ ToSet(names) # {}
        \/ signature.required \ (positional \cup DOMAIN kwargs) # {}
     THEN Raised
     ELSE [p \in positional \cup DOMAIN kwargs |->
             IF p \in DOMAIN kwargs THEN kwargs[p] ELSE args[CHOOSE n \in DOMAIN args : names[n] = p]]
Bound(r) == BoundTo(Signatures[r.function], BuildArgs(r), BuildKwargs(r))

\* get_limit_expr: a date and the text of a date are one limit; sets and lists of columns keep their order.
Meaning(v) == IF v[1] = "date" THEN <<"text", v[2]>> ELSE v

\* _populate_columns_from_kwargs
Populated(r) ==
  [r EXCEPT !.column = IF @ = Null THEN ValueAt(r.kwargs, "column") ELSE @,
            !.columns = IF @ = Null THEN ValueAt(r.kwargs, "columns") ELSE @]

\* DQRule: _reject_none_columns, _validate_rule_type, _validate_attributes,
\* get_check_condition and the name the condition gives when there is none.
Validated(class, r, bound) ==
  LET f == r.function
      type == Signatures[f].type
  IN IF \/ type # Null /\ type # class
        \/ r.criticality \notin {"warn", "error"}
        \/ r.column # Null /\ r.columns # Null
        \/ r.columns # Null /\ Null \in ToSet(r.columns[2])
        \/ r.columns = <<"list", <<>>>> /\ "columns" \in Signatures[f].required
        \/ bound = Raised
     THEN Raised
     ELSE [r EXCEPT !.name = IF @ = Null THEN <<f, [p \in DOMAIN bound |-> Meaning(bound[p])]>> ELSE @]
ConstructedOf(class, r) == Validated(class, r, Bound(r))
Constructed(class, raw) == ConstructedOf(class, Populated(raw))

\* effective_filter: the rule's filter, or the row_filter it was given.
effective_filter(r) == IF r.filter # Null THEN r.filter ELSE ValueAt(Bound(r), "row_filter")

\* Mutant: what is read is taken as it was written.
AsWritten(v) == v

\* normalize_bound_args and denormalize_value: a date becomes a text for good,
\* a decimal is marked and comes back.
Normalized(v) == CASE v[1] = "date" -> <<"text", v[2]>> [] v[1] = "decimal" -> <<"__decimal__", v[2]>> [] OTHER -> v
Denormalized(v) == IF v[1] = "__decimal__" THEN <<"decimal", v[2]>> ELSE v

NormalizedArguments(args) == [p \in DOMAIN args |-> Normalized(args[p])]
DenormalizedArguments(args) == [p \in DOMAIN args |-> Denormalized(args[p])]

\* DQRule.to_dict: a decimal is marked here already, and only what reads a
\* store removes the mark.
to_dict(r) ==
  [name |-> r.name, criticality |-> r.criticality, function |-> r.function, arguments |-> NormalizedArguments(Bound(r)),
   for_each |-> Null, filter |-> r.filter, user_metadata |-> r.user_metadata, message_expr |-> r.message_expr]

\* compute_rule_fingerprint: neither user_metadata nor message_expr is in it.
compute_rule_fingerprint(d) ==
  <<d.name, IF d.criticality = Null THEN "error" ELSE d.criticality, d.function, NormalizedArguments(d.arguments), d.filter,
    IF d.for_each = Null THEN Null ELSE ToSet(d.for_each)>>

RuleFingerprint(r) == compute_rule_fingerprint(to_dict(r))

\* compute_rule_set_fingerprint: the order of the rules does not count.
compute_rule_set_fingerprint(rules) ==
  LET prints == {RuleFingerprint(rules[n]) : n \in DOMAIN rules}
  IN [p \in prints |-> Cardinality({n \in DOMAIN rules : RuleFingerprint(rules[n]) = p})]

-----------------------------------------------------------------------------
(* Dictionaries to rules and back *)

RuleOf(c, column, columns) ==
  [function |-> c.function, name |-> c.name, criticality |-> IF c.criticality = Null THEN "error" ELSE c.criticality,
   column |-> column, columns |-> columns, filter |-> c.filter, args |-> <<>>, kwargs |-> Without(c.arguments, {"column", "columns"}),
   user_metadata |-> c.user_metadata, message_expr |-> c.message_expr]

\* The class ChecksDeserializer and DQForEachColRule choose.
ClassOf(f) == IF Signatures[f].type = "dataset" THEN "dataset" ELSE "row"

\* DQForEachColRule.get_rules
get_rules(c) ==
  [n \in DOMAIN c.for_each |->
     LET v == c.for_each[n] IN
     Constructed(ClassOf(c.function), IF v[1] = "list" THEN RuleOf(c, Null, v) ELSE RuleOf(c, v, Null))]

\* ChecksDeserializer.deserialize of one dictionary
AllOrRaised(rules) == IF Raised \in ToSet(rules) THEN Raised ELSE rules
deserialize(c, customs) ==
  IF ~validate_check(c, customs) THEN Raised
  ELSE AllOrRaised(IF c.for_each # Null THEN get_rules(c)
                   ELSE <<Constructed(ClassOf(c.function), RuleOf(c, ValueAt(c.arguments, "column"), ValueAt(c.arguments, "columns")))>>)

\* resolve_name_and_fingerprint: the stored name of a check that is one rule.
StoredName(c, customs) == IF c.for_each # Null THEN c.name ELSE deserialize(c, customs)[1].name

\* serialize_to_bytes and deserialize_from_file; to_dataframe,
\* _row_to_check_dict and project_to_check_schema; _normalize_checks and
\* _load_checks_from_lakebase.
Stored(c, kind, customs) ==
  LET written == [c EXCEPT !.arguments = NormalizedArguments(@)]
      row == [written EXCEPT !.name = StoredName(c, customs), !.criticality = IF @ = Null THEN "error" ELSE @]
      read == IF kind = "file" THEN written ELSE row
  IN [read EXCEPT !.arguments = DenormalizedArguments(@)]

-----------------------------------------------------------------------------
(* Rule sets: checks_semantic_validator.py *)

\* _full_key, _conflict_key: columns in any order are the same columns.
Unordered(args) == [p \in DOMAIN args |-> IF p = "columns" /\ args[p][1] = "list" THEN <<"set", ToSet(args[p][2])>> ELSE args[p]]

_full_key(c) ==
  <<c.function, Unordered(c.arguments), IF c.for_each = Null THEN Null ELSE ToSet(c.for_each),
    IF c.criticality = Null THEN "error" ELSE c.criticality, c.filter>>

_conflict_key(c) ==
  LET column == IF "column" \in DOMAIN c.arguments THEN c.arguments.column ELSE ValueAt(Unordered(c.arguments), "columns")
  IN IF column = Null THEN Null ELSE <<c.function, column>>

\* detect_duplicates, detect_conflicts on two checks.
Duplicate(c, d) == _full_key(c) = _full_key(d)
Conflict(c, d) == _conflict_key(c) # Null /\ _conflict_key(c) = _conflict_key(d) /\ Unordered(c.arguments) # Unordered(d.arguments)

-----------------------------------------------------------------------------
(* Inputs and evaluation *)

Text(t) == <<"text", t>>
List(s) == <<"list", s>>

ArgumentSets ==
  LET some(p) == CASE p = "column" -> {Text("a"), List(<<"a">>)}
                   [] p = "columns" -> {List(<<"a", "b">>), List(<<"b", "a">>), List(<<>>), List(<<Null>>), Text("a")}
                   [] p = "limit" -> {<<"int", 1>>, <<"date", "d">>, <<"decimal", 1>>, List(<<"a">>)}
                   [] p = "row_filter" -> {Text("p"), <<"int", 1>>}
  IN {<<>>, [limit |-> <<"int", 1>>]}
     \cup UNION {[S -> UNION {some(p) : p \in S}] : S \in {{"column"}, {"columns"}, {"columns", "row_filter"}}}
     \cup {[column |-> c, limit |-> l] : c \in some("column"), l \in some("limit")}
     \cup {[column |-> Text("a"), limit |-> <<"int", 1>>, row_filter |-> f] : f \in some("row_filter")}
     \cup {[columns |-> c, limit |-> Text("e")] : c \in some("columns")}

Check(f, args, each, name, criticality, filter, message) ==
  [function |-> f, arguments |-> args, for_each |-> each, name |-> name, criticality |-> criticality, filter |-> filter,
   user_metadata |-> Null, message_expr |-> message]

Dicts ==
  {Check(f, args, each, name, Null, filter, Null) :
     f \in DOMAIN Signatures \cup {Null, "unknown"}, args \in ArgumentSets \cup {Malformed}, name \in {Null, "n"},
     each \in {Null, <<>>, Malformed, <<Text("a"), Text("b")>>, <<List(<<"a">>), List(<<"a", "b">>)>>, <<Text("a"), List(<<"a">>)>>},
     filter \in {Null, Text("p"), Text("q")}}
  \cup {Check("in_range", [column |-> Text("a")], Null, Null, crit, Null, msg) : crit \in {Null, "warn", "fatal"}, msg \in {Null, "m"}}

Rulesets == LET plain == {c \in Dicts : c.name = Null /\ c.filter = Null /\ c.arguments # Malformed /\ c.for_each = Null
                                        /\ c.function \in {"is_unique", "in_range"}}
            IN plain \X plain

\* Rules built by a program, with positional arguments.
Built ==
  [class : {"row", "dataset"},
   rule : [function : DOMAIN Signatures, name : {Null}, criticality : {"error"}, column : {Null, Text("a")},
           columns : {Null, List(<<"a", "b">>), List(<<>>)}, filter : {Null, Text("q")},
           args : {<<>>, <<<<"int", 1>>>>, <<<<"date", "d">>, Text("p")>>},
           kwargs : {<<>>, [limit |-> <<"decimal", 1>>], [row_filter |-> Text("p")], [column |-> Text("b")]},
           user_metadata : {Null}, message_expr : {Null}]]

Inputs ==
  [part : {"dict"}, dict : Dicts, customs : {{}, {"custom"}}]
  \cup [part : {"built"}, built : Built]
  \cup [part : {"set"}, pair : Rulesets]

Init == input \in Inputs /\ output = Pending

\* deserialize_checks, the constructor of a rule, ChecksSemanticValidator.
Evaluate ==
  /\ output = Pending
  /\ output' = CASE input.part = "dict" -> deserialize(input.dict, input.customs)
                 [] input.part = "built" -> Constructed(input.built.class, input.built.rule)
                 [] input.part = "set" -> [duplicate |-> Duplicate(input.pair[1], input.pair[2]),
                                           conflict |-> Conflict(input.pair[1], input.pair[2])]
  /\ UNCHANGED input

Next == Evaluate

-----------------------------------------------------------------------------
(* Properties *)

Customs == {"custom"}
SameRules(rules, others) ==
  /\ others # Raised /\ Len(rules) = Len(others)
  /\ \A n \in DOMAIN rules : RuleFingerprint(rules[n]) = RuleFingerprint(others[n]) /\ effective_filter(rules[n]) = effective_filter(others[n])

\* Whatever a rule was made from, it survives storage: the dictionary of a
\* rule gives the same rule back, with the fingerprint under which its set is
\* stored and the same filter, and so does a dictionary that went through a
\* file, a table or a database (to_dict, _build_kwargs, to_dataframe,
\* serialize_to_bytes); a check that passes validation becomes rules unless
\* its list of columns is empty, and for_each_column gives what the columns
\* give one by one.  Two checks that are not reported as duplicates are
\* different rules, the order of their columns aside.
RulesSurviveStorage ==
  output # Pending =>
    /\ input.part = "built" /\ output # Raised /\ ArgumentsFit(output.function, Bound(output)) =>
         SameRules(<<output>>, deserialize(Stored(to_dict(output), "file", Customs), Customs))
    /\ input.part = "dict" =>
         LET c == input.dict IN
         /\ output # Raised =>
              /\ \A kind \in {"file", "table", "lakebase"} : SameRules(output, deserialize(Stored(c, kind, input.customs), input.customs))
              /\ \A n \in DOMAIN output : SameRules(<<output[n]>>, deserialize(Stored(to_dict(output[n]), "file", input.customs), input.customs))
              /\ c.for_each # Null =>
                   \A n \in DOMAIN c.for_each :
                     LET p == IF c.for_each[n][1] = "list" THEN "columns" ELSE "column"
                         alone == [c EXCEPT !.for_each = Null, !.arguments = Without(@, {"column", "columns"}) @@ (p :> c.for_each[n])]
                     IN SameRules(<<output[n]>>, deserialize(alone, input.customs))
         /\ output = Raised /\ validate_check(c, input.customs) =>
              \E args \in EffectiveArguments(c) : ValueAt(args, "columns") = List(<<>>)
    /\ input.part = "set" =>
         LET c == input.pair[1]  d == input.pair[2]
             r == deserialize(c, {})  s == deserialize(d, {})
         IN r # Raised /\ s # Raised /\ r[1].function = s[1].function =>
              (output.duplicate <=> r[1].criticality = s[1].criticality /\ Unordered(Bound(r[1])) = Unordered(Bound(s[1])))
=============================================================================
