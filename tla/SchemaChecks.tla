---------------------------- MODULE SchemaChecks ----------------------------
(***************************************************************************)
(* has_valid_schema and the JSON checks of check_funcs.py.  A type is a    *)
(* kind with the fields of a struct, or the element of an array as its     *)
(* only field; a schema is a sequence of fields, each with a name, a type  *)
(* and whether it may be NULL.                                             *)
(*                                                                         *)
(* A JSON text is unreadable, an object or another value; an object is     *)
(* known by what it holds under each name: nothing (or null), a value of   *)
(* the expected type, a value of another type, or an object.               *)
(***************************************************************************)
EXTENDS SparkSQL, Sequences, FiniteSetsExt

CONSTANTS
  Pending,
  Malformed,   \* not JSON
  Mistyped,    \* a value that does not convert to the expected type
  Plain        \* one that does

VARIABLES
  input,    \* the check, what it checks and the schema or keys it expects
  output    \* whether it reports an error

-----------------------------------------------------------------------------
(* Schemas *)

\* The families of _is_compatible_atomic_type.
Family(kind) ==
  CASE kind \in {"int", "long", "double"} -> "number"
    [] kind \in {"string", "char"}        -> "text"
    [] kind \in {"date", "timestamp"}     -> "time"
    [] OTHER                              -> kind

Nested == {"array", "map", "struct"}

\* How deep the types that are compared nest.
MaxNesting == 2

\* What is nested in two types that are compared part by part.
Inner(pair) ==
  LET actual == pair[1]  expected == pair[2]
  IN IF actual = expected \/ actual.kind # expected.kind \/ Len(actual.of) # Len(expected.of) THEN {}
     ELSE {<<actual.of[n].type, expected.of[n].type>> : n \in DOMAIN actual.of}

\* Two types fit as far as they do not leave it to what is nested in them.  A
\* variant is an atomic type to Spark: its clause is reached against nested types only.
Fit(actual, expected) ==
  \/ actual = expected
  \/ actual.kind = "variant" /\ expected.kind \in Nested
  \/ {actual.kind, expected.kind} \cap Nested = {} /\ Family(actual.kind) = Family(expected.kind)
  \/ /\ actual.kind = expected.kind /\ actual.kind \in Nested /\ Len(actual.of) = Len(expected.of)
     /\ actual.kind = "struct" => \A n \in DOMAIN actual.of : actual.of[n].name = expected.of[n].name

\* _is_compatible_type, _is_compatible_struct_type: at every level.
Compatible(actual, expected) ==
  LET level[d \in 0..MaxNesting] == IF d = 0 THEN {<<actual, expected>>} ELSE UNION {Inner(pair) : pair \in level[d - 1]}
  IN \A d \in 0..MaxNesting : \A pair \in level[d] : Fit(pair[1], pair[2])

\* _get_strict_schema_comparison: position by position.
StrictErrors(actual, expected) ==
  {n \in DOMAIN actual \cup DOMAIN expected :
     n \notin DOMAIN actual \cap DOMAIN expected \/ actual[n] # expected[n]}

\* _get_permissive_schema_comparison: by name; of two columns with one name
\* the last is looked at.
PermissiveErrors(actual, expected) ==
  {n \in DOMAIN expected :
     LET named == {m \in DOMAIN actual : actual[m].name = expected[n].name}
     IN named = {} \/ ~Compatible(actual[Max(named)].type, expected[n].type)}

\* The columns that are compared: the chosen ones without the excluded ones.
Selected(schema, excluded) == SelectSeq(schema, LAMBDA f : f.name \notin excluded)

has_valid_schema(c, actual, expected) ==
  LET chosen == Selected(actual, c.excluded)
  IN (IF c.strict THEN StrictErrors(chosen, expected) ELSE PermissiveErrors(chosen, expected)) # {}

-----------------------------------------------------------------------------
(* JSON *)

is_valid_json(text) == IF text = Null THEN Null ELSE text = Malformed

\* json_object_keys is NULL for what is no object.
KeysOf(text) == IF text.object THEN text.keys ELSE Null

has_json_keys(c, text) ==
  IF text = Null THEN FALSE
  ELSE IF text = Malformed THEN TRUE
  ELSE LET keys == KeysOf(text)
           present == IF keys = Null THEN Null ELSE IF c.require_all THEN c.keys \subseteq keys ELSE c.keys \cap keys # {}
       IN present # TRUE

\* _generate_field_presence_checks recurses to this depth.
MaxDepth == 10

\* The value of a field of a struct that is NULL is NULL.
At(value, name) == IF value \in {Null, Plain, Mistyped} THEN Null ELSE IF name \in DOMAIN value THEN value[name] ELSE Null

\* The structs inside a struct, each with its value; those for which skipped holds are left out.
Structs(struct, skipped(_, _)) ==
  {[fields |-> f.type.of, value |-> At(struct.value, f.name)] :
     f \in {g \in {struct.fields[n] : n \in DOMAIN struct.fields} :
              g.type.kind = "struct" /\ ~skipped(g, At(struct.value, g.name))}}

PresenceHolds(fields, value) ==
  LET Absent(f, v) == f.nullable /\ v = Null
      level[d \in 0..MaxDepth] ==
        IF d = 0 THEN {[fields |-> fields, value |-> value]} ELSE UNION {Structs(s, Absent) : s \in level[d - 1]}
  IN \A d \in 0..MaxDepth : \A s \in level[d] :
       \A n \in DOMAIN s.fields : s.fields[n].nullable \/ At(s.value, s.fields[n].name) # Null

\* from_json leaves no corrupt record.
Converts(fields, value) ==
  LET Absent(f, v) == v = Null
      level[d \in 0..MaxNesting] ==
        IF d = 0 THEN {[fields |-> fields, value |-> value]} ELSE UNION {Structs(s, Absent) : s \in level[d - 1]}
  IN \A d \in 0..MaxNesting : \A s \in level[d] : \A n \in DOMAIN s.fields :
       LET v == At(s.value, s.fields[n].name)
       IN v = Null \/ (IF s.fields[n].type.kind = "struct" THEN v \notin {Plain, Mistyped} ELSE v = Plain)

has_valid_json_schema(fields, text) ==
  text # Null /\ (text = Malformed \/ ~Converts(fields, text) \/ ~PresenceHolds(fields, text))

-----------------------------------------------------------------------------
(* Inputs and evaluation *)

Atom(kind) == [kind |-> kind, of |-> <<>>]
Field(name, type, nullable) == [name |-> name, type |-> type, nullable |-> nullable]
Struct(fields) == [kind |-> "struct", of |-> fields]

Types == {Atom(k) : k \in {"int", "long", "string", "date", "variant"}}
         \cup {[kind |-> "array", of |-> <<Field("e", Atom(k), TRUE)>>] : k \in {"int", "string"}}
         \cup {Struct(<<Field(n, Atom("int"), b)>>) : n \in {"a", "b"}, b \in BOOLEAN}

Fields == [name : {"a", "b"}, type : Types, nullable : BOOLEAN]
Simple == [name : {"a", "b"}, type : {Atom("int"), Atom("string")}, nullable : BOOLEAN]

Schemas == {<<>>} \cup {<<f>> : f \in Fields} \cup {<<f, g>> : f \in Simple, g \in Simple}

JsonSchemas == {<<Field("a", Atom("int"), b), Field("s", Struct(<<Field("a", Atom("int"), d)>>), e)>> : b, d, e \in BOOLEAN}

Leaf == {Null, Plain, Mistyped}
Objects == UNION {[names -> Leaf] : names \in SUBSET {"a"}}
Documents == [a : Leaf, s : Leaf \cup Objects] \cup [s : Objects] \cup [a : Leaf]
KeyTexts == [object : {TRUE}, keys : SUBSET {"a", "b", "s"}] \cup [object : {FALSE}, keys : {{}}]

Inputs ==
  ([fn : {"schema"}, strict : BOOLEAN, excluded : {{}, {"b"}}] \X Schemas \X Schemas)
  \cup ([fn : {"json"}] \X (KeyTexts \cup {Null, Malformed}) \X {<<>>})
  \cup ([fn : {"json_keys"}, require_all : BOOLEAN, keys : (SUBSET {"a", "b"}) \ {{}}] \X (KeyTexts \cup {Null, Malformed}) \X {<<>>})
  \cup ([fn : {"json_schema"}] \X (Documents \cup {Null, Malformed}) \X JsonSchemas)

Init == input \in Inputs /\ output = Pending

Evaluate ==
  /\ output = Pending
  /\ output' = LET c == input[1]  x == input[2] IN
       CASE c.fn = "schema"      -> has_valid_schema(c, x, input[3])
         [] c.fn = "json"        -> is_valid_json(x) = TRUE
         [] c.fn = "json_keys"   -> has_json_keys(c, x)
         [] c.fn = "json_schema" -> has_valid_json_schema(input[3], x)
  /\ UNCHANGED input

Next == Evaluate

-----------------------------------------------------------------------------
(* Properties *)

Names(schema) == {schema[n].name : n \in DOMAIN schema}

\* What the strict comparison accepts the permissive one accepts too, unless
\* two columns share a name; and a nested field that may not be NULL is
\* demanded exactly when the struct around it is there (has_valid_schema,
\* _generate_field_presence_checks).
SchemaVerdictsAgree ==
  LET c == input[1]  x == input[2]  expected == input[3] IN
  output # Pending =>
    /\ c.fn = "schema" /\ c.strict /\ output = FALSE /\ Cardinality(Names(expected)) = Len(expected) =>
         ~has_valid_schema([c EXCEPT !.strict = FALSE], x, expected)
    /\ c.fn = "json_schema" /\ x \notin {Null, Malformed} /\ Converts(expected, x) =>
         LET a == At(x, "a")  s == At(x, "s") IN
         output <=> \/ a = Null /\ ~expected[1].nullable
                    \/ s = Null /\ ~expected[2].nullable
                    \/ s # Null /\ At(s, "a") = Null /\ ~expected[2].type.of[1].nullable
=============================================================================
