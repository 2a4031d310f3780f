------------------------------ MODULE SparkSQL ------------------------------
(***************************************************************************)
(* The part of Spark SQL the check functions are built from: a column      *)
(* expression has a value or is NULL, comparisons and connectives follow   *)
(* Kleene's three-valued logic, and a row is flagged only when its         *)
(* condition is TRUE.                                                      *)
(***************************************************************************)
EXTENDS Integers, FiniteSets

CONSTANT Null

isNull(x) == x = Null
isNotNull(x) == x # Null

Not(p) == IF p = Null THEN Null ELSE ~p

And(p, q) == IF p = FALSE \/ q = FALSE THEN FALSE ELSE IF p = Null \/ q = Null THEN Null ELSE TRUE

Or(p, q) == Not(And(Not(p), Not(q)))

Eq(x, y) == IF x = Null \/ y = Null THEN Null ELSE x = y
Lt(x, y) == IF x = Null \/ y = Null THEN Null ELSE x < y
Gt(x, y) == Lt(y, x)
Geq(x, y) == Not(Lt(x, y))
Leq(x, y) == Not(Lt(y, x))
Plus(x, y) == IF x = Null \/ y = Null THEN Null ELSE x + y
Minus(x, y) == IF x = Null \/ y = Null THEN Null ELSE x - y

\* The null-safe equality <=>.
EqNullSafe(x, y) == x = y

\* x IN (list): FALSE only when x differs from every value and none is NULL.
IsIn(x, values) ==
  IF x = Null THEN Null
  ELSE IF x \in values THEN TRUE
  ELSE IF Null \in values THEN Null ELSE FALSE

\* when(c, x).otherwise(y)
When(c, x, y) == IF c = TRUE THEN x ELSE y

Abs(x) == IF x = Null THEN Null ELSE IF x < 0 THEN -x ELSE x

\* greatest skips NULLs.
Greatest(x, y) == IF x = Null THEN y ELSE IF y = Null THEN x ELSE IF x > y THEN x ELSE y
=============================================================================
