------------------------------- MODULE Engine -------------------------------
(***************************************************************************)
(* DQEngineCore.apply_checks: a list of checks applied to the rows of a    *)
(* table, what it writes into the result columns, how the rows are split   *)
(* into the output and the quarantine table, and the summary metrics that  *)
(* are observed on the way.                                                *)
(*                                                                         *)
(* A row has a value v, which the checks look at, and the outcome k of the *)
(* filter a check may carry.  There is a check of each kind the engine     *)
(* tells apart: a row rule (the value is bad), a row-preserving dataset    *)
(* rule with a shared aggregate (more than one row), and a dataset rule    *)
(* that may change the rows (it drops the bad ones and flags the rest).    *)
(* A check is equal to another exactly when their fingerprints are.        *)
(***************************************************************************)
EXTENDS SparkSQL, Sequences, SequencesExt, FiniteSetsExt, Naturals

CONSTANT Pending

VARIABLES
  input,    \* the rows, the checks and the options of the engine
  output    \* the checked rows, the tables they are saved in and the metrics

-----------------------------------------------------------------------------
(* DQRuleManager *)

has_unsafe_filter(check) == check.defect = "unsafe_filter"
has_invalid_columns(check) == check.defect = "column"
has_invalid_filter(check) == has_unsafe_filter(check) \/ check.defect = "filter"
has_invalid_custom_message(check) == check.defect = "message"
invalid_sql_expression(check) == check.defect = "expression"

\* is_skipped, and whether skip_message is not empty.
is_skipped(check) ==
  \/ has_invalid_columns(check)
  \/ has_invalid_filter(check)
  \/ has_invalid_custom_message(check)
  \/ invalid_sql_expression(check)

filter_condition(check, row) == check.filter => row.k = TRUE

\* The rows an aggregate is computed from: the filter is pushed down.
Aggregated(check, rows) == SelectSeq(rows, LAMBDA r : filter_condition(check, r))

_keeps_input_rows(check) == check.kind # "reshape"

\* The data frame a dataset rule returns, with the rows it flags marked.
CheckDf(check, rows, aggregated) ==
  LET Mark(row, flagged) == IF flagged THEN [row EXCEPT !.marks = @ \cup {check}] ELSE row IN
  CASE check.kind = "row"     -> rows
    [] check.kind = "count"   -> [n \in DOMAIN rows |-> Mark(rows[n], Len(Aggregated(check, aggregated)) > 1)]
    [] check.kind = "reshape" -> LET kept == SelectSeq(rows, LAMBDA r : r.v = "ok") IN
                                 [n \in DOMAIN kept |-> Mark(kept[n], TRUE)]

RawCondition(check, row) == IF check.kind = "row" THEN row.v = "bad" ELSE check \in row.marks

\* process and _wrap_result: the entry a check leaves in the array of a row.
Results(check, row, suppress_skipped) ==
  IF is_skipped(check)
  THEN IF suppress_skipped THEN {} ELSE {[check |-> check, skipped |-> TRUE]}
  ELSE IF filter_condition(check, row) /\ RawCondition(check, row)
       THEN {[check |-> check, skipped |-> FALSE]} ELSE {}

-----------------------------------------------------------------------------
(* DQEngineCore *)

_get_check_columns(checks, criticality) == SelectSeq(checks, LAMBDA c : c.criticality = criticality)

\* checks_before_row_changes: the checks before the first that may change rows.
BeforeRowChanges(ordered) ==
  {n \in DOMAIN ordered : \A m \in 1..n : _keeps_input_rows(ordered[m])}

\* input_managers: the ones of them that read the input, and share aggregates.
InputManagers(ordered) ==
  {n \in BeforeRowChanges(ordered) : ordered[n].kind # "row" /\ ~is_skipped(ordered[n])}

\* _create_results_array for the checks from place a on: the rows after each
\* check in turn; the conditions are evaluated on the last of these frames.
CreateResultsArray(rows, checks, a, inputDf, shared, suppress, column) ==
  LET Step(frame, n) ==
        IF is_skipped(checks[n]) THEN frame
        ELSE CheckDf(checks[n], frame, IF a + n \in shared THEN inputDf ELSE frame)
      current == FoldLeftDomain(Step, rows, checks)
      Array(row) == UNION {Results(checks[n], row, suppress) : n \in DOMAIN checks}
  IN [n \in DOMAIN current |->
        IF column = "errors" THEN [current[n] EXCEPT !.errors = Array(current[n])]
        ELSE [current[n] EXCEPT !.warnings = Array(current[n])]]

\* _append_empty_checks leaves both columns NULL, which {} stands for.
Unchecked(rows) == [n \in DOMAIN rows |->
  [v |-> rows[n].v, k |-> rows[n].k, marks |-> {}, errors |-> {}, warnings |-> {}]]

apply_checks(rows, checks, suppress) ==
  LET errors   == _get_check_columns(checks, "error")
      warnings == _get_check_columns(checks, "warn")
      df       == Unchecked(rows)
      shared   == InputManagers(errors \o warnings)
      checked  == CreateResultsArray(df, errors, 0, df, shared, suppress, "errors")
  IN IF checks = <<>> THEN df
     ELSE CreateResultsArray(checked, warnings, Len(errors), df, shared, suppress, "warnings")

get_valid(df) == SelectSeq(df, LAMBDA r : r.errors = {})
get_invalid(df) == SelectSeq(df, LAMBDA r : r.errors # {} \/ r.warnings # {})

-----------------------------------------------------------------------------
(* DQMetricsObserver *)

CountIf(df, P(_)) == Cardinality({n \in DOMAIN df : P(df[n])})

_count_matches(column, check) == \E entry \in column : entry.check = check

\* A bug: only the filter decides.
CountedByFilter(check, df, skipped) == CountIf(df, LAMBDA r : filter_condition(check, r))

\* _build_checked_count_expr; skipped holds the fingerprints of skipped checks.
CheckedCount(check, df, skipped) ==
  IF check \in skipped \/ has_unsafe_filter(check) THEN 0
  ELSE CountIf(df, LAMBDA r : filter_condition(check, r))

\* get_metrics over the checked rows.
get_metrics(checks, df, skipped) ==
  [input_row_count   |-> Len(df),
   error_row_count   |-> CountIf(df, LAMBDA r : r.errors # {}),
   warning_row_count |-> CountIf(df, LAMBDA r : r.warnings # {}),
   valid_row_count   |-> CountIf(df, LAMBDA r : r.errors = {} /\ r.warnings = {}),
   check_metrics     |-> [n \in DOMAIN checks |->
     [error_count   |-> CountIf(df, LAMBDA r : _count_matches(r.errors, checks[n])),
      warning_count |-> CountIf(df, LAMBDA r : _count_matches(r.warnings, checks[n])),
      checked_count |-> CheckedCount(checks[n], df, skipped)]]]

\* The fingerprints _create_results_array collects, and the ones that
\* compute_summary_metrics finds again afterwards.
SkippedChecks(checks) == {checks[n] : n \in {m \in DOMAIN checks : is_skipped(checks[m])}}

-----------------------------------------------------------------------------
(* Inputs and evaluation *)

Rows == BoundedSeq([v : {"ok", "bad"}, k : {TRUE, FALSE, Null}], 2)

\* Only a filter that is there can be unsafe.
Checks == BoundedSeq({c \in [kind : {"row", "count", "reshape"}, criticality : {"error", "warn"},
                             filter : BOOLEAN, defect : {"none", "column", "unsafe_filter"}] :
                        c.defect = "unsafe_filter" => c.filter}, 2)

Init ==
  /\ input \in [rows : Rows, checks : Checks, suppress_skipped : BOOLEAN, quarantine : BOOLEAN]
  /\ output = Pending

\* apply_checks_and_save_in_table on a batch: the checked rows are split when
\* there is a quarantine table (_save_valid_and_invalid).
Save ==
  /\ output = Pending
  /\ LET df == apply_checks(input.rows, input.checks, input.suppress_skipped) IN
     output' = [checked    |-> df,
                output     |-> IF input.quarantine THEN get_valid(df) ELSE df,
                quarantine |-> IF input.quarantine THEN get_invalid(df) ELSE <<>>,
                metrics    |-> get_metrics(input.checks, df, SkippedChecks(input.checks))]
  /\ UNCHANGED input

Next == Save

-----------------------------------------------------------------------------
(* Properties *)

Ordered == _get_check_columns(input.checks, "error") \o _get_check_columns(input.checks, "warn")

\* The rows that are left for the n-th check when the earlier ones have run.
Left(n) ==
  IF \E m \in 1..(n - 1) : Ordered[m].kind = "reshape" /\ ~is_skipped(Ordered[m])
  THEN SelectSeq(input.rows, LAMBDA r : r.v = "ok") ELSE input.rows

Flags(check, row, rows) ==
  CASE check.kind = "row"     -> row.v = "bad"
    [] check.kind = "count"   -> Len(Aggregated(check, rows)) > 1
    [] check.kind = "reshape" -> TRUE

\* A row that is delivered carries an entry of a check exactly when the check,
\* run alone on the rows that reach it, reports that row: aggregates computed
\* once for all checks, the split by criticality and checks that change the
\* rows make no difference (apply_checks, _create_results_array).
SharingChangesNothing ==
  output # Pending =>
    \A n \in DOMAIN Ordered, i \in DOMAIN output.checked :
      LET check == Ordered[n]
          row == output.checked[i]
          column == IF check.criticality = "error" THEN row.errors ELSE row.warnings
      IN ~is_skipped(check) /\ (\A m \in DOMAIN Ordered : m # n => Ordered[m] # check) =>
           ([check |-> check, skipped |-> FALSE] \in column
              <=> filter_condition(check, row) /\ Flags(check, row, Left(n)))

\* Every checked row is in a table, a row with errors only in the quarantine,
\* and the metrics count what the tables hold; a check that was skipped counts
\* as not checked, and no check that ran reports more rows than it checked
\* (_save_valid_and_invalid, get_metrics).
MetricsAgreeWithTables ==
  output # Pending =>
    LET m == output.metrics IN
    /\ input.quarantine =>
         /\ Len(output.output) = m.input_row_count - m.error_row_count
         /\ Len(output.quarantine) = m.input_row_count - m.valid_row_count
         /\ \A n \in DOMAIN output.checked :
              output.checked[n] \in ToSet(output.output) \cup ToSet(output.quarantine)
    /\ (\A n \in DOMAIN input.checks : _keeps_input_rows(input.checks[n]) \/ is_skipped(input.checks[n])) =>
         m.input_row_count = Len(input.rows)
    /\ \A n \in DOMAIN input.checks :
         LET c == m.check_metrics[n] IN
         IF is_skipped(input.checks[n])
         THEN /\ c.checked_count = 0
              /\ c.error_count + c.warning_count = (IF input.suppress_skipped THEN 0 ELSE m.input_row_count)
         ELSE c.error_count + c.warning_count <= c.checked_count
=============================================================================
