------------------------------ MODULE AiDrafts ------------------------------
(***************************************************************************)
(* Drafting rules with a model (services/ai_rules_service.py) through the  *)
(* gateway that counts the calls (services/ai_gateway.py).  Whatever the   *)
(* model answers, a draft handed to its author must be one that can be     *)
(* stored and bound to columns.                                            *)
(***************************************************************************)
EXTENDS Naturals, Sequences, FiniteSets, SequencesExt

CONSTANTS
  Requests,                    \* requests of one user, each with a gateway of its own
  Columns,                     \* columns a rule may be about
  None,
  Limit,                       \* calls per user and hour, 0 for no limit
  _RATE_LIMIT_WINDOW,          \* the hour, in ticks
  MaxTime, MaxCalls            \* bounds

\* Assumed: {Limit, _RATE_LIMIT_WINDOW, MaxTime, MaxCalls} \subseteq Nat

VARIABLES
  request,     \* per request: step, what was asked for, the modes to try, its gateway's _call_log
  draft,       \* per request the rule handed out, or None
  slighted,    \* history: an answer that could have been stored was turned down
  calls,       \* history: the times of the calls that reached the model
  clock

draftVars == <<request, draft, slighted, calls, clock>>

Modes == {"dqx_native", "lowcode", "sql"}
_DEFAULT_CASCADE == <<"dqx_native", "lowcode", "sql">>

\* What the model may answer: a definition of some shape about some columns.  A
\* native check may take one column, several or a list.  An argument that is not
\* for columns holds text: a literal, a placeholder, the name of a column that the
\* model also declares among its columns, or of one that it does not.
Texts == {"literal", "placeholder", "declared", "undeclared"}
Definitions ==
  [shape : {"function"}, valid : BOOLEAN, takes : {"one", "two", "list"}, value : Texts]
    \cup [shape : {"sql_query"}, safe : BOOLEAN, refs : SUBSET Columns, braced : SUBSET Columns, declared : SUBSET Columns]
    \cup [shape : {"lowcode_ast"}, usable : BOOLEAN, safe : BOOLEAN, refs : SUBSET Columns]
Answers == {[shape |-> "unparsable"], [shape |-> "decline"]}
             \cup {d \in Definitions : d.shape = "sql_query" => d.braced \subseteq d.refs}

-----------------------------------------------------------------------------
(* Validation *)

\* _derive_native_slots: a slot per column argument, as many as the list names.
_derive_native_slots(d) == IF d.takes = "one" THEN {1} ELSE {1, 2}

\* A column in an argument that is not for columns is known by its braces or by
\* being declared.  The name of another column cannot be told from a literal.
Recognised(d) == d.value \in {"placeholder", "declared"}

\* A bug: more slots than a native rule can bind are let through.
OnlySmuggled(d) == Recognised(d)

_native_needs_extra_columns(d) ==
  \/ d.takes # "list" /\ Cardinality(_derive_native_slots(d)) > 1
  \/ Recognised(d)

\* brace_bare_slot_refs: columns the model has declared become placeholders.
brace_bare_slot_refs(d) == [d EXCEPT !.braced = @ \cup (d.refs \cap d.declared)]

\* Answers that are fit for the mode they were asked in.
Sound(mode, d) ==
  CASE d.shape = "function" -> mode # "lowcode" /\ d.valid /\ d.value = "literal" /\ d.takes # "two"
    [] d.shape = "sql_query" -> mode # "lowcode" /\ d.safe
    [] d.shape = "lowcode_ast" -> mode = "lowcode" /\ d.safe /\ d.usable
    [] OTHER -> FALSE

Rule(mode, slots, d) == [mode |-> mode, slots |-> slots, definition |-> d]

\* _validate_and_repair_proposal goes by the shape of the definition.
_validate_and_repair_proposal(d) ==
  CASE d.shape = "function" ->
         IF ~d.valid \/ _native_needs_extra_columns(d) THEN None ELSE Rule("dqx_native", _derive_native_slots(d), d)
    [] d.shape = "sql_query" ->
         IF ~d.safe THEN None ELSE LET repaired == brace_bare_slot_refs(d) IN Rule("sql", repaired.braced, repaired)
    [] OTHER -> None

\* _validate_lowcode_proposal: the slots are the placeholders of the compiled SQL.
_validate_lowcode_proposal(d) ==
  IF d.shape # "lowcode_ast" THEN None
  ELSE IF ~d.usable \/ ~d.safe THEN None ELSE Rule("lowcode", d.refs, d)

_generate_in_mode(mode, answer) ==
  IF answer.shape \in {"unparsable", "decline"} THEN None
  ELSE IF mode = "lowcode" THEN _validate_lowcode_proposal(answer) ELSE _validate_and_repair_proposal(answer)

-----------------------------------------------------------------------------
(* Requests *)

\* get_ai_gateway: the call log is the gateway's, and the gateway the request's.
Begin(r, requested) ==
  /\ request[r].step = "idle" /\ draft[r] = None
  /\ request' = [request EXCEPT ![r] = [step |-> "ask", requested |-> requested, log |-> <<>>,
                                        modes |-> IF requested = None THEN _DEFAULT_CASCADE ELSE <<requested>>]]
  /\ UNCHANGED <<draft, slighted, calls, clock>>

\* _enforce_rate_limit
Recent(log) == SelectSeq(log, LAMBDA t : t + _RATE_LIMIT_WINDOW >= clock)
Allowed(log) == Limit = 0 \/ Len(Recent(log)) < Limit

End(r) == [request EXCEPT ![r].step = "over"]

\* query, and what becomes of the answer: the first draft that holds is handed
\* out, the next mode asked for the others.
Ask(r, answer) ==
  /\ request[r].step = "ask" /\ Len(calls) < MaxCalls /\ Allowed(request[r].log)
  /\ LET mode == Head(request[r].modes)
         rule == _generate_in_mode(mode, answer)
         logged == [request[r] EXCEPT !.log = Append(Recent(@), clock)]
         rest == Tail(request[r].modes)
     IN /\ draft' = [draft EXCEPT ![r] = rule]
        /\ slighted' = (slighted \/ (rule = None /\ Sound(mode, answer)))
        /\ request' = [request EXCEPT ![r] =
             IF rule # None \/ rest = <<>> THEN [logged EXCEPT !.step = "over"] ELSE [logged EXCEPT !.modes = rest]]
  /\ calls' = Append(calls, clock)
  /\ UNCHANGED clock

\* The kill-switch, the limit, a model that cannot be reached and an answer that
\* is cut off raise: the cascade ends with them.
Fails(r) ==
  /\ request[r].step = "ask" /\ request' = End(r)
  /\ \/ UNCHANGED calls
     \/ Allowed(request[r].log) /\ Len(calls) < MaxCalls /\ calls' = Append(calls, clock)
  /\ UNCHANGED <<draft, slighted, clock>>

Tick == clock < MaxTime /\ clock' = clock + 1 /\ UNCHANGED <<request, draft, slighted, calls>>

draftsInit ==
  /\ request = [r \in Requests |-> [step |-> "idle", requested |-> None, modes |-> <<>>, log |-> <<>>]]
  /\ draft = [r \in Requests |-> None] /\ slighted = FALSE
  /\ calls = <<>> /\ clock = 0

draftsNext ==
  \/ \E r \in Requests : \/ \E requested \in Modes \cup {None} : Begin(r, requested)
                         \/ \E answer \in Answers : Ask(r, answer)
                         \/ Fails(r)
  \/ Tick

-----------------------------------------------------------------------------

\* A draft can be stored and bound: it is safe and valid, every placeholder of
\* it has a slot, no declared column is left as a bare name or as a literal, a
\* native rule binds one column unless its check takes a list; and no sound answer
\* is turned down.  A column that the model does not declare may be left as a
\* literal: the code knows no columns to compare it with.
Bindable(rule) ==
  LET d == rule.definition
  IN CASE d.shape = "function" -> d.valid /\ d.value \notin {"placeholder", "declared"} /\ (Cardinality(rule.slots) = 1 \/ d.takes = "list")
       [] d.shape = "sql_query" -> d.safe /\ d.braced = rule.slots /\ d.refs \cap d.declared \subseteq rule.slots
       [] d.shape = "lowcode_ast" -> d.safe /\ d.usable /\ rule.slots = d.refs
       [] OTHER -> FALSE

DraftsCanBeBound == ~slighted /\ \A r \in Requests : draft[r] # None => Bindable(draft[r])

\* Calls within any hour stay within the limit.
RateIsLimited ==
  Limit > 0 => \A t \in 0 .. MaxTime :
                 Len(SelectSeq(calls, LAMBDA c : t <= c /\ c < t + _RATE_LIMIT_WINDOW)) <= Limit
=============================================================================
