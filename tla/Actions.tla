------------------------------- MODULE Actions ------------------------------
(***************************************************************************)
(* A DQEngine saves the checked rows of several runs and evaluates its     *)
(* actions on their metrics: apply_checks_and_save_in_table, the           *)
(* ActionEvaluator and the ActionStateStore with its event store.          *)
(*                                                                         *)
(* The runs of one process share the engine, hence its evaluator and state *)
(* store, and interleave between any two steps that are not under the      *)
(* store's lock (apply_checks_and_save_in_tables, the callback of a        *)
(* streaming query).  The process may crash at any point; the next one     *)
(* seeds its store from the events that were appended.                     *)
(***************************************************************************)
EXTENDS Integers, Sequences

CONSTANTS
  Runs,         \* the runs of the engine
  ActionLists,  \* the lists of actions an engine may be given
  Metrics,      \* the metrics a run may observe
  Hour,         \* the window of an hourly alert, in ticks; a day is longer than MaxTime
  MaxTime,      \* bound: the clock
  MaxCrashes,   \* bound: crashes of the process
  MaxRetries,   \* WebhookClient max_retries
  Null

VARIABLES
  clock,
  epoch,        \* number of the process
  actions,      \* the engine's actions, in order
  last_fired, last_status,   \* ActionStateStore, by name of the action
  events,       \* the rows of the event store
  run,          \* the runs
  fires         \* history: every execution of an alert

vars == <<clock, epoch, actions, last_fired, last_status, events, run, fires>>

\* Assumed: Hour \in Nat \ {0} /\ MaxTime \in Nat /\ MaxCrashes \in Nat /\ MaxRetries \in Nat

-----------------------------------------------------------------------------
(* ConditionEvaluator: an expression over the observed metrics, given as the *)
(* nodes of its tree, operands before the operator that names them by their  *)
(* places.  A value is a number (a Boolean counts as 0 or 1), a text or      *)
(* Nothing; an evaluation gives a value or the exception it ends with.       *)

Num(n) == [t |-> "num", n |-> n]
Text == [t |-> "text", n |-> 0]
Digits(n) == [t |-> "digits", n |-> n]    \* a metric that arrives as text
Nothing == [t |-> "none", n |-> 0]

Error(name) == [t |-> "error", error |-> name]
IsError(x) == x.t = "error"
Bool(b) == Num(IF b THEN 1 ELSE 0)
Truthy(x) == x.t = "text" \/ (x.t = "num" /\ x.n # 0)

\* _coerce_numeric
Coerced(x) == IF x.t = "digits" THEN Num(x.n) ELSE x

\* The binary operators of _BIN_OPS and the exceptions they raise.
Apply(op, x, y) ==
  CASE op = "**" /\ (x.t = "text" \/ y.t = "text")           -> Error("ValueError")
    [] x.t = "num" /\ y.t = "num" /\ op \in {"/", "//", "%"} -> IF y.n = 0 THEN Error("ZeroDivisionError") ELSE Num(x.n \div y.n)
    [] x.t = "num" /\ y.t = "num" /\ op = "**"               -> IF x.n = 0 /\ y.n < 0 THEN Error("ZeroDivisionError") ELSE Num(1)
    [] x.t = "num" /\ y.t = "num" /\ op = "+"                -> Num(x.n + y.n)
    [] x.t = "num" /\ y.t = "num" /\ op = "-"                -> Num(x.n - y.n)
    [] x.t = "num" /\ y.t = "num" /\ op = "*"                -> Num(x.n * y.n)
    [] x.t = "text" /\ y.t = "text" /\ op = "+"              -> Text
    [] OTHER                                                 -> Error("TypeError")

\* The comparisons of _CMP_OPS: == and != take anything.
Compare(op, x, y) ==
  CASE op = "==" -> Bool(x = y)
    [] op = "!=" -> Bool(x # y)
    [] x.t = "num" /\ y.t = "num" -> Bool(IF op = "<" THEN x.n < y.n ELSE x.n > y.n)
    [] x.t = "text" /\ y.t = "text" -> Bool(FALSE)
    [] OTHER -> Error("TypeError")

\* What _eval_binop, _eval_unaryop and _eval_compare turn into an
\* InvalidConditionError; anything else leaves the evaluator as it is.
Wrapped(x, caught) == IF IsError(x) /\ x.error \in caught THEN Error("InvalidConditionError") ELSE x

BinOpErrors == {"ZeroDivisionError", "TypeError", "OverflowError", "ValueError"}
OperatorErrors == {"TypeError", "OverflowError"}

\* _eval_name; there are no metrics while a condition is being validated.
EvalName(name, metrics) ==
  IF metrics = Nothing THEN Num(1)
  ELSE IF name \notin DOMAIN metrics THEN Error("InvalidConditionError")
  ELSE Coerced(metrics[name])

\* _walk, from the last node; and, or stop at the first operand that decides
\* (_eval_boolop).
Walk(tree, metrics) ==
  LET value[n \in DOMAIN tree] ==
        LET node == tree[n]
            left == value[node.left]
            right == value[node.right]
        IN CASE node.op = "const" -> node.value
             [] node.op = "name"  -> EvalName(node.name, metrics)
             [] node.op \in {"and", "or"} -> IF IsError(left) \/ (Truthy(left) <=> node.op = "or") THEN left ELSE right
             [] node.op = "not"   -> IF IsError(left) THEN left ELSE Bool(~Truthy(left))
             [] OTHER ->
                  CASE IsError(left)  -> left
                    [] IsError(right) -> right
                    [] node.op \in {"<", ">", "==", "!="} -> Wrapped(Compare(node.op, left, right), OperatorErrors)
                    [] OTHER -> Wrapped(Apply(node.op, left, right), BinOpErrors)
  IN value[Len(tree)]

\* ConditionEvaluator.validate, which a DQAction calls when it is built.
IsValidCondition(condition) == condition = Nothing \/ ~IsError(Walk(condition, Nothing))

\* ConditionEvaluator.evaluate; an action without a condition always applies.
Evaluate(condition, metrics) ==
  IF condition = Nothing THEN Bool(TRUE) ELSE Walk(condition, metrics)

-----------------------------------------------------------------------------
(* Types *)

ActionStatus == {"healthy", "unhealthy", "config_error"}

Names == {actions[n].name : n \in DOMAIN actions}

\* InvalidActionError is raised for a condition that does not validate.
Configurable(list) == \A n \in DOMAIN list : IsValidCondition(list[n].condition)

\* AlertEvent, as far as gating and seeding read it.
Event(action, r, fired, status) ==
  [name |-> action.name, fired |-> fired, status |-> status, time |-> run[r].time]

Idle == [pc |-> "idle", streaming |-> FALSE, metrics |-> Null, time |-> 0, saved |-> {}, next |-> 1,
         event |-> Null, failing |-> FALSE, deferred |-> FALSE]

In(r, label) == run[r].pc = label

-----------------------------------------------------------------------------
(* ActionStateStore *)

\* _check_frequency
_check_frequency(frequency, name, time) ==
  \/ frequency = "always"
  \/ last_fired[name] = Null
  \/ frequency = "hourly" /\ time - last_fired[name] >= Hour

\* _check_notify_on
_check_notify_on(notify_on, name) == notify_on = "each" \/ last_status[name] # "unhealthy"

\* _should_fire_locked, the condition being true
_should_fire_locked(action, time) ==
  action.kind = "alert" =>
    _check_frequency(action.frequency, action.name, time) /\ _check_notify_on(action.notify_on, action.name)

\* try_fire reserves the slot of an alert while it holds the lock.
Reserve(action, time) ==
  IF action.kind = "alert"
  THEN /\ last_fired' = [last_fired EXCEPT ![action.name] = time]
       /\ last_status' = [last_status EXCEPT ![action.name] = "unhealthy"]
  ELSE UNCHANGED <<last_fired, last_status>>

\* load_last_fired_per_action
LastFired(name) == {e.time : e \in {x \in events : x.name = name /\ x.fired}}

\* load_latest_per_action: events of one time are in no order.
Latest(name) ==
  {e \in events : e.name = name /\ \A x \in events : x.name = name => x.time <= e.time}

MaxOf(times) == CHOOSE t \in times : \A u \in times : u <= t

-----------------------------------------------------------------------------
(* WebhookClient.post *)

Responses == {"ok", "4xx", "429", "5xx"}

\* The attempts before the n-th all ended in an error that is retried.
Reached(responses, n) == \A m \in 1..(n - 1) : responses[m] \in {"429", "5xx"}

post(responses) == \E n \in 1..(MaxRetries + 1) : Reached(responses, n) /\ responses[n] = "ok"

-----------------------------------------------------------------------------
(* Saving the tables of a run *)

Goto(r, label) == run' = [run EXCEPT ![r].pc = label]

\* The order of the writes of a run.
Following == [output |-> "quarantine", quarantine |-> "metrics", metrics |-> "evaluate"]

\* An error ends a batch; the callback of a streaming query logs it.
Fail(r) == Goto(r, IF run[r].streaming /\ run[r].saved = DOMAIN Following THEN "done" ELSE "failed")

\* apply_checks_and_save_in_table reads the input and applies the checks; the
\* metrics are those of the rows it read, or of the first micro-batch.
Start(r, metrics, streaming) ==
  /\ In(r, "idle")
  /\ run' = [run EXCEPT ![r].pc = "output", ![r].metrics = metrics, ![r].streaming = streaming]
  /\ UNCHANGED <<clock, epoch, actions, last_fired, last_status, events, fires>>

\* _save_valid_and_invalid writes, or starts the query of, one table after the
\* other, and save_summary_metrics or onQueryProgress saves the metrics; any
\* of them may fail and end the run.
Save(r) ==
  /\ run[r].pc \in DOMAIN Following
  /\ \/ run' = [run EXCEPT ![r].pc = IF run[r].pc = "quarantine" /\ run[r].streaming THEN "listen" ELSE Following[run[r].pc],
                            ![r].saved = @ \cup {run[r].pc}, ![r].time = clock]
     \/ Fail(r)
  /\ UNCHANGED <<clock, epoch, actions, last_fired, last_status, events, fires>>

\* The listener is added once the queries run: a micro-batch may be over by
\* then, and neither its metrics nor its actions are seen.
addListener(r) ==
  /\ In(r, "listen")
  /\ \E missed \in BOOLEAN : Goto(r, IF missed THEN "done" ELSE "metrics")
  /\ UNCHANGED <<clock, epoch, actions, last_fired, last_status, events, fires>>

-----------------------------------------------------------------------------
(* ActionEvaluator.evaluate *)

\* After the last action the first deferred TerminalActionError is raised.
Finish(r) ==
  /\ In(r, "evaluate") /\ run[r].next > Len(actions)
  /\ Goto(r, IF run[r].deferred THEN "terminated" ELSE "done")
  /\ UNCHANGED <<clock, epoch, actions, last_fired, last_status, events, fires>>

\* The condition of the next action, and try_fire when it holds.
Decide(r) ==
  /\ In(r, "evaluate") /\ run[r].next <= Len(actions)
  /\ LET action == actions[run[r].next]
         outcome == Evaluate(action.condition, run[r].metrics)
         fire == ~IsError(outcome) /\ Truthy(outcome) /\ _should_fire_locked(action, run[r].time)
         status == CASE IsError(outcome) -> "config_error"
                     [] Truthy(outcome)  -> "unhealthy"
                     [] OTHER            -> "healthy"
     IN /\ IF IsError(outcome) /\ outcome.error # "InvalidConditionError" THEN Fail(r)
           ELSE IF fire THEN Goto(r, "execute")
           ELSE run' = [run EXCEPT ![r].pc = "record", ![r].event = Event(action, r, FALSE, status)]
        /\ IF fire THEN Reserve(action, run[r].time) ELSE UNCHANGED <<last_fired, last_status>>
        /\ fires' = IF fire /\ action.kind = "alert"
                    THEN fires \cup {[name |-> action.name, hourly |-> action.frequency = "hourly", run |-> r, time |-> run[r].time,
                                      epoch |-> epoch, durable |-> FALSE]}
                    ELSE fires
  /\ UNCHANGED <<clock, epoch, actions, events>>

\* Mutant: a TerminalActionError is raised at once.
RaisedAtOnce(r, event) == run' = [run EXCEPT ![r].pc = "terminated", ![r].event = event]

\* What follows a TerminalActionError raised by the action that is executed.
Deferring(r, event) == run' = [run EXCEPT ![r].pc = "record", ![r].event = event, ![r].deferred = TRUE]

\* execute: an alert posts to its destination and reports unhealthy whether or
\* not it was delivered; fail_pipeline always raises; another action may raise
\* an error that is not terminal, which leaves the evaluation at once.
Execute(r) ==
  /\ In(r, "execute")
  /\ LET action == actions[run[r].next]
         event == Event(action, r, TRUE, "unhealthy") IN
     \/ /\ action.kind = "alert"
        /\ \E responses \in [1..(MaxRetries + 1) -> Responses] :
             run' = [run EXCEPT ![r].pc = "record", ![r].event = event, ![r].failing = @ \/ ~post(responses)]
     \/ action.kind = "fail_pipeline" /\ Deferring(r, event)
     \/ action.kind = "custom" /\ run' = [run EXCEPT ![r].pc = "record", ![r].event = event]
     \/ action.kind = "custom" /\ Fail(r)
  /\ UNCHANGED <<clock, epoch, actions, last_fired, last_status, events, fires>>

\* record, the part under the lock
Record(r) ==
  /\ In(r, "record")
  /\ LET e == run[r].event IN
     /\ last_fired' = IF e.fired THEN [last_fired EXCEPT ![e.name] = e.time] ELSE last_fired
     /\ last_status' = [last_status EXCEPT ![e.name] = e.status]
  /\ Goto(r, "append")
  /\ UNCHANGED <<clock, epoch, actions, events, fires>>

\* record, the append after it, which is best effort
AppendEvent(r) ==
  /\ In(r, "append")
  /\ run' = [run EXCEPT ![r].pc = "evaluate", ![r].next = @ + 1, ![r].event = Null]
  /\ \/ /\ events' = events \cup {run[r].event}
        /\ fires' = {IF f.run = r /\ f.name = run[r].event.name /\ run[r].event.fired
                     THEN [f EXCEPT !.durable = TRUE] ELSE f : f \in fires}
     \/ UNCHANGED <<events, fires>>
  /\ UNCHANGED <<clock, epoch, actions, last_fired, last_status>>

-----------------------------------------------------------------------------
(* The process and its clock *)

\* A new process: the runs that were under way are gone, and the store is
\* built and seeded before the first evaluation (_get_action_evaluator, under
\* its lock; _build_action_state_store, seed).
Crash ==
  /\ epoch < MaxCrashes
  /\ epoch' = epoch + 1
  /\ run' = [r \in Runs |-> IF run[r].pc \in {"idle", "done", "failed", "terminated"} THEN run[r]
                            ELSE [run[r] EXCEPT !.pc = "lost"]]
  /\ last_fired' = [n \in Names |-> IF LastFired(n) = {} THEN Null ELSE MaxOf(LastFired(n))]
  /\ \E latest \in [Names -> events \cup {Null}] :
       /\ \A n \in Names : IF Latest(n) = {} THEN latest[n] = Null ELSE latest[n] \in Latest(n)
       /\ last_status' = [n \in Names |-> IF latest[n] = Null THEN Null ELSE latest[n].status]
  /\ UNCHANGED <<clock, actions, events, fires>>

\* Time passes; an evaluation takes less than the shortest window, the posts
\* of an alert being bounded by max_retries, timeout and max_delay.
Tick ==
  /\ clock < MaxTime
  /\ \A r \in Runs : run[r].pc \in {"evaluate", "execute", "record", "append"} => clock + 1 < run[r].time + Hour
  /\ clock' = clock + 1
  /\ UNCHANGED <<epoch, actions, last_fired, last_status, events, run, fires>>

Init ==
  /\ clock = 0 /\ epoch = 0 /\ events = {} /\ fires = {}
  /\ actions \in {list \in ActionLists : Configurable(list)}
  /\ last_fired = [n \in Names |-> Null]
  /\ last_status = [n \in Names |-> Null]
  /\ run = [r \in Runs |-> Idle]

Next ==
  \/ \E r \in Runs : \/ \E metrics \in Metrics, streaming \in BOOLEAN : Start(r, metrics, streaming)
                     \/ Save(r) \/ addListener(r) \/ Decide(r) \/ Execute(r) \/ Record(r) \/ AppendEvent(r) \/ Finish(r)
  \/ Crash
  \/ Tick

Spec == Init /\ [][Next]_vars

-----------------------------------------------------------------------------
(* Properties *)

\* Two executions of an hourly alert are an hour apart, in one process or
\* across a restart, unless the process that was to remember the first one
\* ended before its event was appended (try_fire, record, seed).
OncePerWindow ==
  \A f, g \in fires :
    /\ f # g /\ f.name = g.name /\ f.hourly
    /\ f.epoch <= g.epoch
    /\ f.time - g.time < Hour /\ g.time - f.time < Hour
    => f.epoch < g.epoch /\ ~f.durable

\* A run that fail_pipeline stops has saved its tables and its metrics, and
\* every action was considered first, alerts after it in the list included; a
\* failed delivery stops nothing (evaluate, _finalize_batch, DQAlert.execute).
StoppedRunsLeaveEvidence ==
  \A r \in Runs :
    run[r].pc = "terminated" =>
      /\ run[r].saved = DOMAIN Following
      /\ run[r].next > Len(actions)
=============================================================================
