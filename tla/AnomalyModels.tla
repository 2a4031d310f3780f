---------------------------- MODULE AnomalyModels ---------------------------
(***************************************************************************)
(* Training and the table of models (anomaly/training_service.py,          *)
(* model_registry.py, model_discovery.py, scoring_orchestrator.py).  A     *)
(* training of a name makes one global model, or one for each segment that *)
(* has enough rows.  Saving a model asks whether the table is there, then  *)
(* creates it, over whatever is there by then, or archives the active      *)
(* model by rewriting it, and then appends the new one: three statements.  *)
(* Scoring looks for the global model first and for segments otherwise.    *)
(***************************************************************************)
EXTENDS Naturals, FiniteSets

CONSTANTS
  Trainers,
  Segments,     \* values of the segment column
  Spellings,    \* of the name; names are matched with and without case
  MaxTrainings, \* bound on trainings
  MaxFailures   \* bound on failures

VARIABLES
  table,        \* records: [name, time, status]
  trainer,      \* per trainer what it does
  started,      \* trainings begun; the clock of training_time
  hidden,       \* history: names of saves that are under way or broke off
  overlapped,   \* history: two trainings ran at once
  failures,
  created,      \* the table exists
  lost          \* history: records over which the table was created

modelsVars == <<table, trainer, started, hidden, overlapped, failures, created, lost>>

Idle == [step |-> "idle"]
Global == "global"

\* The model of a segment carries the name of its base.
Name(spelling, of) == [base |-> spelling, of |-> of]
SameName(m, n) == m.of = n.of

\* A bug: a model is replaced whatever its segment.
SameBase(r, name) == r.status = "active"
\* _archive_previous matches names without case.
Replaced(r, name) == r.status = "active" /\ SameName(r.name, name)

Active(records, name) == {r \in records : r.name = name /\ r.status = "active"}
Latest(records) == {r \in records : \A s \in records : s.time <= r.time}

\* get_active_model: the latest of the active ones.
get_active_model(name) == Latest(Active(table, name))

\* get_all_segment_models: the latest of every name.
get_all_segment_models(base) == UNION {get_active_model(Name(base, s)) : s \in Segments}

\* get_record_for_discovery, run_anomaly_scoring, try_segmented_scoring_fallback:
\* the models rows of the base are scored by.
Scoring(base) ==
  IF get_active_model(Name(base, Global)) # {} THEN get_active_model(Name(base, Global))
  ELSE get_all_segment_models(base)

-----------------------------------------------------------------------------

\* build_context, train: a global model, or one per segment found in the data.
\* Training tells the user of the model it finds under the name, if its segments
\* are not these.
train(t) ==
  /\ trainer[t] = Idle /\ started < MaxTrainings
  /\ started' = started + 1
  /\ overlapped' = (overlapped \/ \E o \in Trainers \ {t} : trainer[o] # Idle)
  /\ \E base \in Spellings, left \in {{Global}} \cup (SUBSET Segments \ {{}}) :
       trainer' = [trainer EXCEPT ![t] = [step |-> "fit", base |-> base, left |-> left, now |-> Global, time |-> 0, saved |-> 0,
                                   told |-> IF left = {Global} THEN {} ELSE get_active_model(Name(base, Global))]]
  /\ UNCHANGED <<table, hidden, failures, created, lost>>

\* _train_global, _train_segmented: a model is fitted and its record made; a
\* segment that has too few rows is skipped.
Fit(t) ==
  /\ trainer[t].step = "fit"
  /\ \E of \in trainer[t].left :
       \/ trainer' = [trainer EXCEPT ![t].step = "save", ![t].now = of, ![t].time = started, ![t].left = @ \ {of}]
       \/ of # Global /\ trainer' = [trainer EXCEPT ![t].left = @ \ {of}]
  /\ UNCHANGED <<table, started, hidden, overlapped, failures, created, lost>>

Record(t) == [name |-> Name(trainer[t].base, trainer[t].now), time |-> trainer[t].time, status |-> "active"]

\* Asks once: what the others do from now on is not seen.
save_model(t) ==
  /\ trainer[t].step = "save"
  /\ trainer' = [trainer EXCEPT ![t].step = IF created THEN "archive" ELSE "create"]
  /\ UNCHANGED <<table, started, hidden, overlapped, failures, created, lost>>

\* Writes an empty table, in mode overwrite.
_create_table(t) ==
  /\ trainer[t].step = "create"
  /\ created' = TRUE /\ table' = {} /\ lost' = lost \cup table
  /\ trainer' = [trainer EXCEPT ![t].step = "append"]
  /\ UNCHANGED <<started, hidden, overlapped, failures>>

\* The table is rewritten, in one transaction.
_archive_previous(t) ==
  /\ trainer[t].step = "archive"
  /\ table' = {IF Replaced(r, Record(t).name) THEN [r EXCEPT !.status = "archived"] ELSE r : r \in table}
  /\ hidden' = hidden \cup {Record(t).name}
  /\ trainer' = [trainer EXCEPT ![t].step = "append"]
  /\ UNCHANGED <<started, overlapped, failures, created, lost>>

AppendRecord(t) ==
  /\ trainer[t].step = "append"
  /\ table' = table \cup {Record(t)}
  /\ hidden' = {n \in hidden : ~SameName(n, Record(t).name)}
  /\ trainer' = [trainer EXCEPT ![t].step = "fit", ![t].saved = @ + 1]
  /\ UNCHANGED <<started, overlapped, failures, created, lost>>

\* The failure of a segment is noted and the others go on; a global one ends the
\* training.
Fail(t) ==
  /\ trainer[t].step \in {"fit", "save", "create", "archive", "append"} /\ failures < MaxFailures
  /\ trainer[t].step = "fit" => trainer[t].left # {}
  /\ failures' = failures + 1
  /\ \/ trainer[t].now = Global /\ trainer' = [trainer EXCEPT ![t] = Idle]
     \/ trainer[t].now # Global /\ trainer[t].step # "fit" /\ trainer' = [trainer EXCEPT ![t].step = "fit"]
  /\ UNCHANGED <<table, started, hidden, overlapped, created, lost>>

\* _report_training_summary raises when no model was made: the trainer knows.
_report_training_summary(t) ==
  /\ trainer[t].step = "fit" /\ trainer[t].left = {}
  /\ trainer' = [trainer EXCEPT ![t] = Idle]
  /\ UNCHANGED <<table, started, hidden, overlapped, failures, created, lost>>

modelsInit ==
  /\ table = {} /\ trainer = [t \in Trainers |-> Idle] /\ started = 0 /\ hidden = {} /\ overlapped = FALSE /\ failures = 0
  /\ created = FALSE /\ lost = {}
modelsNext ==
  \/ \E t \in Trainers : \/ train(t) \/ Fit(t) \/ save_model(t) \/ _create_table(t) \/ _archive_previous(t) \/ AppendRecord(t) \/ Fail(t)
                         \/ _report_training_summary(t)

-----------------------------------------------------------------------------

\* A model stays in use until its successor is: unless a save broke off between
\* its two transactions or is between them, every name that had a model has an
\* active one, in some spelling.  Records are lost, and a name has several active
\* models or an old one, only where trainings overlapped: then each may have asked
\* for the table before the other created it.
ModelsAreSucceeded ==
  /\ lost # {} => overlapped
  /\ \A r \in table :
       LET active == {q \in table : SameName(q.name, r.name) /\ q.status = "active"}
       IN /\ active = {} => \E n \in hidden \cup {l.name : l \in lost} : SameName(n, r.name)
          /\ ~overlapped => Cardinality(active) <= 1 /\ \A q \in active : r.time <= q.time

\* As the training warns: the model it finds under the name, made with other
\* segments, is archived once new models are there.
OldModelIsArchived ==
  \A t \in Trainers : trainer[t].step = "fit" /\ trainer'[t] = Idle /\ trainer[t].left = {} /\ trainer[t].saved > 0
                       => trainer[t].told \cap Scoring(trainer[t].base) = {}
OldModelIsReplaced == [][OldModelIsArchived]_modelsVars
=============================================================================
