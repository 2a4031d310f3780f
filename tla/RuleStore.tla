----------------------------- MODULE RuleStore ------------------------------
(***************************************************************************)
(* Rule sets and actions in a table (checks_storage.py,                    *)
(* actions/definition_storage.py).  Writers save rule sets for their run   *)
(* configuration while a reader loads.  A save is not one transaction in   *)
(* Delta: columns are added, the fingerprint is looked up and the rows are *)
(* written one after the other; in Lakebase what is deleted and inserted   *)
(* commits at once.                                                        *)
(*                                                                         *)
(* The rows of one save stand and fall together: a block of the table.  A  *)
(* rule set is a natural number, which is its fingerprint as well.  Rows   *)
(* of before the versioning columns have none.                             *)
(***************************************************************************)
EXTENDS Naturals, FiniteSets

CONSTANTS
  Writers, Configs,   \* who saves, and for which run configurations
  RuleSets,           \* fingerprints
  MaxSaves,           \* bound: how many saves are started
  NoPrint             \* NULL

VARIABLES
  backend,   \* "delta", "lakebase", or "actions" for the definitions of actions
  table,     \* blocks [config, set, created, since, until]
  columns,   \* "none" (no table), "legacy" (no versioning columns) or "versioned"
  writer,    \* per writer the step and what it saves
  reader,    \* the step of the load, what it looks for, what it has found
  latest,    \* per run configuration the created_at and set of the last load since it was overwritten
  clock      \* how many saves have started, which gives created_at, and how many have written

vars == <<backend, table, columns, writer, reader, latest, clock>>

Older == [created |-> 0, set |-> NoPrint]
Renewed(l) == [load |-> Older, epoch |-> l.epoch + 1]
IdleWriter == [pc |-> "idle"]
IdleReader == [pc |-> "idle"]

Legacy(c) == [config |-> c, set |-> NoPrint, created |-> 0, since |-> 0, until |-> 0]

Init ==
  /\ backend \in {"delta", "lakebase", "actions"}
  /\ columns \in IF backend = "actions" THEN {"none"} ELSE {"none", "legacy"}
  /\ table = IF columns = "legacy" THEN {Legacy(c) : c \in Configs} ELSE {}
  /\ writer = [w \in Writers |-> IdleWriter]
  /\ reader = IdleReader
  /\ latest = [c \in Configs |-> [load |-> Older, epoch |-> 0]]
  /\ clock = [started |-> 0, written |-> 0]

-----------------------------------------------------------------------------
(* Saving *)

\* What a save has computed before it looks at the table: the fingerprint and
\* created_at.
Begin(w, c, s, m, step) ==
  /\ writer[w].pc = "idle" /\ clock.started < MaxSaves
  /\ clock' = [clock EXCEPT !.started = @ + 1]
  /\ writer' = [writer EXCEPT ![w] = [pc |-> step, config |-> c, set |-> s, mode |-> m, created |-> clock'.started,
                                      since |-> clock.written, deleted |-> {}]]
  /\ UNCHANGED <<backend, table, columns, reader, latest>>

\* TableChecksStorageHandler.save, LakebaseChecksStorageHandler.save,
\* ActionsStorageHandler.save
SaveToTable(w, c, s, m) == backend = "delta" /\ Begin(w, c, s, m, "columns")
SaveToLakebase(w, c, s, m) == backend = "lakebase" /\ Begin(w, c, s, m, "columns")
SaveActions(w, c, s, m) == backend = "actions" /\ Begin(w, c, s, m, "write")

At(w, step) == writer' = [writer EXCEPT ![w].pc = step]

\* _ensure_columns: a table that is not there has nothing to look up.
EnsureColumns(w) ==
  /\ writer[w].pc = "columns" /\ backend = "delta"
  /\ columns' = IF columns = "none" THEN columns ELSE "versioned"
  /\ At(w, IF columns = "none" THEN "write" ELSE "lookup")
  /\ UNCHANGED <<backend, table, reader, latest, clock>>

\* create_all, _ensure_versioning_columns, _ensure_message_expr_column
EnsureLakebaseTable(w) ==
  /\ writer[w].pc = "columns" /\ backend = "lakebase"
  /\ columns' = "versioned"
  /\ At(w, "lookup")
  /\ UNCHANGED <<backend, table, reader, latest, clock>>

\* Mutant: only the set that would be loaded is compared.
StoredLatest(c, s) == \E b \in table : b.config = c /\ b.set = s /\ \A o \in table : o.config = c => o.created <= b.created

\* The rule set is stored for this run configuration.
Exists(c, s) == \E b \in table : b.config = c /\ b.set = s

\* A save whose rule set is stored already ends here.
LookUp(w) ==
  /\ writer[w].pc = "lookup"
  /\ IF Exists(writer[w].config, writer[w].set) THEN writer' = [writer EXCEPT ![w] = IdleWriter]
     ELSE At(w, IF backend = "lakebase" /\ writer[w].mode = "overwrite" THEN "delete" ELSE "write")
  /\ UNCHANGED <<backend, table, columns, reader, latest, clock>>

OfConfig(c) == {b \in table : b.config = c}

\* The DELETE of a Lakebase transaction: what is committed now, and no more.
Delete(w) ==
  /\ writer[w].pc = "delete"
  /\ writer' = [writer EXCEPT ![w].deleted = OfConfig(writer[w].config), ![w].pc = "write"]
  /\ UNCHANGED <<backend, table, columns, reader, latest, clock>>

\* The blocks that go are replaced by the one that is saved.
Store(w, gone) ==
  LET s == writer[w] IN
  /\ writer[w].pc = "write"
  /\ clock' = [clock EXCEPT !.written = @ + 1]
  /\ table' = (table \ gone) \cup {[config |-> s.config, set |-> s.set, created |-> s.created, since |-> s.since, until |-> clock'.written]}
  /\ latest' = IF s.mode = "overwrite" THEN [latest EXCEPT ![s.config] = Renewed(@)] ELSE latest
  /\ columns' = IF columns = "none" THEN "versioned" ELSE columns
  /\ writer' = [writer EXCEPT ![w] = IdleWriter]
  /\ UNCHANGED <<backend, reader>>

\* saveAsTable, with replaceWhere when it overwrites.
SaveAsTable(w) ==
  backend # "lakebase" /\ Store(w, IF writer[w].pc = "write" /\ writer[w].mode = "overwrite" THEN OfConfig(writer[w].config) ELSE {})

\* The commit of the transaction with its DELETE and INSERT.
Commit(w) == backend = "lakebase" /\ writer[w].pc = "write" /\ Store(w, writer[w].deleted)

\* A write that conflicts, a lost connection or the end of the process; the
\* transaction, where there is one, is rolled back.
Abandon(w) ==
  /\ writer[w].pc # "idle"
  /\ writer' = [writer EXCEPT ![w] = IdleWriter]
  /\ UNCHANGED <<backend, table, columns, reader, latest, clock>>

-----------------------------------------------------------------------------
(* Loading *)

\* Without the table there is nothing to load; a legacy table has no fingerprints to look for.
Open(c, wanted, step) ==
  /\ reader.pc = "idle" /\ columns # "none"
  /\ reader' = [pc |-> IF columns = "legacy" THEN "collect" ELSE step, config |-> c, asked |-> wanted, found |-> wanted,
                since |-> latest[c], result |-> {}]
  /\ UNCHANGED <<backend, table, columns, writer, latest, clock>>

\* TableChecksStorageHandler.load and from_dataframe,
\* _load_checks_from_lakebase, ActionsStorageHandler.load
LoadFromTable(c, wanted) == backend = "delta" /\ Open(c, wanted, IF wanted = NoPrint THEN "latest" ELSE "collect")
LoadFromLakebase(c, wanted) == backend = "lakebase" /\ Open(c, wanted, IF wanted = NoPrint THEN "latest" ELSE "collect")
LoadActions(c) == backend = "actions" /\ Open(c, NoPrint, "collect")

\* ORDER BY created_at DESC NULLS LAST, rule_set_fingerprint DESC NULLS LAST LIMIT 1;
\* no two saves have the same created_at here.
First(S) == {b \in S : \A o \in S : o.created <= b.created}

\* The fingerprint to load from Delta; no row at all ends the load.
FindLatest ==
  /\ reader.pc = "latest" /\ backend = "delta"
  /\ LET S == OfConfig(reader.config) IN
     \/ S = {} /\ reader' = [reader EXCEPT !.pc = "done"]
     \/ \E b \in First(S) : reader' = [reader EXCEPT !.pc = "collect", !.found = b.set]
  /\ UNCHANGED <<backend, table, columns, writer, latest, clock>>

\* latest_subq: in Lakebase rows without a fingerprint are not considered.
FindLatestInLakebase ==
  /\ reader.pc = "latest" /\ backend = "lakebase"
  /\ LET S == {b \in OfConfig(reader.config) : b.set # NoPrint}
     IN \E b \in IF S = {} THEN {Older} ELSE First(S) : reader' = [reader EXCEPT !.pc = "collect", !.found = b.set]
  /\ UNCHANGED <<backend, table, columns, writer, latest, clock>>

\* The rows of the run configuration, of that fingerprint if there is one.
Collect ==
  /\ reader.pc = "collect"
  /\ reader' = [reader EXCEPT !.pc = "done",
                              !.result = {b \in OfConfig(reader.config) : reader.found # NoPrint => b.set = reader.found}]
  /\ UNCHANGED <<backend, table, columns, writer, latest, clock>>

Newest(S) == IF S = {} THEN Older ELSE LET b == CHOOSE x \in S : \A o \in S : o.created <= x.created IN [created |-> b.created, set |-> b.set]

\* The caller has the checks; latest remembers what a load without a fingerprint gave.
Return ==
  /\ reader.pc = "done"
  /\ latest' = IF reader.asked = NoPrint /\ backend # "actions" /\ latest[reader.config] = reader.since
               THEN [latest EXCEPT ![reader.config].load = Newest(reader.result)] ELSE latest
  /\ reader' = IdleReader
  /\ UNCHANGED <<backend, table, columns, writer, clock>>

Next ==
  \/ \E w \in Writers, c \in Configs, s \in RuleSets, m \in {"append", "overwrite"} :
       SaveToTable(w, c, s, m) \/ SaveToLakebase(w, c, s, m) \/ SaveActions(w, c, s, m)
  \/ \E w \in Writers : \/ EnsureColumns(w) \/ EnsureLakebaseTable(w) \/ LookUp(w) \/ Delete(w)
                         \/ SaveAsTable(w) \/ Commit(w) \/ Abandon(w)
  \/ \E c \in Configs, wanted \in RuleSets \cup {NoPrint} : LoadFromTable(c, wanted) \/ LoadFromLakebase(c, wanted)
  \/ \E c \in Configs : LoadActions(c)
  \/ FindLatest \/ FindLatestInLakebase \/ Collect \/ Return

Spec == Init /\ [][Next]_vars

-----------------------------------------------------------------------------
(* Properties *)

\* A rule set is stored twice for one run configuration only if its two saves
\* overlapped; and as long as rule sets are appended, a load gives one rule
\* set, or what was there before the versioning columns, and never an older
\* one than the load before it (TableChecksStorageHandler.save, load,
\* LakebaseChecksStorageHandler, from_dataframe).
SavedOnceLoadedForward ==
  /\ backend # "actions" =>
       \A b, o \in table : b # o /\ b.config = o.config /\ b.set = o.set => b.since < o.until /\ o.since < b.until
  /\ reader.pc = "done" /\ backend # "actions" /\ reader.asked = NoPrint =>
       LET last == reader.since.load IN
       last.set # NoPrint /\ latest[reader.config] = reader.since =>
         /\ Cardinality({b.set : b \in reader.result}) = 1
         /\ Newest(reader.result).created >= last.created
=============================================================================
