--------------------------- MODULE SqlStatements ----------------------------
(***************************************************************************)
(* The statements the application builds for its two stores, Delta tables  *)
(* behind a SQL warehouse and Lakebase (sql_executor.py, pg_executor.py),  *)
(* and how results that come in chunks are read back.  A row has a key k,  *)
(* a value v, a counter n and a column created_by.                         *)
(***************************************************************************)
EXTENDS SparkSQL, Sequences, FiniteSetsExt, SequencesExt

CONSTANTS
  Raised,      \* the outcome of a call that raises
  MaxSaves,    \* bound on the saves in a row
  MaxChunks    \* bound on the chunks of a result

VARIABLES input, output

-----------------------------------------------------------------------------
(* Conditions and the statements that carry one. *)

WhereIn(values) == [in |-> values]
Scalar(value) == [is |-> value]
IsWhereIn(wanted) == "in" \in DOMAIN wanted

\* One column of a WHERE clause: an empty IN is FALSE, None becomes IS NULL.
\* A bug: None is compared like a value.
EqualsNull(cell, wanted) == IF IsWhereIn(wanted) THEN IsIn(cell, wanted.in) ELSE Eq(cell, wanted.is)

_predicate(cell, wanted) ==
  IF IsWhereIn(wanted) THEN (IF wanted.in = {} THEN FALSE ELSE IsIn(cell, wanted.in))
  ELSE IF wanted.is = Null THEN isNull(cell) ELSE Eq(cell, wanted.is)

\* _build_where: the rows a clause holds of.
_build_where(rows, where) == {r \in rows : \A c \in DOMAIN where : _predicate(r[c], where[c]) = TRUE}

\* update and delete refuse an empty clause, and update an empty SET; count and
\* select take the whole table without one.
_build_update(rows, updates, where) ==
  IF updates = <<>> \/ where = <<>> THEN Raised
  ELSE LET hit == _build_where(rows, where)
       IN (rows \ hit) \cup {[c \in DOMAIN r |-> IF c \in DOMAIN updates THEN updates[c] ELSE r[c]] : r \in hit}
_build_delete(rows, where) == IF where = <<>> THEN Raised ELSE rows \ _build_where(rows, where)
_build_select(rows, where) == IF where = <<>> THEN rows ELSE _build_where(rows, where)
_build_count(rows, where) == Cardinality(_build_select(rows, where))

\* _build_insert: at least one column.  A key is unique in Lakebase only.
_build_insert(dialect, rows, values) ==
  IF values = <<>> THEN Raised
  ELSE LET row == [c \in {"k", "v", "n", "created_by"} |-> IF c \in DOMAIN values THEN values[c] ELSE Null]
       IN IF dialect = "postgres" /\ (row.k = Null \/ \E r \in rows : r.k = row.k) THEN Raised ELSE rows \cup {row}

-----------------------------------------------------------------------------
(* Saves: one row per key, inserted or changed in a single statement. *)

\* What a save changes in a row that is there: created_* stays, the counter is
\* that of the row and one.
UpdatePairs(row, values, preserve_created, increment) ==
  [c \in DOMAIN values \ (IF preserve_created THEN {"created_by"} ELSE {}) |->
     IF c = increment THEN row[c] + 1 ELSE values[c]]

\* upsert_with_audit.  With nothing to change Lakebase does nothing; the MERGE
\* of the warehouse has no assignment then, which it refuses.
upsert_with_audit(dialect, rows, key, values, preserve_created, increment) ==
  LET change(r) == UpdatePairs(r, values, preserve_created, increment)
      columns == DOMAIN values \ (IF preserve_created THEN {"created_by"} ELSE {})
      same == {r \in rows : Eq(r.k, key) = TRUE}
  IN IF increment # Null /\ increment \notin DOMAIN values THEN Raised
     ELSE IF columns = {} /\ dialect = "delta" THEN Raised
     ELSE IF same = {} THEN _build_insert(dialect, rows, [values EXCEPT !.k = key])
     ELSE (rows \ same) \cup {[c \in DOMAIN r |-> IF c \in columns THEN change(r)[c] ELSE r[c]] : r \in same}

\* upsert: every value is written, also over a row that is there.
upsert(dialect, rows, key, values) ==
  upsert_with_audit(dialect, rows, key, values, FALSE, Null)

-----------------------------------------------------------------------------
(* Reading.  A statement ends in some state; what is still running when the *)
(* time is up is given up on, though it may yet take effect.                *)

_wait_for_completion(state) == IF state = "running" THEN "gave up" ELSE state

\* execute and query: only a statement that succeeded is taken for one.
execute(state) == IF _wait_for_completion(state) = "SUCCEEDED" THEN "done" ELSE Raised

\* A declared count is one that is given.
Fits(declared, n) == declared = Null \/ declared = n

\* The checks on one chunk: the index it claims, the counts it and the manifest
\* declare, and rows that may be left out only when none are due.
ChunkIsWhole(manifest, chunk, index) ==
  LET listed == manifest.chunks # Null /\ \E e \in Range(manifest.chunks) : e.index = index
      declared == {chunk.row_count} \cup IF listed THEN {e.row_count : e \in {x \in Range(manifest.chunks) : x.index = index}} ELSE {}
      nothing == 0 \in declared \/ manifest.total_row_count = 0 \/ manifest.total_chunk_count = 0 \/ manifest.chunks = <<>>
      n == IF chunk.rows = Null THEN 0 ELSE chunk.rows
  IN /\ Fits(chunk.chunk_index, index)
     /\ chunk.rows = Null => nothing
     /\ \A count \in declared : Fits(count, n)

\* The checks once the last chunk is in.
ResultIsWhole(manifest, seen, total) ==
  LET observed == IF total = 0 /\ seen = {0} /\ (manifest.total_chunk_count = 0 \/ manifest.chunks = <<>>) THEN {} ELSE seen
  IN /\ Fits(manifest.total_row_count, total)
     /\ manifest.total_chunk_count = Null \/ observed = 0 .. manifest.total_chunk_count - 1
     /\ manifest.chunks = Null \/ observed = {e.index : e \in Range(manifest.chunks)}

\* _query_dicts(require_complete): chunk after chunk, each names the next.  The
\* first has the index it claims, or 0; an index that came before or is negative
\* ends in an error, and so does a next chunk when the statement has no id.
_query_dicts(response) ==
  LET manifest == response.manifest
      first == IF response.result.chunk_index = Null THEN 0 ELSE response.result.chunk_index
      read[chunk \in {response.result} \cup Range(response.chunks), i \in 0 .. MaxChunks,
           seen \in SUBSET (0 .. MaxChunks), total \in 0 .. 2 * (MaxChunks + 1)] ==
        LET after == total + IF chunk.rows = Null THEN 0 ELSE chunk.rows
        IN IF ~ChunkIsWhole(manifest, chunk, i) THEN Raised
           ELSE IF chunk.next = Null THEN (IF ResultIsWhole(manifest, seen, after) THEN after ELSE Raised)
           ELSE IF chunk.next < 0 \/ chunk.next \in seen \/ ~response.statement_id THEN Raised
           ELSE read[response.chunks[chunk.next], chunk.next, seen \cup {chunk.next}, after]
      listed == IF manifest.chunks = Null THEN {} ELSE {e.index : e \in Range(manifest.chunks)}
  IN IF execute(response.state) = Raised \/ manifest.truncated THEN Raised
     ELSE IF manifest.chunks # Null /\ (Cardinality(listed) # Len(manifest.chunks) \/ \E i \in listed : i < 0) THEN Raised
     ELSE read[response.result, first, {first}, 0]

-----------------------------------------------------------------------------
(* What is put in. *)

Cells == {1, 2, Null}
Wanted == {Scalar(cell) : cell \in Cells} \cup {WhereIn(values) : values \in SUBSET {1, 2}}
Wheres == {<<>>} \cup [{"v"} -> Wanted] \cup [{"k", "v"} -> Wanted]
Row(k, v) == [k |-> k, v |-> v, n |-> 1, created_by |-> 1]

Saves == UNION {[1 .. n -> [user : 1 .. 2, v : 1 .. 2]] : n \in 1 .. MaxSaves}

\* A result of whole chunks, and how it may arrive: chunks or rows lost, a chunk
\* named again or one that does not exist, declarations or the id left out.
Manifest(sizes, declares) ==
  [truncated |-> FALSE,
   total_row_count |-> IF "rows" \in declares THEN FoldSeq(LAMBDA a, b : a + b, 0, sizes) ELSE Null,
   total_chunk_count |-> IF "count" \in declares THEN Len(sizes) ELSE Null,
   chunks |-> IF "chunks" \in declares THEN [i \in 1 .. Len(sizes) |-> [index |-> i - 1, row_count |-> sizes[i]]] ELSE Null]

Sent(sizes) ==
  [i \in 0 .. MaxChunks |->
     [chunk_index |-> i, row_count |-> IF i < Len(sizes) THEN sizes[i + 1] ELSE 0,
      rows |-> IF i < Len(sizes) THEN sizes[i + 1] ELSE 0, next |-> IF i + 1 < Len(sizes) THEN i + 1 ELSE Null]]

Faults(sent, i) ==
  {[sent EXCEPT ![i].next = next] : next \in {Null, 0, -1}}
    \cup {[sent EXCEPT ![i].rows = Null], [sent EXCEPT ![i].rows = Null, ![i].row_count = Null]}
    \cup {[sent EXCEPT ![i].rows = IF @ > 0 THEN @ - 1 ELSE 0, ![i].row_count = Null]}
    \cup {[sent EXCEPT ![i].chunk_index = index] : index \in {Null, 1}}

Init ==
  /\ \/ \E rows \in SUBSET {Row(k, v) : k \in {1, 2}, v \in Cells} : \E where \in Wheres :
          /\ \A r, s \in rows : r.k = s.k => r = s
          /\ input = [kind |-> "where", rows |-> rows, where |-> where]
     \/ \E saves \in Saves : \E preserve \in BOOLEAN : \E inc \in {"n", Null} :
          input = [kind |-> "save", saves |-> saves, preserve |-> preserve, increment |-> inc]
     \/ \E n \in 1 .. MaxChunks : \E sizes \in [1 .. n -> 0 .. 2] : \E declares \in SUBSET {"rows", "count", "chunks"} :
        \E i \in 0 .. MaxChunks - 1 : \E chunks \in {Sent(sizes)} \cup Faults(Sent(sizes), i) :
        \E state \in {"SUCCEEDED", "FAILED", "running"} : \E truncated, statement_id \in BOOLEAN :
          input = [kind |-> "read", sizes |-> sizes, whole |-> chunks = Sent(sizes) /\ statement_id,
                   response |-> [state |-> state, result |-> chunks[0], chunks |-> chunks, statement_id |-> statement_id,
                                 manifest |-> [Manifest(sizes, declares) EXCEPT !.truncated = truncated]]]
  /\ output = [kind |-> "none"]

SavedIn(dialect, in) ==
  FoldSeq(LAMBDA s, rows : upsert_with_audit(dialect, rows, 1, [k |-> 1, v |-> s.v, n |-> 1, created_by |-> s.user],
                                             in.preserve, in.increment), {}, Reverse(in.saves))

Next ==
  /\ output.kind = "none"
  /\ output' =
       CASE input.kind = "where" -> [kind |-> "where", update |-> _build_update(input.rows, [v |-> 3], input.where),
                                     delete |-> _build_delete(input.rows, input.where),
                                     count |-> _build_count(input.rows, input.where)]
         [] input.kind = "save" -> [kind |-> "save", tables |-> [d \in {"delta", "postgres"} |-> SavedIn(d, input)],
                                    plain |-> upsert("delta", {}, 1, [k |-> 1, v |-> 1, n |-> 1, created_by |-> 1])]
         [] input.kind = "read" -> [kind |-> "read", rows |-> _query_dicts(input.response)]
  /\ UNCHANGED input

-----------------------------------------------------------------------------

\* A row is meant by a clause when each of its columns is, a missing value being
\* one like others.
Meant(r) ==
  \A c \in DOMAIN input.where :
    LET w == input.where[c] IN IF IsWhereIn(w) THEN r[c] \in w.in ELSE r[c] = w.is

\* An update or a delete reaches the rows its clause means, no other, and never
\* a whole table for want of a clause; a count agrees with them.
StatementsReachWhatTheyMean ==
  output.kind = "where" =>
    LET meant == {r \in input.rows : Meant(r)}
    IN IF input.where = <<>> THEN output.update = Raised /\ output.delete = Raised
       ELSE /\ output.delete = input.rows \ meant
            /\ output.update = (input.rows \ meant) \cup {[r EXCEPT !.v = 3] : r \in meant}
            /\ output.count = Cardinality(meant)

\* A row saved n times is there once, in both stores alike: it has the last
\* value, counts its saves and keeps who created it, where asked to.
SavesAreCounted ==
  output.kind = "save" =>
    LET last == Last(input.saves)
        first == Head(input.saves)
        row == [k |-> 1, v |-> last.v, n |-> IF input.increment = "n" THEN Len(input.saves) ELSE 1,
                created_by |-> IF input.preserve THEN first.user ELSE last.user]
    IN output.tables = [d \in {"delta", "postgres"} |-> {row}]

\* A result that must be complete is, or the call raises: rows that were lost
\* are noticed as soon as the manifest declares a count they belong to.
CompleteOrRaised ==
  output.kind = "read" =>
    LET total == FoldSeq(LAMBDA a, b : a + b, 0, input.sizes)
        declared == input.response.manifest.total_row_count # Null \/ input.response.manifest.chunks # Null
    IN /\ output.rows = Raised \/ output.rows = total \/ ~declared
       /\ input.whole /\ input.response.state = "SUCCEEDED" /\ ~input.response.manifest.truncated => output.rows = total
=============================================================================
