------------------------------- MODULE Lineage -------------------------------
(***************************************************************************)
(* The action that collects lineage after a run (actions/lineage.py): it   *)
(* walks the graph of tables, and that of columns from those which failed, *)
(* with a recursive query that carries the path in its rows and is capped  *)
(* at every level.                                                         *)
(***************************************************************************)
EXTENDS Integers, FiniteSets, FiniteSetsExt, Sequences, SequencesExt

CONSTANTS
  Null,
  Unbounded,                   \* a depth that is not set
  MaxEvents                    \* bound on the events of a graph

VARIABLES input, output

-----------------------------------------------------------------------------
(* The failed columns of a run *)

\* extract_failed_columns: issues without a run are taken for its own.
extract_failed_columns(issues, run) ==
  UNION {i.columns \ {Null} : i \in {j \in issues : j.run \in {run, Null}}}

\* _resolve_failed_columns: a location that cannot be read has none.
_resolve_failed_columns(locations, run) ==
  UNION {IF l.readable THEN extract_failed_columns(l.issues, run) ELSE {} : l \in locations}

-----------------------------------------------------------------------------
(* The walk.  A node is a table, or a column of one; an event says that data *)
(* went from one to another.                                               *)

Within(search, events) == {e \in events : e.age <= search.lookback}
\* The nodes an event leads from and to, seen in the direction of the walk.
Near(search, e) == IF search.upstream THEN e.target ELSE e.source
Far(search, e) == IF search.upstream THEN e.source ELSE e.target

Hop(search, e, depth, path) ==
  [anchor |-> Near(search, e), neighbour |-> Far(search, e), depth |-> depth, path |-> path, event |-> e]

\* The anchor member: one hop from the source; a table is no neighbour of its own.
Anchors(search, events) ==
  {Hop(search, e, 1, (IF search.of = "tables" THEN search.start ELSE {}) \cup {Far(search, e)}) :
     e \in {f \in Within(search, events) :
              Near(search, f) \in search.start /\ Far(search, f) # Null
                /\ (search.of = "tables" => Far(search, f) \notin search.start)}}

\* A bug: only the step back to the node a row came from is refused.
NotBack(search, row, node) == node # row.anchor

\* Nodes that a path has been at, and columns the walk set out from, are not gone to.
NotVisited(search, row, node) == node \notin row.path /\ node \notin search.start

\* The recursive member, from the rows of the last level.
Further(search, events, frontier) ==
  {Hop(search, p[2], p[1].depth + 1, p[1].path \cup {Far(search, p[2])}) :
     p \in {q \in frontier \X Within(search, events) :
              /\ Near(search, q[2]) = q[1].neighbour /\ Far(search, q[2]) # Null
              /\ search.depth = Unbounded \/ q[1].depth < search.depth
              /\ NotVisited(search, q[1], Far(search, q[2]))}}

\* LIMIT: as many rows as it allows, and nothing says which.
Limited(rows, n) == kSubset(Min({n, Cardinality(rows)}), rows)

Edges(rows) == {[anchor |-> r.anchor, neighbour |-> r.neighbour, depth |-> r.depth] : r \in rows}

-----------------------------------------------------------------------------
(* The action *)

\* execute: a branch that cannot be read counts as empty; when all are, nothing
\* is saved; whatever happens, the run is not broken and the view is dropped.
Branches(failed, enabled) == enabled \ (IF failed = {} THEN {"column_upstream", "column_downstream"} ELSE {})
execute(failed, enabled, unreadable, saves) ==
  LET branches == Branches(failed, enabled)
      collected == branches \ unreadable
  IN IF (branches # {} /\ collected = {}) \/ ~saves THEN [status |-> "CONFIG_ERROR", saved |-> {}]
     ELSE [status |-> "HEALTHY", saved |-> collected]

-----------------------------------------------------------------------------

Nodes == {"s", "a", "b"}
Event == [source : Nodes \cup {Null}, target : Nodes, age : {1, 2}]
Directions == {"upstream", "downstream", "column_upstream", "column_downstream"}
Location(issues) == [readable |-> TRUE, issues |-> issues]

Init ==
  /\ \/ \E of \in {"tables", "columns"}, start \in {{"s"}, {"s", "a"}}, upstream \in BOOLEAN, depth \in {1, 2, Unbounded}, most \in {2, 9},
           events \in UNION {kSubset(k, Event) : k \in 1..MaxEvents} :
          /\ of = "tables" => start = {"s"}
          /\ input = [kind |-> "walk", events |-> events,
                      search |-> [of |-> of, start |-> start, upstream |-> upstream, depth |-> depth, most |-> most, lookback |-> 1]]
     \/ \E enabled, unreadable \in SUBSET Directions, saves \in BOOLEAN, readable \in BOOLEAN,
           runs \in [1..2 -> {"this", "other", Null}], columns \in [1..2 -> SUBSET {"x", Null}] :
          /\ unreadable \subseteq enabled
          /\ input = [kind |-> "action", enabled |-> enabled, unreadable |-> unreadable, saves |-> saves,
                      locations |-> {Location({[run |-> runs[1], columns |-> columns[1]]}),
                                     [Location({[run |-> runs[2], columns |-> columns[2]]}) EXCEPT !.readable = readable]}]
  /\ output = [step |-> "begin"]

Begin ==
  /\ output.step = "begin"
  /\ IF input.kind = "action"
       THEN LET failed == _resolve_failed_columns(input.locations, "this") IN
            output' = [step |-> "done", failed |-> failed, result |-> execute(failed, input.enabled, input.unreadable, input.saves)]
       ELSE \E rows \in Limited(Anchors(input.search, input.events), input.search.most) :
              output' = [step |-> "walk", rows |-> rows, frontier |-> rows, cut |-> rows # Anchors(input.search, input.events)]
  /\ UNCHANGED input

Walk ==
  /\ output.step = "walk" /\ output.frontier # {}
  /\ LET further == Further(input.search, input.events, output.frontier) IN
     \E rows \in Limited(further, input.search.most) :
       output' = [output EXCEPT !.rows = @ \cup rows, !.frontier = rows, !.cut = @ \/ rows # further]
  /\ UNCHANGED input

End ==
  /\ output.step = "walk" /\ output.frontier = {}
  /\ \E edges \in Limited(Edges(output.rows), input.search.most) :
       output' = [step |-> "edges", edges |-> edges, cut |-> output.cut \/ edges # Edges(output.rows)]
  /\ UNCHANGED input

Next == Begin \/ Walk \/ End

-----------------------------------------------------------------------------

\* The nodes n hops away and no nearer, by recent events, that do not pass by Null.
Adjacent(nodes) == {Far(input.search, e) : e \in {f \in Within(input.search, input.events) : Near(input.search, f) \in nodes}} \ {Null}
Reach(n) == LET f[k \in 0..n] == IF k = 0 THEN input.search.start ELSE f[k - 1] \cup Adjacent(f[k - 1]) IN f[n]

\* A walk that no cap has cut tells the distance of every table that is near
\* enough, and every edge it tells can be followed back to the source.
DistancesAreTold ==
  output.step = "edges" /\ ~output.cut =>
    LET deepest == IF input.search.depth = Unbounded THEN 3 ELSE input.search.depth IN
    \A n \in 1..deepest : \A node \in Reach(n) \ Reach(n - 1) :
      /\ \E e \in output.edges : e.neighbour = node /\ e.depth = n
      /\ ~\E e \in output.edges : e.neighbour = node /\ e.depth < n

\* Cut or not, no row stands for anything but a path of its length without a node
\* twice, so the walk comes to an end; a cap is never exceeded.
WalksEnd ==
  /\ output.step = "walk" =>
       \A r \in output.rows :
         /\ r.depth <= Cardinality(Nodes) /\ r.event.age <= input.search.lookback
         /\ input.search.depth # Unbounded => r.depth <= input.search.depth
         /\ r.depth = 1 => r.anchor \in input.search.start
         /\ r.depth > 1 => \E p \in output.rows : p.depth = r.depth - 1 /\ p.neighbour = r.anchor /\ r.path = p.path \cup {r.neighbour} /\ r.neighbour \notin p.path
  /\ output.step = "edges" =>
       /\ Cardinality(output.edges) <= input.search.most
       /\ ~output.cut => \A e \in output.edges : e.depth > 1 => \E p \in output.edges : p.neighbour = e.anchor /\ p.depth = e.depth - 1

\* One branch that cannot be read costs its rows only; columns are followed for
\* failures of this run and of no other.
LineageIsBestEffort ==
  output.step = "done" =>
    /\ output.result.status = "HEALTHY" => output.result.saved = Branches(output.failed, input.enabled) \ input.unreadable
    /\ output.result.status = "CONFIG_ERROR" /\ input.saves => output.result.saved = {} /\ input.enabled \cap input.unreadable # {}
    /\ \A c \in output.failed : c # Null /\ \E l \in input.locations : \E i \in l.issues : i.run # "other" /\ c \in i.columns

LineageIsFollowed == DistancesAreTold /\ WalksEnd /\ LineageIsBestEffort
==============================================================================
