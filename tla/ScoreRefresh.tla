---------------------------- MODULE ScoreRefresh ----------------------------
(***************************************************************************)
(* How the score cache learns of runs that have ended                      *)
(* (services/scheduler_service.py, services/score_cache_service.py).  The  *)
(* scheduler keeps the runs it waits for in memory: those it started, and  *)
(* those a sweep of recent run sets finds.  In each pass of its loop it    *)
(* asks which jobs are active, looks for the final rows of the others and  *)
(* refreshes the scores of their tables.  A start knows nothing of the    *)
(* runs there are, and is followed by a reconciliation of all monitored    *)
(* tables; a restart is another start, whatever the runs have come to.     *)
(***************************************************************************)
EXTENDS Naturals, FiniteSets

CONSTANTS
  Runs,                         \* runs of approved checks, each a member of a run set
  Tables, TableOf, Monitored,
  _RUN_SET_SWEEP_MAX_RUNS,      \* how many members a sweep reads
  _JOB_STATE_GRACE,             \* in passes
  _SCORE_REFRESH_TTL,           \* in passes
  _SCORE_RECONCILE_MAX_ATTEMPTS

\* TableOf \in [Runs -> Tables], Monitored \subseteq Tables; periods are numbers.
ScoreAssumption == _SCORE_RECONCILE_MAX_ATTEMPTS \in Nat

VARIABLES
  run,       \* per run [started, active, metrics, row, recent]: its job, what it has written, in the window
  pending,   \* the runs waited for, with their age
  seen, seen_active, missing_row,
  reconcile, \* attempts since the start, and whether one succeeded
  cached,    \* the runs whose metrics the cached scores have taken into account
  givenUp    \* history: runs whose scores the scheduler has given up, and those it took for
             \* finished before they were, as it could not list the jobs

refreshVars == <<run, pending, seen, seen_active, missing_row, reconcile, cached, givenUp>>

Waiting == DOMAIN pending
Ended(r) == run[r].row = "ended"

\* One pass works on these.
Memory == [pending |-> pending, seen |-> seen, seen_active |-> seen_active, missing_row |-> missing_row]
_track_run_for_score_refresh(mem, rs) ==
  [mem EXCEPT !.pending = [r \in DOMAIN mem.pending \cup rs |-> IF r \in rs THEN 0 ELSE mem.pending[r]],
              !.seen = @ \cup rs]
_forget_score_run(mem, rs) ==
  [mem EXCEPT !.pending = [r \in DOMAIN mem.pending \ rs |-> mem.pending[r]],
              !.seen_active = @ \ rs, !.missing_row = @ \ rs]

\* The limit cuts the window anywhere.
Windows == {w \in SUBSET {r \in Runs : run[r].recent} :
              IF Cardinality({r \in Runs : run[r].recent}) <= _RUN_SET_SWEEP_MAX_RUNS
              THEN w = {r \in Runs : run[r].recent} ELSE Cardinality(w) = _RUN_SET_SWEEP_MAX_RUNS}

_sweep_recent_run_sets(mem, window) ==
  LET tracked == _track_run_for_score_refresh(mem, window \ mem.seen)
  IN [tracked EXCEPT !.seen = @ \cap (window \cup DOMAIN tracked.pending)]

Expired(mem) == {r \in DOMAIN mem.pending : mem.pending[r] > _SCORE_REFRESH_TTL}

\* A run counts as finished when its job is no longer active, provided that it
\* was once, or has had time to become so; all do when the jobs cannot be listed.
_score_runs_with_finished_jobs(mem, listed) ==
  IF ~listed THEN DOMAIN mem.pending
  ELSE {r \in DOMAIN mem.pending :
          ~run[r].active /\ (r \in mem.seen_active \/ mem.pending[r] >= _JOB_STATE_GRACE)}
SeenActive(mem, listed) ==
  IF listed THEN [mem EXCEPT !.seen_active = @ \cup {r \in DOMAIN mem.pending : run[r].active}] ELSE mem

\* A bug: every finished run is forgotten, its row there or not.
ForgetsAll(mem, finished) == _forget_score_run(mem, finished)

\* A finished run without a final row is given another pass, once.
_collect_completed(mem, finished) ==
  LET ended == {r \in finished : Ended(r)}
      late == finished \ ended
      forgotten == _forget_score_run(mem, ended \cup (late \cap mem.missing_row))
  IN [forgotten EXCEPT !.missing_row = @ \cup (late \ mem.missing_row)]

\* refresh_all_for_tables: the latest published run of each table, and with them
\* its products and the whole.
Refreshed(tables) == cached \cup {r \in Runs : run[r].metrics /\ TableOf[r] \in tables}

_reconcile_due == ~reconcile.done /\ reconcile.attempts < _SCORE_RECONCILE_MAX_ATTEMPTS

-----------------------------------------------------------------------------

Start == [attempts |-> 0, done |-> FALSE]
NoRun == [started |-> FALSE, active |-> FALSE, metrics |-> FALSE, row |-> "none", recent |-> FALSE]

\* What the runs of before a start have come to.
Before == {NoRun} \cup
  {b \in [started : {TRUE}, active : BOOLEAN, metrics : BOOLEAN, row : {"RUNNING", "ended"}, recent : BOOLEAN] :
     (b.metrics => b.row = "ended") /\ (b.active => b.recent)}

Init ==
  /\ run \in [Runs -> Before] /\ pending = <<>>
  /\ seen = {} /\ seen_active = {} /\ missing_row = {} /\ reconcile = Start
  /\ cached = {} /\ givenUp = {}

\* The scheduler tracks what it starts itself.
Launch(r, by_scheduler) ==
  /\ ~run[r].started
  /\ run' = [run EXCEPT ![r] = [NoRun EXCEPT !.started = TRUE, !.active = TRUE, !.row = "RUNNING", !.recent = TRUE]]
  /\ LET mem == IF by_scheduler THEN _track_run_for_score_refresh(Memory, {r}) ELSE Memory
     IN pending' = mem.pending /\ seen' = mem.seen
  /\ UNCHANGED <<seen_active, missing_row, reconcile, cached, givenUp>>

\* The job writes its row and then its metrics; it may end before either.  Whoever
\* finds a job gone, or cancels it, closes the row.
RunnerWrites(r) ==
  /\ run[r].active /\ ~run[r].metrics
  /\ run' = [run EXCEPT ![r] = IF ~Ended(r) THEN [@ EXCEPT !.row = "ended"] ELSE [@ EXCEPT !.metrics = TRUE]]
JobEnds(r) == run[r].active /\ run' = [run EXCEPT ![r].active = FALSE]
RowIsClosed(r) ==
  /\ run[r].started /\ ~run[r].active /\ ~Ended(r)
  /\ run' = [run EXCEPT ![r].row = "ended"]
LeaveWindow(r) == run[r].recent /\ ~run[r].active /\ run' = [run EXCEPT ![r].recent = FALSE]

Elsewhere(r) ==
  /\ RunnerWrites(r) \/ JobEnds(r) \/ RowIsClosed(r) \/ LeaveWindow(r)
  /\ UNCHANGED <<pending, seen, seen_active, missing_row, reconcile, cached, givenUp>>

\* A browser that shows a table refreshes its score too.
BrowserRefresh(table) ==
  /\ cached' = Refreshed({table}) /\ cached' # cached
  /\ UNCHANGED <<run, pending, seen, seen_active, missing_row, reconcile, givenUp>>

\* _refresh_scores_for_completed_runs, in one pass.  Each of its queries may fail:
\* the sweep is skipped, the rows end the pass, the refresh loses what the pass
\* has collected.
Remember(mem) ==
  /\ pending' = [r \in DOMAIN mem.pending |-> IF mem.pending[r] > _SCORE_REFRESH_TTL THEN mem.pending[r] ELSE mem.pending[r] + 1]
  /\ seen' = mem.seen /\ seen_active' = mem.seen_active /\ missing_row' = mem.missing_row

\* The scores of the tables whose runs have completed are refreshed, or all of
\* them as long as a reconciliation is due; a failure gives them up.
Settle(completed, lapsed) ==
  \E works \in BOOLEAN :
    IF _reconcile_due
    THEN /\ reconcile' = [attempts |-> reconcile.attempts + 1, done |-> works]
         /\ cached' = IF works THEN Refreshed(Monitored \cup completed) ELSE cached
         /\ givenUp' = givenUp \cup lapsed
              \cup (IF works THEN {} ELSE {r \in Runs : TableOf[r] \in completed \ Monitored})
              \cup (IF ~works /\ reconcile'.attempts = _SCORE_RECONCILE_MAX_ATTEMPTS THEN Runs ELSE {})
    ELSE /\ cached' = IF works THEN Refreshed(completed) ELSE cached
         /\ givenUp' = givenUp \cup lapsed
              \cup (IF works THEN {} ELSE {r \in Runs : TableOf[r] \in completed})
         /\ UNCHANGED reconcile

Pass ==
  /\ \E window \in Windows \cup {{}}, swept, listed \in BOOLEAN :
       LET mem == IF swept THEN _sweep_recent_run_sets(Memory, window) ELSE Memory
           live == _forget_score_run(mem, Expired(mem))
           asked == SeenActive(live, listed)
           finished == _score_runs_with_finished_jobs(asked, listed)
           after == _collect_completed(asked, finished)
           completed == {TableOf[r] : r \in {q \in finished : Ended(q)}}
           lapsed == Expired(mem) \cup {r \in finished : ~Ended(r) /\ r \in asked.missing_row}
                     \cup {r \in finished : Ended(r) /\ run[r].active}
       IN /\ swept => window \in Windows
          /\ ~swept => window = {}
          /\ \/ /\ finished # {}
                /\ Remember(asked) /\ givenUp' = givenUp \cup Expired(mem)
                /\ UNCHANGED <<reconcile, cached>>
             \/ /\ Remember(after)
                /\ Settle(completed, lapsed)
  /\ UNCHANGED run

Next ==
  \/ \E r \in Runs : Elsewhere(r) \/ \E by_scheduler \in BOOLEAN : Launch(r, by_scheduler)
  \/ \E table \in Tables : BrowserRefresh(table)
  \/ Pass

Spec == Init /\ [][Next]_refreshVars

-----------------------------------------------------------------------------

\* A run that has ended with metrics is in the scores, or the scheduler waits
\* for it, has yet to find it, or will reconcile its table; whatever is lost
\* otherwise was given up with a warning, or had its row taken before it wrote its
\* metrics because the jobs could not be listed.
NoScoreSlips ==
  \A r \in Runs :
    Ended(r) /\ run[r].metrics =>
      \/ r \in cached \cup givenUp \cup Waiting
      \/ r \notin seen
      \/ _reconcile_due /\ TableOf[r] \in Monitored

=============================================================================
