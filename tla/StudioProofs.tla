---------------------------- MODULE StudioProofs ----------------------------
(***************************************************************************)
(* What is proved of the smaller services of Studio, for any constants.    *)
(* ScoreRefresh: no score of a run slips through the passes of the         *)
(* scheduler.  TokenRefresh: no login comes with a token past its time, as *)
(* long as the budget of retries fits within the life of a token.          *)
(* Settings: a save leaves the rest alone, whoever else is saving, and     *)
(* wherever it fails.  GenieSpace: the space is as it is noted, with a     *)
(* second one only where a lookup missed the first.  Products, Reviews:    *)
(* what is decided is what was submitted, and the history of a run's       *)
(* review statuses tells how the last one came about.  Access: the right   *)
(* to change the grants of an object is only handed down.  Entitlements:   *)
(* failing rows are shown to those who could read them when asked about.   *)
(* ScheduleGrants: a table whose preflight passes can be read by the job,  *)
(* and the statements that are listed for one that does not help.          *)
(* AiDrafts: a draft that is handed out can be bound to what it declares.  *)
(***************************************************************************)
EXTENDS ScoreRefresh, Integers, SequenceTheorems, FiniteSetTheorems, FunctionTheorems, WellFoundedInduction, TLAPS

CONSTANTS Connections, TokenLife, _token_refresh_seconds, RetryLeast, RetryMost, _token_refresh_max_failures
VARIABLES process, static, token, failures, waited, pool, refused

Tokens == INSTANCE TokenRefresh

CONSTANTS Admins, Reserved, Own, None, MAX_CUSTOM_PRESETS, PROFILER_SAMPLE_RECORDS_MAX, RunNames, MaxSaves
VARIABLES page, rows, labels, branding, stored, admin, strayed, saves

Options == INSTANCE Settings

-----------------------------------------------------------------------------
(* The inductive invariant *)

\* What the scheduler has seen, and what is recent or has ended, was started.
RunTypes == [started : BOOLEAN, active : BOOLEAN, metrics : BOOLEAN, row : {"none", "RUNNING", "ended"}, recent : BOOLEAN]
TypeInv ==
  /\ run \in [Runs -> RunTypes]
  /\ reconcile \in [attempts : Nat, done : BOOLEAN]
StartedInv == \A r \in Runs : r \in seen \/ run[r].recent \/ run[r].active \/ Ended(r) => run[r].started

\* A run that was seen is accounted for, before it ends as well as after, and
\* a run without metrics counts only until its job ends.
Accounted(r) ==
  \/ r \in cached \cup givenUp \cup Waiting
  \/ _reconcile_due /\ TableOf[r] \in Monitored /\ Ended(r) /\ run[r].metrics
SlipInv == \A r \in Runs : r \in seen /\ (Ended(r) => run[r].metrics \/ run[r].active) => Accounted(r)

ScoreInv == TypeInv /\ StartedInv /\ SlipInv

-----------------------------------------------------------------------------
(* The steps of a pass *)

(* The sweep waits for every run it sees for the first time, and what it has *)
(* seen is of the window or was seen before (_sweep_recent_run_sets).        *)
LEMMA SweepTracks ==
  ASSUME NEW mem, NEW window, mem = Memory
  PROVE  LET swept == _sweep_recent_run_sets(mem, window)
         IN /\ DOMAIN swept.pending = Waiting \cup (window \ seen)
            /\ swept.seen \subseteq seen \cup window
            /\ swept.seen_active = seen_active
            /\ swept.missing_row = missing_row
  BY DEF _sweep_recent_run_sets, _track_run_for_score_refresh, Memory, Waiting

(* A window holds recent runs, wherever the limit cuts it. *)
LEMMA WindowsAreRecent == \A window \in Windows : window \subseteq {r \in Runs : run[r].recent}
  BY DEF Windows

(* A memory is all that a pass works on. *)
IsMemory(memory) == DOMAIN memory = {"pending", "seen", "seen_active", "missing_row"}

(* Forgetting runs ends the wait for them and nothing else. *)
LEMMA ForgetEndsTheWait ==
  ASSUME NEW memory, IsMemory(memory), NEW rs
  PROVE  LET kept == _forget_score_run(memory, rs)
         IN /\ IsMemory(kept)
            /\ DOMAIN kept.pending = DOMAIN memory.pending \ rs
            /\ kept.seen = memory.seen
  BY DEF _forget_score_run, IsMemory

(* What a pass does: S is what it waits for once it has swept, known what it   *)
(* has seen then.  It waits on for all of S that has not expired, or collects: *)
(* what it ceases to wait for then has ended or is given up.                   *)
Collects(S, known, expired, finished, lapsed) ==
  /\ Waiting \subseteq S /\ known \subseteq seen \cup S
  /\ \A r \in known \cap Runs : r \in seen \/ run[r].recent
  /\ expired \cup {r \in finished : Ended(r) /\ run[r].active} \subseteq lapsed
  /\ seen' = known
  /\ UNCHANGED run
  /\ \/ /\ Waiting' = S \ expired /\ givenUp' = givenUp \cup expired
        /\ UNCHANGED <<reconcile, cached>>
     \/ /\ S \subseteq Waiting' \cup {r \in finished : Ended(r)} \cup lapsed
        /\ Settle({TableOf[r] : r \in {q \in finished : Ended(q)}}, lapsed)

LEMMA PassCollects ==
  ASSUME Pass
  PROVE  \E S, known, expired, finished, lapsed : Collects(S, known, expired, finished, lapsed)
PROOF
<1>1. PICK window \in Windows \cup {{}}, swept, listed \in BOOLEAN :
        LET mem == IF swept THEN _sweep_recent_run_sets(Memory, window) ELSE Memory
            live == _forget_score_run(mem, Expired(mem))
            asked == SeenActive(live, listed)
            finished == _score_runs_with_finished_jobs(asked, listed)
            after == _collect_completed(asked, finished)
            completed == {TableOf[r] : r \in {q \in finished : Ended(q)}}
            lapsed == Expired(mem) \cup {r \in finished : ~Ended(r) /\ r \in asked.missing_row}
                      \cup {r \in finished : Ended(r) /\ run[r].active}
        IN /\ swept => window \in Windows
           /\ ~swept => window = {}
           /\ \/ /\ finished # {}
                 /\ Remember(asked) /\ givenUp' = givenUp \cup Expired(mem)
                 /\ UNCHANGED <<reconcile, cached>>
              \/ /\ Remember(after)
                 /\ Settle(completed, lapsed)
  BY Zenon DEF Pass
<1> DEFINE mem == IF swept THEN _sweep_recent_run_sets(Memory, window) ELSE Memory
           live == _forget_score_run(mem, Expired(mem))
           asked == SeenActive(live, listed)
           finished == _score_runs_with_finished_jobs(asked, listed)
           after == _collect_completed(asked, finished)
           lapsed == Expired(mem) \cup {r \in finished : ~Ended(r) /\ r \in asked.missing_row}
                     \cup {r \in finished : Ended(r) /\ run[r].active}
           S == DOMAIN mem.pending
<1>2. Waiting \subseteq S /\ mem.seen \subseteq seen \cup S /\ \A r \in mem.seen \cap Runs : r \in seen \/ run[r].recent
  <2>1. CASE swept
    BY <2>1, <1>1, SweepTracks, WindowsAreRecent
  <2>2. CASE ~swept
    BY <2>2 DEF Memory, Waiting
  <2>3. QED
    BY <2>1, <2>2
<1>3. IsMemory(mem) /\ Expired(mem) \subseteq S
  <2>1. IsMemory(Memory)
    BY DEF IsMemory, Memory
  <2>2. IsMemory(_sweep_recent_run_sets(Memory, window))
    BY DEF IsMemory, Memory, _sweep_recent_run_sets, _track_run_for_score_refresh
  <2>3. QED
    BY <2>1, <2>2 DEF Expired
<1>4. IsMemory(live) /\ DOMAIN live.pending = S \ Expired(mem) /\ live.seen = mem.seen
  BY <1>3, ForgetEndsTheWait
<1>5. IsMemory(asked) /\ asked.pending = live.pending /\ asked.seen = mem.seen
  BY <1>4 DEF IsMemory, SeenActive
<1>6. /\ finished \subseteq DOMAIN asked.pending
      /\ Expired(mem) \cup {r \in finished : Ended(r) /\ run[r].active} \subseteq lapsed
  BY DEF _score_runs_with_finished_jobs
<1>7. /\ DOMAIN after.pending = DOMAIN asked.pending \ ({r \in finished : Ended(r)} \cup {r \in finished : ~Ended(r) /\ r \in asked.missing_row})
      /\ after.seen = mem.seen
  <2> DEFINE gone == {r \in finished : Ended(r)} \cup ((finished \ {r \in finished : Ended(r)}) \cap asked.missing_row)
  <2>1. /\ DOMAIN _forget_score_run(asked, gone).pending = DOMAIN asked.pending \ gone
        /\ _forget_score_run(asked, gone).seen = asked.seen
        /\ IsMemory(_forget_score_run(asked, gone))
    BY <1>5, ForgetEndsTheWait
  <2>2. /\ after.pending = _forget_score_run(asked, gone).pending
        /\ after.seen = _forget_score_run(asked, gone).seen
    BY <2>1 DEF _collect_completed, IsMemory
  <2>3. QED
    BY <2>1, <2>2, <1>5
<1>8. UNCHANGED run
  BY DEF Pass
<1>9. CASE Remember(asked) /\ givenUp' = givenUp \cup Expired(mem) /\ UNCHANGED <<reconcile, cached>>
  <2>1. Waiting' = S \ Expired(mem) /\ seen' = mem.seen
    BY <1>9, <1>4, <1>5 DEF Remember, Waiting
  <2> HIDE DEF mem, live, asked, finished, after, lapsed, S
  <2>2. Collects(S, mem.seen, Expired(mem), finished, lapsed)
    BY <2>1, <1>2, <1>6, <1>8, <1>9 DEF Collects
  <2>3. QED
    BY <2>2
<1>10. CASE Remember(after) /\ Settle({TableOf[r] : r \in {q \in finished : Ended(q)}}, lapsed)
  <2>1. Waiting' = DOMAIN after.pending /\ seen' = mem.seen
    BY <1>10, <1>7 DEF Remember, Waiting
  <2>2. S \subseteq Waiting' \cup {r \in finished : Ended(r)} \cup lapsed
    BY <2>1, <1>4, <1>5, <1>7
    <2> HIDE DEF mem, live, asked, finished, after, lapsed, S
  <2>3. Collects(S, mem.seen, Expired(mem), finished, lapsed)
    BY <2>1, <2>2, <1>2, <1>6, <1>8, <1>10 DEF Collects
  <2>4. QED
    BY <2>3
<1>11. QED
  BY <1>1, <1>9, <1>10

-----------------------------------------------------------------------------
(* The steps *)

(* A reconciliation ends with all scores or leaves its tables to the next one; *)
(* the last of them gives everything up.                                       *)
LEMMA SettleAccounts ==
  ASSUME TypeInv, ScoreAssumption, NEW completed, NEW lapsed, Settle(completed, lapsed), UNCHANGED run, NEW r \in Runs
  PROVE  /\ r \in cached \cup givenUp \cup lapsed => r \in cached' \cup givenUp'
         /\ Ended(r) /\ run[r].metrics /\ TableOf[r] \in completed =>
              r \in cached' \cup givenUp' \/ (_reconcile_due /\ TableOf[r] \in Monitored)'
         /\ Ended(r) /\ run[r].metrics /\ _reconcile_due /\ TableOf[r] \in Monitored =>
              r \in cached' \cup givenUp' \/ (_reconcile_due /\ TableOf[r] \in Monitored)'
PROOF
<1>1. PICK works \in BOOLEAN :
        IF _reconcile_due
        THEN /\ reconcile' = [attempts |-> reconcile.attempts + 1, done |-> works]
             /\ cached' = IF works THEN Refreshed(Monitored \cup completed) ELSE cached
             /\ givenUp' = givenUp \cup lapsed
                  \cup (IF works THEN {} ELSE {q \in Runs : TableOf[q] \in completed \ Monitored})
                  \cup (IF ~works /\ reconcile'.attempts = _SCORE_RECONCILE_MAX_ATTEMPTS THEN Runs ELSE {})
        ELSE /\ cached' = IF works THEN Refreshed(completed) ELSE cached
             /\ givenUp' = givenUp \cup lapsed
                  \cup (IF works THEN {} ELSE {q \in Runs : TableOf[q] \in completed})
             /\ UNCHANGED reconcile
  BY DEF Settle
<1>2. \A tables : cached \subseteq Refreshed(tables) /\ (run[r].metrics /\ TableOf[r] \in tables => r \in Refreshed(tables))
  BY DEF Refreshed
<1>3. r \in cached \cup givenUp \cup lapsed => r \in cached' \cup givenUp'
  BY <1>1, <1>2
<1>4. CASE ~_reconcile_due
  BY <1>1, <1>2, <1>3, <1>4
<1>5. CASE _reconcile_due /\ works
  BY <1>1, <1>2, <1>3, <1>5
<1>6. CASE _reconcile_due /\ ~works
  <2>1. reconcile.attempts \in Nat /\ reconcile.attempts < _SCORE_RECONCILE_MAX_ATTEMPTS /\ _SCORE_RECONCILE_MAX_ATTEMPTS \in Nat
    BY <1>6 DEF TypeInv, ScoreAssumption, _reconcile_due
  <2>2. reconcile' = [attempts |-> reconcile.attempts + 1, done |-> FALSE]
    BY <1>1, <1>6
  <2>3. CASE reconcile.attempts + 1 = _SCORE_RECONCILE_MAX_ATTEMPTS
    BY <1>1, <1>3, <1>6, <2>2, <2>3
  <2>4. CASE reconcile.attempts + 1 < _SCORE_RECONCILE_MAX_ATTEMPTS
    <3>1. _reconcile_due'
      BY <2>2, <2>4 DEF _reconcile_due
    <3>2. QED
      BY <1>1, <1>3, <1>6, <3>1
  <2>5. QED
    BY <2>1, <2>3, <2>4
<1>7. QED
  BY <1>4, <1>5, <1>6

(* A pass keeps every run that was seen accounted for. *)
LEMMA PassAccounts ==
  ASSUME ScoreInv, ScoreAssumption, Pass
  PROVE  StartedInv' /\ SlipInv'
PROOF
<1>1. PICK S, known, expired, finished, lapsed : Collects(S, known, expired, finished, lapsed)
  BY PassCollects
<1>2. UNCHANGED run /\ seen' = known
  BY <1>1 DEF Collects
<1>3. StartedInv'
  BY <1>1, <1>2 DEF Collects, ScoreInv, StartedInv, Ended
<1>4. ASSUME NEW r \in Runs, r \in known, Ended(r) => run[r].metrics \/ run[r].active
      PROVE  Accounted(r)'
  <2>1. r \in S \/ Accounted(r)
    BY <1>1, <1>4 DEF Collects, ScoreInv, SlipInv
  <2>2. CASE Waiting' = S \ expired /\ givenUp' = givenUp \cup expired /\ UNCHANGED <<reconcile, cached>>
    BY <1>1, <1>2, <2>1, <2>2 DEF Collects, Accounted, _reconcile_due, Ended
  <2>3. CASE /\ S \subseteq Waiting' \cup {q \in finished : Ended(q)} \cup lapsed
             /\ Settle({TableOf[q] : q \in {p \in finished : Ended(p)}}, lapsed)
    <3> DEFINE completed == {TableOf[q] : q \in {p \in finished : Ended(p)}}
    <3>1. r \in S => r \in Waiting' \/ r \in lapsed \/ (Ended(r) /\ run[r].metrics /\ TableOf[r] \in completed)
      BY <1>1, <1>4, <2>3 DEF Collects
    <3>2. Waiting \subseteq S /\ TypeInv /\ Ended(r)' = Ended(r)
      BY <1>1, <1>2 DEF Collects, ScoreInv, Ended
    <3> HIDE DEF completed
    <3>3. /\ r \in cached \cup givenUp \cup lapsed => r \in cached' \cup givenUp'
          /\ Ended(r) /\ run[r].metrics /\ TableOf[r] \in completed =>
               r \in cached' \cup givenUp' \/ (_reconcile_due /\ TableOf[r] \in Monitored)'
          /\ Ended(r) /\ run[r].metrics /\ _reconcile_due /\ TableOf[r] \in Monitored =>
               r \in cached' \cup givenUp' \/ (_reconcile_due /\ TableOf[r] \in Monitored)'
      BY <1>2, <2>3, <3>2, SettleAccounts DEF completed
    <3>4. QED
      BY <1>2, <1>4, <2>1, <3>1, <3>2, <3>3 DEF Accounted
  <2>4. QED
    BY <1>1, <2>2, <2>3 DEF Collects
<1>5. QED
  BY <1>2, <1>3, <1>4 DEF SlipInv, Ended

(* What happens elsewhere ends runs that are accounted for already. *)
LEMMA ElsewhereAccounts ==
  ASSUME ScoreInv, NEW q \in Runs, Elsewhere(q)
  PROVE  ScoreInv'
PROOF
<1>1. TypeInv /\ StartedInv /\ SlipInv /\ UNCHANGED <<pending, seen, seen_active, missing_row, reconcile, cached, givenUp>>
  BY DEF ScoreInv, Elsewhere
<1>2. PICK next \in RunTypes :
        /\ run' = [run EXCEPT ![q] = next]
        /\ next.started = run[q].started
        /\ next.active => run[q].active
        /\ next.recent => run[q].recent
        /\ Ended(q) => next.row = "ended"
        /\ run[q].metrics => next.metrics
        /\ next.metrics => run[q].metrics \/ (run[q].active /\ next.active)
        /\ next.row = "ended" => run[q].started
  <2>1. run[q] \in RunTypes /\ run \in [Runs -> RunTypes]
    BY <1>1 DEF TypeInv
  <2>2. CASE RunnerWrites(q)
    <3>1. CASE Ended(q)
      BY <1>1, <2>1, <2>2, <3>1 DEF RunnerWrites, RunTypes, StartedInv, Ended
    <3>2. CASE ~Ended(q)
      BY <1>1, <2>1, <2>2, <3>2 DEF RunnerWrites, RunTypes, StartedInv, Ended
    <3>3. QED
      BY <3>1, <3>2
  <2>3. CASE JobEnds(q)
    BY <1>1, <2>1, <2>3 DEF JobEnds, RunTypes, StartedInv, Ended
  <2>4. CASE RowIsClosed(q)
    BY <1>1, <2>1, <2>4 DEF RowIsClosed, RunTypes, StartedInv, Ended
  <2>5. CASE LeaveWindow(q)
    BY <1>1, <2>1, <2>5 DEF LeaveWindow, RunTypes, StartedInv, Ended
  <2>6. QED
    BY <2>2, <2>3, <2>4, <2>5 DEF Elsewhere
<1>3. TypeInv'
  BY <1>1, <1>2 DEF TypeInv
<1>4. ASSUME NEW r \in Runs
      PROVE  /\ run'[r].started = run[r].started
             /\ run'[r].active => run[r].active
             /\ run'[r].recent => run[r].recent
             /\ Ended(r) => Ended(r)'
             /\ run[r].metrics => run'[r].metrics
             /\ run'[r].metrics => run[r].metrics \/ run[r].active
             /\ Ended(r)' => run[r].started
  BY <1>1, <1>2 DEF TypeInv, Ended, StartedInv
<1>5. StartedInv'
  BY <1>1, <1>4 DEF StartedInv
<1>6. SlipInv'
  BY <1>1, <1>4 DEF SlipInv, Accounted, Waiting, _reconcile_due
<1>7. QED
  BY <1>3, <1>5, <1>6 DEF ScoreInv

(* A run that is started has not been seen, unless its scheduler tracks it. *)
LEMMA LaunchAccounts ==
  ASSUME ScoreInv, NEW q \in Runs, NEW by_scheduler \in BOOLEAN, Launch(q, by_scheduler)
  PROVE  ScoreInv'
PROOF
<1> DEFINE next == [NoRun EXCEPT !.started = TRUE, !.active = TRUE, !.row = "RUNNING", !.recent = TRUE]
<1>1. TypeInv /\ StartedInv /\ SlipInv /\ UNCHANGED <<reconcile, cached, givenUp>>
  BY DEF ScoreInv, Launch
<1>2. ~run[q].started /\ run' = [run EXCEPT ![q] = next] /\ next \in RunTypes /\ next.started /\ next.row = "RUNNING"
  BY DEF Launch, NoRun, RunTypes
<1>3. /\ Waiting \subseteq Waiting' /\ seen \subseteq seen'
      /\ seen' \subseteq seen \cup {q} /\ (q \in seen' => q \in seen \cup Waiting')
  BY DEF Launch, Memory, _track_run_for_score_refresh, Waiting
<1> HIDE DEF next
<1>4. TypeInv'
  BY <1>1, <1>2 DEF TypeInv
<1>5. \A r \in Runs : r # q => run'[r] = run[r]
  BY <1>1, <1>2 DEF TypeInv
<1>6. run'[q] = next
  BY <1>1, <1>2 DEF TypeInv
<1>7. StartedInv'
  BY <1>1, <1>2, <1>3, <1>5, <1>6 DEF StartedInv, Ended
<1>8. q \notin seen
  BY <1>1, <1>2 DEF StartedInv
<1>9. SlipInv'
  BY <1>1, <1>3, <1>5, <1>8 DEF SlipInv, Accounted, _reconcile_due, Ended
<1>10. QED
  BY <1>4, <1>7, <1>9 DEF ScoreInv

(* Every step keeps the invariant. *)
LEMMA ScoreStep ==
  ASSUME ScoreInv, ScoreAssumption, [Next]_refreshVars
  PROVE  ScoreInv'
PROOF
<1>1. CASE \E r \in Runs : Elsewhere(r)
  BY <1>1, ElsewhereAccounts
<1>2. CASE \E r \in Runs : \E by_scheduler \in BOOLEAN : Launch(r, by_scheduler)
  BY <1>2, LaunchAccounts
<1>3. CASE \E table \in Tables : BrowserRefresh(table)
  <2>1. /\ cached \subseteq cached'
        /\ UNCHANGED <<run, pending, seen, seen_active, missing_row, reconcile, givenUp>>
    BY <1>3 DEF BrowserRefresh, Refreshed
  <2>2. QED
    BY <2>1 DEF ScoreInv, TypeInv, StartedInv, SlipInv, Accounted, Waiting, _reconcile_due, Ended
<1>4. CASE Pass
  <2>1. TypeInv'
    <3>1. UNCHANGED run /\ \E S, known, expired, finished, lapsed : Collects(S, known, expired, finished, lapsed)
      BY <1>4, PassCollects DEF Pass
    <3>2. PICK S, known, expired, finished, lapsed : Collects(S, known, expired, finished, lapsed)
      BY <3>1
    <3>3. CASE UNCHANGED reconcile
      BY <3>1, <3>3 DEF TypeInv, ScoreInv
    <3>4. CASE Settle({TableOf[r] : r \in {q \in finished : Ended(q)}}, lapsed)
      <4>1. PICK works \in BOOLEAN : UNCHANGED reconcile \/ reconcile' = [attempts |-> reconcile.attempts + 1, done |-> works]
        BY <3>4 DEF Settle
      <4>2. QED
        BY <3>1, <4>1 DEF TypeInv, ScoreInv
    <3>5. QED
      BY <3>2, <3>3, <3>4 DEF Collects
  <2>2. QED
    BY <1>4, <2>1, PassAccounts DEF ScoreInv
<1>5. CASE UNCHANGED refreshVars
  BY <1>5 DEF refreshVars, ScoreInv, TypeInv, StartedInv, SlipInv, Accounted, Waiting, _reconcile_due, Ended
<1>6. QED
  BY <1>1, <1>2, <1>3, <1>4, <1>5 DEF Next

(* A start knows nothing of the runs there are. *)
LEMMA ScoreStart == Init => ScoreInv
PROOF
<1>1. ASSUME NEW b \in Before
      PROVE  b \in RunTypes /\ (b.recent \/ b.active \/ b.row = "ended" => b.started)
  <2>1. CASE b = NoRun
    BY <2>1 DEF NoRun, RunTypes
  <2>2. CASE b \in [started : {TRUE}, active : BOOLEAN, metrics : BOOLEAN, row : {"RUNNING", "ended"}, recent : BOOLEAN]
    BY <2>2 DEF RunTypes
  <2>3. QED
    BY <2>1, <2>2 DEF Before
<1>2. QED
  BY <1>1 DEF Init, ScoreInv, TypeInv, StartedInv, SlipInv, Start, Ended

(* NoScoreSlips: a run that has ended with metrics is in the scores, or the   *)
(* scheduler waits for it, has yet to find it, or will reconcile its table;   *)
(* whatever else is lost was given up with a warning, or had its row taken    *)
(* before it wrote its metrics as the jobs could not be listed.  So neither   *)
(* a start that forgets what was waited for, nor a window that is cut, nor a  *)
(* query that fails within a pass loses the scores of a run without a trace   *)
(* (_refresh_scores_for_completed_runs, refresh_all_for_tables).              *)
THEOREM ScoresAreTakenUp ==
  ASSUME ScoreAssumption
  PROVE  Spec => []NoScoreSlips
PROOF
<1>1. Init => ScoreInv
  BY ScoreStart
<1>2. ScoreInv /\ [Next]_refreshVars => ScoreInv'
  BY ScoreStep
<1>3. ScoreInv => NoScoreSlips
  BY DEF ScoreInv, SlipInv, Accounted, NoScoreSlips
<1>4. QED
  BY <1>1, <1>2, <1>3, PTL DEF Spec

-----------------------------------------------------------------------------
(* The tokens *)

\* A token that was renewed is as old as the wait since; after k failures it has
\* seen the regular interval and k retry intervals at most.
TokenInv ==
  /\ static \in BOOLEAN /\ token \in Nat /\ failures \in Nat /\ waited \in Nat
  /\ ~refused
  /\ process = "up" /\ ~static =>
       /\ failures < _token_refresh_max_failures
       /\ failures = 0 => token <= waited /\ waited <= _token_refresh_seconds
       /\ failures > 0 => waited <= RetryMost /\ token <= _token_refresh_seconds + (failures - 1) * RetryMost + waited

(* The thread wakes after the regular interval, or after the longest retry. *)
LEMMA WakesInTime ==
  ASSUME Tokens!TokenAssumption
  PROVE  Tokens!WakesBy = IF failures = 0 THEN _token_refresh_seconds ELSE RetryMost
PROOF
<1>1. /\ _token_refresh_seconds \in Int /\ RetryLeast \in Int /\ RetryMost \in Int /\ RetryLeast <= RetryMost
  BY DEF Tokens!TokenAssumption
<1>2. CASE failures = 0
  <2>1. _token_refresh_seconds .. _token_refresh_seconds = {_token_refresh_seconds}
    BY <1>1
  <2>2. QED
    BY <1>2, <2>1, <1>1 DEF Tokens!WakesBy, Tokens!_next_wait_seconds
<1>3. CASE failures # 0
  <2>1. RetryMost \in RetryLeast .. RetryMost /\ \A k \in RetryLeast .. RetryMost : k <= RetryMost
    BY <1>1
  <2>2. \A n \in RetryLeast .. RetryMost : (\A k \in RetryLeast .. RetryMost : k <= n) => n = RetryMost
    BY <1>1, <2>1
  <2>3. QED
    BY <1>3, <2>1, <2>2 DEF Tokens!WakesBy, Tokens!_next_wait_seconds
<1>4. QED
  BY <1>2, <1>3

(* One more retry interval, and all of them together. *)
LEMMA Retries ==
  ASSUME NEW k \in Nat, NEW m \in Nat, NEW r \in Nat, k <= m
  PROVE  /\ (k - 1) * r + r = k * r /\ (k + 1 - 1) * r = k * r
         /\ k * r <= m * r /\ k * r >= 0
         /\ m # 0 => (m - 1) * r >= 0
PROOF
<1>1. (k - 1) * r + r = k * r /\ k + 1 - 1 = k
  OBVIOUS
<1>2. PICK d \in Nat : m = k + d
  <2>1. m - k \in Nat /\ m = k + (m - k)
    OBVIOUS
  <2>2. QED
    BY <2>1
<1>3. m * r = k * r + d * r /\ d * r >= 0 /\ k * r >= 0 /\ d * r \in Int /\ k * r \in Int
  BY <1>2
<1>4. m # 0 => m - 1 \in Nat
  OBVIOUS
<1>5. m # 0 => (m - 1) * r >= 0
  BY <1>4
<1>6. QED
  BY <1>1, <1>3, <1>5

(* A token is accepted for as long as the process is up. *)
LEMMA TokenIsAccepted ==
  ASSUME Tokens!TokenAssumption, TokenInv, process = "up", ~static
  PROVE  token < TokenLife
PROOF
<1> DEFINE M == _token_refresh_max_failures - 1
<1>1. /\ TokenLife \in Nat /\ _token_refresh_seconds \in Nat /\ RetryMost \in Nat /\ M \in Nat
      /\ _token_refresh_seconds + M * RetryMost < TokenLife
  BY DEF Tokens!TokenAssumption
<1>2. token \in Nat /\ waited \in Nat /\ failures \in Nat /\ failures <= M
  BY <1>1 DEF TokenInv, Tokens!TokenAssumption
<1> HIDE DEF M
<1>3. /\ failures * RetryMost <= M * RetryMost /\ failures * RetryMost >= 0
      /\ (failures - 1) * RetryMost + RetryMost = failures * RetryMost
  BY <1>1, <1>2, Retries
<1>4. M * RetryMost \in Int /\ failures * RetryMost \in Int /\ (failures - 1) * RetryMost \in Int
  BY <1>1, <1>2
<1>5. CASE failures = 0
  BY <1>1, <1>2, <1>3, <1>4, <1>5 DEF TokenInv
<1>6. CASE failures > 0
  BY <1>1, <1>2, <1>3, <1>4, <1>6 DEF TokenInv
<1>7. QED
  BY <1>2, <1>5, <1>6

(* Every step keeps the age of the token within what the waits add up to. *)
LEMMA TokenStep ==
  ASSUME Tokens!TokenAssumption, TokenInv, [Tokens!Next]_Tokens!tokenVars
  PROVE  TokenInv'
PROOF
<1>1. /\ _token_refresh_seconds \in Nat \ {0} /\ RetryMost \in Nat \ {0} /\ _token_refresh_max_failures \in Nat \ {0}
      /\ static \in BOOLEAN /\ token \in Nat /\ failures \in Nat /\ waited \in Nat /\ ~refused
  BY DEF Tokens!TokenAssumption, TokenInv
<1>2. CASE Tokens!Start
  BY <1>1, <1>2 DEF Tokens!Start, TokenInv
<1>3. CASE Tokens!StartFails \/ UNCHANGED Tokens!tokenVars
  BY <1>3 DEF Tokens!StartFails, Tokens!tokenVars, TokenInv
<1>4. CASE Tokens!Refresh
  BY <1>1, <1>4 DEF Tokens!Refresh, TokenInv
<1>5. CASE Tokens!RefreshFails
  <2>1. process = "up" /\ ~static /\ failures' = failures + 1 /\ waited' = 0 /\ UNCHANGED <<static, token, refused>>
    BY <1>5 DEF Tokens!RefreshFails
  <2>2. process' = "up" => failures' < _token_refresh_max_failures
    BY <1>1, <1>5 DEF Tokens!RefreshFails
  <2>3. token <= _token_refresh_seconds + (failures' - 1) * RetryMost + waited'
    <3>1. (failures' - 1) * RetryMost = failures * RetryMost /\ (failures - 1) * RetryMost + RetryMost = failures * RetryMost
      BY <1>1, <2>1, Retries
    <3>2. failures * RetryMost \in Int /\ (failures - 1) * RetryMost \in Int /\ failures * RetryMost >= 0
      BY <1>1
    <3>3. CASE failures = 0
      BY <1>1, <2>1, <3>1, <3>2, <3>3 DEF TokenInv
    <3>4. CASE failures > 0
      BY <1>1, <2>1, <3>1, <3>2, <3>4 DEF TokenInv
    <3>5. QED
      BY <1>1, <3>3, <3>4
  <2>4. QED
    BY <1>1, <2>1, <2>2, <2>3 DEF TokenInv
<1>6. CASE Tokens!close
  BY <1>1, <1>6 DEF Tokens!close, TokenInv
<1>7. CASE Tokens!Tick
  <2>1. process = "up" /\ UNCHANGED <<process, static, failures, refused>>
    BY <1>7 DEF Tokens!Tick
  <2>2. CASE static
    BY <1>1, <1>7, <2>1, <2>2 DEF Tokens!Tick, TokenInv
  <2>3. CASE ~static
    <3>1. token' = token + 1 /\ waited' = waited + 1 /\ waited < IF failures = 0 THEN _token_refresh_seconds ELSE RetryMost
      BY <1>7, <2>3, WakesInTime DEF Tokens!Tick
    <3>2. (failures - 1) * RetryMost \in Int
      BY <1>1
    <3>3. QED
      BY <1>1, <2>1, <2>3, <3>1, <3>2 DEF TokenInv
  <2>4. QED
    BY <2>2, <2>3
<1>8. CASE \E c \in Connections : Tokens!Login(c) \/ Tokens!Dropped(c)
  <2>1. UNCHANGED <<process, static, token, failures, waited, refused>>
    BY <1>8, <1>1, TokenIsAccepted DEF Tokens!Login, Tokens!Dropped
  <2>2. QED
    BY <2>1 DEF TokenInv
<1>9. QED
  BY <1>2, <1>3, <1>4, <1>5, <1>6, <1>7, <1>8 DEF Tokens!Next

(* LoginsAreAccepted: while the process is up its token is accepted and no     *)
(* login is refused, whatever the run of failures; a process that cannot get   *)
(* another token is gone before the last one runs out                          *)
(* (_token_refresh_loop, _escalate_refresh_failure).                           *)
THEOREM TokensOutliveTheirRetries ==
  ASSUME Tokens!TokenAssumption
  PROVE  Tokens!Spec => []Tokens!LoginsAreAccepted
PROOF
<1>1. Tokens!Init => TokenInv
  BY DEF Tokens!Init, TokenInv
<1>2. TokenInv /\ [Tokens!Next]_Tokens!tokenVars => TokenInv'
  BY TokenStep
<1>3. TokenInv => Tokens!LoginsAreAccepted
  BY TokenIsAccepted DEF TokenInv, Tokens!LoginsAreAccepted
<1>4. QED
  BY <1>1, <1>2, <1>3, PTL DEF Tokens!Spec

-----------------------------------------------------------------------------
(* Settings: the inductive invariant *)

\* The branding a request may find: its preset is there, its numbers name one
\* preset each, and a shared logo is the light one.
AllLooks == Options!Looks \cup {"default"}
Slots == Options!LOGO_SLOTS
Presets == [id : Nat, look : AllLooks]
Documents ==
  [preset : Nat \cup {None}, custom : SUBSET Presets, edited : SUBSET Presets, logo_mode : {"shared", "separate"},
   logos : [Slots -> Options!Logos \cup {None}]]
Coherent(d) ==
  /\ d \in Documents
  /\ d.preset \in Options!PRESET_IDS \cup {None} \/ \E c \in d.custom : c.id = d.preset
  /\ \A c, e \in d.custom : c.id = e.id => c = e
  /\ \E n \in Nat : \A c \in d.custom : c.id <= n
  /\ IsFiniteSet(d.custom) /\ Cardinality(d.custom) <= MAX_CUSTOM_PRESETS
  /\ d.logo_mode = "shared" => d.logos["dark"] = None

\* What is under way on a page.
Uploading == [step : {"copy", "logo", "write"}, stale : BOOLEAN, slot : Slots, logo : Options!Logos, document : Documents]
Saving == [step : {"write"}, stale : BOOLEAN, slot : {"none"}, document : Documents]
Deleting == [step : {"deleted"}, stale : BOOLEAN, slot : Slots]
Samples == [kind : Options!KINDS, value : Nat]
Valuing == [step : {"value"}, stale : BOOLEAN, slot : {"none"}, saved : Samples]
Versions == [RunNames -> Options!Looks \cup {None}]
Running == [step : {"runs"}, stale : BOOLEAN, slot : RunNames, runs : Versions]

Days == Options!ValidDays \cup {None}
RowTypes ==
  [kind : Options!KINDS \cup {None}, value : Nat \cup {None}, answered : Samples, days : Days, quarantine : Days, runs : Versions]

Answer == Options!get_profiler_sample(rows.kind, rows.value)
PageInv ==
  /\ page \in {"labels", "branding", "sample", "runs"} /\ strayed \in BOOLEAN
  /\ rows \in RowTypes /\ Coherent(branding) /\ stored \in [Slots -> Options!Logos \cup {None}]
  /\ page # "branding" => branding.logos = stored
  /\ page # "sample" => Answer = rows.answered

Fits(x) ==
  \/ x = Options!Idle
  \/ page = "branding" /\ x \in Uploading \cup Saving \cup Deleting
  \/ page = "sample" /\ x \in Valuing
  \/ page = "runs" /\ x \in Running

LabelInv == \A k \in DOMAIN labels : labels[k].builtin => k \in Reserved /\ ~labels[k].custom_values

\* While nobody else has written, the document of an upload, the logos there
\* are, and those that are stored go together step by step.
InStep(x) ==
  CASE x.step = "copy"    -> stored = branding.logos /\ x.document.logos = [stored EXCEPT !["dark"] = stored["light"]]
    [] x.step = "logo"    -> stored = x.document.logos
    [] x.step = "write"   -> stored = x.document.logos
    [] x.step = "deleted" -> stored = [branding.logos EXCEPT ![x.slot] = None]
    [] x.step = "value"   -> x.saved.kind = rows.kind
    [] x.step = "runs"    -> \A name \in RunNames \ {x.slot} : x.runs[name] = rows.runs[name]
    [] OTHER -> TRUE

\* A document stands alone, but for the logo that is still to come.
Written(x) ==
  /\ "document" \in DOMAIN x => Coherent(x.document)
  /\ x.step \in {"copy", "logo"} => (x.document.logo_mode = "shared" => x.slot = "light")
  /\ x.step = "value" => x.saved.value \in IF x.saved.kind = "full" THEN {0} ELSE 1..Options!Largest(x.saved.kind)

\* The other mode keeps what it shows.
Keeps(x) ==
  \A mode \in Slots \ {x.slot} :
    (branding.logo_mode = "separate" => branding.logos["dark"] # None) /\ Options!Shown(branding, mode) # None =>
      /\ x.document.logos[mode] = Options!Shown(branding, mode)
      /\ mode = "dark" => x.document.logo_mode = "separate"

Sound(x) ==
  /\ Written(x)
  /\ ~strayed /\ x # Options!Idle /\ ~x.stale => InStep(x) /\ (x \in Uploading => Keeps(x))

AdminInv ==
  /\ DOMAIN admin = Admins
  /\ \A a \in Admins : Fits(admin[a]) /\ Sound(admin[a])

\* Nobody has written anything but what was saved, or copies a logo yet.
Quiet == \A a \in Admins : admin[a].step \in {"idle", "copy"}
SyncInv ==
  ~strayed /\ Quiet => branding.logos = stored /\ Answer = rows.answered

SettingsInv == PageInv /\ LabelInv /\ AdminInv /\ SyncInv

-----------------------------------------------------------------------------
(* Settings: samples *)

(* A sample is held to the bounds of its kind, and left alone within them. *)
LEMMA Clamped ==
  ASSUME Options!SettingsAssumption, NEW kind \in Options!KINDS, NEW v \in Nat
  PROVE  /\ Options!Largest(kind) \in Nat \ {0}
         /\ Options!clamp_profiler_sample_value(kind, v) \in 1..Options!Largest(kind)
         /\ v \in 1..Options!Largest(kind) => Options!clamp_profiler_sample_value(kind, v) = v
PROOF
<1>1. Options!Largest(kind) \in Nat \ {0}
  BY DEF Options!SettingsAssumption, Options!Largest
<1>2. ASSUME NEW m \in Nat, NEW n \in Nat
      PROVE  Options!Min({m, n}) = (IF m <= n THEN m ELSE n) /\ Options!Max({m, n}) = (IF m <= n THEN n ELSE m)
  BY DEF Options!Min, Options!Max
<1> DEFINE l == Options!Largest(kind)
           low == Options!Min({l, v})
<1>3. low = (IF l <= v THEN l ELSE v) /\ low \in Nat
  BY <1>1, <1>2
<1>4. Options!clamp_profiler_sample_value(kind, v) = IF 1 <= low THEN low ELSE 1
  BY <1>2, <1>3 DEF Options!clamp_profiler_sample_value
<1>5. QED
  BY <1>1, <1>3, <1>4

(* What is answered for the stored kind and value. *)
LEMMA Answered ==
  ASSUME Options!SettingsAssumption, NEW kind \in Options!KINDS \cup {None}, NEW v \in Nat \cup {None}
  PROVE  LET s == Options!get_profiler_sample(kind, v) IN
         /\ s \in Samples /\ s.value \in IF s.kind = "full" THEN {0} ELSE 1..Options!Largest(s.kind)
         /\ kind \in Options!KINDS /\ v \in (IF kind = "full" THEN {0} ELSE 1..Options!Largest(kind)) => s = [kind |-> kind, value |-> v]
PROOF
<1> DEFINE k == IF kind \in Options!KINDS THEN kind ELSE "percent"
           w == IF v = None THEN Options!Default(k) ELSE v
           s == Options!get_profiler_sample(kind, v)
<1>1. k \in Options!KINDS /\ w \in Nat
  BY DEF Options!KINDS, Options!Default
<1>2. s = [kind |-> k, value |-> IF k = "full" THEN 0 ELSE Options!clamp_profiler_sample_value(k, w)]
  BY DEF Options!get_profiler_sample
<1>3. /\ Options!Largest(k) \in Nat \ {0}
      /\ Options!clamp_profiler_sample_value(k, w) \in 1..Options!Largest(k)
      /\ w \in 1..Options!Largest(k) => Options!clamp_profiler_sample_value(k, w) = w
  BY <1>1, Clamped
<1>4. v \in (IF kind = "full" THEN {0} ELSE 1..Options!Largest(kind)) /\ kind \in Options!KINDS => v # None /\ v \in Nat /\ k = kind /\ w = v
  <2>1. kind \in Options!KINDS => Options!Largest(kind) \in Nat
    BY Clamped
  <2>2. QED
    BY <2>1 DEF Options!SettingsAssumption
<1> HIDE DEF k, w
<1>5. QED
  BY <1>1, <1>2, <1>3, <1>4 DEF Samples

-----------------------------------------------------------------------------
(* Settings: documents *)

(* Numbers of presets have a least one, and below a bound a greatest one. *)
LEMMA LeastNumber ==
  ASSUME NEW S \in SUBSET Nat, S # {}
  PROVE  Options!Min(S) \in S /\ \A x \in S : Options!Min(S) <= x
PROOF
<1> DEFINE R == {ss \in Nat \X Nat : ss[1] < ss[2]}
<1>1. IsWellFoundedOn(R, Nat)
  BY NatLessThanWellFounded DEF OpToRel
<1>2. \A x, y \in Nat : x < y => <<x, y>> \in R
  OBVIOUS
<1> HIDE DEF R
<1>3. PICK m \in S : \A y \in S : ~(<<y, m>> \in R)
  BY <1>1, WFMin, Zenon
<1>4. \A y \in S : ~(y < m)
  BY <1>2, <1>3
<1>5. \A y \in S : m <= y
  BY <1>4
<1>6. QED
  BY <1>5 DEF Options!Min

LEMMA GreatestNumber ==
  ASSUME NEW S \in SUBSET Nat, S # {}, NEW n \in Nat, \A x \in S : x <= n
  PROVE  Options!Max(S) \in S /\ \A x \in S : x <= Options!Max(S)
PROOF
<1> DEFINE T == {m \in Nat : n - m \in S}
<1>1. T \in SUBSET Nat /\ \A x \in S : n - x \in T
  OBVIOUS
<1>2. T # {} /\ \A t \in T : n - t \in S
  BY <1>1
<1>3. Options!Min(T) \in T /\ \A t \in T : Options!Min(T) <= t
  <2> HIDE DEF T
  <2>1. QED
    BY <1>1, <1>2, LeastNumber
<1>4. PICK m \in Nat : m \in T /\ \A t \in T : m <= t
  BY <1>1, <1>3
<1>5. n - m \in S /\ \A x \in S : x <= n - m
  BY <1>1, <1>2, <1>4
<1>6. QED
  BY <1>5 DEF Options!Max

LEMMA CountedAlike ==
  ASSUME NEW S
  PROVE  Options!Cardinality(S) = Cardinality(S)
  BY Zenon DEF Options!Cardinality, Cardinality

(* Number and look of one more preset, and of one preset in place of another. *)
LEMMA OnePresetMore ==
  ASSUME Options!SettingsAssumption, NEW C \in SUBSET Presets, IsFiniteSet(C), Cardinality(C) < MAX_CUSTOM_PRESETS,
         \A c, e \in C : c.id = e.id => c = e,
         NEW id \in Nat, \A c \in C : c.id < id,
         NEW x \in Presets, x.id = id, NEW added, added = C \cup {x}
  PROVE  /\ added \in SUBSET Presets
         /\ \A c, e \in added : c.id = e.id => c = e
         /\ \E m \in Nat : \A c \in added : c.id <= m
         /\ IsFiniteSet(added) /\ Cardinality(added) <= MAX_CUSTOM_PRESETS
         /\ \E c \in added : c.id = id
PROOF
<1>1. x \in added
  OBVIOUS
<1>2. \A c, e \in added : c.id = e.id => c = e
  BY <1>1 DEF Presets
<1>3. \A c \in added : c.id <= id
  BY <1>1 DEF Presets
<1>4. IsFiniteSet(added) /\ Cardinality(added) <= MAX_CUSTOM_PRESETS
  <2>1. IsFiniteSet(added) /\ Cardinality(added) = IF x \in C THEN Cardinality(C) ELSE Cardinality(C) + 1
    BY FS_AddElement
  <2>2. Cardinality(C) \in Nat
    BY FS_CardinalityType
  <2>3. QED
    BY <2>1, <2>2 DEF Options!SettingsAssumption
<1>5. QED
  BY <1>1, <1>2, <1>3, <1>4

(* Numbered one above the others, a preset is numbered apart. *)
LEMMA NumberedApart ==
  ASSUME NEW C \in SUBSET Presets, NEW n \in Nat, \A c \in C : c.id <= n
  PROVE  LET id == Options!Max({0} \cup {c.id : c \in C}) + 1 IN id \in Nat /\ \A c \in C : c.id < id
PROOF
<1> DEFINE ids == {0} \cup {c.id : c \in C}
           top == Options!Max(ids)
<1>1. ids \in SUBSET Nat /\ ids # {} /\ \A x \in ids : x <= n
  BY DEF Presets
<1>2. top \in ids /\ \A x \in ids : x <= top
  <2> HIDE DEF ids
  <2>1. QED
    BY <1>1, GreatestNumber
<1>3. top \in Nat /\ \A c \in C : c.id \in Nat /\ c.id <= top
  <2>1. \A c \in C : c.id \in ids
    OBVIOUS
  <2> HIDE DEF top
  <2>2. QED
    BY <1>1, <1>2, <2>1
<1> HIDE DEF top
<1>4. top + 1 \in Nat /\ \A c \in C : c.id < top + 1
  BY <1>3
<1>5. QED
  BY <1>4 DEF top

LEMMA OnePresetReplaced ==
  ASSUME Options!SettingsAssumption, NEW C \in SUBSET Presets, IsFiniteSet(C), Cardinality(C) <= MAX_CUSTOM_PRESETS,
         \A c, e \in C : c.id = e.id => c = e,
         NEW old, old \in C,
         NEW x \in Presets, x.id = old.id, NEW revised, revised = (C \ {old}) \cup {x}
  PROVE  /\ revised \in SUBSET Presets
         /\ \A c, e \in revised : c.id = e.id => c = e
         /\ \A c \in revised : \E e \in C : c.id = e.id
         /\ IsFiniteSet(revised) /\ Cardinality(revised) <= MAX_CUSTOM_PRESETS
PROOF
<1>1. PICK rest : rest = C \ {old}
  OBVIOUS
<1>2. IsFiniteSet(rest) /\ Cardinality(rest) = Cardinality(C) - 1 /\ Cardinality(C) \in Nat
  BY <1>1, FS_RemoveElement, FS_CardinalityType
<1>3. IsFiniteSet(revised) /\ Cardinality(revised) = IF x \in rest THEN Cardinality(rest) ELSE Cardinality(rest) + 1
  BY <1>1, <1>2, FS_AddElement
<1>4. Cardinality(revised) <= MAX_CUSTOM_PRESETS /\ Cardinality(rest) <= MAX_CUSTOM_PRESETS
  BY <1>2, <1>3 DEF Options!SettingsAssumption
<1>5. revised \in SUBSET Presets /\ (\A c, e \in revised : c.id = e.id => c = e) /\ \A c \in revised : \E e \in C : c.id = e.id
  OBVIOUS
<1>6. QED
  BY <1>1, <1>2, <1>3, <1>4, <1>5

\* What is asked of a set of custom presets, and of the preset in use.
Stock(C) ==
  /\ C \in SUBSET Presets
  /\ \A c, e \in C : c.id = e.id => c = e
  /\ \E n \in Nat : \A c \in C : c.id <= n
  /\ IsFiniteSet(C) /\ Cardinality(C) <= MAX_CUSTOM_PRESETS
InUse(p, C) == p \in Options!PRESET_IDS \cup {None} \/ (p \in Nat /\ \E c \in C : c.id = p)

(* A document is coherent in its presets and in its logos. *)
LEMMA CoherentParts ==
  ASSUME NEW d \in Documents
  PROVE  Coherent(d) <=> /\ Stock(d.custom) /\ InUse(d.preset, d.custom)
                         /\ d.logo_mode = "shared" => d.logos["dark"] = None
  BY DEF Coherent, Documents, Stock, InUse, Options!PRESET_IDS

LEMMA Revised ==
  ASSUME NEW d, Coherent(d), NEW new \in Documents, Stock(new.custom), InUse(new.preset, new.custom),
         new.logos = d.logos, new.logo_mode = d.logo_mode
  PROVE  Coherent(new)
  BY CoherentParts DEF Coherent

(* Saving a theme leaves the branding coherent, and the logos alone. *)
LEMMA ThemesCohere ==
  ASSUME Options!SettingsAssumption, NEW d, Coherent(d),
         NEW chosen \in Options!PRESET_IDS \cup {None} \cup 1..3, NEW look \in AllLooks,
         NEW new \in Options!SavedTheme(d, chosen, look)
  PROVE  Coherent(new) /\ new.logos = d.logos /\ new.logo_mode = d.logo_mode
PROOF
<1> DEFINE same == {c.id : c \in {e \in d.custom : e.look = look}}
           id == IF same # {} THEN Options!Min(same) ELSE Options!Max({0} \cup {c.id : c \in d.custom}) + 1
<1>1. d \in Documents /\ Stock(d.custom) /\ InUse(d.preset, d.custom) /\ d.edited \in SUBSET Presets
  BY CoherentParts DEF Coherent, Documents
<1>2. PICK n \in Nat : \A c \in d.custom : c.id <= n
  BY <1>1 DEF Stock
<1>3. SUFFICES new \in Documents /\ Stock(new.custom) /\ InUse(new.preset, new.custom) /\ new.logos = d.logos /\ new.logo_mode = d.logo_mode
  BY Revised
<1>4. CASE chosen = None /\ look = "default"
  <2>1. new = [d EXCEPT !.preset = None]
    BY <1>4 DEF Options!SavedTheme
  <2>2. new \in Documents /\ new.preset = None /\ new.custom = d.custom /\ new.logos = d.logos /\ new.logo_mode = d.logo_mode
    BY <1>1, <2>1 DEF Documents
  <2>3. QED
    BY <1>1, <2>2 DEF InUse
<1>5. CASE chosen = None /\ look # "default" /\ same # {}
  <2>1. new = [d EXCEPT !.preset = id]
    BY <1>5 DEF Options!SavedTheme
  <2>2. same \in SUBSET Nat /\ \A x \in same : \E c \in d.custom : c.id = x
    BY <1>1 DEF Stock, Presets
  <2>3. id \in same
    <3>1. id = Options!Min(same)
      BY <1>5
    <3> HIDE DEF same, id
    <3>2. QED
      BY <1>5, <2>2, <3>1, LeastNumber
  <2>4. InUse(id, d.custom) /\ id \in Nat
    BY <2>2, <2>3 DEF InUse
  <2> HIDE DEF id
  <2>5. new \in Documents /\ new.preset = id /\ new.custom = d.custom /\ new.logos = d.logos /\ new.logo_mode = d.logo_mode
    BY <1>1, <2>1, <2>4 DEF Documents
  <2>6. QED
    BY <1>1, <2>4, <2>5
<1>6. CASE chosen = None /\ look # "default" /\ same = {}
  <2>1. /\ ~(Options!Cardinality(d.custom) >= MAX_CUSTOM_PRESETS)
        /\ new = [d EXCEPT !.preset = id, !.custom = d.custom \cup {[id |-> id, look |-> look]}]
    BY <1>1, <1>6 DEF Options!SavedTheme, Documents
  <2>2. Cardinality(d.custom) < MAX_CUSTOM_PRESETS
    BY <1>1, <2>1, CountedAlike, FS_CardinalityType DEF Stock, Options!SettingsAssumption
  <2>3. PICK k : k = Options!Max({0} \cup {c.id : c \in d.custom}) + 1
    OBVIOUS
  <2>4. id = k
    BY <1>6, <2>3
  <2>5. PICK more : more = d.custom \cup {[id |-> k, look |-> look]}
    OBVIOUS
  <2>10. k \in Nat /\ \A c \in d.custom : c.id < k
    BY <1>1, <1>2, <2>3, NumberedApart DEF Stock
  <2>6. Stock(more) /\ InUse(k, more) /\ k \in Nat
    <3>1. d.custom \in SUBSET Presets /\ IsFiniteSet(d.custom) /\ \A c, e \in d.custom : c.id = e.id => c = e
      BY <1>1 DEF Stock
    <3>2. /\ more \in SUBSET Presets
          /\ \A c, e \in more : c.id = e.id => c = e
          /\ \E m \in Nat : \A c \in more : c.id <= m
          /\ IsFiniteSet(more) /\ Cardinality(more) <= MAX_CUSTOM_PRESETS
          /\ \E c \in more : c.id = k
      <4>1. PICK x : x = [id |-> k, look |-> look]
        OBVIOUS
      <4>2. x \in Presets /\ x.id = k
        BY <2>10, <4>1 DEF Presets, AllLooks
      <4>3. more = d.custom \cup {x}
        BY <2>5, <4>1
      <4>4. QED
        BY <2>2, <2>10, <3>1, <4>2, <4>3, OnePresetMore
    <3>3. QED
      BY <2>10, <3>2 DEF Stock, InUse
  <2>7. new = [d EXCEPT !.preset = k, !.custom = more]
    BY <2>1, <2>4, <2>5
  <2>8. new \in Documents /\ new.preset = k /\ new.custom = more /\ new.logos = d.logos /\ new.logo_mode = d.logo_mode
    BY <1>1, <2>6, <2>7 DEF Documents, Stock
  <2>9. QED
    BY <2>6, <2>8
<1>7. CASE chosen # None /\ chosen \in Options!PRESET_IDS
  <2> DEFINE E == {e \in d.edited : e.id # chosen} \cup {[id |-> chosen, look |-> look]}
  <2>1. new = [d EXCEPT !.preset = chosen, !.edited = E]
    BY <1>1, <1>7 DEF Options!SavedTheme, Documents
  <2>2. E \in SUBSET Presets /\ chosen \in Nat
    BY <1>1, <1>7 DEF Presets, Options!PRESET_IDS
  <2> HIDE DEF E
  <2>3. new \in Documents /\ new.preset = chosen /\ new.custom = d.custom /\ new.logos = d.logos /\ new.logo_mode = d.logo_mode
    BY <1>1, <2>1, <2>2 DEF Documents
  <2>4. QED
    BY <1>1, <1>7, <2>3 DEF InUse
<1>8. CASE chosen # None /\ chosen \notin Options!PRESET_IDS
  <2>1. PICK rest : rest = {c \in d.custom : c.id # chosen}
    OBVIOUS
  <2>2. PICK other : other = rest \cup {[id |-> chosen, look |-> look]}
    OBVIOUS
  <2>3. chosen \in Options!custom_ids(d) /\ new = [d EXCEPT !.preset = chosen, !.custom = other]
    BY <1>1, <1>8, <2>1, <2>2 DEF Options!SavedTheme, Documents
  <2>4. \E c \in d.custom : c.id = chosen
    BY <2>3 DEF Options!custom_ids
  <2>5. Stock(other) /\ chosen \in Nat
    <3>1. d.custom \in SUBSET Presets /\ IsFiniteSet(d.custom) /\ Cardinality(d.custom) <= MAX_CUSTOM_PRESETS /\ \A c, e \in d.custom : c.id = e.id => c = e
      BY <1>1 DEF Stock
    <3>2. PICK old \in d.custom : old.id = chosen
      BY <2>4
    <3>3. PICK x : x = [id |-> chosen, look |-> look]
      OBVIOUS
    <3>4. x \in Presets /\ x.id = old.id /\ chosen \in Nat
      BY <3>1, <3>2, <3>3 DEF Presets
    <3>5. rest = d.custom \ {old}
      BY <2>1, <3>1, <3>2
    <3>6. other = (d.custom \ {old}) \cup {x}
      BY <2>2, <3>3, <3>5
    <3>7. /\ other \in SUBSET Presets
          /\ \A c, e \in other : c.id = e.id => c = e
          /\ \A c \in other : \E e \in d.custom : c.id = e.id
          /\ IsFiniteSet(other) /\ Cardinality(other) <= MAX_CUSTOM_PRESETS
      <4>1. PICK C : C = d.custom
        OBVIOUS
      <4>2. /\ C \in SUBSET Presets /\ IsFiniteSet(C) /\ Cardinality(C) <= MAX_CUSTOM_PRESETS
            /\ (\A c, e \in C : c.id = e.id => c = e) /\ old \in C /\ other = (C \ {old}) \cup {x}
        BY <3>1, <3>2, <3>6, <4>1
      <4>3. x \in Presets /\ x.id = old.id
        BY <3>4
      <4> HIDE <4>1
      <4>4. /\ other \in SUBSET Presets
            /\ \A c, e \in other : c.id = e.id => c = e
            /\ \A c \in other : \E e \in C : c.id = e.id
            /\ IsFiniteSet(other) /\ Cardinality(other) <= MAX_CUSTOM_PRESETS
        BY <4>2, <4>3, OnePresetReplaced
      <4>5. QED
        BY <4>1, <4>4
    <3>8. \A c \in other : c.id <= n
      BY <1>2, <3>7
    <3>9. QED
      BY <1>2, <3>4, <3>7, <3>8 DEF Stock
  <2>6. InUse(chosen, other)
    <3>1. [id |-> chosen, look |-> look] \in other
      BY <2>2
    <3>2. QED
      BY <2>5, <3>1 DEF InUse
  <2>7. new \in Documents /\ new.preset = chosen /\ new.custom = other /\ new.logos = d.logos /\ new.logo_mode = d.logo_mode
    BY <1>1, <2>3, <2>5 DEF Documents, Stock
  <2>8. QED
    BY <2>5, <2>6, <2>7
<1>9. QED
  BY <1>4, <1>5, <1>6, <1>7, <1>8

(* Deleting a preset does, too. *)
LEMMA DeletionsCohere ==
  ASSUME Options!SettingsAssumption, NEW d, Coherent(d), NEW id \in Options!custom_ids(d), NEW new, new = Options!WithoutPreset(d, id)
  PROVE  Coherent(new) /\ new.logos = d.logos /\ new.logo_mode = d.logo_mode
PROOF
<1>1. d \in Documents /\ Stock(d.custom) /\ InUse(d.preset, d.custom)
  BY CoherentParts DEF Coherent
<1>2. PICK n \in Nat : \A c \in d.custom : c.id <= n
  BY <1>1 DEF Stock
<1>3. PICK rest : rest = {c \in d.custom : c.id # id}
  OBVIOUS
<1>4. rest \in SUBSET Presets /\ IsFiniteSet(rest) /\ Cardinality(rest) <= MAX_CUSTOM_PRESETS
  <2>1. d.custom \in SUBSET Presets /\ IsFiniteSet(d.custom) /\ Cardinality(d.custom) <= MAX_CUSTOM_PRESETS /\ \A c, e \in d.custom : c.id = e.id => c = e
    BY <1>1 DEF Stock
  <2>2. PICK old \in d.custom : old.id = id
    BY DEF Options!custom_ids
  <2>3. rest = d.custom \ {old} /\ old \in Presets
    BY <1>3, <2>1, <2>2
  <2>4. IsFiniteSet(rest) /\ Cardinality(rest) = Cardinality(d.custom) - 1 /\ Cardinality(d.custom) \in Nat
    BY <2>1, <2>2, <2>3, FS_RemoveElement, FS_CardinalityType
  <2>5. QED
    BY <2>1, <2>3, <2>4 DEF Options!SettingsAssumption
<1>5. Stock(rest)
  BY <1>1, <1>3, <1>4 DEF Stock
<1>6. new = [d EXCEPT !.custom = rest, !.preset = IF d.preset = id THEN None ELSE d.preset]
  BY <1>1, <1>3 DEF Options!WithoutPreset, Documents
<1>7. PICK p : p = IF d.preset = id THEN None ELSE d.preset
  OBVIOUS
<1>8. InUse(p, rest) /\ p \in Nat \cup {None}
  BY <1>1, <1>3, <1>7 DEF InUse, Options!PRESET_IDS
<1>9. new \in Documents /\ new.preset = p /\ new.custom = rest /\ new.logos = d.logos /\ new.logo_mode = d.logo_mode
  BY <1>1, <1>4, <1>6, <1>7, <1>8 DEF Documents
<1>10. QED
  BY <1>5, <1>8, <1>9, Revised

-----------------------------------------------------------------------------
(* Settings: one administrator among the others *)

(* What has a step of its own is known by it. *)
LEMMA StepTells ==
  ASSUME NEW x, Fits(x)
  PROVE  /\ x.step = "idle" <=> x = Options!Idle
         /\ x.step \in {"idle", "copy", "logo", "write", "deleted", "value", "runs"}
         /\ x.step \in {"copy", "logo"} => page = "branding" /\ x \in Uploading
         /\ x.step = "write" => page = "branding" /\ x \in Uploading \cup Saving
         /\ x.step = "deleted" => page = "branding" /\ x \in Deleting
         /\ x.step = "value" => page = "sample" /\ x \in Valuing
         /\ x.step = "runs" => page = "runs" /\ x \in Running
BY DEF Fits, Options!Idle, Uploading, Saving, Deleting, Valuing, Running

(* A reading that has aged is the same but for its age. *)
LEMMA Aged ==
  ASSUME NEW x, Fits(x), x # Options!Idle, Written(x), NEW y, y = [x EXCEPT !.stale = TRUE]
  PROVE  Fits(y) /\ y # Options!Idle /\ y.stale = TRUE /\ y.step = x.step /\ Written(y)
PROOF
<1>1. CASE page = "branding" /\ x \in Uploading
  <2>1. /\ y \in Uploading /\ y.step = x.step /\ y.slot = x.slot /\ y.document = x.document /\ y.stale = TRUE
        /\ "document" \in DOMAIN x /\ "document" \in DOMAIN y
    BY <1>1 DEF Uploading
  <2>2. y.step \notin {"idle", "value"}
    BY <2>1 DEF Uploading
  <2>3. QED
    BY <1>1, <2>1, <2>2 DEF Fits, Written, Options!Idle
<1>2. CASE page = "branding" /\ x \in Saving
  <2>1. /\ y \in Saving /\ y.step = x.step /\ y.slot = x.slot /\ y.document = x.document /\ y.stale = TRUE
        /\ "document" \in DOMAIN x /\ "document" \in DOMAIN y
    BY <1>2 DEF Saving
  <2>2. y.step \notin {"idle", "value"}
    BY <2>1 DEF Saving
  <2>3. QED
    BY <1>2, <2>1, <2>2 DEF Fits, Written, Options!Idle
<1>3. CASE page = "branding" /\ x \in Deleting
  <2>1. y \in Deleting /\ y.step = x.step /\ y.stale = TRUE
    BY <1>3 DEF Deleting
  <2>2. y.step = "deleted" /\ "document" \notin DOMAIN y
    BY <2>1 DEF Deleting
  <2>3. QED
    BY <1>3, <2>1, <2>2 DEF Fits, Written, Options!Idle
<1>4. CASE page = "sample" /\ x \in Valuing
  <2>1. y \in Valuing /\ y.step = x.step /\ y.saved = x.saved /\ y.stale = TRUE
    BY <1>4 DEF Valuing
  <2>2. y.step = "value" /\ "document" \notin DOMAIN y
    BY <2>1 DEF Valuing
  <2>3. QED
    BY <1>4, <2>1, <2>2 DEF Fits, Written, Options!Idle
<1>5. CASE page = "runs" /\ x \in Running
  <2>1. y \in Running /\ y.step = x.step /\ y.stale = TRUE
    BY <1>5 DEF Running
  <2>2. y.step = "runs" /\ "document" \notin DOMAIN y
    BY <2>1 DEF Running
  <2>3. QED
    BY <1>5, <2>1, <2>2 DEF Fits, Written, Options!Idle
<1>6. QED
  BY <1>1, <1>2, <1>3, <1>4, <1>5 DEF Fits

(* Where nothing is written, what the others have read stays as it was. *)
LEMMA OneMoves ==
  ASSUME AdminInv, NEW a \in Admins, NEW x, admin' = [admin EXCEPT ![a] = x],
         page' = page, branding' = branding, stored' = stored, rows' = rows, strayed => strayed',
         Fits(x), Sound(x)'
  PROVE  AdminInv'
PROOF
<1>1. DOMAIN admin' = Admins /\ admin'[a] = x /\ \A b \in Admins \ {a} : admin'[b] = admin[b]
  BY DEF AdminInv
<1>2. ASSUME NEW b \in Admins \ {a}
      PROVE  Fits(admin[b])' /\ Sound(admin[b])'
  <2>1. PICK y : y = admin[b]
    OBVIOUS
  <2>2. Fits(y) /\ Sound(y) /\ admin'[b] = y
    BY <1>1, <2>1 DEF AdminInv
  <2>3. Fits(y)' /\ Sound(y)'
    BY <2>2 DEF Fits, Sound, Written, InStep, Keeps, Options!Shown
  <2>4. QED
    BY <2>2, <2>3
<1>3. Fits(x)'
  BY DEF Fits
<1>4. QED
  BY <1>1, <1>2, <1>3 DEF AdminInv

(* Where something is, it ages. *)
LEMMA OthersWait ==
  ASSUME AdminInv, NEW a \in Admins, NEW x, admin' = [Options!Others(a) EXCEPT ![a] = x], page' = page,
         Fits(x), Sound(x)'
  PROVE  AdminInv' /\ \A b \in Admins \ {a} : admin'[b].step = admin[b].step /\ (admin'[b] = Options!Idle <=> admin[b] = Options!Idle)
PROOF
<1>1. DOMAIN admin' = Admins /\ admin'[a] = x
  BY DEF Options!Others
<1>2. ASSUME NEW b \in Admins \ {a}
      PROVE  /\ Fits(admin[b])' /\ Sound(admin[b])'
             /\ admin'[b].step = admin[b].step /\ (admin'[b] = Options!Idle <=> admin[b] = Options!Idle)
  <2>1. PICK y : y = admin[b]
    OBVIOUS
  <2>2. Fits(y) /\ Written(y) /\ admin'[b] = IF y = Options!Idle THEN Options!Idle ELSE [y EXCEPT !.stale = TRUE]
    BY <2>1 DEF AdminInv, Sound, Options!Others
  <2>3. PICK z : z = IF y = Options!Idle THEN Options!Idle ELSE [y EXCEPT !.stale = TRUE]
    OBVIOUS
  <2>4. Fits(z) /\ Written(z) /\ (z = Options!Idle <=> y = Options!Idle) /\ (z # Options!Idle => z.stale) /\ z.step = y.step
    <3>1. CASE y = Options!Idle
      BY <2>2, <2>3, <3>1
    <3>2. CASE y # Options!Idle
      <4>1. z = [y EXCEPT !.stale = TRUE]
        BY <2>3, <3>2
      <4>2. QED
        BY <2>2, <3>2, <4>1, Aged
    <3>3. QED
      BY <3>1, <3>2
  <2>5. Fits(z)' /\ Sound(z)'
    <3>1. Fits(z)'
      BY <2>4 DEF Fits
    <3>2. Written(z)'
      BY <2>4 DEF Written
    <3>3. QED
      BY <2>4, <3>1, <3>2 DEF Sound
  <2>6. QED
    BY <2>1, <2>2, <2>3, <2>4, <2>5
<1>3. Fits(x)'
  BY DEF Fits
<1>4. QED
  BY <1>1, <1>2, <1>3 DEF AdminInv

(* Who overlaps nobody finds everything written. *)
LEMMA Alone ==
  ASSUME SyncInv, NEW a \in Admins, admin[a] = Options!Idle, ~strayed, ~Options!Overlaps(a)
  PROVE  branding.logos = stored /\ Answer = rows.answered
BY DEF SyncInv, Quiet, Options!Overlaps, Options!Idle

LEMMA QuietNow ==
  ASSUME NEW a \in Admins, \A b \in Admins \ {a} : admin'[b].step = admin[b].step, Quiet', admin[a].step \in {"idle", "copy"}
  PROVE  Quiet
BY DEF Quiet

-----------------------------------------------------------------------------
(* Settings: what a step leaves alone *)

BuiltInsStay == \A k \in DOMAIN labels : labels[k].builtin => k \in DOMAIN labels' /\ labels'[k].builtin /\ ~labels'[k].custom_values
RunsStay(a) == ~strayed' /\ admin[a].step = "runs" /\ admin'[a] = Options!Idle =>
                 \A name \in RunNames \ {admin[a].slot} : rows'.runs[name] = rows.runs[name]
UploadStays(a) == Options!Uploads(a) /\ ~strayed' /\ (branding.logo_mode = "separate" => branding.logos["dark"] # None) =>
                    Options!OtherModeKeeps(a)
RestStays == BuiltInsStay /\ \A a \in Admins : RunsStay(a) /\ UploadStays(a)

LEMMA LabelsStay ==
  ASSUME LabelInv, labels' = labels
  PROVE  LabelInv' /\ BuiltInsStay
BY DEF LabelInv, BuiltInsStay

(* Who does not end anything leaves runs and logos alone. *)
LEMMA NothingEnds ==
  ASSUME NEW a, admin'[a] = Options!Idle => admin[a] = Options!Idle
  PROVE  RunsStay(a) /\ UploadStays(a)
BY DEF RunsStay, UploadStays, Options!Uploads, Options!Idle

(* A request that reads, and has written nothing yet. *)
LEMMA Opens ==
  ASSUME SettingsInv, NEW a \in Admins, NEW x, Options!Read(a, x), Fits(x), Sound(x), x # Options!Idle
  PROVE  SettingsInv' /\ RestStays
PROOF
<1>1. /\ admin[a] = Options!Idle /\ admin' = [admin EXCEPT ![a] = x] /\ page' = page /\ rows' = rows /\ labels' = labels
      /\ branding' = branding /\ stored' = stored /\ strayed' = strayed
  BY DEF Options!Read
<1>2. Sound(x)'
  BY <1>1 DEF Sound, Written, InStep, Keeps, Options!Shown
<1>3. AdminInv'
  BY <1>1, <1>2, OneMoves DEF SettingsInv
<1>4. PageInv'
  BY <1>1 DEF SettingsInv, PageInv, Answer
<1>5. admin'[a] = x /\ \A b \in Admins \ {a} : admin'[b] = admin[b]
  BY <1>1 DEF SettingsInv, AdminInv
<1>6. Quiet' => Quiet
  BY <1>1, <1>5, QuietNow DEF Options!Idle
<1>7. SyncInv'
  BY <1>1, <1>6 DEF SettingsInv, SyncInv, Answer
<1>8. \A b \in Admins : RunsStay(b) /\ UploadStays(b)
  BY <1>5, NothingEnds
<1>9. QED
  BY <1>1, <1>3, <1>4, <1>7, <1>8, LabelsStay DEF SettingsInv, RestStays

(* A document that has been read, on its way to being written. *)
LEMMA WritesADocument ==
  ASSUME SettingsInv, NEW a \in Admins, NEW d, Coherent(d), d.logos = branding.logos, page = "branding",
         Options!Read(a, Options!Writing(a, d))
  PROVE  SettingsInv' /\ RestStays
PROOF
<1>1. PICK x : x = Options!Writing(a, d)
  OBVIOUS
<1>2. Options!Overlaps(a) \in BOOLEAN
  BY DEF Options!Overlaps
<1>3. x \in Saving /\ x.stale = Options!Overlaps(a) /\ x.document = d /\ x.step = "write" /\ x # Options!Idle
  BY <1>1, <1>2 DEF Saving, Options!Writing, Coherent, Options!Idle
<1>4. Fits(x) /\ x \notin Uploading
  BY <1>3 DEF Fits, Saving, Uploading, Slots, Options!LOGO_SLOTS
<1>5. Written(x)
  BY <1>3 DEF Written
<1>6. admin[a] = Options!Idle
  BY DEF Options!Read
<1>7. ~strayed /\ ~x.stale => branding.logos = stored
  BY <1>3, <1>6, Alone DEF SettingsInv
<1>8. ~strayed /\ ~x.stale => InStep(x)
  BY <1>3, <1>7 DEF InStep
<1>9. Sound(x)
  BY <1>4, <1>5, <1>8 DEF Sound
<1>10. QED
  BY <1>1, <1>3, <1>4, <1>9, Opens

LEMMA ThemesAreSaved ==
  ASSUME Options!SettingsAssumption, SettingsInv, NEW a \in Admins, Options!save_branding_theme(a)
  PROVE  SettingsInv' /\ RestStays
PROOF
<1>1. PICK chosen \in Options!PRESET_IDS \cup {None} \cup 1..3, look \in Options!Looks \cup {"default"} :
        \E document \in Options!SavedTheme(branding, chosen, look) : Options!Read(a, Options!Writing(a, document))
  BY DEF Options!save_branding_theme
<1>2. PICK document \in Options!SavedTheme(branding, chosen, look) : Options!Read(a, Options!Writing(a, document))
  BY <1>1
<1>3. PICK d : d = branding
  OBVIOUS
<1>4. Coherent(d) /\ look \in AllLooks /\ document \in Options!SavedTheme(d, chosen, look)
  BY <1>3 DEF SettingsInv, PageInv, AllLooks
<1>5. Coherent(document) /\ document.logos = d.logos
  BY <1>4, ThemesCohere
<1>6. QED
  BY <1>2, <1>3, <1>5, WritesADocument DEF Options!save_branding_theme

LEMMA PresetsAreDeleted ==
  ASSUME Options!SettingsAssumption, SettingsInv, NEW a \in Admins, Options!delete_branding_custom_preset(a)
  PROVE  SettingsInv' /\ RestStays
PROOF
<1>1. PICK id \in Options!custom_ids(branding) : Options!Read(a, Options!Writing(a, Options!WithoutPreset(branding, id)))
  BY DEF Options!delete_branding_custom_preset
<1>2. PICK d : d = branding
  OBVIOUS
<1>3. PICK document : document = Options!WithoutPreset(d, id)
  OBVIOUS
<1>4. Coherent(d) /\ id \in Options!custom_ids(d)
  BY <1>2 DEF SettingsInv, PageInv
<1>5. Coherent(document) /\ document.logos = d.logos
  BY <1>3, <1>4, DeletionsCohere
<1>6. QED
  BY <1>1, <1>2, <1>3, <1>5, WritesADocument DEF Options!delete_branding_custom_preset

(* The upload of a logo begins with a document that keeps what the other mode shows. *)
LEMMA UploadsBegin ==
  ASSUME SettingsInv, NEW a \in Admins, Options!save_branding_logo(a)
  PROVE  SettingsInv' /\ RestStays
PROOF
<1> DEFINE none == \A s \in Slots : branding.logos[s] = None
           copies(slot) == ~none /\ branding.logo_mode # "separate" /\ slot = "light" /\ branding.logos["dark"] = None /\ stored["light"] # None
           change(slot) == [branding EXCEPT !.logo_mode = IF none THEN "shared" ELSE "separate",
                                            !.logos = IF copies(slot) THEN [branding.logos EXCEPT !["dark"] = stored["light"]] ELSE branding.logos]
<1>1. page = "branding" /\ admin[a] = Options!Idle /\ branding \in Documents /\ Coherent(branding)
      /\ stored \in [Slots -> Options!Logos \cup {None}] /\ branding.logos \in [Slots -> Options!Logos \cup {None}]
  BY DEF Options!save_branding_logo, Options!Read, SettingsInv, PageInv, Coherent, Documents
<1>2. PICK slot \in Slots, logo \in Options!Logos :
        Options!Read(a, [step |-> IF copies(slot) THEN "copy" ELSE "logo", stale |-> Options!Overlaps(a),
                         slot |-> IF none THEN "light" ELSE slot, logo |-> logo, document |-> change(slot)])
  BY <1>1 DEF Options!save_branding_logo, Slots, Documents
<1>3. PICK c \in BOOLEAN : c <=> copies(slot)
  OBVIOUS
<1>4. PICK n \in BOOLEAN : n <=> none
  OBVIOUS
<1>5. PICK logos : logos = IF c THEN [branding.logos EXCEPT !["dark"] = stored["light"]] ELSE branding.logos
  OBVIOUS
<1>6. PICK d : d = [branding EXCEPT !.logo_mode = IF n THEN "shared" ELSE "separate", !.logos = logos]
  OBVIOUS
<1>7. d = change(slot)
  BY <1>1, <1>3, <1>4, <1>5, <1>6
<1>8. PICK x : x = [step |-> IF c THEN "copy" ELSE "logo", stale |-> Options!Overlaps(a),
                    slot |-> IF n THEN "light" ELSE slot, logo |-> logo, document |-> d]
  OBVIOUS
<1>9. Options!Read(a, x)
  BY <1>2, <1>3, <1>4, <1>7, <1>8
<1>10. logos \in [Slots -> Options!Logos \cup {None}]
  BY <1>1, <1>3, <1>5 DEF Slots, Options!LOGO_SLOTS
<1>11. /\ d \in Documents /\ d.logos = logos /\ d.logo_mode = (IF n THEN "shared" ELSE "separate")
       /\ d.preset = branding.preset /\ d.custom = branding.custom
  BY <1>1, <1>6, <1>10 DEF Documents
<1>12. /\ c => ~n /\ slot = "light" /\ branding.logo_mode # "separate" /\ branding.logos["dark"] = None /\ stored["light"] # None
       /\ n => \A s \in Slots : branding.logos[s] = None
       /\ ~n /\ ~c => (branding.logo_mode = "separate" \/ slot # "light" \/ branding.logos["dark"] # None \/ stored["light"] = None)
  BY <1>3, <1>4
<1>13. Coherent(d)
  <2>1. n => logos["dark"] = None
    BY <1>5, <1>12 DEF Slots, Options!LOGO_SLOTS
  <2>2. QED
    BY <1>1, <1>11, <2>1 DEF Coherent
<1> HIDE DEF none, copies, change
<1>14. Options!Overlaps(a) \in BOOLEAN
  BY DEF Options!Overlaps
<1>15. /\ x \in Uploading /\ x # Options!Idle /\ x.stale = Options!Overlaps(a) /\ x.document = d
       /\ x.step = (IF c THEN "copy" ELSE "logo") /\ x.slot = (IF n THEN "light" ELSE slot)
  BY <1>8, <1>11, <1>14 DEF Uploading, Options!Idle, Slots, Options!LOGO_SLOTS
<1>16. Written(x)
  BY <1>11, <1>13, <1>15 DEF Written
<1>17. ASSUME ~strayed, ~x.stale
       PROVE  InStep(x) /\ Keeps(x)
  <2>1. branding.logos = stored
    BY <1>1, <1>15, <1>17, Alone DEF SettingsInv
  <2>2. InStep(x)
    BY <1>1, <1>5, <1>11, <1>15, <2>1 DEF InStep
  <2>3. ASSUME NEW mode \in Slots \ {x.slot}, branding.logo_mode = "separate" => branding.logos["dark"] # None,
               Options!Shown(branding, mode) # None
        PROVE  d.logos[mode] = Options!Shown(branding, mode) /\ (mode = "dark" => d.logo_mode = "separate")
    <3>1. ~n
      BY <1>12, <2>3 DEF Options!Shown, Slots, Options!LOGO_SLOTS
    <3>2. CASE mode = "light"
      BY <1>1, <1>5, <1>11, <1>12, <3>2 DEF Options!Shown, Slots, Options!LOGO_SLOTS
    <3>3. CASE mode = "dark"
      <4>1. slot = "light"
        BY <1>15, <2>3, <3>1, <3>3 DEF Slots, Options!LOGO_SLOTS
      <4>2. CASE c
        BY <1>1, <1>5, <1>11, <1>12, <2>1, <3>1, <3>3, <4>2 DEF Options!Shown, Slots, Options!LOGO_SLOTS
      <4>3. CASE ~c
        <5>1. branding.logos["dark"] # None /\ branding.logo_mode = "separate"
          BY <1>1, <1>12, <2>1, <2>3, <3>1, <3>3, <4>1, <4>3 DEF Options!Shown, Coherent, Documents
        <5>2. QED
          BY <1>5, <1>11, <3>1, <3>3, <4>3, <5>1 DEF Options!Shown
      <4>4. QED
        BY <4>2, <4>3
    <3>4. QED
      BY <3>2, <3>3 DEF Slots, Options!LOGO_SLOTS
  <2>4. QED
    BY <1>15, <2>2, <2>3 DEF Keeps
<1>18. Sound(x) /\ Fits(x)
  BY <1>1, <1>15, <1>16, <1>17 DEF Sound, Fits
<1>19. QED
  BY <1>9, <1>15, <1>18, Opens

(* A request that writes a logo and goes on. *)
LEMMA Advances ==
  ASSUME SettingsInv, NEW a \in Admins, NEW y, admin' = [Options!Others(a) EXCEPT ![a] = y], page = "branding",
         page' = page, rows' = rows, labels' = labels, branding' = branding, strayed' = strayed,
         stored' \in [Slots -> Options!Logos \cup {None}], Fits(y), Sound(y)', y.step \notin {"idle", "copy"}
  PROVE  SettingsInv' /\ RestStays
PROOF
<1>1. AdminInv' /\ \A b \in Admins \ {a} : admin'[b] = Options!Idle <=> admin[b] = Options!Idle
  BY OthersWait DEF SettingsInv
<1>2. admin'[a] = y /\ y # Options!Idle
  BY DEF Options!Others, Options!Idle
<1>3. PageInv'
  BY DEF SettingsInv, PageInv, Answer
<1>4. ~Quiet'
  BY <1>2 DEF Quiet
<1>5. SyncInv'
  BY <1>4 DEF SyncInv
<1>6. \A b \in Admins : RunsStay(b) /\ UploadStays(b)
  BY <1>1, <1>2, NothingEnds
<1>7. QED
  BY <1>1, <1>3, <1>5, <1>6, LabelsStay DEF SettingsInv, RestStays

(* What an upload still under way says of the logos. *)
LEMMA Uploaded ==
  ASSUME SettingsInv, NEW a \in Admins, NEW x, x = admin[a]
  PROVE  /\ Fits(x) /\ Sound(x)
         /\ x.step \in {"copy", "logo"} => /\ page = "branding" /\ x \in Uploading /\ x # Options!Idle
                                           /\ Coherent(x.document) /\ x.document \in Documents
                                           /\ x.document.logos \in [Slots -> Options!Logos \cup {None}]
PROOF
<1>1. Fits(x) /\ Sound(x)
  BY DEF SettingsInv, AdminInv
<1>2. ASSUME x.step \in {"copy", "logo"}
      PROVE  page = "branding" /\ x \in Uploading /\ x # Options!Idle
  BY <1>1, <1>2, StepTells
<1>3. x \in Uploading => Coherent(x.document)
  BY <1>1 DEF Sound, Written, Uploading
<1>4. QED
  BY <1>1, <1>2, <1>3 DEF Coherent, Documents

LEMMA LogosAreCopied ==
  ASSUME SettingsInv, NEW a \in Admins, Options!CopyLogo(a)
  PROVE  SettingsInv' /\ RestStays
PROOF
<1>1. PICK x : x = admin[a]
  OBVIOUS
<1>2. PICK y : y = [x EXCEPT !.step = "logo"]
  OBVIOUS
<1>3. /\ x.step = "copy" /\ stored' = [stored EXCEPT !["dark"] = x.document.logos["dark"]]
      /\ admin' = [Options!Others(a) EXCEPT ![a] = y]
      /\ page' = page /\ rows' = rows /\ labels' = labels /\ branding' = branding /\ strayed' = strayed
  BY <1>1, <1>2 DEF Options!CopyLogo
<1>4. /\ Fits(x) /\ Sound(x) /\ page = "branding" /\ x \in Uploading /\ x # Options!Idle
      /\ Coherent(x.document) /\ x.document.logos \in [Slots -> Options!Logos \cup {None}]
  BY <1>1, <1>3, Uploaded
<1>5. stored \in [Slots -> Options!Logos \cup {None}]
  BY DEF SettingsInv, PageInv
<1>6. stored' \in [Slots -> Options!Logos \cup {None}]
  BY <1>3, <1>4, <1>5 DEF Slots, Options!LOGO_SLOTS
<1>7. y \in Uploading /\ y.step = "logo" /\ y.slot = x.slot /\ y.document = x.document /\ y.stale = x.stale /\ y # Options!Idle
  BY <1>2, <1>4 DEF Uploading, Options!Idle
<1>8. Fits(y)
  BY <1>4, <1>7 DEF Fits
<1>9. Written(y)
  BY <1>3, <1>4, <1>7 DEF Sound, Written
<1>10. ASSUME ~strayed, ~x.stale
       PROVE  InStep(y)' /\ Keeps(y)'
  <2>1. stored = branding.logos /\ x.document.logos = [stored EXCEPT !["dark"] = stored["light"]] /\ Keeps(x)
    BY <1>3, <1>4, <1>10 DEF Sound, InStep
  <2>2. stored' = x.document.logos
    BY <1>3, <1>5, <2>1 DEF Slots, Options!LOGO_SLOTS
  <2>3. Keeps(y)'
    BY <1>3, <1>7, <2>1 DEF Keeps, Options!Shown
  <2>4. QED
    BY <1>7, <2>2, <2>3 DEF InStep
<1>11. Sound(y)'
  BY <1>3, <1>7, <1>9, <1>10 DEF Sound, Written
<1>12. QED
  BY <1>3, <1>4, <1>6, <1>7, <1>8, <1>11, Advances

LEMMA LogosAreWritten ==
  ASSUME SettingsInv, NEW a \in Admins, Options!_write_logo(a)
  PROVE  SettingsInv' /\ RestStays
PROOF
<1>1. PICK x : x = admin[a]
  OBVIOUS
<1>2. x.step = "logo" /\ page' = page /\ rows' = rows /\ labels' = labels /\ branding' = branding /\ strayed' = strayed
  BY <1>1 DEF Options!_write_logo
<1>3. /\ Fits(x) /\ Sound(x) /\ page = "branding" /\ x \in Uploading /\ x # Options!Idle
      /\ Coherent(x.document) /\ x.document \in Documents /\ x.document.logos \in [Slots -> Options!Logos \cup {None}]
  BY <1>1, <1>2, Uploaded
<1>4. PICK slot \in Slots : slot = x.slot
  BY <1>3 DEF Uploading
<1>5. PICK logo \in Options!Logos : logo = x.logo
  BY <1>3 DEF Uploading
<1>6. PICK d : d = x.document
  OBVIOUS
<1>7. PICK logos : logos = [d.logos EXCEPT ![slot] = logo]
  OBVIOUS
<1>8. PICK e : e = [d EXCEPT !.logos = logos]
  OBVIOUS
<1>9. PICK y : y = [x EXCEPT !.step = "write", !.document = e]
  OBVIOUS
<1>10. [x EXCEPT !.step = "write", !.document.logos = [x.document.logos EXCEPT ![x.slot] = x.logo]] = y
  BY <1>3, <1>4, <1>5, <1>6, <1>7, <1>8, <1>9 DEF Uploading, Documents
<1>11. stored' = [stored EXCEPT ![slot] = logo] /\ admin' = [Options!Others(a) EXCEPT ![a] = y]
  BY <1>1, <1>4, <1>5, <1>10 DEF Options!_write_logo
<1>12. stored \in [Slots -> Options!Logos \cup {None}]
  BY DEF SettingsInv, PageInv
<1>13. stored' \in [Slots -> Options!Logos \cup {None}]
  BY <1>11, <1>12
<1>14. logos \in [Slots -> Options!Logos \cup {None}] /\ logos[slot] = logo /\ \A s \in Slots \ {slot} : logos[s] = d.logos[s]
  BY <1>3, <1>6, <1>7
<1>15. e \in Documents /\ e.logos = logos /\ e.logo_mode = d.logo_mode /\ e.preset = d.preset /\ e.custom = d.custom
  BY <1>3, <1>6, <1>8, <1>14 DEF Documents
<1>16. d.logo_mode = "shared" => slot = "light"
  BY <1>2, <1>3, <1>4, <1>6 DEF Sound, Written
<1>17. Coherent(e)
  BY <1>3, <1>6, <1>14, <1>15, <1>16 DEF Coherent, Slots, Options!LOGO_SLOTS
<1>18. y \in Uploading /\ y.step = "write" /\ y.slot = slot /\ y.document = e /\ y.stale = x.stale /\ y # Options!Idle
  BY <1>3, <1>4, <1>9, <1>15 DEF Uploading, Options!Idle
<1>19. Fits(y) /\ Written(y)
  BY <1>3, <1>17, <1>18 DEF Fits, Written
<1>20. ASSUME ~strayed, ~x.stale
       PROVE  InStep(y)' /\ Keeps(y)'
  <2>1. stored = d.logos /\ Keeps(x)
    BY <1>2, <1>3, <1>6, <1>20 DEF Sound, InStep
  <2>2. stored' = logos
    BY <1>7, <1>11, <2>1
  <2>3. Keeps(y)'
    BY <1>2, <1>4, <1>6, <1>14, <1>15, <1>18, <2>1 DEF Keeps, Options!Shown
  <2>4. QED
    BY <1>15, <1>18, <2>2, <2>3 DEF InStep
<1>21. Sound(y)'
  BY <1>2, <1>18, <1>19, <1>20 DEF Sound, Written
<1>22. QED
  BY <1>2, <1>3, <1>11, <1>13, <1>18, <1>19, <1>21, Advances

LEMMA LogosAreDeleted ==
  ASSUME SettingsInv, NEW a \in Admins, Options!delete_branding_logo(a)
  PROVE  SettingsInv' /\ RestStays
PROOF
<1>1. PICK slot \in Slots :
        /\ admin[a] = Options!Idle /\ stored' = [stored EXCEPT ![slot] = None]
        /\ admin' = [Options!Others(a) EXCEPT ![a] = [step |-> "deleted", stale |-> Options!Overlaps(a), slot |-> slot]]
        /\ page' = page /\ rows' = rows /\ labels' = labels /\ branding' = branding /\ strayed' = strayed
  BY DEF Options!delete_branding_logo, Slots
<1>2. PICK y : y = [step |-> "deleted", stale |-> Options!Overlaps(a), slot |-> slot]
  OBVIOUS
<1>3. Options!Overlaps(a) \in BOOLEAN /\ page = "branding"
  BY DEF Options!Overlaps, Options!delete_branding_logo
<1>4. y \in Deleting /\ y.step = "deleted" /\ y.slot = slot /\ y.stale = Options!Overlaps(a) /\ y # Options!Idle /\ y \notin Uploading
      /\ "document" \notin DOMAIN y
  BY <1>2, <1>3 DEF Deleting, Options!Idle, Uploading
<1>5. Fits(y) /\ Written(y)
  BY <1>3, <1>4 DEF Fits, Written
<1>6. stored \in [Slots -> Options!Logos \cup {None}] /\ branding.logos \in [Slots -> Options!Logos \cup {None}]
  BY DEF SettingsInv, PageInv, Coherent, Documents
<1>7. stored' \in [Slots -> Options!Logos \cup {None}]
  BY <1>1, <1>6
<1>8. ~strayed /\ ~y.stale => branding.logos = stored
  BY <1>1, <1>4, Alone DEF SettingsInv
<1>9. ~strayed /\ ~y.stale => InStep(y)'
  BY <1>1, <1>4, <1>8 DEF InStep
<1>10. Sound(y)'
  BY <1>1, <1>4, <1>5, <1>9 DEF Sound, Written
<1>11. QED
  BY <1>1, <1>2, <1>3, <1>4, <1>5, <1>7, <1>10, Advances

LEMMA DeletionsAreRead ==
  ASSUME SettingsInv, NEW a \in Admins, Options!ReadDeleted(a)
  PROVE  SettingsInv' /\ RestStays
PROOF
<1>1. PICK x : x = admin[a]
  OBVIOUS
<1>2. x.step = "deleted" /\ page' = page /\ rows' = rows /\ labels' = labels /\ branding' = branding /\ stored' = stored /\ strayed' = strayed
  BY <1>1 DEF Options!ReadDeleted
<1>3. Fits(x) /\ Sound(x)
  BY <1>1, Uploaded
<1>4. page = "branding" /\ x \in Deleting
  BY <1>2, <1>3, StepTells
<1>5. PICK slot \in Slots : slot = x.slot
  BY <1>4 DEF Deleting
<1>6. PICK old \in BOOLEAN : old = x.stale
  BY <1>4 DEF Deleting
<1>7. PICK logos : logos = [branding.logos EXCEPT ![slot] = None]
  OBVIOUS
<1>8. PICK n \in BOOLEAN : n <=> \A s \in Slots : logos[s] = None
  OBVIOUS
<1>9. PICK d : d = [branding EXCEPT !.logos = logos, !.logo_mode = IF n THEN "shared" ELSE branding.logo_mode]
  OBVIOUS
<1>10. PICK over \in BOOLEAN : over = Options!Overlaps(a)
  BY DEF Options!Overlaps
<1>11. PICK y : y = [step |-> "write", stale |-> over \/ old, slot |-> "none", document |-> d]
  OBVIOUS
<1>12. branding \in Documents /\ Coherent(branding) /\ branding.logos \in [Slots -> Options!Logos \cup {None}]
  BY DEF SettingsInv, PageInv, Coherent, Documents
<1>13. admin' = [admin EXCEPT ![a] = [Options!Writing(a, d) EXCEPT !.stale = over \/ old]]
  BY <1>1, <1>5, <1>6, <1>7, <1>8, <1>9, <1>10, <1>12 DEF Options!ReadDeleted, Options!Writing, Documents, Slots
<1>14. [Options!Writing(a, d) EXCEPT !.stale = over \/ old] = y
  BY <1>10, <1>11 DEF Options!Writing
<1>15. admin' = [admin EXCEPT ![a] = y]
  BY <1>13, <1>14
<1>16. logos \in [Slots -> Options!Logos \cup {None}] /\ (branding.logos["dark"] = None => logos["dark"] = None)
  BY <1>7, <1>12 DEF Slots, Options!LOGO_SLOTS
<1>17. d \in Documents /\ d.logos = logos /\ d.logo_mode = (IF n THEN "shared" ELSE branding.logo_mode)
       /\ d.preset = branding.preset /\ d.custom = branding.custom
  BY <1>9, <1>12, <1>16 DEF Documents
<1>18. Coherent(d)
  BY <1>8, <1>12, <1>16, <1>17 DEF Coherent, Slots, Options!LOGO_SLOTS
<1>19. y \in Saving /\ y.document = d /\ y.step = "write" /\ y.stale = (over \/ old) /\ y # Options!Idle /\ y \notin Uploading
  BY <1>11, <1>17 DEF Saving, Uploading, Options!Idle, Slots, Options!LOGO_SLOTS
<1>20. Fits(y) /\ Written(y)
  BY <1>4, <1>18, <1>19 DEF Fits, Written
<1>21. ~strayed /\ ~x.stale => stored = logos
  BY <1>2, <1>3, <1>5, <1>7 DEF Sound, InStep, Options!Idle
<1>22. ~strayed /\ ~y.stale => InStep(y)'
  BY <1>2, <1>6, <1>17, <1>19, <1>21 DEF InStep
<1>23. Sound(y)'
  BY <1>2, <1>19, <1>20, <1>22 DEF Sound, Written
<1>24. AdminInv'
  BY <1>2, <1>15, <1>20, <1>23, OneMoves DEF SettingsInv
<1>25. admin'[a] = y /\ \A b \in Admins \ {a} : admin'[b] = admin[b]
  BY <1>15 DEF SettingsInv, AdminInv
<1>26. ~Quiet'
  BY <1>19, <1>25 DEF Quiet
<1>27. SyncInv' /\ PageInv'
  BY <1>2, <1>26 DEF SyncInv, SettingsInv, PageInv, Answer
<1>28. \A b \in Admins : RunsStay(b) /\ UploadStays(b)
  BY <1>19, <1>25, NothingEnds
<1>29. QED
  BY <1>2, <1>24, <1>27, <1>28, LabelsStay DEF SettingsInv, RestStays

LEMMA IdleIsSound == Fits(Options!Idle) /\ Sound(Options!Idle)' /\ "document" \notin DOMAIN Options!Idle
BY DEF Fits, Sound, Written, Options!Idle

LEMMA IdleAmongOthers ==
  ASSUME NEW a \in Admins
  PROVE  Options!Others(a) = [Options!Others(a) EXCEPT ![a] = Options!Idle] /\ Options!Others(a)[a] = Options!Idle
BY DEF Options!Others

(* The document that is written is the one the logos go with, and for an upload
   it keeps what the other mode shows. *)
LEMMA DocumentsAreWritten ==
  ASSUME SettingsInv, NEW a \in Admins, Options!_save_branding(a)
  PROVE  SettingsInv' /\ RestStays
PROOF
<1>1. PICK x : x = admin[a]
  OBVIOUS
<1>2. /\ x.step = "write" /\ branding' = x.document /\ strayed' = (strayed \/ x.stale) /\ admin' = Options!Others(a)
      /\ page' = page /\ rows' = rows /\ labels' = labels /\ stored' = stored
  BY <1>1 DEF Options!_save_branding
<1>3. Fits(x) /\ Sound(x)
  BY <1>1, Uploaded
<1>4. page = "branding" /\ x \in Uploading \cup Saving /\ x # Options!Idle
  BY <1>2, <1>3, StepTells DEF Options!Idle
<1>5. "document" \in DOMAIN x /\ x.stale \in BOOLEAN /\ (x.slot # "none" => x \in Uploading)
  BY <1>4 DEF Uploading, Saving
<1>6. PICK d : d = x.document
  OBVIOUS
<1>7. Coherent(d)
  BY <1>3, <1>5, <1>6 DEF Sound, Written
<1>8. branding' = d
  BY <1>2, <1>6
<1>9. PageInv'
  <2>1. Coherent(branding)'
    BY <1>7, <1>8 DEF Coherent
  <2>2. QED
    BY <1>2, <1>4, <1>5, <2>1 DEF SettingsInv, PageInv, Answer
<1>10. ~strayed' => ~strayed /\ ~x.stale
  BY <1>2
<1>11. ~strayed' => stored' = d.logos
  BY <1>2, <1>3, <1>4, <1>6, <1>10 DEF Sound, InStep
<1>12. SyncInv'
  BY <1>2, <1>4, <1>8, <1>11 DEF SettingsInv, SyncInv, PageInv, Answer
<1>13. admin' = [Options!Others(a) EXCEPT ![a] = Options!Idle] /\ admin'[a] = Options!Idle
  BY <1>2, IdleAmongOthers
<1>14. AdminInv' /\ \A b \in Admins \ {a} : admin'[b] = Options!Idle <=> admin[b] = Options!Idle
  BY <1>2, <1>13, OthersWait, IdleIsSound DEF SettingsInv
<1>15. \A b \in Admins \ {a} : RunsStay(b) /\ UploadStays(b)
  BY <1>14, NothingEnds
<1>16. RunsStay(a)
  BY <1>1, <1>2 DEF RunsStay
<1>17. UploadStays(a)
  <2>1. SUFFICES ASSUME Options!Uploads(a), ~strayed', branding.logo_mode = "separate" => branding.logos["dark"] # None,
                        NEW mode \in Slots \ {x.slot}, Options!Shown(branding, mode) # None
                 PROVE  Options!Shown(branding', mode) = Options!Shown(branding, mode)
    BY <1>1 DEF UploadStays, Options!OtherModeKeeps, Slots
  <2>2. x \in Uploading
    BY <1>1, <1>5, <2>1 DEF Options!Uploads
  <2>3. Keeps(x)
    BY <1>3, <1>4, <1>10, <2>1, <2>2 DEF Sound
  <2>4. d.logos[mode] = Options!Shown(branding, mode) /\ (mode = "dark" => d.logo_mode = "separate")
    BY <1>6, <2>1, <2>3 DEF Keeps
  <2>5. mode \in {"light", "dark"}
    BY <2>1 DEF Slots, Options!LOGO_SLOTS
  <2>6. PICK v : v = Options!Shown(branding, mode)
    OBVIOUS
  <2>7. Options!Shown(d, mode) = v
    BY <2>1, <2>4, <2>5, <2>6 DEF Options!Shown
  <2>8. QED
    BY <1>8, <2>6, <2>7 DEF Options!Shown
<1>18. QED
  BY <1>2, <1>9, <1>12, <1>14, <1>15, <1>16, <1>17, LabelsStay DEF SettingsInv, RestStays

(* What fails ends, and counts as having strayed where something was written. *)
LEMMA RequestsFail ==
  ASSUME SettingsInv, NEW a \in Admins, Options!Fail(a)
  PROVE  SettingsInv' /\ RestStays
PROOF
<1>1. PICK x : x = admin[a]
  OBVIOUS
<1>2. /\ x # Options!Idle /\ strayed' = (strayed \/ x.step \notin {"copy", "runs"}) /\ admin' = [admin EXCEPT ![a] = Options!Idle]
      /\ page' = page /\ rows' = rows /\ labels' = labels /\ branding' = branding /\ stored' = stored
  BY <1>1 DEF Options!Fail
<1>3. Fits(x) /\ Sound(x)
  BY <1>1, Uploaded
<1>4. AdminInv'
  BY <1>2, OneMoves, IdleIsSound DEF SettingsInv
<1>5. admin'[a] = Options!Idle /\ \A b \in Admins \ {a} : admin'[b] = admin[b]
  BY <1>2 DEF SettingsInv, AdminInv
<1>6. PageInv'
  BY <1>2 DEF SettingsInv, PageInv, Answer
<1>7. SyncInv'
  <2>1. SUFFICES ASSUME ~strayed', Quiet'
                 PROVE  branding.logos = stored /\ Answer = rows.answered
    BY <1>2 DEF SyncInv, Answer
  <2>2. x.step = "copy" \/ page = "runs"
    BY <1>2, <1>3, <2>1, StepTells
  <2>3. CASE x.step = "copy"
    BY <1>1, <1>2, <1>5, <2>1, <2>3, QuietNow DEF SettingsInv, SyncInv
  <2>4. CASE page = "runs"
    BY <2>4 DEF SettingsInv, PageInv
  <2>5. QED
    BY <2>2, <2>3, <2>4
<1>8. \A b \in Admins \ {a} : RunsStay(b) /\ UploadStays(b)
  BY <1>5, NothingEnds
<1>9. RunsStay(a)
  BY <1>2 DEF RunsStay
<1>10. UploadStays(a)
  BY <1>1, <1>2 DEF UploadStays, Options!Uploads
<1>11. QED
  BY <1>2, <1>4, <1>6, <1>7, <1>8, <1>9, <1>10, LabelsStay DEF SettingsInv, RestStays

-----------------------------------------------------------------------------
(* Settings: samples, retention, run configurations and labels *)

LEMMA RowsHaveTypes ==
  ASSUME SettingsInv
  PROVE  /\ rows \in RowTypes /\ rows.kind \in Options!KINDS \cup {None} /\ rows.value \in Nat \cup {None} /\ rows.answered \in Samples
         /\ rows.days \in Days /\ rows.quarantine \in Days /\ rows.runs \in Versions
BY DEF SettingsInv, PageInv, RowTypes

LEMMA SamplesBegin ==
  ASSUME Options!SettingsAssumption, SettingsInv, NEW a \in Admins, Options!save_profiler_sample(a)
  PROVE  SettingsInv' /\ RestStays
PROOF
<1>1. PICK kind \in Options!KINDS, value \in {0, 20, 500, PROFILER_SAMPLE_RECORDS_MAX + 1} :
        /\ rows' = [rows EXCEPT !.kind = kind]
        /\ admin' = [Options!Others(a) EXCEPT ![a] =
             [step |-> "value", stale |-> Options!Overlaps(a), slot |-> "none",
              saved |-> [kind |-> kind, value |-> IF kind = "full" THEN 0 ELSE Options!clamp_profiler_sample_value(kind, value)]]]
  BY DEF Options!save_profiler_sample
<1>2. /\ page = "sample" /\ admin[a] = Options!Idle /\ page' = page /\ labels' = labels /\ branding' = branding
      /\ stored' = stored /\ strayed' = strayed
  BY DEF Options!save_profiler_sample
<1>3. value \in Nat
  BY DEF Options!SettingsAssumption
<1>4. PICK v : v = IF kind = "full" THEN 0 ELSE Options!clamp_profiler_sample_value(kind, value)
  OBVIOUS
<1>5. v \in Nat /\ v \in IF kind = "full" THEN {0} ELSE 1..Options!Largest(kind)
  BY <1>3, <1>4, Clamped
<1>6. PICK y : y = [step |-> "value", stale |-> Options!Overlaps(a), slot |-> "none", saved |-> [kind |-> kind, value |-> v]]
  OBVIOUS
<1>7. Options!Overlaps(a) \in BOOLEAN
  BY DEF Options!Overlaps
<1>8. /\ y \in Valuing /\ y.step = "value" /\ y.saved.kind = kind /\ y.saved.value = v /\ y # Options!Idle
      /\ "document" \notin DOMAIN y /\ y \notin Uploading
  BY <1>5, <1>6, <1>7 DEF Valuing, Samples, Uploading, Options!Idle
<1>9. rows' \in RowTypes /\ rows'.kind = kind
  BY <1>1, RowsHaveTypes DEF RowTypes
<1>10. Fits(y)
  BY <1>2, <1>8 DEF Fits
<1>11. Written(y)
  BY <1>5, <1>8 DEF Written
<1>12. InStep(y)'
  BY <1>8, <1>9 DEF InStep
<1>13. Sound(y)'
  BY <1>8, <1>11, <1>12 DEF Sound, Written
<1>14. admin' = [Options!Others(a) EXCEPT ![a] = y]
  BY <1>1, <1>4, <1>6
<1>15. AdminInv' /\ \A b \in Admins \ {a} : admin'[b] = Options!Idle <=> admin[b] = Options!Idle
  BY <1>2, <1>10, <1>13, <1>14, OthersWait DEF SettingsInv
<1>16. admin'[a] = y
  BY <1>14 DEF Options!Others
<1>17. PageInv'
  BY <1>2, <1>9 DEF SettingsInv, PageInv
<1>18. SyncInv'
  BY <1>8, <1>16 DEF SyncInv, Quiet
<1>19. \A b \in Admins : RunsStay(b) /\ UploadStays(b)
  BY <1>8, <1>15, <1>16, NothingEnds
<1>20. QED
  BY <1>2, <1>15, <1>17, <1>18, <1>19, LabelsStay DEF SettingsInv, RestStays

LEMMA ValuesAreWritten ==
  ASSUME Options!SettingsAssumption, SettingsInv, NEW a \in Admins, Options!WriteValue(a)
  PROVE  SettingsInv' /\ RestStays
PROOF
<1>1. PICK x : x = admin[a]
  OBVIOUS
<1>2. /\ x.step = "value" /\ rows' = [rows EXCEPT !.value = x.saved.value, !.answered = x.saved]
      /\ strayed' = (strayed \/ x.stale) /\ admin' = Options!Others(a)
      /\ page' = page /\ labels' = labels /\ branding' = branding /\ stored' = stored
  BY <1>1 DEF Options!WriteValue
<1>3. Fits(x) /\ Sound(x)
  BY <1>1, Uploaded
<1>4. page = "sample" /\ x \in Valuing /\ x # Options!Idle
  BY <1>2, <1>3, StepTells DEF Options!Idle
<1>5. PICK s : s = x.saved
  OBVIOUS
<1>6. s \in Samples /\ x.stale \in BOOLEAN
  BY <1>4, <1>5 DEF Valuing
<1>7. s.kind \in Options!KINDS /\ s.value \in Nat /\ s = [kind |-> s.kind, value |-> s.value]
  BY <1>6 DEF Samples
<1>8. s.value \in IF s.kind = "full" THEN {0} ELSE 1..Options!Largest(s.kind)
  BY <1>2, <1>3, <1>5 DEF Sound, Written
<1>9. /\ rows' \in RowTypes /\ rows'.kind = rows.kind /\ rows'.value = s.value /\ rows'.answered = s /\ rows'.runs = rows.runs
  BY <1>2, <1>5, <1>6, <1>7, RowsHaveTypes DEF RowTypes
<1>10. ~strayed' => rows.kind = s.kind
  BY <1>2, <1>3, <1>4, <1>5, <1>6 DEF Sound, InStep
<1>11. Options!get_profiler_sample(s.kind, s.value) = s
  BY <1>7, <1>8, Answered
<1>12. PageInv'
  BY <1>2, <1>4, <1>6, <1>9 DEF SettingsInv, PageInv
<1>13. ~strayed' => Answer' = rows'.answered
  BY <1>9, <1>10, <1>11 DEF Answer
<1>14. SyncInv'
  BY <1>2, <1>4, <1>13 DEF SettingsInv, PageInv, SyncInv
<1>15. admin' = [Options!Others(a) EXCEPT ![a] = Options!Idle] /\ admin'[a] = Options!Idle
  BY <1>2, IdleAmongOthers
<1>16. AdminInv' /\ \A b \in Admins \ {a} : admin'[b] = Options!Idle <=> admin[b] = Options!Idle
  BY <1>2, <1>15, OthersWait, IdleIsSound DEF SettingsInv
<1>17. \A b \in Admins \ {a} : RunsStay(b) /\ UploadStays(b)
  BY <1>16, NothingEnds
<1>18. RunsStay(a) /\ UploadStays(a)
  BY <1>1, <1>2 DEF RunsStay, UploadStays, Options!Uploads
<1>19. QED
  BY <1>2, <1>12, <1>14, <1>16, <1>17, <1>18, LabelsStay DEF SettingsInv, RestStays

(* A save that is over at once. *)
LEMMA NobodyMoves ==
  ASSUME AdminInv, admin' = admin, page' = page, branding' = branding, stored' = stored, strayed' = strayed,
         rows'.kind = rows.kind, rows'.runs = rows.runs
  PROVE  AdminInv'
PROOF
<1>1. ASSUME NEW b \in Admins
      PROVE  Fits(admin[b])' /\ Sound(admin[b])'
  <2>1. PICK y : y = admin[b]
    OBVIOUS
  <2>2. Fits(y) /\ Sound(y) /\ admin'[b] = y
    BY <2>1 DEF AdminInv
  <2>3. Fits(y)' /\ Sound(y)'
    BY <2>2 DEF Fits, Sound, Written, InStep, Keeps, Options!Shown
  <2>4. QED
    BY <2>2, <2>3
<1>2. QED
  BY <1>1 DEF AdminInv

LEMMA RetentionIsSaved ==
  ASSUME Options!SettingsAssumption, SettingsInv, Options!save_retention_settings
  PROVE  SettingsInv' /\ RestStays
PROOF
<1>1. PICK n \in Options!Entered, m \in Options!Entered :
        /\ n = None \/ n \in Options!ValidDays
        /\ rows' = [rows EXCEPT !.days = IF n = None THEN @ ELSE n, !.quarantine = IF m \in Options!ValidDays THEN m ELSE @]
  BY DEF Options!save_retention_settings
<1>2. /\ page = "sample" /\ page' = page /\ labels' = labels /\ branding' = branding /\ stored' = stored
      /\ admin' = admin /\ strayed' = strayed
  BY DEF Options!save_retention_settings
<1>3. PICK d \in Days : d = IF n = None THEN rows.days ELSE n
  BY <1>1, RowsHaveTypes DEF Days
<1>4. PICK q \in Days : q = IF m \in Options!ValidDays THEN m ELSE rows.quarantine
  BY RowsHaveTypes DEF Days
<1>5. rows' = [rows EXCEPT !.days = d, !.quarantine = q]
  BY <1>1, <1>3, <1>4, RowsHaveTypes DEF RowTypes
<1>6. rows' \in RowTypes /\ rows'.kind = rows.kind /\ rows'.value = rows.value /\ rows'.answered = rows.answered /\ rows'.runs = rows.runs
  <2>1. PICK r \in RowTypes : r = rows
    BY RowsHaveTypes
  <2>2. PICK t : t = [r EXCEPT !.days = d]
    OBVIOUS
  <2>3. t \in RowTypes /\ t.kind = r.kind /\ t.value = r.value /\ t.answered = r.answered /\ t.runs = r.runs
    BY <2>1, <2>2 DEF RowTypes
  <2>4. PICK u : u = [t EXCEPT !.quarantine = q]
    OBVIOUS
  <2>5. u \in RowTypes /\ u.kind = t.kind /\ u.value = t.value /\ u.answered = t.answered /\ u.runs = t.runs
    BY <2>3, <2>4 DEF RowTypes
  <2>6. rows' = u
    BY <1>5, <2>1, <2>2, <2>4
  <2>7. QED
    BY <2>1, <2>3, <2>5, <2>6
<1>7. PageInv'
  BY <1>2, <1>6 DEF SettingsInv, PageInv, Answer
<1>8. SyncInv'
  BY <1>2, <1>6 DEF SettingsInv, SyncInv, Quiet, Answer
<1>9. AdminInv'
  BY <1>2, <1>6, NobodyMoves DEF SettingsInv
<1>10. \A b \in Admins : RunsStay(b) /\ UploadStays(b)
  BY <1>2, NothingEnds
<1>11. QED
  BY <1>2, <1>7, <1>8, <1>9, <1>10, LabelsStay DEF SettingsInv, RestStays

LEMMA RunConfigsAreEdited ==
  ASSUME SettingsInv, NEW a \in Admins, Options!EditRunConfig(a)
  PROVE  SettingsInv' /\ RestStays
PROOF
<1>1. PICK name \in RunNames, version \in {None} \cup Options!Looks :
        Options!Read(a, [step |-> "runs", stale |-> Options!Overlaps(a), slot |-> name, runs |-> [rows.runs EXCEPT ![name] = version]])
  BY DEF Options!EditRunConfig
<1>2. PICK edited : edited = [rows.runs EXCEPT ![name] = version]
  OBVIOUS
<1>3. edited \in Versions /\ \A other \in RunNames \ {name} : edited[other] = rows.runs[other]
  BY <1>2, RowsHaveTypes DEF Versions
<1>4. PICK x : x = [step |-> "runs", stale |-> Options!Overlaps(a), slot |-> name, runs |-> edited]
  OBVIOUS
<1>5. Options!Overlaps(a) \in BOOLEAN /\ page = "runs"
  BY DEF Options!Overlaps, Options!EditRunConfig
<1>6. x \in Running /\ x.step = "runs" /\ x.slot = name /\ x.runs = edited /\ x # Options!Idle /\ x \notin Uploading /\ "document" \notin DOMAIN x
  BY <1>3, <1>4, <1>5 DEF Running, Uploading, Options!Idle
<1>7. Fits(x) /\ Written(x) /\ InStep(x)
  BY <1>3, <1>5, <1>6 DEF Fits, Written, InStep
<1>8. Sound(x)
  BY <1>6, <1>7 DEF Sound
<1>9. QED
  BY <1>1, <1>2, <1>4, <1>6, <1>7, <1>8, Opens

LEMMA RunConfigsAreWritten ==
  ASSUME SettingsInv, NEW a \in Admins, Options!WriteRunConfigs(a)
  PROVE  SettingsInv' /\ RestStays
PROOF
<1>1. PICK x : x = admin[a]
  OBVIOUS
<1>2. /\ x.step = "runs" /\ rows' = [rows EXCEPT !.runs = x.runs] /\ strayed' = (strayed \/ x.stale) /\ admin' = Options!Others(a)
      /\ page' = page /\ labels' = labels /\ branding' = branding /\ stored' = stored
  BY <1>1 DEF Options!WriteRunConfigs
<1>3. Fits(x) /\ Sound(x)
  BY <1>1, Uploaded
<1>4. page = "runs" /\ x \in Running /\ x # Options!Idle
  BY <1>2, <1>3, StepTells DEF Options!Idle
<1>5. PICK edited \in Versions : edited = x.runs
  BY <1>4 DEF Running
<1>6. rows' = [rows EXCEPT !.runs = edited] /\ x.stale \in BOOLEAN
  BY <1>2, <1>4, <1>5 DEF Running
<1>7. /\ rows' \in RowTypes /\ rows'.kind = rows.kind /\ rows'.value = rows.value /\ rows'.answered = rows.answered
      /\ rows'.runs = edited
  BY <1>6, RowsHaveTypes DEF RowTypes
<1>8. ~strayed' => \A name \in RunNames \ {x.slot} : edited[name] = rows.runs[name]
  BY <1>2, <1>3, <1>4, <1>5 DEF Sound, InStep
<1>9. PageInv'
  BY <1>2, <1>4, <1>6, <1>7 DEF SettingsInv, PageInv, Answer
<1>10. SyncInv'
  BY <1>2, <1>4, <1>7 DEF SettingsInv, PageInv, SyncInv, Answer
<1>11. admin' = [Options!Others(a) EXCEPT ![a] = Options!Idle] /\ admin'[a] = Options!Idle
  BY <1>2, IdleAmongOthers
<1>12. AdminInv' /\ \A b \in Admins \ {a} : admin'[b] = Options!Idle <=> admin[b] = Options!Idle
  BY <1>2, <1>11, OthersWait, IdleIsSound DEF SettingsInv
<1>13. \A b \in Admins \ {a} : RunsStay(b) /\ UploadStays(b)
  BY <1>12, NothingEnds
<1>14. RunsStay(a) /\ UploadStays(a)
  BY <1>1, <1>2, <1>7, <1>8 DEF RunsStay, UploadStays, Options!Uploads
<1>15. QED
  BY <1>2, <1>9, <1>10, <1>12, <1>13, <1>14, LabelsStay DEF SettingsInv, RestStays

LEMMA LabelsAreSaved ==
  ASSUME SettingsInv, Options!save_label_definitions
  PROVE  SettingsInv' /\ RestStays
PROOF
<1>1. PICK keys \in SUBSET (Reserved \cup Own) :
        \E body \in [keys -> [builtin : BOOLEAN, custom_values : BOOLEAN, values : {{}, Options!Values}, described : {{"Low"}}]] :
          /\ {k \in DOMAIN labels : labels[k].builtin} \subseteq keys
          /\ labels' = Options!SavedLabels(body)
  BY DEF Options!save_label_definitions
<1>2. PICK body : DOMAIN body = keys /\ {k \in DOMAIN labels : labels[k].builtin} \subseteq keys /\ labels' = Options!SavedLabels(body)
  BY <1>1
<1>3. /\ page' = page /\ rows' = rows /\ branding' = branding /\ stored' = stored /\ admin' = admin /\ strayed' = strayed
  BY DEF Options!save_label_definitions
<1>4. /\ DOMAIN labels' = keys
      /\ \A k \in keys : /\ labels'[k].builtin <=> (k \in DOMAIN labels /\ labels[k].builtin)
                         /\ labels'[k].custom_values <=> (k \notin Reserved /\ body[k].custom_values)
  BY <1>2 DEF Options!SavedLabels
<1>5. LabelInv' /\ BuiltInsStay
  BY <1>2, <1>4 DEF SettingsInv, LabelInv, BuiltInsStay
<1>6. PageInv' /\ SyncInv'
  BY <1>3 DEF SettingsInv, PageInv, SyncInv, Quiet, Answer
<1>7. AdminInv'
  BY <1>3, NobodyMoves DEF SettingsInv
<1>8. \A b \in Admins : RunsStay(b) /\ UploadStays(b)
  BY <1>3, NothingEnds
<1>9. QED
  BY <1>5, <1>6, <1>7, <1>8 DEF SettingsInv, RestStays

LEMMA SettingsBegin ==
  ASSUME Options!SettingsAssumption, Options!Init
  PROVE  SettingsInv
PROOF
<1>1. /\ page \in {"labels", "branding", "sample", "runs"}
      /\ branding = [preset |-> None, custom |-> {}, edited |-> {}, logo_mode |-> "shared", logos |-> [s \in Slots |-> None]]
      /\ stored = [s \in Slots |-> None]
      /\ rows = [kind |-> None, value |-> None, answered |-> Options!get_profiler_sample(None, None),
                 days |-> None, quarantine |-> None, runs |-> [name \in RunNames |-> None]]
      /\ admin = [a \in Admins |-> Options!Idle] /\ strayed = FALSE
  BY DEF Options!Init, Slots
<1>2. PICK answered : answered = Options!get_profiler_sample(None, None)
  OBVIOUS
<1>3. answered \in Samples
  BY <1>2, Answered
<1>4. [name \in RunNames |-> None] \in Versions /\ None \in Days
  BY DEF Versions, Days
<1>5. rows \in RowTypes /\ Answer = rows.answered
  BY <1>1, <1>2, <1>3, <1>4 DEF RowTypes, Answer
<1>6. Coherent(branding) /\ branding.logos = stored
  <2>1. PICK d : d = branding
    OBVIOUS
  <2>2. d \in Documents /\ d.preset = None /\ d.custom = {} /\ d.logos = stored /\ d.logos["dark"] = None
    BY <1>1, <2>1 DEF Documents, Slots, Options!LOGO_SLOTS
  <2>3. IsFiniteSet({}) /\ Cardinality({}) = 0
    BY FS_EmptySet
  <2>4. Coherent(d)
    BY <2>2, <2>3 DEF Coherent, Options!SettingsAssumption
  <2>5. QED
    BY <2>1, <2>2, <2>4
<1>7. PageInv
  BY <1>1, <1>5, <1>6 DEF PageInv, Slots
<1>8. AdminInv
  BY <1>1 DEF AdminInv, Fits, Sound, Written, Options!Idle
<1>9. LabelInv
  <2>1. PICK earlier : labels = Options!AtStart([k \in earlier |-> [builtin |-> FALSE, custom_values |-> TRUE, values |-> Options!Values, described |-> {}]])
    BY DEF Options!Init
  <2>2. PICK defined : defined = [k \in earlier |-> [builtin |-> FALSE, custom_values |-> TRUE, values |-> Options!Values, described |-> {}]]
    OBVIOUS
  <2>3. labels = Options!AtStart(defined) /\ \A k \in DOMAIN defined : ~defined[k].builtin /\ DOMAIN defined[k] = {"builtin", "custom_values", "values", "described"}
    BY <2>1, <2>2
  <2>4. \A k \in DOMAIN labels : labels[k].builtin => k \in Reserved /\ k \notin DOMAIN defined
    BY <2>3 DEF Options!AtStart
  <2>5. \A k \in DOMAIN labels : k \notin DOMAIN defined => ~labels[k].custom_values
    BY <2>3 DEF Options!AtStart, Options!Seed
  <2>6. QED
    BY <2>4, <2>5 DEF LabelInv
<1>10. SyncInv
  BY <1>5, <1>6 DEF SyncInv
<1>11. QED
  BY <1>7, <1>8, <1>9, <1>10 DEF SettingsInv

-----------------------------------------------------------------------------
(* Settings: what the invariant shows *)

(* Presets that are numbered apart are as many as their numbers. *)
LEMMA NumbersAreCounted ==
  ASSUME NEW d \in Documents, Coherent(d)
  PROVE  Options!Cardinality(Options!custom_ids(d)) = Options!Cardinality(d.custom) /\ Options!Cardinality(d.custom) <= MAX_CUSTOM_PRESETS
PROOF
<1>1. PICK C \in SUBSET Presets : C = d.custom
  BY DEF Documents
<1>2. IsFiniteSet(C) /\ Cardinality(C) <= MAX_CUSTOM_PRESETS /\ \A c, e \in C : c.id = e.id => c = e
  BY <1>1 DEF Coherent
<1>3. PICK ids : ids = {c.id : c \in C}
  OBVIOUS
<1>4. PICK f : f = [c \in C |-> c.id]
  OBVIOUS
<1>5. f \in [C -> ids] /\ (\A c, e \in C : f[c] = f[e] => c = e) /\ \A i \in ids : \E c \in C : f[c] = i
  BY <1>2, <1>3, <1>4
<1>6. Cardinality(ids) = Cardinality(C)
  <2>1. f \in Surjection(C, ids) /\ f \in Injection(C, ids)
    BY <1>5, Fun_IsSurj, Fun_IsInj
  <2>2. QED
    BY <1>2, <2>1, FS_Surjection
<1>7. Options!custom_ids(d) = ids
  BY <1>1, <1>3 DEF Options!custom_ids
<1>8. QED
  BY <1>1, <1>2, <1>6, <1>7, CountedAlike

LEMMA InvariantsShow ==
  ASSUME Options!SettingsAssumption, SettingsInv
  PROVE  Options!BrandingHolds /\ Options!SampleIsUsable
PROOF
<1>1. PICK d \in Documents : d = branding /\ Coherent(d)
  BY DEF SettingsInv, PageInv, Coherent
<1>2. d.preset \in Options!PRESET_IDS \cup {None} \cup Options!custom_ids(d) /\ (d.logo_mode = "shared" => d.logos["dark"] = None)
  BY <1>1 DEF Coherent, Options!custom_ids
<1>3. Options!Cardinality(Options!custom_ids(d)) = Options!Cardinality(d.custom) /\ Options!Cardinality(d.custom) <= MAX_CUSTOM_PRESETS
  BY <1>1, NumbersAreCounted
<1>4. ~strayed /\ (\A a \in Admins : admin[a] = Options!Idle) => branding.logos = stored /\ Answer = rows.answered
  BY DEF SettingsInv, SyncInv, Quiet, Options!Idle
<1>5. Options!BrandingHolds
  BY <1>1, <1>2, <1>3, <1>4 DEF Options!BrandingHolds
<1>6. PICK s : s = Options!get_profiler_sample(rows.kind, rows.value)
  OBVIOUS
<1>7. s.value \in IF s.kind = "full" THEN {0} ELSE 1..Options!Largest(s.kind)
  BY <1>6, RowsHaveTypes, Answered
<1>8. {rows.days, rows.quarantine} \subseteq Options!ValidDays \cup {None}
  BY RowsHaveTypes DEF Days
<1>9. Options!SampleIsUsable
  BY <1>4, <1>6, <1>7, <1>8 DEF Options!SampleIsUsable, Answer
<1>10. QED
  BY <1>5, <1>9

LEMMA SettingsStep ==
  ASSUME Options!SettingsAssumption, SettingsInv, Options!Next
  PROVE  SettingsInv' /\ RestStays
PROOF
<1>1. CASE Options!save_label_definitions
  BY <1>1, LabelsAreSaved
<1>2. CASE Options!save_retention_settings
  BY <1>2, RetentionIsSaved
<1>3. CASE \E a \in Admins : Options!save_branding_theme(a)
  BY <1>3, ThemesAreSaved
<1>4. CASE \E a \in Admins : Options!delete_branding_custom_preset(a)
  BY <1>4, PresetsAreDeleted
<1>5. CASE \E a \in Admins : Options!save_branding_logo(a)
  BY <1>5, UploadsBegin
<1>6. CASE \E a \in Admins : Options!CopyLogo(a)
  BY <1>6, LogosAreCopied
<1>7. CASE \E a \in Admins : Options!_write_logo(a)
  BY <1>7, LogosAreWritten
<1>8. CASE \E a \in Admins : Options!delete_branding_logo(a)
  BY <1>8, LogosAreDeleted
<1>9. CASE \E a \in Admins : Options!ReadDeleted(a)
  BY <1>9, DeletionsAreRead
<1>10. CASE \E a \in Admins : Options!_save_branding(a)
  BY <1>10, DocumentsAreWritten
<1>11. CASE \E a \in Admins : Options!save_profiler_sample(a)
  BY <1>11, SamplesBegin
<1>12. CASE \E a \in Admins : Options!WriteValue(a)
  BY <1>12, ValuesAreWritten
<1>13. CASE \E a \in Admins : Options!EditRunConfig(a)
  BY <1>13, RunConfigsAreEdited
<1>14. CASE \E a \in Admins : Options!WriteRunConfigs(a)
  BY <1>14, RunConfigsAreWritten
<1>15. CASE \E a \in Admins : Options!Fail(a)
  BY <1>15, RequestsFail
<1>16. QED
  BY <1>1, <1>2, <1>3, <1>4, <1>5, <1>6, <1>7, <1>8, <1>9, <1>10, <1>11, <1>12, <1>13, <1>14, <1>15 DEF Options!Next

LEMMA SettingsStayAsTheyAre ==
  ASSUME SettingsInv, UNCHANGED Options!settingsVars
  PROVE  SettingsInv' /\ RestStays
PROOF
<1>1. /\ page' = page /\ rows' = rows /\ labels' = labels /\ branding' = branding /\ stored' = stored /\ admin' = admin
      /\ strayed' = strayed
  BY DEF Options!settingsVars
<1>2. PageInv' /\ SyncInv'
  BY <1>1 DEF SettingsInv, PageInv, SyncInv, Quiet, Answer
<1>3. AdminInv'
  BY <1>1, NobodyMoves DEF SettingsInv
<1>4. \A b \in Admins : RunsStay(b) /\ UploadStays(b)
  BY <1>1, NothingEnds
<1>5. QED
  BY <1>1, <1>2, <1>3, <1>4, LabelsStay DEF SettingsInv, RestStays

(* Whatever administrators save, together or failing half-way, the branding
   holds together, the sample is usable, built-in labels stay as they are, and
   a save leaves the rest alone. *)
THEOREM SavesAreToThePoint ==
  ASSUME Options!SettingsAssumption
  PROVE  Options!Init /\ [][Options!Next]_Options!settingsVars => [][Options!SavesKeepTheRest]_Options!settingsVars
PROOF
<1>1. Options!Init => SettingsInv
  BY SettingsBegin
<1>2. SettingsInv /\ [Options!Next]_Options!settingsVars => SettingsInv'
  BY SettingsStep, SettingsStayAsTheyAre
<1>3. SettingsInv /\ SettingsInv' /\ [Options!Next]_Options!settingsVars => [Options!SavesKeepTheRest]_Options!settingsVars
  <2>1. SUFFICES ASSUME SettingsInv, SettingsInv', Options!Next
                 PROVE  Options!SavesKeepTheRest
    OBVIOUS
  <2>2. RestStays
    BY <2>1, SettingsStep
  <2>3. Options!BrandingHolds' /\ Options!SampleIsUsable'
    BY <2>1, InvariantsShow, PTL
  <2>4. QED
    BY <2>2, <2>3 DEF RestStays, BuiltInsStay, RunsStay, UploadStays, Options!SavesKeepTheRest
<1>4. QED
  BY <1>1, <1>2, <1>3, PTL

-----------------------------------------------------------------------------

CONSTANTS MaxSpaces, MaxFaults, MaxDrift
VARIABLES spaces, noted, around, ensure, blind, spent

Genie == INSTANCE GenieSpace WITH MaxChanges <- MaxDrift, stored <- noted, world <- around, budget <- spent

-----------------------------------------------------------------------------
(* GenieSpace: the inductive invariant *)

Warehouses == {"w1", "w2"}
Space == [mine : BOOLEAN, content : Nat, warehouse : Warehouses, shared : BOOLEAN]
Entries == Space \cup {None}
EnsureSteps == {"idle", "verify", "search", "adopt", "adopt_id", "create", "created", "created_hash", "created_ready",
                "compare", "update", "hash", "ready", "share"}

GenieTypes ==
  /\ spaces \in Seq(Entries)
  /\ noted \in [id : Nat \cup {None}, hash : Nat \cup {None}, status : {None, "provisioning", "error", "ready"}]
  /\ around \in [release : Nat, warehouse : Warehouses, usable : BOOLEAN, client_id : BOOLEAN, audience : BOOLEAN]
  /\ ensure \in [step : EnsureSteps, existing : Nat \cup {None}, hash : Nat \cup {None},
                 warehouse : Warehouses \cup {None}, body : SUBSET {"content", "warehouse"}]
  /\ blind \in Nat
  /\ noted.id = None \/ noted.id \in DOMAIN spaces
  /\ ensure.existing = None \/ ensure.existing \in DOMAIN spaces
  /\ noted.hash # None => noted.hash <= around.release

\* What the call under way goes by.  Whoever looks for a space, takes one over
\* or creates one has none; whoever compares has the one that is stored, with
\* the hash that is stored; and what is about to be stored is so.
CallInv ==
  /\ ensure.step \in {"verify", "compare", "update", "hash"} => ensure.existing = noted.id /\ noted.id # None
  /\ ensure.step \in {"verify", "compare", "update"} => ensure.hash = noted.hash
  /\ ensure.step \in {"search", "create", "created", "adopt", "adopt_id"} => ~Genie!Exists(noted.id)
  /\ ensure.step \in {"adopt", "adopt_id", "created"} => ensure.existing # None
  /\ ensure.step \in {"adopt", "adopt_id", "created"} /\ Genie!Exists(ensure.existing) => spaces[ensure.existing].mine
  /\ ensure.step \in {"adopt", "adopt_id"} => ensure.hash = None
  /\ ensure.step = "adopt_id" => noted.hash = None
  /\ ensure.step = "update" => ("content" \in ensure.body <=> ensure.hash # around.release)
  /\ ensure.step \in {"created", "created_hash", "hash"} /\ Genie!Exists(ensure.existing) => spaces[ensure.existing].content = around.release
  /\ ensure.step = "created_hash" => ensure.existing = noted.id

\* Only who found none, or missed one, creates a space.
CountInv ==
  /\ Genie!OneSpace
  /\ ensure.step = "create" => Genie!Cardinality(Genie!Own) <= blind

GenieInv == GenieTypes /\ CallInv /\ Genie!HashTellsTheContent /\ Genie!OwnSpaceIsKept /\ CountInv

-----------------------------------------------------------------------------
(* GenieSpace: counting *)

LEMMA OwnSpacesAreCounted ==
  ASSUME GenieTypes
  PROVE  /\ IsFiniteSet(Genie!Own) /\ Genie!Cardinality(Genie!Own) \in Nat
         /\ \A S \in SUBSET Genie!Own : IsFiniteSet(S) /\ Genie!Cardinality(S) <= Genie!Cardinality(Genie!Own) /\ Genie!Cardinality(S) \in Nat
         /\ Genie!Own = {} => Genie!Cardinality(Genie!Own) = 0
         /\ \A id : id \notin Genie!Own => Genie!Cardinality(Genie!Own \cup {id}) = Genie!Cardinality(Genie!Own) + 1
PROOF
<1>1. \A S : Genie!Cardinality(S) = Cardinality(S)
  BY Zenon DEF Genie!Cardinality, Cardinality
<1>2. Genie!Own \subseteq 1 .. Len(spaces) /\ Len(spaces) \in Nat
  BY DEF Genie!Own, GenieTypes
<1>3. IsFiniteSet(Genie!Own)
  <2>1. IsFiniteSet(1 .. Len(spaces))
    BY <1>2, FS_Interval
  <2>2. QED
    BY <1>2, <2>1, FS_Subset
<1>4. QED
  BY <1>1, <1>3, FS_Subset, FS_CardinalityType, FS_EmptySet, FS_AddElement

(* Fewer spaces, none of them new, are no reason to count again. *)
LEMMA NoNewSpaces ==
  ASSUME GenieTypes, CountInv, Genie!Own' \subseteq Genie!Own, blind' \in Nat, blind <= blind',
         ensure'.step = "create" => ensure.step = "create"
  PROVE  CountInv'
PROOF
<1>1. Genie!Cardinality(Genie!Own)' <= Genie!Cardinality(Genie!Own) /\ Genie!Cardinality(Genie!Own) \in Nat /\ Genie!Cardinality(Genie!Own)' \in Nat
  BY OwnSpacesAreCounted
<1>2. blind \in Nat
  BY DEF GenieTypes
<1>3. QED
  BY <1>1, <1>2 DEF CountInv, Genie!OneSpace

-----------------------------------------------------------------------------
(* GenieSpace: the steps *)

(* One entry of the list changes. *)
LEMMA EntryChanges ==
  ASSUME GenieTypes, NEW id \in DOMAIN spaces, NEW entry \in Entries, spaces' = [spaces EXCEPT ![id] = entry]
  PROVE  spaces' \in Seq(Entries) /\ Len(spaces') = Len(spaces) /\ DOMAIN spaces' = DOMAIN spaces
PROOF
<1>1. spaces \in Seq(Entries) /\ id \in 1 .. Len(spaces)
  BY DEF GenieTypes
<1>2. QED
  BY <1>1, ExceptSeq

(* What exists is a space. *)
LEMMA ExistingSpaces ==
  ASSUME GenieTypes, NEW id \in DOMAIN spaces, Genie!Exists(id)
  PROVE  spaces[id] \in Space
PROOF
<1>1. spaces \in Seq(Entries) /\ id \in 1 .. Len(spaces)
  BY DEF GenieTypes
<1>2. spaces[id] \in Entries
  BY <1>1
<1>3. QED
  BY <1>2 DEF Genie!Exists, Entries

LEMMA GenieInitially ==
  ASSUME Genie!GenieAssumption, Genie!Init
  PROVE  GenieInv
PROOF
<1>1. GenieTypes
  BY DEF Genie!GenieAssumption, Genie!Init, GenieTypes, Genie!Idle, Entries, Space, Warehouses, EnsureSteps
<1>2. Genie!Own = {}
  BY DEF Genie!Init, Genie!Own
<1>3. QED
  BY <1>1, <1>2, OwnSpacesAreCounted DEF Genie!Init, GenieInv, CallInv, CountInv, Genie!Idle, Genie!Exists, Genie!HashTellsTheContent,
    Genie!OwnSpaceIsKept, Genie!OneSpace, Genie!At

(* A call begins with what is stored. *)
LEMMA EnsureBegins ==
  ASSUME Genie!GenieAssumption, GenieInv, Genie!_ensure_genie_space
  PROVE  GenieInv'
PROOF
<1> USE DEF Genie!Exists, Genie!At, Genie!To, Genie!Save, Genie!Return, Genie!Idle, Genie!_ensure_genie_space
<1>1. GenieTypes'
  BY DEF GenieInv, GenieTypes, Space, Warehouses, EnsureSteps, Genie!GenieAssumption, CallInv
<1>2. CallInv'
  BY DEF GenieInv, GenieTypes, CallInv, Genie!GenieAssumption, Genie!OwnSpaceIsKept
<1>3. Genie!HashTellsTheContent' /\ Genie!OwnSpaceIsKept'
  BY DEF GenieInv, GenieTypes, CallInv, Genie!HashTellsTheContent, Genie!OwnSpaceIsKept, Genie!GenieAssumption
<1>4. CountInv'
  <2>1. Genie!Own' \subseteq Genie!Own
    BY DEF Genie!Own
  <2>2. ensure'.step = "create" => ensure.step = "create"
    BY DEF GenieInv, GenieTypes
  <2>3. blind' = blind
    OBVIOUS
  <2>4. QED
    BY <1>1, <2>1, <2>2, <2>3, NoNewSpaces DEF GenieInv, GenieTypes
<1>5. QED
  BY <1>1, <1>2, <1>3, <1>4 DEF GenieInv

(* The stored space is compared, given up because it is gone, or the call ends. *)
LEMMA VerifyKeeps ==
  ASSUME Genie!GenieAssumption, GenieInv, Genie!Verify
  PROVE  GenieInv'
PROOF
<1>0. ensure.step = "verify" /\ UNCHANGED <<spaces, noted, around, blind>>
  BY DEF Genie!Verify, Genie!At
<1>1. CASE Genie!Exists(ensure.existing) /\ ensure' = [ensure EXCEPT !.step = "compare", !.warehouse = spaces[ensure.existing].warehouse]
  <2>1. ensure.existing \in DOMAIN spaces
    BY <1>1 DEF GenieInv, GenieTypes, Genie!Exists
  <2>2. spaces[ensure.existing].warehouse \in Warehouses
    BY <1>1, <2>1, ExistingSpaces DEF GenieInv, Space
  <2>3. GenieTypes'
    BY <1>0, <1>1, <2>2 DEF GenieInv, GenieTypes, EnsureSteps
  <2>4. ensure'.step = "compare" /\ ensure'.existing = ensure.existing /\ ensure'.hash = ensure.hash
    BY <1>1 DEF GenieInv, GenieTypes
  <2>5. CallInv' /\ Genie!HashTellsTheContent' /\ Genie!OwnSpaceIsKept'
    BY <1>0, <2>4 DEF GenieInv, CallInv, Genie!HashTellsTheContent, Genie!OwnSpaceIsKept, Genie!Exists, Genie!At
  <2>6. CountInv'
    BY <1>0, <2>4 DEF GenieInv, CountInv, Genie!OneSpace, Genie!Own, Genie!Exists
  <2>7. QED
    BY <2>3, <2>5, <2>6 DEF GenieInv
<1>2. CASE ~Genie!Exists(ensure.existing) /\ ensure' = [ensure EXCEPT !.step = "search", !.existing = None]
  <2>1. GenieTypes'
    BY <1>0, <1>2 DEF GenieInv, GenieTypes, EnsureSteps
  <2>2. ensure'.step = "search" /\ ensure'.existing = None /\ ~Genie!Exists(noted.id)
    BY <1>0, <1>2 DEF GenieInv, GenieTypes, CallInv
  <2>3. CallInv' /\ Genie!HashTellsTheContent' /\ Genie!OwnSpaceIsKept'
    BY <1>0, <2>2 DEF GenieInv, CallInv, Genie!HashTellsTheContent, Genie!OwnSpaceIsKept, Genie!Exists, Genie!At
  <2>4. CountInv'
    BY <1>0, <2>2 DEF GenieInv, CountInv, Genie!OneSpace, Genie!Own, Genie!Exists
  <2>5. QED
    BY <2>1, <2>3, <2>4 DEF GenieInv
<1>3. CASE Genie!Return
  <2>1. GenieTypes'
    BY <1>0, <1>3 DEF GenieInv, GenieTypes, EnsureSteps, Genie!Return, Genie!Idle
  <2>2. ensure'.step = "idle"
    BY <1>3 DEF Genie!Return, Genie!Idle
  <2>3. CallInv' /\ Genie!HashTellsTheContent' /\ Genie!OwnSpaceIsKept'
    BY <1>0, <2>2 DEF GenieInv, CallInv, Genie!HashTellsTheContent, Genie!OwnSpaceIsKept, Genie!Exists, Genie!At
  <2>4. CountInv'
    BY <1>0, <2>2 DEF GenieInv, CountInv, Genie!OneSpace, Genie!Own, Genie!Exists
  <2>5. QED
    BY <2>1, <2>3, <2>4 DEF GenieInv
<1>4. QED
  BY <1>1, <1>2, <1>3 DEF Genie!Verify

(* Without a folder of its own the call ends with an error. *)
LEMMA NoFolderKeeps ==
  ASSUME Genie!GenieAssumption, GenieInv, Genie!NoParentPath
  PROVE  GenieInv'
PROOF
<1> USE DEF Genie!Exists, Genie!At, Genie!To, Genie!Save, Genie!Return, Genie!Idle, Genie!NoParentPath
<1>1. GenieTypes'
  BY DEF GenieInv, GenieTypes, Space, Warehouses, EnsureSteps, Genie!GenieAssumption, CallInv
<1>2. CallInv'
  BY DEF GenieInv, GenieTypes, CallInv, Genie!GenieAssumption, Genie!OwnSpaceIsKept
<1>3. Genie!HashTellsTheContent' /\ Genie!OwnSpaceIsKept'
  BY DEF GenieInv, GenieTypes, CallInv, Genie!HashTellsTheContent, Genie!OwnSpaceIsKept, Genie!GenieAssumption
<1>4. CountInv'
  <2>1. Genie!Own' \subseteq Genie!Own
    BY DEF Genie!Own
  <2>2. ensure'.step = "create" => ensure.step = "create"
    BY DEF GenieInv, GenieTypes
  <2>3. blind' = blind
    OBVIOUS
  <2>4. QED
    BY <1>1, <2>1, <2>2, <2>3, NoNewSpaces DEF GenieInv, GenieTypes
<1>5. QED
  BY <1>1, <1>2, <1>3, <1>4 DEF GenieInv

(* A space that was found is taken over, its hash forgotten first. *)
LEMMA AdoptKeeps ==
  ASSUME Genie!GenieAssumption, GenieInv, Genie!Adopt
  PROVE  GenieInv'
PROOF
<1> USE DEF Genie!Exists, Genie!At, Genie!To, Genie!Save, Genie!Return, Genie!Idle, Genie!Adopt
<1>1. GenieTypes'
  BY DEF GenieInv, GenieTypes, Space, Warehouses, EnsureSteps, Genie!GenieAssumption, CallInv
<1>2. CallInv'
  BY DEF GenieInv, GenieTypes, CallInv, Genie!GenieAssumption, Genie!OwnSpaceIsKept
<1>3. Genie!HashTellsTheContent' /\ Genie!OwnSpaceIsKept'
  BY DEF GenieInv, GenieTypes, CallInv, Genie!HashTellsTheContent, Genie!OwnSpaceIsKept, Genie!GenieAssumption
<1>4. CountInv'
  <2>1. Genie!Own' \subseteq Genie!Own
    BY DEF Genie!Own
  <2>2. ensure'.step = "create" => ensure.step = "create"
    BY DEF GenieInv, GenieTypes
  <2>3. blind' = blind
    OBVIOUS
  <2>4. QED
    BY <1>1, <2>1, <2>2, <2>3, NoNewSpaces DEF GenieInv, GenieTypes
<1>5. QED
  BY <1>1, <1>2, <1>3, <1>4 DEF GenieInv

(* What was created is stored, id before hash. *)
LEMMA CreatedKeeps ==
  ASSUME Genie!GenieAssumption, GenieInv, Genie!Created
  PROVE  GenieInv'
PROOF
<1> USE DEF Genie!Exists, Genie!At, Genie!To, Genie!Save, Genie!Return, Genie!Idle, Genie!Created
<1>1. GenieTypes'
  BY DEF GenieInv, GenieTypes, Space, Warehouses, EnsureSteps, Genie!GenieAssumption, CallInv
<1>2. CallInv'
  BY DEF GenieInv, GenieTypes, CallInv, Genie!GenieAssumption, Genie!OwnSpaceIsKept
<1>3. Genie!HashTellsTheContent' /\ Genie!OwnSpaceIsKept'
  BY DEF GenieInv, GenieTypes, CallInv, Genie!HashTellsTheContent, Genie!OwnSpaceIsKept, Genie!GenieAssumption
<1>4. CountInv'
  <2>1. Genie!Own' \subseteq Genie!Own
    BY DEF Genie!Own
  <2>2. ensure'.step = "create" => ensure.step = "create"
    BY DEF GenieInv, GenieTypes
  <2>3. blind' = blind
    OBVIOUS
  <2>4. QED
    BY <1>1, <2>1, <2>2, <2>3, NoNewSpaces DEF GenieInv, GenieTypes
<1>5. QED
  BY <1>1, <1>2, <1>3, <1>4 DEF GenieInv

(* What is to be brought up to date. *)
LEMMA CompareKeeps ==
  ASSUME Genie!GenieAssumption, GenieInv, Genie!Compare
  PROVE  GenieInv'
PROOF
<1>0. ensure.step = "compare" /\ UNCHANGED <<spaces, around, blind>>
  BY DEF Genie!Compare, Genie!At
<1>1. CASE ensure' = [ensure EXCEPT !.step = "share"] /\ UNCHANGED noted
  <2>1. GenieTypes'
    BY <1>0, <1>1 DEF GenieInv, GenieTypes, EnsureSteps
  <2>2. ensure'.step = "share"
    BY <1>1 DEF GenieInv, GenieTypes
  <2>3. CallInv' /\ Genie!HashTellsTheContent' /\ Genie!OwnSpaceIsKept'
    BY <1>0, <1>1, <2>2 DEF GenieInv, CallInv, Genie!HashTellsTheContent, Genie!OwnSpaceIsKept, Genie!Exists, Genie!At
  <2>4. CountInv'
    BY <1>0, <2>2 DEF GenieInv, CountInv, Genie!OneSpace, Genie!Own, Genie!Exists
  <2>5. QED
    BY <2>1, <2>3, <2>4 DEF GenieInv
<1>2. ASSUME NEW body \in SUBSET {"content", "warehouse"}, "content" \in body <=> ensure.hash # around.release,
             ensure' = [ensure EXCEPT !.step = "update", !.body = body], noted' = [noted EXCEPT !.status = "provisioning"]
      PROVE  GenieInv'
  <2>1. GenieTypes'
    BY <1>0, <1>2 DEF GenieInv, GenieTypes, EnsureSteps
  <2>2. /\ ensure'.step = "update" /\ ensure'.body = body /\ ensure'.existing = ensure.existing /\ ensure'.hash = ensure.hash
        /\ noted'.id = noted.id /\ noted'.hash = noted.hash
    BY <1>2 DEF GenieInv, GenieTypes
  <2>3. CallInv' /\ Genie!HashTellsTheContent' /\ Genie!OwnSpaceIsKept'
    BY <1>0, <1>2, <2>2 DEF GenieInv, CallInv, Genie!HashTellsTheContent, Genie!OwnSpaceIsKept, Genie!Exists, Genie!At
  <2>4. CountInv'
    BY <1>0, <2>2 DEF GenieInv, CountInv, Genie!OneSpace, Genie!Own, Genie!Exists
  <2>5. QED
    BY <2>1, <2>3, <2>4 DEF GenieInv
<1>3. QED
  <2> DEFINE body == (IF ensure.hash # around.release THEN {"content"} ELSE {})
                       \cup (IF ensure.warehouse # around.warehouse /\ around.usable THEN {"warehouse"} ELSE {})
  <2>1. body \in SUBSET {"content", "warehouse"} /\ ("content" \in body <=> ensure.hash # around.release)
    OBVIOUS
  <2>2. IF body = {} THEN ensure' = [ensure EXCEPT !.step = "share"] /\ UNCHANGED noted
        ELSE ensure' = [ensure EXCEPT !.step = "update", !.body = body] /\ noted' = [noted EXCEPT !.status = "provisioning"]
    BY DEF Genie!Compare, Genie!To, Genie!Save
  <2> HIDE DEF body
  <2>3. QED
    BY <1>1, <1>2, <2>1, <2>2

(* The hash is stored of a content that was taken. *)
LEMMA UpdatedKeeps ==
  ASSUME Genie!GenieAssumption, GenieInv, Genie!Updated
  PROVE  GenieInv'
PROOF
<1> USE DEF Genie!Exists, Genie!At, Genie!To, Genie!Save, Genie!Return, Genie!Idle, Genie!Updated
<1>1. GenieTypes'
  BY DEF GenieInv, GenieTypes, Space, Warehouses, EnsureSteps, Genie!GenieAssumption, CallInv
<1>2. CallInv'
  BY DEF GenieInv, GenieTypes, CallInv, Genie!GenieAssumption, Genie!OwnSpaceIsKept
<1>3. Genie!HashTellsTheContent' /\ Genie!OwnSpaceIsKept'
  BY DEF GenieInv, GenieTypes, CallInv, Genie!HashTellsTheContent, Genie!OwnSpaceIsKept, Genie!GenieAssumption
<1>4. CountInv'
  <2>1. Genie!Own' \subseteq Genie!Own
    BY DEF Genie!Own
  <2>2. ensure'.step = "create" => ensure.step = "create"
    BY DEF GenieInv, GenieTypes
  <2>3. blind' = blind
    OBVIOUS
  <2>4. QED
    BY <1>1, <2>1, <2>2, <2>3, NoNewSpaces DEF GenieInv, GenieTypes
<1>5. QED
  BY <1>1, <1>2, <1>3, <1>4 DEF GenieInv

(* Sharing changes who may chat only. *)
LEMMA AudienceKeeps ==
  ASSUME Genie!GenieAssumption, GenieInv, Genie!_reconcile_audience
  PROVE  GenieInv'
PROOF
<1> USE DEF Genie!Exists, Genie!At, Genie!To, Genie!Save, Genie!Return, Genie!Idle, Genie!_reconcile_audience
<1>1. GenieTypes'
  <2>1. spaces' \in Seq(Entries) /\ Len(spaces') = Len(spaces)
    <3>1. spaces \in Seq(Entries)
      BY DEF GenieInv, GenieTypes
    <3>2. CASE spaces' = spaces
      BY <3>1, <3>2
    <3>3. CASE Genie!Exists(ensure.existing) /\ spaces' = [spaces EXCEPT ![ensure.existing].shared = TRUE]
      <4>1. ensure.existing \in DOMAIN spaces /\ spaces[ensure.existing] \in Space
        BY <3>3, ExistingSpaces DEF GenieInv, GenieTypes
      <4>2. [spaces[ensure.existing] EXCEPT !.shared = TRUE] \in Entries
        BY <4>1 DEF Space, Entries
      <4>3. spaces' = [spaces EXCEPT ![ensure.existing] = [spaces[ensure.existing] EXCEPT !.shared = TRUE]]
        BY <3>3, <4>1
      <4>4. QED
        BY <4>1, <4>2, <4>3, EntryChanges DEF GenieInv
    <3>4. QED
      BY <3>2, <3>3
  <2>2. QED
    BY <2>1 DEF GenieInv, GenieTypes, EnsureSteps
<1>2. CallInv'
  BY DEF GenieInv, GenieTypes, CallInv, Genie!GenieAssumption, Genie!OwnSpaceIsKept
<1>3. Genie!HashTellsTheContent' /\ Genie!OwnSpaceIsKept'
  BY DEF GenieInv, GenieTypes, CallInv, Genie!HashTellsTheContent, Genie!OwnSpaceIsKept, Genie!GenieAssumption
<1>4. CountInv'
  <2>1. Genie!Own' \subseteq Genie!Own
    BY DEF Genie!Own
  <2>2. ensure'.step = "create" => ensure.step = "create"
    BY DEF GenieInv, GenieTypes
  <2>3. blind' = blind
    OBVIOUS
  <2>4. QED
    BY <1>1, <2>1, <2>2, <2>3, NoNewSpaces DEF GenieInv, GenieTypes
<1>5. QED
  BY <1>1, <1>2, <1>3, <1>4 DEF GenieInv

(* A call that ends leaves what is stored, or marks it. *)
LEMMA RaiseKeeps ==
  ASSUME Genie!GenieAssumption, GenieInv, Genie!Raise
  PROVE  GenieInv'
PROOF
<1> USE DEF Genie!Exists, Genie!At, Genie!To, Genie!Save, Genie!Return, Genie!Idle, Genie!Raise
<1>1. GenieTypes'
  BY DEF GenieInv, GenieTypes, Space, Warehouses, EnsureSteps, Genie!GenieAssumption, CallInv
<1>2. CallInv'
  BY DEF GenieInv, GenieTypes, CallInv, Genie!GenieAssumption, Genie!OwnSpaceIsKept
<1>3. Genie!HashTellsTheContent' /\ Genie!OwnSpaceIsKept'
  BY DEF GenieInv, GenieTypes, CallInv, Genie!HashTellsTheContent, Genie!OwnSpaceIsKept, Genie!GenieAssumption
<1>4. CountInv'
  <2>1. Genie!Own' \subseteq Genie!Own
    BY DEF Genie!Own
  <2>2. ensure'.step = "create" => ensure.step = "create"
    BY DEF GenieInv, GenieTypes
  <2>3. blind' = blind
    OBVIOUS
  <2>4. QED
    BY <1>1, <2>1, <2>2, <2>3, NoNewSpaces DEF GenieInv, GenieTypes
<1>5. QED
  BY <1>1, <1>2, <1>3, <1>4 DEF GenieInv

(* A space that goes takes nothing else with it. *)
LEMMA DeleteKeeps ==
  ASSUME Genie!GenieAssumption, GenieInv, Genie!DeleteSpace
  PROVE  GenieInv'
PROOF
<1> USE DEF Genie!Exists, Genie!At, Genie!To, Genie!Save, Genie!Return, Genie!Idle, Genie!DeleteSpace
<1>1. GenieTypes'
  <2>1. spaces' \in Seq(Entries) /\ Len(spaces') = Len(spaces)
    <3>1. PICK id \in Genie!Own : spaces' = [spaces EXCEPT ![id] = None]
      OBVIOUS
    <3>2. id \in DOMAIN spaces /\ None \in Entries
      BY DEF Genie!Own, Entries
    <3>3. QED
      BY <3>1, <3>2, EntryChanges DEF GenieInv
  <2>2. QED
    BY <2>1 DEF GenieInv, GenieTypes
<1>2. CallInv'
  BY DEF GenieInv, GenieTypes, CallInv, Genie!GenieAssumption, Genie!OwnSpaceIsKept
<1>3. Genie!HashTellsTheContent' /\ Genie!OwnSpaceIsKept'
  BY DEF GenieInv, GenieTypes, CallInv, Genie!HashTellsTheContent, Genie!OwnSpaceIsKept, Genie!GenieAssumption
<1>4. CountInv'
  <2>1. Genie!Own' \subseteq Genie!Own
    BY DEF Genie!Own
  <2>2. ensure'.step = "create" => ensure.step = "create"
    BY DEF GenieInv, GenieTypes
  <2>3. blind' = blind
    OBVIOUS
  <2>4. QED
    BY <1>1, <2>1, <2>2, <2>3, NoNewSpaces DEF GenieInv, GenieTypes
<1>5. QED
  BY <1>1, <1>2, <1>3, <1>4 DEF GenieInv

(* A new release is nobody's content yet. *)
LEMMA DeployKeeps ==
  ASSUME Genie!GenieAssumption, GenieInv, Genie!Deploy
  PROVE  GenieInv'
PROOF
<1> USE DEF Genie!Exists, Genie!At, Genie!To, Genie!Save, Genie!Return, Genie!Idle, Genie!Deploy
<1>1. GenieTypes'
  BY DEF GenieInv, GenieTypes, Space, Warehouses, EnsureSteps, Genie!GenieAssumption, CallInv
<1>2. CallInv'
  BY DEF GenieInv, GenieTypes, CallInv, Genie!GenieAssumption, Genie!OwnSpaceIsKept
<1>3. Genie!HashTellsTheContent' /\ Genie!OwnSpaceIsKept'
  BY DEF GenieInv, GenieTypes, CallInv, Genie!HashTellsTheContent, Genie!OwnSpaceIsKept, Genie!GenieAssumption
<1>4. CountInv'
  <2>1. Genie!Own' \subseteq Genie!Own
    BY DEF Genie!Own
  <2>2. ensure'.step = "create" => ensure.step = "create"
    BY DEF GenieInv, GenieTypes
  <2>3. blind' = blind
    OBVIOUS
  <2>4. QED
    BY <1>1, <2>1, <2>2, <2>3, NoNewSpaces DEF GenieInv, GenieTypes
<1>5. QED
  BY <1>1, <1>2, <1>3, <1>4 DEF GenieInv

(* A reset leaves nothing stored. *)
LEMMA ResetKeeps ==
  ASSUME Genie!GenieAssumption, GenieInv, Genie!ResetDatabase
  PROVE  GenieInv'
PROOF
<1> USE DEF Genie!Exists, Genie!At, Genie!To, Genie!Save, Genie!Return, Genie!Idle, Genie!ResetDatabase
<1>1. GenieTypes'
  BY DEF GenieInv, GenieTypes, Space, Warehouses, EnsureSteps, Genie!GenieAssumption, CallInv
<1>2. CallInv'
  BY DEF GenieInv, GenieTypes, CallInv, Genie!GenieAssumption, Genie!OwnSpaceIsKept
<1>3. Genie!HashTellsTheContent' /\ Genie!OwnSpaceIsKept'
  BY DEF GenieInv, GenieTypes, CallInv, Genie!HashTellsTheContent, Genie!OwnSpaceIsKept, Genie!GenieAssumption
<1>4. CountInv'
  <2>1. Genie!Own' \subseteq Genie!Own
    BY DEF Genie!Own
  <2>2. ensure'.step = "create" => ensure.step = "create"
    BY DEF GenieInv, GenieTypes
  <2>3. blind' = blind
    OBVIOUS
  <2>4. QED
    BY <1>1, <2>1, <2>2, <2>3, NoNewSpaces DEF GenieInv, GenieTypes
<1>5. QED
  BY <1>1, <1>2, <1>3, <1>4 DEF GenieInv

(* The space takes the new content, or not. *)
LEMMA UpdateKeeps ==
  ASSUME Genie!GenieAssumption, GenieInv, Genie!_update_space
  PROVE  GenieInv'
PROOF
<1>0. ensure.step = "update" /\ UNCHANGED <<noted, around, blind>>
  BY DEF Genie!_update_space, Genie!At
<1>1. PICK done \in BOOLEAN, told \in BOOLEAN :
        /\ done => Genie!Exists(ensure.existing)
        /\ told => done
        /\ spaces' = IF ~done THEN spaces
             ELSE [spaces EXCEPT ![ensure.existing].content = IF "content" \in ensure.body THEN around.release ELSE @,
                                 ![ensure.existing].warehouse = IF "warehouse" \in ensure.body THEN around.warehouse ELSE @]
        /\ ensure' = [ensure EXCEPT !.step = IF told /\ "content" \in ensure.body THEN "hash" ELSE "ready"]
  BY DEF Genie!_update_space, Genie!HashAfter, Genie!To
<1>2. /\ ensure' \in [step : EnsureSteps, existing : Nat \cup {None}, hash : Nat \cup {None},
                 warehouse : Warehouses \cup {None}, body : SUBSET {"content", "warehouse"}]
      /\ ensure'.step = (IF told /\ "content" \in ensure.body THEN "hash" ELSE "ready")
      /\ ensure'.existing = ensure.existing
  BY <1>1 DEF GenieInv, GenieTypes, EnsureSteps
<1>3. ensure.existing = noted.id /\ noted.id # None /\ noted.id \in DOMAIN spaces /\ ensure.hash = noted.hash
      /\ ("content" \in ensure.body <=> noted.hash # around.release)
  BY <1>0 DEF GenieInv, GenieTypes, CallInv
<1>4. CASE ~done
  <2>1. spaces' = spaces /\ ensure'.step = "ready"
    BY <1>1, <1>2, <1>4
  <2>2. GenieTypes'
    BY <1>0, <1>2, <2>1 DEF GenieInv, GenieTypes
  <2>3. CallInv' /\ Genie!HashTellsTheContent' /\ Genie!OwnSpaceIsKept'
    BY <1>0, <2>1 DEF GenieInv, CallInv, Genie!HashTellsTheContent, Genie!OwnSpaceIsKept, Genie!Exists, Genie!At
  <2>4. CountInv'
    BY <1>0, <2>1 DEF GenieInv, CountInv, Genie!OneSpace, Genie!Own, Genie!Exists
  <2>5. QED
    BY <2>2, <2>3, <2>4 DEF GenieInv
<1>5. CASE done
  <2> DEFINE old == spaces[noted.id]
             new == [old EXCEPT !.content = IF "content" \in ensure.body THEN around.release ELSE @,
                                !.warehouse = IF "warehouse" \in ensure.body THEN around.warehouse ELSE @]
  <2>1. old \in Space
    BY <1>1, <1>3, <1>5, ExistingSpaces DEF GenieInv
  <2>2. new \in Space /\ new.mine = old.mine /\ new.content = IF "content" \in ensure.body THEN around.release ELSE old.content
    BY <2>1 DEF Space, GenieInv, GenieTypes
  <2>3. spaces' = [spaces EXCEPT ![noted.id] = new]
    <3>1. noted.id \in DOMAIN spaces /\ {"content", "warehouse"} \subseteq DOMAIN spaces[noted.id]
      BY <1>3, <2>1 DEF Space
    <3>2. QED
      BY <1>1, <1>3, <1>5, <3>1
  <2> HIDE DEF new
  <2>4. /\ spaces' \in Seq(Entries) /\ Len(spaces') = Len(spaces) /\ DOMAIN spaces' = DOMAIN spaces
        /\ spaces'[noted.id] = new /\ \A id \in DOMAIN spaces : id # noted.id => spaces'[id] = spaces[id]
    BY <1>3, <2>2, <2>3, EntryChanges DEF GenieInv, Entries
  <2>5. GenieTypes'
    BY <1>0, <1>2, <2>4 DEF GenieInv, GenieTypes
  <2>6. old # None /\ Genie!Exists(noted.id)
    BY <1>1, <1>3, <1>5 DEF Genie!Exists
  <2>7. Genie!HashTellsTheContent'
    BY <1>0, <1>3, <2>2, <2>4, <2>6 DEF GenieInv, Genie!HashTellsTheContent, Genie!Exists
  <2>8. Genie!OwnSpaceIsKept'
    BY <1>0, <1>2, <2>2, <2>4, <2>6 DEF GenieInv, Genie!OwnSpaceIsKept, Genie!Exists, Genie!At
  <2>9. CallInv'
    BY <1>0, <1>2, <1>3, <2>2, <2>4 DEF CallInv, Genie!Exists
  <2>10. CountInv'
    <3>1. Genie!Own' \subseteq Genie!Own
      BY <1>3, <2>2, <2>4, <2>6 DEF Genie!Own, Genie!Exists
    <3>2. QED
      BY <1>0, <1>2, <3>1, NoNewSpaces DEF GenieInv, GenieTypes
  <2>11. QED
    BY <2>5, <2>7, <2>8, <2>9, <2>10 DEF GenieInv
<1>6. QED
  BY <1>4, <1>5

(* Who is found is the newest of those that were not missed. *)
LEMMA NewestSpace ==
  ASSUME GenieTypes, NEW found \in SUBSET Genie!Own, found # {}
  PROVE  Genie!Max(found) \in found
PROOF
<1>1. Genie!Own \subseteq 1 .. Len(spaces) /\ Len(spaces) \in Nat
  BY DEF Genie!Own, GenieTypes
<1>2. found \in SUBSET Nat /\ \A x \in found : x <= Len(spaces)
  BY <1>1
<1>3. Options!Max(found) \in found
  BY <1>1, <1>2, GreatestNumber
<1>4. Genie!Max(found) = Options!Max(found)
  BY DEF Genie!Max, Options!Max
<1>5. QED
  BY <1>3, <1>4

(* A lookup finds a space of this deployment, or is counted, or there is none. *)
LEMMA SearchKeeps ==
  ASSUME Genie!GenieAssumption, GenieInv, Genie!_find_space_by_title
  PROVE  GenieInv'
PROOF
<1>0. /\ ensure.step = "search" /\ UNCHANGED <<spaces, around>> /\ noted' = [noted EXCEPT !.status = "provisioning"]
      /\ ~Genie!Exists(noted.id)
  BY DEF Genie!_find_space_by_title, Genie!At, Genie!Save, GenieInv, CallInv
<1>1. PICK missed \in SUBSET Genie!Own :
        LET found == {id \in DOMAIN spaces \ missed : Genie!Exists(id) /\ Genie!OfThisDeployment(id)}
        IN /\ blind' = IF missed # {} /\ found = {} THEN blind + 1 ELSE blind
           /\ ensure' = IF found = {} THEN [ensure EXCEPT !.step = "create"]
                        ELSE [ensure EXCEPT !.step = "adopt", !.existing = Genie!Max(found), !.hash = None,
                                            !.warehouse = spaces[Genie!Max(found)].warehouse]
  BY DEF Genie!_find_space_by_title
<1> DEFINE found == Genie!Own \ missed
<1>2. {id \in DOMAIN spaces \ missed : Genie!Exists(id) /\ Genie!OfThisDeployment(id)} = found
  BY DEF Genie!Own, Genie!OfThisDeployment
<1>3. /\ noted' \in [id : Nat \cup {None}, hash : Nat \cup {None}, status : {None, "provisioning", "error", "ready"}]
      /\ noted'.id = noted.id /\ noted'.hash = noted.hash
  BY <1>0 DEF GenieInv, GenieTypes
<1>4. blind' \in Nat /\ blind <= blind' /\ Genie!Own' = Genie!Own
  BY <1>0, <1>1 DEF GenieInv, GenieTypes, Genie!Own, Genie!Exists
<1>5. CASE found = {}
  <2>1. ensure' = [ensure EXCEPT !.step = "create"] /\ blind' = IF missed # {} THEN blind + 1 ELSE blind
    BY <1>1, <1>2, <1>5
  <2>2. /\ ensure' \in [step : EnsureSteps, existing : Nat \cup {None}, hash : Nat \cup {None},
                 warehouse : Warehouses \cup {None}, body : SUBSET {"content", "warehouse"}]
        /\ ensure'.step = "create" /\ ensure'.existing = ensure.existing
    BY <2>1 DEF GenieInv, GenieTypes, EnsureSteps
  <2>3. GenieTypes'
    BY <1>0, <1>3, <1>4, <2>2 DEF GenieInv, GenieTypes
  <2>4. CallInv' /\ Genie!HashTellsTheContent' /\ Genie!OwnSpaceIsKept'
    BY <1>0, <1>3, <2>2 DEF GenieInv, CallInv, Genie!HashTellsTheContent, Genie!OwnSpaceIsKept, Genie!Exists, Genie!At
  <2>5. CountInv'
    <3>1. Genie!Cardinality(Genie!Own) \in Nat /\ Genie!Cardinality(Genie!Own) <= 1 + blind /\ blind \in Nat
      BY OwnSpacesAreCounted DEF GenieInv, GenieTypes, CountInv, Genie!OneSpace
    <3>2. missed = {} => Genie!Own = {}
      BY <1>5
    <3>3. Genie!Cardinality(Genie!Own) <= blind'
      BY <2>1, <3>1, <3>2, OwnSpacesAreCounted DEF GenieInv
    <3>4. QED
      BY <1>4, <3>1, <3>3 DEF CountInv, Genie!OneSpace
  <2>6. QED
    BY <2>3, <2>4, <2>5 DEF GenieInv
<1>6. CASE found # {}
  <2> DEFINE id == Genie!Max(found)
  <2>1. id \in Genie!Own /\ id \in DOMAIN spaces /\ Genie!Exists(id) /\ spaces[id].mine
    BY <1>6, NewestSpace DEF GenieInv, Genie!Own
  <2>2. ensure' = [ensure EXCEPT !.step = "adopt", !.existing = id, !.hash = None, !.warehouse = spaces[id].warehouse] /\ blind' = blind
    BY <1>1, <1>2, <1>6
  <2> HIDE DEF id
  <2>3. spaces[id].warehouse \in Warehouses /\ id \in Nat
    BY <2>1, ExistingSpaces DEF GenieInv, GenieTypes, Space
  <2>4. /\ ensure' \in [step : EnsureSteps, existing : Nat \cup {None}, hash : Nat \cup {None},
                 warehouse : Warehouses \cup {None}, body : SUBSET {"content", "warehouse"}]
        /\ ensure'.step = "adopt" /\ ensure'.existing = id /\ ensure'.hash = None
    BY <2>2, <2>3 DEF GenieInv, GenieTypes, EnsureSteps
  <2>5. GenieTypes'
    BY <1>0, <1>3, <1>4, <2>1, <2>4 DEF GenieInv, GenieTypes
  <2>6. CallInv' /\ Genie!HashTellsTheContent' /\ Genie!OwnSpaceIsKept'
    BY <1>0, <1>3, <2>1, <2>4 DEF GenieInv, CallInv, Genie!HashTellsTheContent, Genie!OwnSpaceIsKept, Genie!Exists, Genie!At
  <2>7. CountInv'
    BY <1>4, <2>4, <2>5, NoNewSpaces DEF GenieInv, GenieTypes
  <2>8. QED
    BY <2>5, <2>6, <2>7 DEF GenieInv
<1>7. QED
  BY <1>5, <1>6

(* A space is created where none was seen; its answer may be lost. *)
LEMMA CreateKeeps ==
  ASSUME Genie!GenieAssumption, GenieInv, Genie!Create
  PROVE  GenieInv'
PROOF
<1> DEFINE new == [mine |-> TRUE, content |-> around.release, warehouse |-> around.warehouse, shared |-> FALSE]
<1>0. ensure.step = "create" /\ UNCHANGED <<around, blind>> /\ ~Genie!Exists(noted.id)
  BY DEF Genie!Create, Genie!At, GenieInv, CallInv
<1>1. PICK made \in BOOLEAN, told \in BOOLEAN :
        /\ told => made
        /\ spaces' = IF ~made THEN spaces ELSE Append(spaces, new)
        /\ IF told THEN ensure' = [ensure EXCEPT !.step = "created", !.existing = Len(spaces')] /\ UNCHANGED noted
           ELSE noted' = [noted EXCEPT !.status = "error"] /\ Genie!Return
  BY DEF Genie!Create, Genie!Save
<1>2. new \in Entries /\ new \in Space /\ spaces \in Seq(Entries) /\ Len(spaces) \in Nat /\ DOMAIN spaces = 1 .. Len(spaces)
  BY DEF Entries, Space, GenieInv, GenieTypes
<1>3. /\ spaces' \in Seq(Entries) /\ DOMAIN spaces \subseteq DOMAIN spaces' /\ \A id \in DOMAIN spaces : spaces'[id] = spaces[id]
      /\ made => DOMAIN spaces' = DOMAIN spaces \cup {Len(spaces) + 1} /\ Len(spaces') = Len(spaces) + 1 /\ spaces'[Len(spaces) + 1] = new
      /\ ~made => spaces' = spaces
  <2>1. CASE made
    <3>1. spaces' = Append(spaces, new)
      BY <1>1, <2>1
    <3> HIDE DEF new
    <3>2. QED
      BY <1>2, <2>1, <3>1, AppendProperties
  <2>2. CASE ~made
    BY <1>1, <1>2, <2>2
  <2>3. QED
    BY <2>1, <2>2
<1>4. /\ noted' \in [id : Nat \cup {None}, hash : Nat \cup {None}, status : {None, "provisioning", "error", "ready"}]
      /\ noted'.id = noted.id /\ noted'.hash = noted.hash
  BY <1>1 DEF GenieInv, GenieTypes
<1>5. /\ ensure' \in [step : EnsureSteps, existing : Nat \cup {None}, hash : Nat \cup {None},
                 warehouse : Warehouses \cup {None}, body : SUBSET {"content", "warehouse"}]
      /\ told => made /\ ensure'.step = "created" /\ ensure'.existing = Len(spaces) + 1
      /\ ~told => ensure'.step = "idle" /\ ensure'.existing = None
  <2>1. CASE told
    <3>1. ensure' = [ensure EXCEPT !.step = "created", !.existing = Len(spaces) + 1]
      BY <1>1, <1>3, <2>1
    <3>2. Len(spaces) + 1 \in Nat /\ "created" \in EnsureSteps
      BY <1>2 DEF EnsureSteps
    <3>3. QED
      BY <1>1, <2>1, <3>1, <3>2 DEF GenieInv, GenieTypes
  <2>2. CASE ~told
    BY <1>1, <2>2 DEF Genie!Return, Genie!Idle, EnsureSteps
  <2>3. QED
    BY <2>1, <2>2
<1>6. GenieTypes'
  BY <1>0, <1>3, <1>4, <1>5 DEF GenieInv, GenieTypes
<1>7. ~Genie!Exists(noted.id)'
  BY <1>0, <1>3, <1>4 DEF GenieInv, GenieTypes, Genie!Exists
<1>8. CallInv' /\ Genie!HashTellsTheContent' /\ Genie!OwnSpaceIsKept'
  <2>1. CASE told
    <3>1. spaces'[ensure'.existing] = new /\ ensure'.existing # None
      BY <1>2, <1>3, <1>5, <2>1 DEF Genie!GenieAssumption
    <3>2. QED
      BY <1>0, <1>5, <1>7, <2>1, <3>1 DEF CallInv, Genie!HashTellsTheContent, Genie!OwnSpaceIsKept, Genie!At
  <2>2. CASE ~told
    BY <1>5, <1>7, <2>2 DEF CallInv, Genie!HashTellsTheContent, Genie!OwnSpaceIsKept, Genie!At
  <2>3. QED
    BY <2>1, <2>2
<1>9. CountInv'
  <2>1. Genie!Own' \subseteq Genie!Own \cup {Len(spaces) + 1} /\ Len(spaces) + 1 \notin Genie!Own
    BY <1>2, <1>3 DEF Genie!Own, Genie!Exists
  <2>2. Genie!Cardinality(Genie!Own) \in Nat /\ Genie!Cardinality(Genie!Own) <= blind /\ blind \in Nat
    BY <1>0, OwnSpacesAreCounted DEF GenieInv, GenieTypes, CountInv
  <2>3. Genie!Cardinality(Genie!Own)' <= Genie!Cardinality(Genie!Own) + 1 /\ Genie!Cardinality(Genie!Own)' \in Nat
    <3>1. \A S : Genie!Cardinality(S) = Cardinality(S)
      BY Zenon DEF Genie!Cardinality, Cardinality
    <3>2. IsFiniteSet(Genie!Own)
      BY OwnSpacesAreCounted DEF GenieInv
    <3>3. IsFiniteSet(Genie!Own \cup {Len(spaces) + 1}) /\ Cardinality(Genie!Own \cup {Len(spaces) + 1}) = Cardinality(Genie!Own) + 1
      BY <2>1, <3>2, FS_AddElement
    <3>4. Cardinality(Genie!Own') <= Cardinality(Genie!Own \cup {Len(spaces) + 1}) /\ IsFiniteSet(Genie!Own')
      BY <2>1, <3>3, FS_Subset
    <3>5. Cardinality(Genie!Own') \in Nat
      BY <3>4, FS_CardinalityType
    <3>6. Genie!Cardinality(Genie!Own)' = Cardinality(Genie!Own')
      BY <3>1
    <3>7. QED
      BY <3>1, <3>3, <3>4, <3>5, <3>6
  <2>4. QED
    BY <1>0, <1>5, <2>2, <2>3 DEF CountInv, Genie!OneSpace
<1>10. QED
  BY <1>6, <1>8, <1>9 DEF GenieInv

(* Whatever fails, restarts or is deleted in between: a stored hash is that of
   the content the space has, the stored space is of this deployment, a space
   is given up only once it is gone, and there are no more of them than lookups
   missed (ensure_dq_genie_space). *)
THEOREM OneSpaceIsKept ==
  ASSUME Genie!GenieAssumption
  PROVE  Genie!Spec => []Genie!GenieSpaceIsKept
PROOF
<1>1. Genie!Init => GenieInv
  BY GenieInitially
<1>2. GenieInv /\ [Genie!Next]_Genie!genieVars => GenieInv'
  <2> SUFFICES ASSUME GenieInv, [Genie!Next]_Genie!genieVars
               PROVE  GenieInv'
    OBVIOUS
  <2>1. CASE UNCHANGED Genie!genieVars
    BY <2>1 DEF Genie!genieVars, GenieInv, GenieTypes, CallInv, CountInv, Genie!Exists, Genie!HashTellsTheContent, Genie!OwnSpaceIsKept,
      Genie!OneSpace, Genie!Own, Genie!At
  <2>2. QED
    BY <2>1, EnsureBegins, VerifyKeeps, NoFolderKeeps, AdoptKeeps, CreatedKeeps, CompareKeeps, UpdatedKeeps, AudienceKeeps, RaiseKeeps,
      DeleteKeeps, DeployKeeps, ResetKeeps, UpdateKeeps, SearchKeeps, CreateKeeps DEF Genie!Next
<1>3. GenieInv => Genie!GenieSpaceIsKept
  BY DEF GenieInv, CountInv, Genie!GenieSpaceIsKept
<1>4. QED
  BY <1>1, <1>2, <1>3, PTL DEF Genie!Spec

-----------------------------------------------------------------------------
(* Products, Reviews, Access, Entitlements, ScheduleGrants *)

CONSTANTS Requests, Members, Live, MaxEdits
VARIABLES product, pins, bindings, runs, request, sent, astray, edits

Spaces == INSTANCE Products WITH Tables <- Members, strayed <- astray

CONSTANTS Reviewers, Statuses, MaxReviews
VARIABLES listed, status, history, reviewer, missed, reviews

Verdicts == INSTANCE Reviews

-----------------------------------------------------------------------------
(* Products: the inductive invariant *)

\* Records have what is asked of them.
ShapeInv ==
  /\ DOMAIN request = Requests /\ astray \in BOOLEAN
  /\ {"exists", "status", "published", "text"} \subseteq DOMAIN product
  /\ \A q \in Requests : {"step", "stale"} \subseteq DOMAIN request[q] /\ request[q].stale \in BOOLEAN

\* What a request has read still stands unless somebody has written since.
Submits(x) == x.step = "submit" /\ ~x.stale => "contents" \in DOMAIN x /\ x.contents = Spaces!Contents
Approves(x) == x.step = "approved" /\ ~x.stale => product.exists /\ product.status = "pending_approval"
Declines(x) == x.step = "decline" => "status" \in DOMAIN x /\ x.status \in {"rejected", "draft"}
ReadInv == \A q \in Requests : Submits(request[q]) /\ Approves(request[q]) /\ Declines(request[q])

ProductsInv == ShapeInv /\ ReadInv /\ Spaces!ReviewedAsSubmitted

-----------------------------------------------------------------------------
(* Products: the steps *)

(* Whoever reads disturbs nobody: only the reader's own entry changes. *)
LEMMA ReadKeeps ==
  ASSUME ProductsInv, NEW r \in Requests, NEW next, request' = [request EXCEPT ![r] = next],
         UNCHANGED <<product, pins, sent>>,
         {"step", "stale"} \subseteq DOMAIN next, next.stale \in BOOLEAN,
         Submits(next), Approves(next), Declines(next),
         astray' \in BOOLEAN, ~astray' => ~astray /\ request[r].step # "flip"
  PROVE  ProductsInv'
PROOF
<1>1. ShapeInv /\ ReadInv /\ Spaces!ReviewedAsSubmitted
  BY DEF ProductsInv
<1>2. DOMAIN request' = Requests /\ request'[r] = next /\ \A q \in Requests : q # r => request'[q] = request[q]
  BY <1>1 DEF ShapeInv
<1>3. ShapeInv'
  BY <1>1, <1>2 DEF ShapeInv
<1>4. ReadInv'
  BY <1>1, <1>2 DEF ReadInv, Submits, Approves, Declines, Spaces!Contents
<1>5. Spaces!ReviewedAsSubmitted'
  BY <1>1, <1>2 DEF Spaces!ReviewedAsSubmitted, Spaces!Contents
<1>6. QED
  BY <1>3, <1>4, <1>5 DEF ProductsInv

(* Whoever writes makes all that others have read a thing of the past. *)
LEMMA WriteKeeps ==
  ASSUME ProductsInv, NEW r \in Requests, NEW next \in {Spaces!Idle, Spaces!At("flip"), Spaces!At("approve")},
         request' = [q \in Requests |-> IF q = r THEN next ELSE [request[q] EXCEPT !.stale = TRUE]],
         {"exists", "status", "published", "text"} \subseteq DOMAIN product',
         astray' \in BOOLEAN, Spaces!ReviewedAsSubmitted'
  PROVE  ProductsInv'
PROOF
<1>1. ShapeInv /\ ReadInv
  BY DEF ProductsInv
<1>2. DOMAIN request' = Requests /\ request'[r] = next /\ \A q \in Requests : q # r => request'[q] = [request[q] EXCEPT !.stale = TRUE]
  OBVIOUS
<1>3. {"step", "stale"} \subseteq DOMAIN next /\ next.stale = FALSE /\ next.step \in {"idle", "flip", "approve"}
  BY DEF Spaces!Idle, Spaces!At
<1>4. ASSUME NEW q \in Requests, q # r
      PROVE  /\ DOMAIN request'[q] = DOMAIN request[q] /\ request'[q].stale = TRUE /\ request'[q].step = request[q].step
             /\ "status" \in DOMAIN request[q] => request'[q].status = request[q].status
  BY <1>1, <1>2, <1>4 DEF ShapeInv
<1>5. ShapeInv'
  BY <1>1, <1>2, <1>3, <1>4 DEF ShapeInv
<1>6. ReadInv'
  <2>1. Submits(request[r])' /\ Approves(request[r])' /\ Declines(request[r])'
    BY <1>2, <1>3 DEF Submits, Approves, Declines
  <2>2. ASSUME NEW q \in Requests, q # r
        PROVE  Submits(request[q])' /\ Approves(request[q])' /\ Declines(request[q])'
    <3>1. request'[q].stale = TRUE /\ Declines(request[q])
      BY <1>1, <1>4, <2>2 DEF ReadInv
    <3>2. QED
      BY <1>4, <2>2, <3>1 DEF Submits, Approves, Declines
  <2>3. QED
    BY <2>1, <2>2 DEF ReadInv
<1>7. QED
  BY <1>5, <1>6 DEF ProductsInv

(* Steps that leave the requests, the row, its members and what was sent alone. *)
LEMMA ElsewhereKeeps ==
  ASSUME ProductsInv, UNCHANGED <<product, pins, request, sent, astray>>
  PROVE  ProductsInv'
  BY DEF ProductsInv, ShapeInv, ReadInv, Submits, Approves, Declines, Spaces!ReviewedAsSubmitted, Spaces!Contents

(* A submission that nobody wrote over sends what it read. *)
LEMMA SubmissionKeeps ==
  ASSUME ProductsInv, NEW r \in Requests, Spaces!WriteSubmitted(r)
  PROVE  ProductsInv'
PROOF
<1>1. ShapeInv /\ ReadInv
  BY DEF ProductsInv
<1>2. PICK next \in {Spaces!Idle, Spaces!At("approve")} : Spaces!Set(r, "pending_approval", next)
  BY DEF Spaces!WriteSubmitted
<1>3. /\ request[r].step = "submit" /\ sent' = {request[r].contents} /\ pins' = pins
      /\ request' = [q \in Requests |-> IF q = r THEN next ELSE [request[q] EXCEPT !.stale = TRUE]]
      /\ product' = (IF product.exists THEN [product EXCEPT !.status = "pending_approval"] ELSE product)
      /\ astray' = (astray \/ request[r].stale)
  BY <1>2 DEF Spaces!WriteSubmitted, Spaces!Set, Spaces!Wrote
<1>4. DOMAIN product' = DOMAIN product /\ product'.text = product.text
  BY <1>1, <1>3 DEF ShapeInv
<1>5. Spaces!ReviewedAsSubmitted'
  <2>1. ~astray' => request[r].contents = Spaces!Contents
    BY <1>1, <1>3 DEF ReadInv, Submits
  <2>2. QED
    BY <1>3, <1>4, <2>1 DEF Spaces!ReviewedAsSubmitted, Spaces!Contents
<1>6. QED
  BY <1>1, <1>3, <1>4, <1>5, WriteKeeps DEF ShapeInv

(* An approval that nobody wrote over approves what was up for review. *)
LEMMA ApprovalKeeps ==
  ASSUME ProductsInv, NEW r \in Requests, Spaces!WriteApproved(r)
  PROVE  ProductsInv'
PROOF
<1>1. ShapeInv /\ ReadInv /\ Spaces!ReviewedAsSubmitted
  BY DEF ProductsInv
<1>2. /\ request[r].step = "approved" /\ pins' = pins /\ sent' = sent
      /\ request' = [q \in Requests |-> IF q = r THEN Spaces!Idle ELSE [request[q] EXCEPT !.stale = TRUE]]
      /\ product' = (IF product.exists THEN [product EXCEPT !.status = "approved", !.published = TRUE] ELSE product)
      /\ astray' = (astray \/ request[r].stale)
  BY DEF Spaces!WriteApproved, Spaces!Wrote
<1>3. DOMAIN product' = DOMAIN product /\ product'.text = product.text /\ product'.exists = product.exists
  BY <1>1, <1>2 DEF ShapeInv
<1>4. Spaces!ReviewedAsSubmitted'
  <2> SUFFICES ASSUME product'.exists, ~astray', \A q \in Requests : request'[q].step # "flip"
               PROVE  sent' = {Spaces!Contents}'
    BY DEF Spaces!ReviewedAsSubmitted
  <2>1. product.exists /\ product.status = "pending_approval" /\ ~astray
    BY <1>1, <1>2, <1>3 DEF ReadInv, Approves
  <2>2. \A q \in Requests : request[q].step # "flip"
    <3>1. ASSUME NEW q \in Requests, q # r
          PROVE  request'[q].step = request[q].step
      BY <1>1, <1>2, <3>1 DEF ShapeInv
    <3>2. QED
      BY <1>2, <3>1
  <2>3. sent = {Spaces!Contents}
    BY <1>1, <2>1, <2>2 DEF Spaces!ReviewedAsSubmitted
  <2>4. QED
    BY <1>2, <1>3, <2>3 DEF Spaces!Contents
<1>5. QED
  BY <1>1, <1>2, <1>3, <1>4, WriteKeeps DEF ShapeInv

(* Any other write leaves nothing up for review, or says that it is half-way. *)
LEMMA EditKeeps ==
  ASSUME ProductsInv, NEW r \in Requests,
         \/ Spaces!create(r) \/ Spaces!delete(r) \/ Spaces!WriteMember(r) \/ Spaces!remove_member(r) \/ Spaces!_flip_to_draft(r) \/ Spaces!WriteDeclined(r)
         \/ \E schedule_only \in BOOLEAN : Spaces!update(r, schedule_only)
  PROVE  ProductsInv'
PROOF
<1>1. ShapeInv /\ ReadInv /\ Spaces!ReviewedAsSubmitted
  BY DEF ProductsInv
<1>2. CASE Spaces!create(r)
  <2>1. product'.status = "draft" /\ DOMAIN product' = {"exists", "status", "published", "text"}
    BY <1>2 DEF Spaces!create
  <2>2. QED
    BY <1>1, <1>2, <2>1, WriteKeeps DEF Spaces!create, Spaces!Wrote, Spaces!ReviewedAsSubmitted, ShapeInv
<1>3. CASE Spaces!delete(r)
  <2>1. ~product'.exists /\ DOMAIN product' = DOMAIN product
    BY <1>1, <1>3 DEF Spaces!delete, ShapeInv
  <2>2. QED
    BY <1>1, <1>3, <2>1, WriteKeeps DEF Spaces!delete, Spaces!Wrote, Spaces!ReviewedAsSubmitted, ShapeInv
<1>4. CASE Spaces!WriteMember(r) \/ Spaces!remove_member(r)
  <2>1. /\ request' = [q \in Requests |-> IF q = r THEN Spaces!At("flip") ELSE [request[q] EXCEPT !.stale = TRUE]]
        /\ product' = product /\ astray' = astray
    BY <1>4 DEF Spaces!WriteMember, Spaces!remove_member
  <2>2. request'[r].step = "flip"
    BY <2>1 DEF Spaces!At
  <2>3. QED
    BY <1>1, <2>1, <2>2, WriteKeeps DEF Spaces!ReviewedAsSubmitted, ShapeInv
<1>5. CASE Spaces!_flip_to_draft(r)
  <2>1. DOMAIN product' = DOMAIN product /\ (product'.exists => product'.status = "draft")
    BY <1>1, <1>5 DEF Spaces!_flip_to_draft, ShapeInv
  <2>2. QED
    BY <1>1, <1>5, <2>1, WriteKeeps DEF Spaces!_flip_to_draft, Spaces!Wrote, Spaces!ReviewedAsSubmitted, ShapeInv
<1>6. CASE Spaces!WriteDeclined(r)
  <2>1. request[r].status \in {"rejected", "draft"}
    BY <1>1, <1>6 DEF Spaces!WriteDeclined, ReadInv, Declines
  <2>2. DOMAIN product' = DOMAIN product /\ (product'.exists => product'.status \in {"rejected", "draft"})
    BY <1>1, <1>6, <2>1 DEF Spaces!WriteDeclined, Spaces!Set, ShapeInv
  <2>3. QED
    BY <1>1, <1>6, <2>2, WriteKeeps DEF Spaces!WriteDeclined, Spaces!Set, Spaces!Wrote, Spaces!ReviewedAsSubmitted, ShapeInv
<1>7. ASSUME NEW schedule_only \in BOOLEAN, Spaces!update(r, schedule_only)
      PROVE  ProductsInv'
  <2>1. /\ request[r] = Spaces!Idle /\ pins' = pins /\ sent' = sent /\ astray' = astray
        /\ request' = [q \in Requests |-> IF q = r THEN Spaces!Idle ELSE [request[q] EXCEPT !.stale = TRUE]]
        /\ product' = product \/ product'.status = "draft"
        /\ DOMAIN product' = DOMAIN product
    BY <1>1, <1>7 DEF Spaces!update, Spaces!Wrote, ShapeInv
  <2>2. ASSUME NEW q \in Requests
        PROVE  request'[q].step = request[q].step
    BY <1>1, <2>1 DEF ShapeInv
  <2>3. Spaces!ReviewedAsSubmitted'
    BY <1>1, <2>1, <2>2 DEF Spaces!ReviewedAsSubmitted, Spaces!Contents
  <2>4. QED
    BY <1>1, <2>1, <2>3, WriteKeeps DEF ShapeInv
<1>8. QED
  BY <1>2, <1>3, <1>4, <1>5, <1>6, <1>7

(* A request that reads, or that fails. *)
LEMMA RequestKeeps ==
  ASSUME ProductsInv, NEW r \in Requests, Spaces!add_member(r) \/ Spaces!PassGate(r) \/ Spaces!submit(r) \/ Spaces!approve(r) \/ Spaces!decline(r) \/ Spaces!Fail(r)
  PROVE  ProductsInv'
PROOF
<1>1. astray \in BOOLEAN
  BY DEF ProductsInv, ShapeInv
<1>2. Spaces!Idle.step # "flip"
  BY DEF Spaces!Idle
<1>3. CASE Spaces!add_member(r)
  <2>1. PICK t \in Members, pin \in {Live, 1} :
          \E resolved \in IF t \notin DOMAIN pins /\ pin = Live THEN {Live, bindings[t].version} ELSE {pin} :
            Spaces!Reads(r, [step |-> IF t \in DOMAIN pins THEN "repin" ELSE "insert", stale |-> FALSE, table |-> t, pin |-> resolved])
    BY <1>3 DEF Spaces!add_member
  <2>2. PICK resolved :
          request' = [request EXCEPT ![r] =
            [step |-> IF t \in DOMAIN pins THEN "repin" ELSE "insert", stale |-> FALSE, table |-> t, pin |-> resolved]]
    BY <2>1 DEF Spaces!Reads
  <2> DEFINE next == [step |-> IF t \in DOMAIN pins THEN "repin" ELSE "insert", stale |-> FALSE, table |-> t, pin |-> resolved]
  <2>3. {"step", "stale"} \subseteq DOMAIN next /\ next.stale = FALSE /\ next.step \in {"insert", "repin"}
    OBVIOUS
  <2> HIDE DEF next
  <2>4. Submits(next) /\ Approves(next) /\ Declines(next)
    BY <2>3 DEF Submits, Approves, Declines
  <2>5. request' = [request EXCEPT ![r] = next]
    BY <2>2 DEF next
  <2>6. request[r] = Spaces!Idle /\ UNCHANGED <<product, pins, sent, astray>>
    BY <1>3 DEF Spaces!add_member
  <2>7. QED
    BY <1>1, <1>2, <2>3, <2>4, <2>5, <2>6, ReadKeeps
<1>4. CASE Spaces!submit(r)
  <2> DEFINE next == [step |-> "submit", stale |-> FALSE, contents |-> Spaces!Contents]
  <2>1. request' = [request EXCEPT ![r] = next] /\ request[r].step # "flip" /\ UNCHANGED <<product, pins, sent, astray>>
    BY <1>4 DEF Spaces!submit, Spaces!Reads
  <2>2. {"step", "stale"} \subseteq DOMAIN next /\ next.stale = FALSE /\ Submits(next) /\ Approves(next) /\ Declines(next)
    BY DEF Submits, Approves, Declines
  <2> HIDE DEF next
  <2>3. QED
    BY <1>1, <1>2, <2>1, <2>2, ReadKeeps
<1>5. CASE Spaces!approve(r)
  <2>1. /\ request' = [request EXCEPT ![r] = Spaces!At("approved")] /\ request[r].step # "flip" /\ UNCHANGED <<product, pins, sent, astray>>
        /\ product.exists /\ product.status = "pending_approval"
    BY <1>5 DEF Spaces!approve, Spaces!Reads
  <2>2. /\ {"step", "stale"} \subseteq DOMAIN Spaces!At("approved") /\ Spaces!At("approved").stale = FALSE
        /\ Submits(Spaces!At("approved")) /\ Approves(Spaces!At("approved")) /\ Declines(Spaces!At("approved"))
    BY <2>1 DEF Spaces!At, Submits, Approves, Declines
  <2>3. QED
    BY <1>1, <2>1, <2>2, ReadKeeps
<1>6. CASE Spaces!decline(r)
  <2>1. PICK outcome \in {"rejected", "draft"} : request' = [request EXCEPT ![r] = [step |-> "decline", stale |-> FALSE, status |-> outcome]]
    BY <1>6 DEF Spaces!decline, Spaces!Reads
  <2> DEFINE next == [step |-> "decline", stale |-> FALSE, status |-> outcome]
  <2>2. {"step", "stale"} \subseteq DOMAIN next /\ next.stale = FALSE /\ Submits(next) /\ Approves(next) /\ Declines(next)
    BY DEF Submits, Approves, Declines
  <2>3. request' = [request EXCEPT ![r] = next] /\ request[r] = Spaces!Idle /\ UNCHANGED <<product, pins, sent, astray>>
    BY <1>6, <2>1 DEF Spaces!decline
  <2> HIDE DEF next
  <2>4. QED
    BY <1>1, <1>2, <2>2, <2>3, ReadKeeps
<1>7. CASE Spaces!Fail(r)
  <2>1. /\ request' = [request EXCEPT ![r] = Spaces!Idle] /\ UNCHANGED <<product, pins, sent>>
        /\ astray' = (astray \/ request[r].step = "flip")
    BY <1>7 DEF Spaces!Fail, Spaces!Reads
  <2>2. {"step", "stale"} \subseteq DOMAIN Spaces!Idle /\ Spaces!Idle.stale = FALSE /\ Submits(Spaces!Idle) /\ Approves(Spaces!Idle) /\ Declines(Spaces!Idle)
    BY DEF Spaces!Idle, Submits, Approves, Declines
  <2>3. QED
    BY <1>1, <2>1, <2>2, ReadKeeps
<1>8. CASE Spaces!PassGate(r)
  <2>1. request' = [request EXCEPT ![r] = Spaces!At("gated")] /\ request[r] = Spaces!Idle /\ UNCHANGED <<product, pins, sent, astray>>
    BY <1>8 DEF Spaces!PassGate, Spaces!Reads
  <2>2. /\ {"step", "stale"} \subseteq DOMAIN Spaces!At("gated") /\ Spaces!At("gated").stale = FALSE
        /\ Submits(Spaces!At("gated")) /\ Approves(Spaces!At("gated")) /\ Declines(Spaces!At("gated"))
    BY DEF Spaces!At, Submits, Approves, Declines
  <2>3. QED
    BY <1>1, <1>2, <2>1, <2>2, ReadKeeps
<1>9. QED
  BY <1>3, <1>4, <1>5, <1>6, <1>7, <1>8

(* Every step keeps the invariant. *)
LEMMA ProductsStep ==
  ASSUME ProductsInv, [Spaces!Next]_(Spaces!productVars)
  PROVE  ProductsInv'
PROOF
<1>1. ASSUME NEW source \in {"draft", "approved"}, Spaces!run(source)
      PROVE  ProductsInv'
  BY <1>1, ElsewhereKeeps DEF Spaces!run
<1>2. ASSUME NEW t \in Members, Spaces!RunEnds(t) \/ Spaces!ReviewTable(t)
      PROVE  ProductsInv'
  BY <1>2, ElsewhereKeeps DEF Spaces!RunEnds, Spaces!ReviewTable
<1>3. CASE UNCHANGED Spaces!productVars
  BY <1>3, ElsewhereKeeps DEF Spaces!productVars
<1>4. QED
  BY <1>1, <1>2, <1>3, SubmissionKeeps, ApprovalKeeps, EditKeeps, RequestKeeps DEF Spaces!Next

(* ReviewedAsSubmitted: what is up for review, or approved, is what was         *)
(* submitted, member by member and pin by pin, unless a decision was written   *)
(* over a change it had not seen, or is about to be, or an edit is half-way    *)
(* (submit, approve, _set_status, _flip_to_draft).                             *)
THEOREM DecisionsAreAboutWhatWasSubmitted == Spaces!Spec => []Spaces!ReviewedAsSubmitted
PROOF
<1>1. Spaces!Init => ProductsInv
  <2> SUFFICES ASSUME Spaces!Init
               PROVE  ProductsInv
    OBVIOUS
  <2>1. ShapeInv
    BY DEF Spaces!Init, ShapeInv, Spaces!Idle
  <2>2. ReadInv
    BY DEF Spaces!Init, ReadInv, Submits, Approves, Declines, Spaces!Idle
  <2>3. Spaces!ReviewedAsSubmitted
    BY DEF Spaces!Init, Spaces!ReviewedAsSubmitted
  <2>4. QED
    BY <2>1, <2>2, <2>3 DEF ProductsInv
<1>2. ProductsInv /\ [Spaces!Next]_(Spaces!productVars) => ProductsInv'
  BY ProductsStep
<1>3. ProductsInv => Spaces!ReviewedAsSubmitted
  BY DEF ProductsInv
<1>4. QED
  BY <1>1, <1>2, <1>3, PTL DEF Spaces!Spec

-----------------------------------------------------------------------------
(* Reviews: the inductive invariant *)

Given == Statuses \cup {None}
Changes == [step : {"write", "append"}, status : Given, previous : Given, entry : Given]
HistoryEntries == [status : Given, previous : Given, cleared : BOOLEAN]

KeptInv ==
  /\ listed = None \/ listed \in {l \in [values : SUBSET Statuses, default : Statuses] : l.default \in l.values}
  /\ status \in Given /\ history \in Seq(HistoryEntries) /\ missed \in BOOLEAN
  /\ reviewer \in [Reviewers -> {Verdicts!Idle} \cup Changes]

\* One review at a time, as long as nothing was missed.
AloneInv == ~missed => \A p, q \in Reviewers : p # q => reviewer[p] = Verdicts!Idle \/ reviewer[q] = Verdicts!Idle

\* The status the history ends with, and what the next entry has to start from.
Told == IF history = <<>> \/ history[Len(history)].cleared THEN None ELSE history[Len(history)].status
Follows(x) == history # <<>> /\ ~history[Len(history)].cleared => x.previous = history[Len(history)].status

\* A status that has not been written yet is not told either; one that was is, soon.
UnderWayInv ==
  ~missed =>
    /\ status # Told => \E r \in Reviewers : reviewer[r].step = "append"
    /\ \A r \in Reviewers : reviewer[r] # Verdicts!Idle =>
         /\ Follows(reviewer[r])
         /\ reviewer[r].step = "append" => status = reviewer[r].status
         /\ reviewer[r].status # None => reviewer[r].entry = reviewer[r].status

\* Entries are linked, and one without a status is a clearing.
StoryInv ==
  ~missed =>
    /\ \A i \in 1 .. Len(history) : ~history[i].cleared => history[i].status # None
    /\ \A i \in 2 .. Len(history) : ~history[i - 1].cleared => history[i].previous = history[i - 1].status

ReviewsInv == KeptInv /\ AloneInv /\ UnderWayInv /\ StoryInv

-----------------------------------------------------------------------------
(* Reviews: the steps *)

(* There is always a default, and it is listed. *)
LEMMA DefaultIsThere ==
  ASSUME KeptInv, Statuses # {}
  PROVE  /\ Verdicts!get_default_run_review_status \in Verdicts!get_run_review_statuses.values
         /\ Verdicts!get_run_review_statuses.values \subseteq Statuses
         /\ Verdicts!get_default_run_review_status \in Statuses
PROOF
<1>1. Verdicts!Seed.default \in Statuses /\ Verdicts!Seed.values = Statuses
  BY DEF Verdicts!Seed
<1>2. QED
  BY <1>1 DEF KeptInv, Verdicts!get_default_run_review_status, Verdicts!get_run_review_statuses

(* The list of statuses may change under way. *)
LEMMA ListKeeps ==
  ASSUME ReviewsInv, Statuses # {},
         Verdicts!seed_run_review_statuses_if_absent \/ Verdicts!save_run_review_statuses
  PROVE  ReviewsInv'
PROOF
<1>1. KeptInv /\ UNCHANGED <<status, history, reviewer, missed>>
  BY DEF ReviewsInv, Verdicts!seed_run_review_statuses_if_absent, Verdicts!save_run_review_statuses
<1>2. listed' \in {l \in [values : SUBSET Statuses, default : Statuses] : l.default \in l.values}
  <2>1. CASE Verdicts!seed_run_review_statuses_if_absent
    BY <2>1 DEF Verdicts!seed_run_review_statuses_if_absent, Verdicts!Seed
  <2>2. CASE Verdicts!save_run_review_statuses
    <3>1. PICK values \in SUBSET Statuses : \E default \in values : listed' = [values |-> values, default |-> default]
      BY <2>2 DEF Verdicts!save_run_review_statuses
    <3>2. PICK default \in values : listed' = [values |-> values, default |-> default]
      BY <3>1
    <3>3. QED
      BY <3>1, <3>2
  <2>3. QED
    BY <2>1, <2>2
<1>3. KeptInv'
  BY <1>1, <1>2 DEF KeptInv
<1>4. AloneInv' /\ UnderWayInv' /\ StoryInv'
  BY <1>1 DEF ReviewsInv, AloneInv, UnderWayInv, StoryInv, Told, Follows
<1>5. QED
  BY <1>3, <1>4 DEF ReviewsInv

(* A review starts from what the run shows. *)
LEMMA BeginKeeps ==
  ASSUME ReviewsInv, Statuses # {}, NEW r \in Reviewers, NEW change \in Given, Verdicts!Begin(r, change)
  PROVE  ReviewsInv'
PROOF
<1>1. KeptInv /\ AloneInv /\ UnderWayInv /\ StoryInv
  BY DEF ReviewsInv
<1> DEFINE next == [step |-> "write", status |-> change, previous |-> Verdicts!get_effective,
                    entry |-> IF change = None THEN Verdicts!get_default_run_review_status ELSE change]
<1>2. /\ reviewer[r] = Verdicts!Idle /\ reviewer' = [reviewer EXCEPT ![r] = next]
      /\ UNCHANGED <<listed, status, history>> /\ missed' = (missed \/ \E q \in Reviewers \ {r} : reviewer[q] # Verdicts!Idle)
  BY DEF Verdicts!Begin, Verdicts!Overlaps
<1>3. Verdicts!get_effective \in Given /\ (status # None => Verdicts!get_effective = status)
  BY <1>1, DefaultIsThere DEF KeptInv, Given, Verdicts!get_effective
<1>4. /\ next \in Changes /\ next.step = "write" /\ next.previous = Verdicts!get_effective
      /\ next.status = change /\ (next.status # None => next.entry = next.status)
  BY <1>1, <1>3, DefaultIsThere DEF Changes, Given
<1> HIDE DEF next
<1>5. reviewer'[r] = next /\ \A q \in Reviewers : q # r => reviewer'[q] = reviewer[q]
  BY <1>1, <1>2 DEF KeptInv
<1>6. KeptInv'
  BY <1>1, <1>2, <1>4 DEF KeptInv
<1>7. AloneInv'
  BY <1>2, <1>5 DEF AloneInv
<1>8. StoryInv'
  BY <1>1, <1>2 DEF StoryInv
<1>9. UnderWayInv'
  <2> SUFFICES ASSUME ~missed'
               PROVE  /\ status' # Told' => \E q \in Reviewers : reviewer'[q].step = "append"
                      /\ \A q \in Reviewers : reviewer'[q] # Verdicts!Idle =>
                           /\ Follows(reviewer[q])'
                           /\ reviewer'[q].step = "append" => status' = reviewer'[q].status
                           /\ reviewer'[q].status # None => reviewer'[q].entry = reviewer'[q].status
    BY DEF UnderWayInv
  <2>1. ~missed /\ \A q \in Reviewers : q # r => reviewer[q] = Verdicts!Idle
    BY <1>2
  <2>2. \A q \in Reviewers : reviewer[q] = Verdicts!Idle
    BY <1>2, <2>1
  <2>3. Verdicts!Idle.step # "append"
    BY DEF Verdicts!Idle
  <2>4. status = Told
    BY <1>1, <2>1, <2>2, <2>3 DEF UnderWayInv
  <2>5. Follows(next)
    <3>1. ASSUME history # <<>>, ~history[Len(history)].cleared
          PROVE  Told = history[Len(history)].status /\ Told # None
      <4>1. Len(history) \in 1 .. Len(history)
        BY <1>1, <3>1 DEF KeptInv
      <4>2. QED
        BY <1>1, <2>1, <3>1, <4>1 DEF Told, StoryInv
    <3>2. QED
      BY <1>3, <1>4, <2>4, <3>1 DEF Follows
  <2>6. Told' = Told /\ Follows(reviewer[r])'
    BY <1>2, <1>5, <2>5 DEF Told, Follows
  <2>7. QED
    BY <1>2, <1>4, <1>5, <2>2, <2>4, <2>6
<1>10. QED
  BY <1>6, <1>7, <1>8, <1>9 DEF ReviewsInv

(* A change is written, or fails and leaves the status as it was. *)
LEMMA ChangeKeeps ==
  ASSUME ReviewsInv, NEW r \in Reviewers, Verdicts!WriteStatus(r) \/ Verdicts!Fail(r)
  PROVE  ReviewsInv'
PROOF
<1>1. KeptInv /\ AloneInv /\ UnderWayInv /\ StoryInv
  BY DEF ReviewsInv
<1>2. Verdicts!Idle \notin Changes /\ Verdicts!Idle.step = "idle"
  BY DEF Verdicts!Idle, Changes
<1>3. reviewer[r].step = "write" /\ reviewer[r] \in Changes /\ UNCHANGED <<listed, history, missed>> /\ reviewer[r] # Verdicts!Idle
  BY <1>1, <1>2 DEF Verdicts!WriteStatus, Verdicts!Fail, KeptInv
<1> DEFINE next == [reviewer[r] EXCEPT !.step = "append"]
<1>4. next \in Changes /\ next.step = "append" /\ next.status = reviewer[r].status /\ next.previous = reviewer[r].previous
      /\ next.entry = reviewer[r].entry
  BY <1>3 DEF Changes
<1>5. \/ status' = reviewer[r].status /\ reviewer' = [reviewer EXCEPT ![r] = next]
      \/ status' = status /\ reviewer' = [reviewer EXCEPT ![r] = Verdicts!Idle]
  BY DEF Verdicts!WriteStatus, Verdicts!Fail
<1> HIDE DEF next
<1>6. reviewer'[r] \in {next, Verdicts!Idle} /\ \A q \in Reviewers : q # r => reviewer'[q] = reviewer[q]
  BY <1>1, <1>5 DEF KeptInv
<1>7. KeptInv'
  BY <1>1, <1>3, <1>4, <1>5 DEF KeptInv, Changes
<1>8. ~missed => \A q \in Reviewers : q # r => reviewer'[q] = Verdicts!Idle
  BY <1>1, <1>3, <1>6 DEF AloneInv
<1>9. AloneInv'
  BY <1>3, <1>8 DEF AloneInv
<1>10. StoryInv'
  BY <1>1, <1>3 DEF StoryInv
<1>11. UnderWayInv'
  <2> SUFFICES ASSUME ~missed
               PROVE  /\ status' # Told' => \E q \in Reviewers : reviewer'[q].step = "append"
                      /\ \A q \in Reviewers : reviewer'[q] # Verdicts!Idle =>
                           /\ Follows(reviewer[q])'
                           /\ reviewer'[q].step = "append" => status' = reviewer'[q].status
                           /\ reviewer'[q].status # None => reviewer'[q].entry = reviewer'[q].status
    BY <1>3 DEF UnderWayInv
  <2>1. Told' = Told
    BY <1>3 DEF Told
  <2>2. CASE status' = reviewer[r].status /\ reviewer' = [reviewer EXCEPT ![r] = next]
    <3>1. reviewer'[r] = next
      BY <1>1, <2>2 DEF KeptInv
    <3>2. Follows(reviewer[r]) /\ (reviewer[r].status # None => reviewer[r].entry = reviewer[r].status)
      BY <1>1, <1>3 DEF UnderWayInv
    <3>3. Follows(reviewer[r])'
      BY <1>3, <1>4, <3>1, <3>2 DEF Follows
    <3>4. QED
      BY <1>4, <1>8, <2>2, <3>1, <3>2, <3>3
  <2>3. CASE status' = status /\ reviewer' = [reviewer EXCEPT ![r] = Verdicts!Idle]
    <3>1. reviewer'[r] = Verdicts!Idle
      BY <1>1, <2>3 DEF KeptInv
    <3>2. \A q \in Reviewers : reviewer[q].step # "append"
      BY <1>1, <1>2, <1>3, <1>6, <1>8
    <3>3. status = Told
      BY <1>1, <3>2 DEF UnderWayInv
    <3>4. QED
      BY <1>8, <2>1, <2>3, <3>1, <3>3
  <2>4. QED
    BY <1>5, <2>2, <2>3
<1>12. QED
  BY <1>7, <1>9, <1>10, <1>11 DEF ReviewsInv

(* An entry tells what was written, and from where; one that is lost is missed. *)
LEMMA AppendKeeps ==
  ASSUME ReviewsInv, NEW r \in Reviewers, Verdicts!_append_history(r)
  PROVE  ReviewsInv'
PROOF
<1>1. KeptInv /\ AloneInv /\ UnderWayInv /\ StoryInv
  BY DEF ReviewsInv
<1>2. Verdicts!Idle \notin Changes /\ Verdicts!Idle.step = "idle"
  BY DEF Verdicts!Idle, Changes
<1>3. reviewer[r].step = "append" /\ reviewer[r] \in Changes /\ reviewer[r] # Verdicts!Idle
      /\ UNCHANGED <<listed, status>> /\ reviewer' = [reviewer EXCEPT ![r] = Verdicts!Idle]
  BY <1>1, <1>2 DEF Verdicts!_append_history, KeptInv
<1> DEFINE told == [status |-> reviewer[r].entry, previous |-> reviewer[r].previous, cleared |-> reviewer[r].status = None]
<1>4. \/ history' = Append(history, told) /\ missed' = missed
      \/ missed' = TRUE /\ history' = history
  BY Zenon DEF Verdicts!_append_history
<1>5. told \in HistoryEntries /\ told.status = reviewer[r].entry /\ told.previous = reviewer[r].previous /\ told.cleared = (reviewer[r].status = None)
  BY <1>3 DEF HistoryEntries, Changes
<1> HIDE DEF told
<1>6. reviewer'[r] = Verdicts!Idle /\ \A q \in Reviewers : q # r => reviewer'[q] = reviewer[q]
  BY <1>1, <1>3 DEF KeptInv
<1>7. KeptInv'
  <2>1. history' \in Seq(HistoryEntries)
    BY <1>1, <1>4, <1>5 DEF KeptInv
  <2>2. missed' \in BOOLEAN
    BY <1>1, <1>4 DEF KeptInv
  <2>3. reviewer' \in [Reviewers -> {Verdicts!Idle} \cup Changes]
    BY <1>1, <1>3 DEF KeptInv
  <2>4. QED
    BY <1>1, <1>3, <2>1, <2>2, <2>3 DEF KeptInv
<1>8. AloneInv'
  BY <1>1, <1>4, <1>6 DEF AloneInv
<1>9. ASSUME ~missed'
      PROVE  UnderWayInv' /\ StoryInv'
  <2>1. ~missed /\ history' = Append(history, told)
    BY <1>4, <1>9
  <2>2. /\ Len(history') = Len(history) + 1 /\ Len(history) \in Nat /\ history' # <<>> /\ history'[Len(history')] = told
        /\ \A i \in 1 .. Len(history) : history'[i] = history[i]
    BY <1>1, <1>5, <2>1 DEF KeptInv
  <2>3. \A q \in Reviewers : reviewer'[q] = Verdicts!Idle
    BY <1>1, <1>3, <1>6, <2>1 DEF AloneInv
  <2>4. /\ Follows(reviewer[r]) /\ status = reviewer[r].status
        /\ reviewer[r].status # None => reviewer[r].entry = reviewer[r].status
    BY <1>1, <1>3, <2>1 DEF UnderWayInv
  <2>5. Told' = status'
    BY <1>3, <1>5, <2>2, <2>4 DEF Told
  <2>6. UnderWayInv'
    BY <2>3, <2>5 DEF UnderWayInv
  <2>7. \A i \in 1 .. Len(history') : ~history'[i].cleared => history'[i].status # None
    <3>1. ~told.cleared => told.status # None
      BY <1>5, <2>4
    <3>2. QED
      BY <1>1, <2>1, <2>2, <3>1 DEF StoryInv
  <2>8. \A i \in 2 .. Len(history') : ~history'[i - 1].cleared => history'[i].previous = history'[i - 1].status
    <3>1. ASSUME NEW i \in 2 .. Len(history'), ~history'[i - 1].cleared
          PROVE  history'[i].previous = history'[i - 1].status
      <4>1. CASE i \in 2 .. Len(history)
        BY <1>1, <2>1, <2>2, <3>1, <4>1 DEF StoryInv
      <4>2. CASE i = Len(history')
        <5>1. Len(history) >= 1 /\ i - 1 = Len(history) /\ history'[i] = told
          BY <2>2, <3>1, <4>2
        <5>2. history'[i - 1] = history[Len(history)] /\ history # <<>>
          BY <2>2, <5>1
        <5>3. QED
          BY <1>5, <2>4, <3>1, <5>1, <5>2 DEF Follows
      <4>3. QED
        BY <2>2, <4>1, <4>2
    <3>2. QED
      BY <3>1
  <2>9. QED
    BY <2>6, <2>7, <2>8 DEF StoryInv
<1>10. QED
  BY <1>7, <1>8, <1>9 DEF ReviewsInv, UnderWayInv, StoryInv

(* Every step keeps the invariant. *)
LEMMA ReviewsStep ==
  ASSUME ReviewsInv, Statuses # {}, [Verdicts!Next]_(Verdicts!reviewsVars)
  PROVE  ReviewsInv'
PROOF
<1>1. ASSUME NEW r \in Reviewers, Verdicts!set_status(r) \/ Verdicts!clear_status(r)
      PROVE  ReviewsInv'
  <2>1. Verdicts!get_run_review_statuses.values \subseteq Statuses
    BY DefaultIsThere DEF ReviewsInv
  <2>2. PICK change \in Given : Verdicts!Begin(r, change)
    BY <1>1, <2>1 DEF Verdicts!set_status, Verdicts!clear_status, Given
  <2>3. QED
    BY <2>2, BeginKeeps
<1>2. CASE UNCHANGED Verdicts!reviewsVars
  BY <1>2 DEF Verdicts!reviewsVars, ReviewsInv, KeptInv, AloneInv, UnderWayInv, StoryInv, Told, Follows
<1>3. QED
  BY <1>1, <1>2, ListKeeps, ChangeKeeps, AppendKeeps DEF Verdicts!Next

(* HistoryHolds: the last entry of a run's history is the status the run was     *)
(* given, each entry starts where the one before it ended, and a run without a   *)
(* status shows one that is listed; whatever happens to the list meanwhile, as   *)
(* long as reviews do not overlap and their entries are recorded                 *)
(* (set_status, clear_status, _append_history, save_run_review_statuses).        *)
THEOREM HistoriesTellTheStory ==
  ASSUME Statuses # {}
  PROVE  Verdicts!Spec => []Verdicts!HistoryHolds
PROOF
<1>1. Verdicts!Init => ReviewsInv
  <2> SUFFICES ASSUME Verdicts!Init
               PROVE  ReviewsInv
    OBVIOUS
  <2>1. KeptInv
    <3>1. <<>> \in Seq(HistoryEntries)
      BY EmptySeq
    <3>2. QED
      BY <3>1 DEF Verdicts!Init, KeptInv, Given
  <2>2. AloneInv
    BY DEF Verdicts!Init, AloneInv
  <2>3. StoryInv
    <3>1. history = <<>> /\ Len(history) = 0
      BY DEF Verdicts!Init
    <3>2. QED
      BY <3>1 DEF StoryInv
  <2>4. UnderWayInv
    BY DEF Verdicts!Init, UnderWayInv, Told
  <2>5. QED
    BY <2>1, <2>2, <2>3, <2>4 DEF ReviewsInv
<1>2. ReviewsInv /\ [Verdicts!Next]_(Verdicts!reviewsVars) => ReviewsInv'
  BY ReviewsStep
<1>3. ReviewsInv => Verdicts!HistoryHolds
  <2> SUFFICES ASSUME ReviewsInv
               PROVE  Verdicts!HistoryHolds
    OBVIOUS
  <2>1. Verdicts!DefaultIsListed
    BY DefaultIsThere DEF ReviewsInv, Verdicts!DefaultIsListed
  <2>2. ASSUME ~missed, \A r \in Reviewers : reviewer[r] = Verdicts!Idle
        PROVE  status = Told
    <3>1. Verdicts!Idle.step # "append"
      BY DEF Verdicts!Idle
    <3>2. QED
      BY <2>2, <3>1 DEF ReviewsInv, UnderWayInv
  <2>3. Verdicts!HistoryTellsTheStory
    BY <2>2 DEF ReviewsInv, StoryInv, Told, Verdicts!HistoryTellsTheStory, Verdicts!Last
  <2>4. QED
    BY <2>1, <2>3 DEF Verdicts!HistoryHolds
<1>4. QED
  BY <1>1, <1>2, <1>3, PTL DEF Verdicts!Spec

-----------------------------------------------------------------------------
(* Access: the grants *)

CONSTANTS Users, Groups, MemberOf, AdminGroup, Objects, Table, Product, Rule, Nobody, MaxChanges
VARIABLES mappings, owner, members, share, grants, asked_for, given, changes

Grants == INSTANCE Access WITH request <- asked_for


GrantRows == [object : Objects, principal : Grants!Principals, privileges : SUBSET (Grants!Concrete \cup {"MANAGE", "ALL_PRIVILEGES"}), inherit : BOOLEAN]
Asking == [step : {"delete", "insert"}, row : GrantRows, role : Grants!_AUTHORS_AND_ABOVE, because : {"right", "grant"}]

RequestsInv == asked_for \in [Users -> Asking \cup {Grants!Idle}]

\* MANAGE is in no row but those it was asked for, and a request that rests on
\* a grant rests on one of them.
ManageInv == \A g \in grants : "MANAGE" \in g.privileges => g \in given

GrantInv == RequestsInv /\ ManageInv /\ Grants!ManageIsHandedDown

(* No set of privileges comes to hold MANAGE by being stored or expanded; in *)
(* particular ALL_PRIVILEGES does not include it.                            *)
LEMMA ManageIsNeverImplied ==
  ASSUME NEW privileges, "MANAGE" \notin privileges
  PROVE  /\ "MANAGE" \notin Grants!expand_privileges(privileges)
         /\ \A object : "MANAGE" \notin Grants!Storable(object, privileges)
  BY DEF Grants!expand_privileges, Grants!Storable, Grants!normalize_privileges, Grants!Concrete

(* What is stored of a set of privileges is a set of privileges. *)
LEMMA StoredPrivileges ==
  ASSUME NEW object, NEW privileges
  PROVE  Grants!Storable(object, privileges) \in SUBSET (Grants!Concrete \cup {"MANAGE", "ALL_PRIVILEGES"})
  BY DEF Grants!expand_privileges, Grants!Storable, Grants!normalize_privileges, Grants!Concrete

(* The rows a creator and everybody receive carry no MANAGE. *)
LEMMA SeedsCarryNoManage ==
  ASSUME NEW object, NEW user, NEW g \in Grants!Seeded(object, user)
  PROVE  "MANAGE" \notin g.privileges
PROOF
<1>1. "MANAGE" \notin Grants!default_users_group_privileges_for(object) /\ "MANAGE" \notin {"ALL_PRIVILEGES"}
  BY DEF Grants!default_users_group_privileges_for
<1>2. \A p : "MANAGE" \notin p => "MANAGE" \notin Grants!Storable(object, p)
  BY ManageIsNeverImplied
<1>3. \/ g = Grants!Row(object, "users", Grants!Storable(object, Grants!default_users_group_privileges_for(object)), FALSE)
      \/ g = Grants!Row(object, user, Grants!Storable(object, {"ALL_PRIVILEGES"}), FALSE)
  BY DEF Grants!Seeded
<1>4. g.privileges \in {Grants!Storable(object, Grants!default_users_group_privileges_for(object)), Grants!Storable(object, {"ALL_PRIVILEGES"})}
  BY <1>3 DEF Grants!Row
<1>5. QED
  BY <1>1, <1>2, <1>4

(* The grant a request rests on was asked for with MANAGE. *)
LEMMA EntitledByAGrant ==
  ASSUME ManageInv, NEW o, NEW user, "MANAGE" \in Grants!effective_privileges(o, user)
  PROVE  \E g \in given :
           /\ Grants!Matches(g, user)
           /\ g.object = o \/ (o = Table /\ g.object = Product /\ g.inherit /\ g.principal # "users")
PROOF
<1>1. PICK g \in Grants!list_grants(o) \cup Grants!Inherited(o) : Grants!Matches(g, user) /\ "MANAGE" \in Grants!expand_privileges(g.privileges)
  BY DEF Grants!effective_privileges
<1>2. "MANAGE" \in g.privileges
  BY <1>1, ManageIsNeverImplied
<1>3. g \in grants /\ (g.object = o \/ (o = Table /\ g.object = Product /\ g.inherit /\ g.principal # "users"))
  BY <1>1 DEF Grants!list_grants, Grants!Inherited
<1>4. QED
  BY <1>1, <1>2, <1>3 DEF ManageInv

(* Every step keeps the invariant. *)
LEMMA GrantStep ==
  ASSUME GrantInv, [Grants!Next]_Grants!accessVars
  PROVE  GrantInv'
PROOF
<1>1. RequestsInv /\ ManageInv /\ Grants!ManageIsHandedDown
  BY DEF GrantInv
<1>2. ASSUME UNCHANGED <<asked_for, given>>, \A g \in grants' : g \in grants \/ "MANAGE" \notin g.privileges
      PROVE  GrantInv'
  BY <1>1, <1>2 DEF GrantInv, RequestsInv, ManageInv, Grants!ManageIsHandedDown, Grants!Matches
<1>3. ASSUME NEW user \in Users, NEW object \in Objects, Grants!CreateObject(user, object)
      PROVE  GrantInv'
  <2>1. UNCHANGED <<asked_for, given>> /\ grants' \subseteq grants \cup Grants!Seeded(object, user)
    BY <1>3 DEF Grants!CreateObject
  <2>2. QED
    BY <1>2, <2>1, SeedsCarryNoManage
<1>4. ASSUME NEW user \in Users, Grants!SetMember(user) \/ Grants!MapRole(user)
      PROVE  GrantInv'
  BY <1>2, <1>4 DEF Grants!SetMember, Grants!MapRole
<1>5. ASSUME NEW user \in Users, Grants!AskForGrant(user)
      PROVE  GrantInv'
  <2>1. PICK o \in Objects, p \in Grants!Principals, asked \in Grants!Asked, inherit \in BOOLEAN, role \in Grants!Role(user) :
          /\ Grants!can_manage_grants(o, user, role)
          /\ asked_for' = [asked_for EXCEPT ![user] =
               [step |-> "delete", row |-> Grants!Row(o, p, Grants!Storable(o, asked), inherit), role |-> role,
                because |-> IF role \in Grants!_ROLE_BYPASS \/ owner[o] = user THEN "right" ELSE "grant"]]
          /\ role \in Grants!_AUTHORS_AND_ABOVE
    BY <1>5 DEF Grants!AskForGrant
  <2> DEFINE row == Grants!Row(o, p, Grants!Storable(o, asked), inherit)
             because == IF role \in Grants!_ROLE_BYPASS \/ owner[o] = user THEN "right" ELSE "grant"
             entry == [step |-> "delete", row |-> row, role |-> role, because |-> because]
  <2>2. row \in GrantRows /\ row.object = o
    BY StoredPrivileges DEF Grants!Row, GrantRows
  <2>3. role \in Grants!_AUTHORS_AND_ABOVE /\ because \in {"right", "grant"}
    BY <2>1
  <2> HIDE DEF row, because
  <2>4. entry \in Asking
    BY <2>2, <2>3 DEF Asking
  <2>5. because = "grant" => "MANAGE" \in Grants!effective_privileges(o, user)
    BY <2>1 DEF because, Grants!can_manage_grants
  <2>6. entry.row.object = o /\ entry.because = because
    BY <2>2
  <2> HIDE DEF entry
  <2>7. asked_for' = [asked_for EXCEPT ![user] = entry] /\ UNCHANGED <<grants, given>>
    BY <1>5, <2>1 DEF entry, row, because, Grants!AskForGrant
  <2>8. RequestsInv' /\ ManageInv'
    BY <1>1, <2>4, <2>7 DEF RequestsInv, ManageInv
  <2>9. Grants!ManageIsHandedDown'
    <3>1. ASSUME NEW u \in Users, asked_for'[u].step # "idle", asked_for'[u].because = "grant"
          PROVE  \E g \in given' :
                   /\ Grants!Matches(g, u)
                   /\ \/ g.object = asked_for'[u].row.object
                      \/ asked_for'[u].row.object = Table /\ g.object = Product /\ g.inherit /\ g.principal # "users"
      <4>1. CASE u = user
        <5>1. asked_for'[u] = entry
          BY <1>1, <2>7, <4>1 DEF RequestsInv
        <5>2. QED
          BY <1>1, <2>5, <2>6, <2>7, <3>1, <4>1, <5>1, EntitledByAGrant
      <4>2. CASE u # user
        <5>1. asked_for'[u] = asked_for[u]
          BY <1>1, <2>7, <4>2 DEF RequestsInv
        <5>2. QED
          BY <1>1, <2>7, <3>1, <5>1 DEF Grants!ManageIsHandedDown
      <4>3. QED
        BY <4>1, <4>2
    <3>2. QED
      BY <3>1 DEF Grants!ManageIsHandedDown, Grants!Matches
  <2>10. QED
    BY <2>8, <2>9 DEF GrantInv
<1>6. ASSUME NEW user \in Users, Grants!_delete_row(user) \/ Grants!InsertRow(user)
      PROVE  GrantInv'
  <2>1. asked_for[user] \in Asking /\ asked_for[user].row \in GrantRows
    BY <1>1, <1>6 DEF Grants!_delete_row, Grants!InsertRow, RequestsInv, Grants!Idle, Asking
  <2>2. PICK entry \in Asking \cup {Grants!Idle} :
          /\ asked_for' = [asked_for EXCEPT ![user] = entry]
          /\ entry = Grants!Idle \/ (entry.row = asked_for[user].row /\ entry.because = asked_for[user].because)
    BY <1>6, <2>1 DEF Grants!_delete_row, Grants!InsertRow, Asking
  <2>3. given \subseteq given' /\ \A g \in grants' : "MANAGE" \in g.privileges => g \in grants \/ g \in given'
    BY <1>6 DEF Grants!_delete_row, Grants!InsertRow
  <2>4. RequestsInv' /\ ManageInv'
    BY <1>1, <2>2, <2>3 DEF RequestsInv, ManageInv
  <2>5. Grants!ManageIsHandedDown'
    <3>1. ASSUME NEW u \in Users, asked_for'[u].step # "idle", asked_for'[u].because = "grant"
          PROVE  \E g \in given' :
                   /\ Grants!Matches(g, u)
                   /\ \/ g.object = asked_for'[u].row.object
                      \/ asked_for'[u].row.object = Table /\ g.object = Product /\ g.inherit /\ g.principal # "users"
      <4>1. asked_for[u].step # "idle" /\ asked_for[u].because = "grant" /\ asked_for'[u].row = asked_for[u].row
        <5>1. asked_for'[u] = IF u = user THEN entry ELSE asked_for[u]
          BY <1>1, <2>2 DEF RequestsInv
        <5>2. entry = Grants!Idle => entry.step = "idle"
          BY DEF Grants!Idle
        <5>3. asked_for[user].step # "idle"
          BY <2>1 DEF Asking
        <5>4. QED
          BY <2>2, <3>1, <5>1, <5>2, <5>3
      <4>2. QED
        BY <1>1, <2>3, <4>1 DEF Grants!ManageIsHandedDown
    <3>2. QED
      BY <3>1 DEF Grants!ManageIsHandedDown, Grants!Matches
  <2>6. QED
    BY <2>4, <2>5 DEF GrantInv
<1>7. CASE UNCHANGED Grants!accessVars
  BY <1>2, <1>7 DEF Grants!accessVars
<1>8. QED
  BY <1>3, <1>4, <1>5, <1>6, <1>7 DEF Grants!Next

(* ManageIsHandedDown: nobody changes the grants of an object on the strength *)
(* of a grant unless MANAGE itself was once given, on the object or, to be    *)
(* inherited, on the product, to the user or to a group of theirs; not even   *)
(* the grant of everything that creators receive counts                       *)
(* (can_manage_grants, expand_privileges, seed_creator_grants).               *)
THEOREM ManageIsOnlyHandedDown == Grants!Spec => []Grants!ManageIsHandedDown
PROOF
<1>1. Grants!Init => GrantInv
  <2>1. Grants!Idle.step = "idle"
    BY DEF Grants!Idle
  <2>2. QED
    BY <2>1 DEF Grants!Init, GrantInv, RequestsInv, ManageInv, Grants!ManageIsHandedDown
<1>2. GrantInv /\ [Grants!Next]_Grants!accessVars => GrantInv'
  BY GrantStep
<1>3. GrantInv => Grants!ManageIsHandedDown
  BY DEF GrantInv
<1>4. QED
  BY <1>1, <1>2, <1>3, PTL DEF Grants!Spec

-----------------------------------------------------------------------------
(* Entitlements: who is shown failing rows *)

CONSTANTS Readership, TTL, MaxTime
VARIABLES readable, filtered, lastSelect, lastOpen, verified, now, asking, begun

Readers == INSTANCE Entitlements WITH Users <- Readership

\* A request that is under way.
Step == [at : {"asked", "selected", "unfiltered"}, user : Readership, since : Nat]

ReaderTypes ==
  /\ now \in Nat /\ readable \subseteq Readership /\ filtered \in BOOLEAN
  /\ lastSelect \in [Readership -> Nat \cup {-1}] /\ lastOpen \in Nat \cup {-1}
  /\ verified \in [Readership -> Nat \cup {-1}] /\ begun \in [Readership -> Nat \cup {-1}]
  /\ asking \in [Requests -> Step \cup {Readers!Idle}]

\* The histories do not lag behind what is so now.
HistoryIsUpToDate ==
  /\ \A u \in Readership : lastSelect[u] <= now /\ (u \in readable => lastSelect[u] = now)
  /\ lastOpen <= now /\ (~filtered => lastOpen = now)

\* The answers that a request has had were so since it began.
AnswersWereSo ==
  \A r \in Requests : asking[r] # Readers!Idle =>
    /\ asking[r].since <= now
    /\ asking[r].at # "asked" => lastSelect[asking[r].user] >= asking[r].since
    /\ asking[r].at = "unfiltered" => lastOpen >= asking[r].since

RecordsWereSo ==
  \A u \in Readership : verified[u] # -1 =>
    begun[u] # -1 /\ begun[u] <= verified[u] /\ lastSelect[u] >= begun[u] /\ lastOpen >= begun[u]

ReaderInv == ReaderTypes /\ HistoryIsUpToDate /\ AnswersWereSo /\ RecordsWereSo

(* Whatever comes about, the histories go forward and keep up with it. *)
LEMMA HistoryGoesForward ==
  ASSUME ReaderInv, NEW can, can \subseteq Readership, NEW masked \in BOOLEAN, NEW t \in Nat, now <= t,
         Readers!Witnessed(can, masked, t),
         readable' = can, filtered' = masked, now' = t, UNCHANGED <<verified, asking, begun>>
  PROVE  ReaderInv'
PROOF
<1>1. /\ lastSelect' \in [Readership -> Nat \cup {-1}] /\ lastOpen' \in Nat \cup {-1}
      /\ \A u \in Readership : lastSelect'[u] <= t /\ (u \in can => lastSelect'[u] = t)
      /\ lastOpen' <= t /\ (~masked => lastOpen' = t)
      /\ \A u \in Readership : lastSelect'[u] >= lastSelect[u]
      /\ lastOpen' >= lastOpen
  BY DEF Readers!Witnessed, ReaderInv, ReaderTypes, HistoryIsUpToDate
<1>2. ReaderTypes' /\ HistoryIsUpToDate'
  BY <1>1 DEF ReaderInv, ReaderTypes, HistoryIsUpToDate
<1>3. AnswersWereSo'
  <2>1. SUFFICES ASSUME NEW r \in Requests, asking[r] # Readers!Idle
                 PROVE  /\ asking[r].since <= t
                        /\ asking[r].at # "asked" => lastSelect'[asking[r].user] >= asking[r].since
                        /\ asking[r].at = "unfiltered" => lastOpen' >= asking[r].since
    BY DEF AnswersWereSo
  <2>2. asking[r] \in Step
    BY <2>1 DEF ReaderInv, ReaderTypes
  <2>3. asking[r].since \in Nat /\ asking[r].user \in Readership
    BY <2>2 DEF Step
  <2>4. /\ asking[r].since <= now
        /\ asking[r].at # "asked" => lastSelect[asking[r].user] >= asking[r].since
        /\ asking[r].at = "unfiltered" => lastOpen >= asking[r].since
    BY <2>1 DEF ReaderInv, AnswersWereSo
  <2>5. now \in Nat /\ lastOpen \in Int /\ lastSelect[asking[r].user] \in Int
        /\ lastOpen' \in Int /\ lastSelect'[asking[r].user] \in Int
    BY <1>1, <2>3 DEF ReaderInv, ReaderTypes
  <2>6. QED
    BY <1>1, <2>3, <2>4, <2>5
<1>4. RecordsWereSo'
  <2>1. lastSelect \in [Readership -> Int] /\ lastSelect' \in [Readership -> Int] /\ begun \in [Readership -> Int]
        /\ lastOpen \in Int /\ lastOpen' \in Int
    BY <1>1 DEF ReaderInv, ReaderTypes
  <2>2. QED
    BY <1>1, <2>1 DEF ReaderInv, RecordsWereSo
<1>5. QED
  BY <1>2, <1>3, <1>4 DEF ReaderInv

(* An answer that is so now was so since the request began. *)
LEMMA AnswersHold ==
  ASSUME ReaderInv, NEW r \in Requests, NEW from \in {"asked", "selected"}, NEW yes \in BOOLEAN,
         NEW to \in {"selected", "unfiltered"}, Readers!Answered(r, from, yes, to),
         /\ to = "selected" => from = "asked" /\ (yes => asking[r].user \in readable)
         /\ to = "unfiltered" => from = "selected" /\ (yes => ~filtered)
  PROVE  ReaderInv'
PROOF
<1>1. asking[r].at = from /\ UNCHANGED <<readable, filtered, lastSelect, lastOpen, verified, now, begun>>
  BY DEF Readers!Answered
<1>2. asking[r] # Readers!Idle /\ asking[r] \in Step
  BY <1>1 DEF ReaderInv, ReaderTypes, Readers!Idle
<1>3. asking \in [Requests -> Step \cup {Readers!Idle}]
  BY DEF ReaderInv, ReaderTypes
<1>4. CASE asking' = [asking EXCEPT ![r] = Readers!Idle]
  <2>1. asking' \in [Requests -> Step \cup {Readers!Idle}]
    BY <1>3, <1>4
  <2>2. \A q \in Requests : asking'[q] # Readers!Idle => asking'[q] = asking[q]
    BY <1>3, <1>4
  <2>3. QED
    BY <1>1, <2>1, <2>2 DEF ReaderInv, ReaderTypes, HistoryIsUpToDate, AnswersWereSo, RecordsWereSo
<1>5. CASE yes /\ asking' = [asking EXCEPT ![r].at = to]
  <2>1. /\ asking'[r].at = to /\ asking'[r].user = asking[r].user /\ asking'[r].since = asking[r].since
        /\ asking'[r] \in Step
    BY <1>2, <1>3, <1>5 DEF Step
  <2>2. \A q \in Requests : q # r => asking'[q] = asking[q]
    BY <1>3, <1>5
  <2>3. asking' \in [Requests -> Step \cup {Readers!Idle}]
    BY <1>3, <1>5, <2>1, <2>2
  <2>4. ReaderTypes' /\ HistoryIsUpToDate' /\ RecordsWereSo'
    BY <1>1, <2>3 DEF ReaderInv, ReaderTypes, HistoryIsUpToDate, RecordsWereSo
  <2>5. asking[r].user \in Readership /\ asking[r].since \in Nat /\ asking[r].since <= now /\ now \in Nat
    BY <1>2 DEF ReaderInv, ReaderTypes, AnswersWereSo, Step
  <2>6. lastSelect[asking[r].user] >= asking[r].since
    <3>1. CASE to = "selected"
      BY <1>5, <2>5, <3>1 DEF ReaderInv, HistoryIsUpToDate
    <3>2. CASE to = "unfiltered"
      BY <1>1, <1>2, <3>2 DEF ReaderInv, AnswersWereSo
    <3>3. QED
      BY <3>1, <3>2
  <2>7. to = "unfiltered" => lastOpen >= asking[r].since
    BY <1>5, <2>5 DEF ReaderInv, HistoryIsUpToDate
  <2>8. AnswersWereSo'
    BY <1>1, <2>1, <2>2, <2>5, <2>6, <2>7 DEF ReaderInv, AnswersWereSo
  <2>9. QED
    BY <2>4, <2>8 DEF ReaderInv
<1>6. QED
  BY <1>4, <1>5 DEF Readers!Answered

(* Every step keeps the invariant. *)
LEMMA ReaderStep ==
  ASSUME ReaderInv, [Readers!Next]_Readers!entitlementVars
  PROVE  ReaderInv'
PROOF
<1>1. ASSUME NEW r \in Requests, NEW user \in Readership, Readers!verify_and_record(r, user)
      PROVE  ReaderInv'
  <2> DEFINE Opened == [at |-> "asked", user |-> user, since |-> now]
  <2>1. asking' = [asking EXCEPT ![r] = Opened] /\ UNCHANGED <<readable, filtered, lastSelect, lastOpen, verified, now, begun>>
    BY <1>1 DEF Readers!verify_and_record
  <2>2. now \in Nat /\ asking \in [Requests -> Step \cup {Readers!Idle}]
    BY DEF ReaderInv, ReaderTypes
  <2>3. Opened \in Step /\ Opened.since <= now
    BY <2>2 DEF Step
  <2>4. asking' \in [Requests -> Step \cup {Readers!Idle}]
    BY <2>1, <2>2, <2>3
  <2>5. \A q \in Requests : asking'[q] = IF q = r THEN Opened ELSE asking[q]
    BY <2>1, <2>2
  <2>6. AnswersWereSo'
    BY <2>1, <2>3, <2>5 DEF ReaderInv, AnswersWereSo
  <2>7. QED
    BY <2>1, <2>4, <2>6 DEF ReaderInv, ReaderTypes, HistoryIsUpToDate, RecordsWereSo
<1>2. ASSUME NEW r \in Requests, Readers!user_can_select(r)
      PROVE  ReaderInv'
  <2> DEFINE yes == asking[r].user \in readable
  <2>1. Readers!Answered(r, "asked", yes, "selected") /\ yes \in BOOLEAN
    BY <1>2 DEF Readers!user_can_select
  <2>2. QED
    BY <2>1, AnswersHold
<1>3. ASSUME NEW r \in Requests, Readers!has_fine_grained_access_control(r)
      PROVE  ReaderInv'
  <2>1. filtered \in BOOLEAN
    BY DEF ReaderInv, ReaderTypes
  <2>2. QED
    BY <1>3, <2>1, AnswersHold DEF Readers!has_fine_grained_access_control
<1>4. ASSUME NEW r \in Requests, Readers!record_entitlement(r)
      PROVE  ReaderInv'
  <2>1. /\ asking[r].at = "unfiltered" /\ asking' = [asking EXCEPT ![r] = Readers!Idle]
        /\ UNCHANGED <<readable, filtered, lastSelect, lastOpen, now>>
    BY <1>4 DEF Readers!record_entitlement
  <2>2. asking \in [Requests -> Step \cup {Readers!Idle}] /\ now \in Nat
    BY DEF ReaderInv, ReaderTypes
  <2>3. asking[r] # Readers!Idle /\ asking[r] \in Step
    BY <2>1, <2>2 DEF Readers!Idle
  <2>4. asking' \in [Requests -> Step \cup {Readers!Idle}]
    BY <2>1, <2>2
  <2>5. \A q \in Requests : asking'[q] # Readers!Idle => asking'[q] = asking[q]
    BY <2>1, <2>2
  <2>6. AnswersWereSo' /\ HistoryIsUpToDate'
    BY <2>1, <2>5 DEF ReaderInv, AnswersWereSo, HistoryIsUpToDate
  <2>7. /\ asking[r].user \in Readership /\ asking[r].since \in Nat /\ asking[r].since <= now
        /\ lastSelect[asking[r].user] >= asking[r].since /\ lastOpen >= asking[r].since
    BY <2>1, <2>3 DEF ReaderInv, AnswersWereSo, Step
  <2>8. CASE UNCHANGED <<verified, begun>>
    BY <2>1, <2>4, <2>6, <2>8 DEF ReaderInv, ReaderTypes, RecordsWereSo
  <2>9. CASE /\ verified' = [verified EXCEPT ![asking[r].user] = now]
             /\ begun' = [begun EXCEPT ![asking[r].user] = asking[r].since]
    <3>1. /\ verified' \in [Readership -> Nat \cup {-1}] /\ begun' \in [Readership -> Nat \cup {-1}]
          /\ \A u \in Readership : /\ verified'[u] = IF u = asking[r].user THEN now ELSE verified[u]
                                   /\ begun'[u] = IF u = asking[r].user THEN asking[r].since ELSE begun[u]
      BY <2>2, <2>7, <2>9 DEF ReaderInv, ReaderTypes
    <3>2. RecordsWereSo'
      BY <2>1, <2>7, <3>1 DEF ReaderInv, RecordsWereSo
    <3>3. QED
      BY <2>1, <2>4, <2>6, <3>1, <3>2 DEF ReaderInv, ReaderTypes
  <2>10. QED
    BY <1>4, <2>8, <2>9 DEF Readers!record_entitlement
<1>5. ASSUME NEW user \in Readership, Readers!Govern(user)
      PROVE  ReaderInv'
  <2>1. /\ Readers!Witnessed(readable', filtered', now) /\ UNCHANGED <<verified, now, asking, begun>>
        /\ readable' \subseteq Readership /\ filtered' \in BOOLEAN
    BY <1>5 DEF Readers!Govern, ReaderInv, ReaderTypes
  <2>2. now \in Nat /\ now <= now
    BY DEF ReaderInv, ReaderTypes
  <2>3. QED
    BY <2>1, <2>2, HistoryGoesForward
<1>6. CASE Readers!Tick
  <2>1. /\ now' = now + 1 /\ Readers!Witnessed(readable, filtered, now')
        /\ UNCHANGED <<readable, filtered, verified, asking, begun>>
    BY <1>6 DEF Readers!Tick
  <2>2. now' \in Nat /\ now <= now' /\ readable \subseteq Readership /\ filtered \in BOOLEAN
    BY <2>1 DEF ReaderInv, ReaderTypes
  <2>3. QED
    BY <2>1, <2>2, HistoryGoesForward
<1>7. CASE UNCHANGED Readers!entitlementVars
  BY <1>7 DEF Readers!entitlementVars, ReaderInv, ReaderTypes, HistoryIsUpToDate, AnswersWereSo, RecordsWereSo
<1>8. QED
  BY <1>1, <1>2, <1>3, <1>4, <1>5, <1>6, <1>7 DEF Readers!Next

(* ShownToRecentReaders: failing rows are shown to a user only within TTL of a *)
(* record, and only if the user could select from the table, and it was        *)
(* unfiltered, since the request behind that record began (verify_and_record   *)
(* and the view of the failing rows).                                          *)
THEOREM RowsAreShownToReaders ==
  ASSUME Readers!EntitlementAssumption
  PROVE  Readers!Spec => []Readers!ShownToRecentReaders
PROOF
<1>1. ASSUME Readers!Init
      PROVE  ReaderInv
  <2>1. /\ readable \subseteq Readership /\ filtered \in BOOLEAN /\ now = 0
        /\ lastSelect = [u \in Readership |-> IF u \in readable THEN 0 ELSE -1]
        /\ lastOpen = IF filtered THEN -1 ELSE 0
        /\ verified = [u \in Readership |-> -1] /\ begun = [u \in Readership |-> -1]
        /\ asking = [r \in Requests |-> Readers!Idle]
    BY <1>1 DEF Readers!Init
  <2>2. /\ lastSelect \in [Readership -> Nat \cup {-1}] /\ verified \in [Readership -> Nat \cup {-1}]
        /\ begun \in [Readership -> Nat \cup {-1}] /\ asking \in [Requests -> Step \cup {Readers!Idle}]
    BY <2>1
  <2>3. ReaderTypes
    BY <2>1, <2>2 DEF ReaderTypes
  <2>4. HistoryIsUpToDate /\ AnswersWereSo /\ RecordsWereSo
    BY <2>1 DEF HistoryIsUpToDate, AnswersWereSo, RecordsWereSo
  <2>5. QED
    BY <2>3, <2>4 DEF ReaderInv
<1>2. ReaderInv /\ [Readers!Next]_Readers!entitlementVars => ReaderInv'
  BY ReaderStep
<1>3. ReaderInv => Readers!ShownToRecentReaders
  BY DEF ReaderInv, RecordsWereSo, Readers!ShownToRecentReaders, Readers!Visible
<1>4. QED
  BY <1>1, <1>2, <1>3, PTL DEF Readers!Spec

-----------------------------------------------------------------------------

VARIABLES input, output

Schedules == INSTANCE ScheduleGrants

Answers == {"yes", "no"} \cup Schedules!Failures

\* What a request remembers of a level once it has asked.
GrantAnswer(world, p, l) == Schedules!Either(Schedules!_parent_privileges(world, p, l), Schedules!_parent_owner(world, p, l))

(* SHOW GRANTS has rows to show or fails. *)
LEMMA GrantsAreShownOrNot ==
  ASSUME NEW world
  PROVE  world.warehouse \in {"up", "down", "denies", "unset"} => Schedules!_show_grants(world) \in {"rows"} \cup Schedules!Failures
PROOF
  BY DEF Schedules!Failures, Schedules!_show_grants

(* Every question has an answer or a reason why not, and an answer stands for *)
(* something that holds in Unity Catalog.                                     *)
LEMMA AnswersAreTrue ==
  ASSUME NEW world, NEW p, NEW l, world.warehouse \in {"up", "down", "denies", "unset"}
  PROVE  /\ GrantAnswer(world, p, l) \in Answers
         /\ GrantAnswer(world, p, l) = "yes" => world.usage[p][l] # "none"
         /\ GrantAnswer(world, p, l) = "no" => world.usage[p][l] \notin {"direct", "owner", "group_owner"}
PROOF
<1>1. Schedules!_show_grants(world) \in {"rows"} \cup Schedules!Failures
  BY GrantsAreShownOrNot
<1>2. ASSUME NEW held \in BOOLEAN
      PROVE  /\ Schedules!_scheduler_principals(world, held) \in {"yes", "no", "configuration"}
             /\ Schedules!_scheduler_principals(world, held) = "yes" => held
             /\ Schedules!_scheduler_principals(world, held) = "no" => ~held
  BY DEF Schedules!_scheduler_principals
<1>3. /\ Schedules!_parent_privileges(world, p, l) \in Answers
      /\ Schedules!_parent_privileges(world, p, l) = "yes" => world.usage[p][l] # "none"
      /\ Schedules!_parent_privileges(world, p, l) = "no" => world.usage[p][l] # "direct"
  <2> DEFINE held == world.usage[p][l]
  <2>1. world.effective => Schedules!_parent_privileges(world, p, l) = IF held = "direct" THEN "yes" ELSE "no"
    BY DEF Schedules!_parent_privileges
  <2>2. ~world.effective /\ Schedules!_show_grants(world) # "rows" => Schedules!_parent_privileges(world, p, l) = Schedules!_show_grants(world)
    BY DEF Schedules!_parent_privileges
  <2>3. ~world.effective /\ Schedules!_show_grants(world) = "rows" =>
          Schedules!_parent_privileges(world, p, l) =
            IF held \in {"direct", "owner"} THEN "yes" ELSE Schedules!_scheduler_principals(world, held \in {"group", "group_owner"})
    BY DEF Schedules!_parent_privileges
  <2> HIDE DEF held
  <2>4. /\ Schedules!_parent_privileges(world, p, l) \in Answers
        /\ Schedules!_parent_privileges(world, p, l) = "yes" => held # "none"
        /\ Schedules!_parent_privileges(world, p, l) = "no" => held # "direct"
    BY <1>1, <2>1, <2>2, <2>3 DEF Answers, Schedules!Failures, Schedules!_scheduler_principals
  <2>5. QED
    BY <2>4 DEF held
<1>4. /\ Schedules!_parent_owner(world, p, l) \in Answers
      /\ Schedules!_parent_owner(world, p, l) = "yes" => world.usage[p][l] # "none"
      /\ Schedules!_parent_owner(world, p, l) = "no" => world.usage[p][l] \notin {"owner", "group_owner"}
  BY <1>2 DEF Answers, Schedules!Failures, Schedules!_parent_owner
<1>5. QED
  BY <1>3, <1>4 DEF GrantAnswer, Answers, Schedules!Failures, Schedules!Either

(* A direct grant is seen, or it is said why it was not. *)
LEMMA DirectGrantsAreSeen ==
  ASSUME NEW world, NEW p, NEW l, world.warehouse \in {"up", "down", "denies", "unset"}, world.usage[p][l] = "direct"
  PROVE  GrantAnswer(world, p, l) # "no"
  BY AnswersAreTrue

(* What is asked about are levels of the app and of the task runner. *)
LEMMA LevelsAreAsked ==
  ASSUME NEW world
  PROVE  /\ Schedules!Range(Schedules!Asked(world)) = {"app", Schedules!Runner(world)} \X Schedules!Levels
         /\ DOMAIN Schedules!Asked(world) \subseteq 1 .. 4
PROOF
<1> DEFINE both(p) == << <<p, "CATALOG">>, <<p, "SCHEMA">> >>
<1>1. CASE Schedules!Runner(world) # "app"
  <2>1. Schedules!Asked(world) = << <<"app", "CATALOG">>, <<"app", "SCHEMA">>, <<"runner", "CATALOG">>, <<"runner", "SCHEMA">> >>
    BY <1>1 DEF Schedules!Asked
  <2>2. DOMAIN Schedules!Asked(world) = 1 .. 4
    BY <2>1
  <2>3. Schedules!Range(Schedules!Asked(world)) = {Schedules!Asked(world)[i] : i \in 1 .. 4}
    BY <2>2 DEF Schedules!Range
  <2>4. 1 .. 4 = {1, 2, 3, 4}
    OBVIOUS
  <2>5. Schedules!Range(Schedules!Asked(world)) = { <<"app", "CATALOG">>, <<"app", "SCHEMA">>, <<"runner", "CATALOG">>, <<"runner", "SCHEMA">> }
    BY <2>1, <2>3, <2>4
  <2>6. Schedules!Runner(world) = "runner"
    BY <1>1 DEF Schedules!Runner
  <2>7. QED
    BY <2>2, <2>5, <2>6 DEF Schedules!Levels
<1>2. CASE Schedules!Runner(world) = "app"
  <2>1. Schedules!Asked(world) = << <<"app", "CATALOG">>, <<"app", "SCHEMA">> >>
    BY <1>2 DEF Schedules!Asked
  <2>2. DOMAIN Schedules!Asked(world) = 1 .. 2
    BY <2>1
  <2>3. Schedules!Range(Schedules!Asked(world)) = {Schedules!Asked(world)[i] : i \in 1 .. 2}
    BY <2>2 DEF Schedules!Range
  <2>4. 1 .. 2 = {1, 2}
    OBVIOUS
  <2>5. Schedules!Range(Schedules!Asked(world)) = { <<"app", "CATALOG">>, <<"app", "SCHEMA">> }
    BY <2>1, <2>3, <2>4
  <2>6. QED
    BY <1>2, <2>2, <2>5 DEF Schedules!Levels
<1>3. QED
  BY <1>1, <1>2

(* Asking again gives the same answers. *)
LEMMA AnswersAreKept ==
  ASSUME NEW world, world.warehouse \in {"up", "down", "denies", "unset"}
  PROVE  LET once == Schedules!Remembered(world, Schedules!Fresh)
         IN /\ Schedules!Remembered(world, once) = once
            /\ world.appKnown /\ world.runner # "unknown" =>
                 \A q \in {"app", Schedules!Runner(world)} \X Schedules!Levels : once[q[1]][q[2]] = GrantAnswer(world, q[1], q[2])
PROOF
<1> DEFINE once == Schedules!Remembered(world, Schedules!Fresh)
           known(p, l) == world.appKnown /\ world.runner # "unknown" /\ <<p, l>> \in Schedules!Range(Schedules!Asked(world))
<1>1. \A p \in Schedules!Principals, l \in Schedules!Levels : once[p][l] = IF known(p, l) THEN GrantAnswer(world, p, l) ELSE "unknown"
  BY DEF Schedules!Remembered, Schedules!Fresh, Schedules!_parent_has_usage, GrantAnswer
<1>2. \A p \in Schedules!Principals, l \in Schedules!Levels : known(p, l) => once[p][l] # "unknown"
  BY <1>1, AnswersAreTrue DEF Answers, Schedules!Failures
<1>3. Schedules!Remembered(world, once) = [p \in Schedules!Principals |-> [l \in Schedules!Levels |-> once[p][l]]]
  <2>1. ASSUME NEW p \in Schedules!Principals, NEW l \in Schedules!Levels
        PROVE  (IF known(p, l) THEN Schedules!_parent_has_usage(world, once, p, l) ELSE once[p][l]) = once[p][l]
    BY <1>2 DEF Schedules!_parent_has_usage
  <2>2. QED
    BY <2>1 DEF Schedules!Remembered
<1>4. once = [p \in Schedules!Principals |-> [l \in Schedules!Levels |-> once[p][l]]]
  BY DEF Schedules!Remembered
<1>5. \A q \in {"app", Schedules!Runner(world)} \X Schedules!Levels : q[1] \in Schedules!Principals /\ q[2] \in Schedules!Levels /\ q = <<q[1], q[2]>>
  BY DEF Schedules!Runner, Schedules!Principals
<1>6. QED
  BY <1>1, <1>3, <1>4, <1>5, LevelsAreAsked

(* What an inspection concludes from the answers. *)
LEMMA InspectionsConclude ==
  ASSUME NEW world, NEW answers,
         \A q \in {"app", Schedules!Runner(world)} \X Schedules!Levels : answers[q[1]][q[2]] \in Answers
  PROVE  LET levels == {"app", Schedules!Runner(world)} \X Schedules!Levels
             outcome == Schedules!Inspected(world, Schedules!Asked(world), answers)
             failed == \E q \in levels : answers[q[1]][q[2]] \in Schedules!Failures
             missing == {q \in levels : answers[q[1]][q[2]] = "no"}
             known == world.appKnown /\ world.runner # "unknown"
         IN /\ outcome.answer \in Answers
            /\ outcome.answer = "yes" => known /\ ~failed /\ missing = {}
            /\ outcome.answer = "no" => known /\ ~failed
            /\ known /\ ~failed => outcome = [answer |-> IF missing = {} THEN "yes" ELSE "no", missing |-> missing]
            /\ ~(known /\ ~failed) => outcome.missing = {}
PROOF
<1> DEFINE asked == Schedules!Asked(world)
           levels == {"app", Schedules!Runner(world)} \X Schedules!Levels
           places == {i \in DOMAIN asked : answers[asked[i][1]][asked[i][2]] \in Schedules!Failures}
           first == asked[CHOOSE i \in places : \A j \in places : i <= j]
           failed == \E q \in levels : answers[q[1]][q[2]] \in Schedules!Failures
           missing == {q \in levels : answers[q[1]][q[2]] = "no"}
           known == world.appKnown /\ world.runner # "unknown"
           outcome == Schedules!Inspected(world, asked, answers)
<1>1. Schedules!Range(asked) = levels /\ DOMAIN asked \subseteq 1 .. 4
  BY LevelsAreAsked
<1>2. places # {} <=> failed
  BY <1>1 DEF Schedules!Range
<1>3. places # {} => answers[first[1]][first[2]] \in Schedules!Failures
  <2> HAVE places # {}
  <2>1. places \subseteq {1, 2, 3, 4}
    BY <1>1
  <2>2. PICK k \in places : TRUE
    OBVIOUS
  <2> HIDE DEF places
  <2>3. \E i \in places : \A j \in places : i <= j
    <3>1. CASE 1 \in places BY <2>1, <3>1
    <3>2. CASE 1 \notin places /\ 2 \in places BY <2>1, <3>2
    <3>3. CASE 1 \notin places /\ 2 \notin places /\ 3 \in places BY <2>1, <3>3
    <3>4. CASE 1 \notin places /\ 2 \notin places /\ 3 \notin places BY <2>1, <2>2, <3>4
    <3>5. QED BY <3>1, <3>2, <3>3, <3>4
  <2>4. (CHOOSE i \in places : \A j \in places : i <= j) \in places
    BY <2>3
  <2>5. QED
    BY <2>4 DEF places
<1>4. outcome = IF ~world.appKnown \/ world.runner = "unknown" THEN [answer |-> "configuration", missing |-> {}]
                ELSE IF places # {} THEN [answer |-> answers[first[1]][first[2]], missing |-> {}]
                ELSE [answer |-> IF missing = {} THEN "yes" ELSE "no", missing |-> missing]
  BY <1>1 DEF Schedules!Inspected
<1> HIDE DEF places, first, missing, outcome, levels, asked
<1>5. QED
  BY <1>2, <1>3, <1>4 DEF Answers, Schedules!Failures, missing, levels, outcome, asked

(* The holdings of a table's parents are as the model lists them. *)
LEMMA WorldsAreTyped ==
  ASSUME NEW world \in Schedules!World
  PROVE  /\ world.warehouse \in {"up", "down", "denies", "unset"}
         /\ world.usage \in [Schedules!Principals -> [Schedules!Levels -> Schedules!Holdings]]
         /\ world.selects \in [Schedules!Principals -> BOOLEAN]
         /\ world.builtin \in BOOLEAN /\ world.runner \in {"other", "same", "unknown"}
         /\ world = [usage |-> world.usage, selects |-> world.selects, appKnown |-> world.appKnown, runner |-> world.runner,
                     builtin |-> world.builtin, warehouse |-> world.warehouse, effective |-> world.effective,
                     directory |-> world.directory, ownersOfParents |-> world.ownersOfParents,
                     ownersOfTable |-> world.ownersOfTable, callerKnown |-> world.callerKnown,
                     caller |-> world.caller, callerReads |-> world.callerReads]
PROOF
<1>1. Schedules!Usages \subseteq [Schedules!Principals -> [Schedules!Levels -> Schedules!Holdings]]
  <2> DEFINE direct == [p \in Schedules!Principals |-> [l \in Schedules!Levels |-> "direct"]]
  <2>1. direct \in [Schedules!Principals -> [Schedules!Levels -> Schedules!Holdings]]
    BY DEF Schedules!Holdings
  <2>2. Schedules!Usages = {[direct EXCEPT ![p][l] = h] : p \in Schedules!Principals, l \in Schedules!Levels, h \in Schedules!Holdings}
    BY DEF Schedules!Usages
  <2> HIDE DEF direct
  <2>3. QED
    BY <2>1, <2>2
<1>2. QED
  BY <1>1 DEF Schedules!World

(* A table that may be scheduled: both principals hold what its parents ask   *)
(* for, and where something is to be granted the caller can grant it.         *)
LEMMA SchedulableTables ==
  ASSUME NEW world \in Schedules!World, ~world.builtin,
         NEW parents, parents = Schedules!_require_source_parents(world, Schedules!Fresh),
         Schedules!can_schedule(world, parents.answer) = "yes"
  PROVE  /\ parents.answer = "yes"
         /\ Schedules!HasUsage(world, "app") /\ Schedules!HasUsage(world, Schedules!Runner(world))
         /\ Schedules!_needs_no_grant(world) = "yes" \/ Schedules!CanGrant(world)
PROOF
<1> DEFINE once == Schedules!Remembered(world, Schedules!Fresh)
           levels == {"app", Schedules!Runner(world)} \X Schedules!Levels
<1>1. parents.answer = "yes" /\ (Schedules!_needs_no_grant(world) = "yes" \/ Schedules!user_can_manage(world) = "yes")
  <2>1. Schedules!_needs_no_grant(world) = "warehouse" /\ Schedules!user_can_manage(world) # "yes" => Schedules!can_schedule(world, parents.answer) # "yes" \/ parents.answer # "yes"
    BY DEF Schedules!can_schedule, Schedules!Failures
  <2>2. QED
    BY <2>1 DEF Schedules!can_schedule
<1>2. world.warehouse \in {"up", "down", "denies", "unset"}
  BY WorldsAreTyped
<1>3. Schedules!user_can_manage(world) = "yes" => Schedules!CanGrant(world)
  BY <1>2, GrantsAreShownOrNot DEF Schedules!user_can_manage, Schedules!CanGrant, Schedules!Failures
<1>4. \A p, l : GrantAnswer(world, p, l) \in Answers /\ (GrantAnswer(world, p, l) = "yes" => world.usage[p][l] # "none")
  BY <1>2, AnswersAreTrue
<1>5. world.appKnown /\ world.runner # "unknown" => \A q \in levels : once[q[1]][q[2]] = GrantAnswer(world, q[1], q[2])
  BY <1>2, AnswersAreKept
<1>6. parents = Schedules!Inspected(world, Schedules!Asked(world), once)
  BY DEF Schedules!_require_source_parents
<1>7. world.appKnown /\ world.runner # "unknown"
  <2>1. ~world.appKnown \/ world.runner = "unknown" => parents = [answer |-> "configuration", missing |-> {}]
    BY <1>6, Zenon DEF Schedules!Inspected
  <2>2. QED
    BY <1>1, <2>1
<1>8. \A q \in levels : once[q[1]][q[2]] \in Answers
  BY <1>4, <1>5, <1>7
<1>9. \A q \in levels : once[q[1]][q[2]] \notin Schedules!Failures /\ once[q[1]][q[2]] # "no"
  BY <1>1, <1>6, <1>8, InspectionsConclude
<1>10. \A q \in levels : world.usage[q[1]][q[2]] # "none"
  BY <1>4, <1>5, <1>7, <1>8, <1>9 DEF Answers
<1>11. ASSUME NEW p \in {"app", Schedules!Runner(world)}
       PROVE  Schedules!HasUsage(world, p)
  <2>1. \A l \in Schedules!Levels : <<p, l>> \in levels
    OBVIOUS
  <2>2. QED
    BY <2>1, <1>10 DEF Schedules!HasUsage
<1>12. QED
  BY <1>1, <1>3, <1>11

(* What a passed table is granted. *)
LEMMA PassedTablesTakeTheirGrants ==
  ASSUME NEW world \in Schedules!World, Schedules!Preflight(world, Schedules!Fresh).can_manage
  PROVE  LET grant == Schedules!grant_select_precleared(world, Schedules!Remembered(world, Schedules!Fresh))
         IN /\ grant.done => world.builtin \/ \A p \in {"app", Schedules!Runner(world)} : Schedules!CanRead(grant.world, p)
            /\ world.warehouse \in {"up", "denies"} => grant.done
PROOF
<1> DEFINE parents == Schedules!_require_source_parents(world, Schedules!Fresh)
           once == Schedules!Remembered(world, Schedules!Fresh)
           grant == Schedules!grant_select_precleared(world, once)
           app == Schedules!scheduler_can_read(world) = "yes"
           w == IF app THEN world ELSE Schedules!Granted(world, "app")
           granted == IF world.runner = "other" THEN Schedules!Granted(w, "runner") ELSE w
<1>1. Schedules!can_schedule(world, parents.answer) = "yes"
  BY DEF Schedules!Preflight, Schedules!Verdict, Schedules!Reported
<1>2. CASE world.builtin
  BY <1>2 DEF Schedules!grant_select_precleared
<1>3. CASE ~world.builtin
  <2>1. /\ parents.answer = "yes"
        /\ Schedules!HasUsage(world, "app") /\ Schedules!HasUsage(world, Schedules!Runner(world))
        /\ Schedules!_needs_no_grant(world) = "yes" \/ Schedules!CanGrant(world)
    BY <1>1, <1>3, SchedulableTables
  <2>2. Schedules!_require_source_parents(world, once) = parents
    BY AnswersAreKept, WorldsAreTyped DEF Schedules!_require_source_parents
  <2>3. /\ world.runner = "other" \/ ~app => Schedules!CanGrant(world)
        /\ app => world.selects["app"]
    <3>1. Schedules!_needs_no_grant(world) = "yes" => app /\ world.runner # "other"
      BY DEF Schedules!_needs_no_grant
    <3>2. app => Schedules!CanRead(world, "app")
      BY WorldsAreTyped DEF Schedules!scheduler_can_read, Schedules!_probe_read
    <3>3. QED
      BY <2>1, <3>1, <3>2 DEF Schedules!CanRead
  <2>4. /\ grant.done => grant.world = granted
        /\ world.warehouse \in {"up", "denies"} => grant.done
    BY <1>3, <2>1, <2>2, <2>3 DEF Schedules!grant_select_precleared, Schedules!GrantWorks
  <2>5. /\ world.selects \in [Schedules!Principals -> BOOLEAN]
        /\ "selects" \in DOMAIN world /\ "usage" \in DOMAIN world
    BY WorldsAreTyped DEF Schedules!World
  <2>6. /\ w.usage = world.usage /\ w.selects \in [Schedules!Principals -> BOOLEAN] /\ w.selects["app"]
        /\ "selects" \in DOMAIN w /\ "usage" \in DOMAIN w
    BY <2>3, <2>5 DEF Schedules!Granted, Schedules!Principals
  <2> HIDE DEF w
  <2>7. granted.usage = world.usage /\ granted.selects["app"] /\ (world.runner = "other" => granted.selects["runner"])
    BY <2>6 DEF Schedules!Granted, Schedules!Principals
  <2>8. world.runner # "other" => Schedules!Runner(world) = "app" \/ world.runner = "unknown"
    BY WorldsAreTyped DEF Schedules!Runner
  <2>9. world.runner # "unknown"
    BY <2>1 DEF Schedules!_require_source_parents, Schedules!Inspected
  <2>10. world.runner = "other" => Schedules!Runner(world) = "runner"
    BY DEF Schedules!Runner
  <2>11. \A p \in {"app", Schedules!Runner(world)} : Schedules!CanRead(granted, p)
    BY <2>1, <2>7, <2>8, <2>9, <2>10 DEF Schedules!CanRead, Schedules!HasUsage
  <2>12. QED
    BY <2>4, <2>11
<1>4. QED
  BY <1>2, <1>3

\* The levels a request asks about, and what it finds missing.
LevelsOf(world) == {"app", Schedules!Runner(world)} \X Schedules!Levels
Lacking(world) == {q \in LevelsOf(world) : GrantAnswer(world, q[1], q[2]) = "no"}
Unanswered(world) ==
  \/ ~world.appKnown \/ world.runner = "unknown"
  \/ \E q \in LevelsOf(world) : GrantAnswer(world, q[1], q[2]) \in Schedules!Failures

(* The first inspection of a request, in terms of the answers alone. *)
LEMMA FirstInspection ==
  ASSUME NEW world, world.warehouse \in {"up", "down", "denies", "unset"},
         NEW parents, parents = Schedules!_require_source_parents(world, Schedules!Fresh)
  PROVE  /\ Unanswered(world) => parents.missing = {}
         /\ ~Unanswered(world) => parents = [answer |-> IF Lacking(world) = {} THEN "yes" ELSE "no", missing |-> Lacking(world)]
PROOF
<1> DEFINE once == Schedules!Remembered(world, Schedules!Fresh)
           known == world.appKnown /\ world.runner # "unknown"
           levels == {"app", Schedules!Runner(world)} \X Schedules!Levels
<1>1. parents = Schedules!Inspected(world, Schedules!Asked(world), once)
  BY DEF Schedules!_require_source_parents
<1>2. CASE ~known
  <2>1. parents = [answer |-> "configuration", missing |-> {}]
    BY <1>1, <1>2, Zenon DEF Schedules!Inspected
  <2>2. QED
    BY <1>2, <2>1 DEF Unanswered
<1>3. CASE known
  <2>1. \A q \in levels : once[q[1]][q[2]] = GrantAnswer(world, q[1], q[2])
    BY <1>3, AnswersAreKept
  <2>2. \A p, l : GrantAnswer(world, p, l) \in Answers
    BY AnswersAreTrue
  <2>3. \A q \in levels : once[q[1]][q[2]] \in Answers
    BY <2>1, <2>2
  <2> DEFINE failed == \E q \in levels : once[q[1]][q[2]] \in Schedules!Failures
             missing == {q \in levels : once[q[1]][q[2]] = "no"}
  <2>4. /\ ~failed => parents = [answer |-> IF missing = {} THEN "yes" ELSE "no", missing |-> missing]
        /\ failed => parents.missing = {}
    BY <1>1, <1>3, <2>3, InspectionsConclude
  <2>5. failed <=> Unanswered(world)
    BY <1>3, <2>1 DEF Unanswered, LevelsOf
  <2>6. missing = Lacking(world)
    BY <2>1 DEF Lacking, LevelsOf
  <2>7. QED
    BY <2>4, <2>5, <2>6
<1>4. QED
  BY <1>2, <1>3

(* What a preflight lists as missing. *)
LEMMA WhatPreflightsList ==
  ASSUME NEW world, world.warehouse \in {"up", "down", "denies", "unset"}
  PROVE  LET shown == Schedules!Preflight(world, Schedules!Fresh).missing
         IN /\ shown \subseteq Lacking(world)
            /\ shown # {} => ~Unanswered(world) /\ ~world.builtin
            /\ ~Unanswered(world) /\ ~world.builtin => shown = Lacking(world)
PROOF
<1> DEFINE parents == Schedules!_require_source_parents(world, Schedules!Fresh)
           can == Schedules!can_schedule(world, parents.answer)
           shown == Schedules!Preflight(world, Schedules!Fresh).missing
<1>1. shown = Schedules!Reported(world, can, parents.missing).missing
  BY DEF Schedules!Preflight, Schedules!Verdict
<1>2. shown \subseteq parents.missing /\ (shown # {} => ~world.builtin)
  BY <1>1 DEF Schedules!Reported
<1>3. /\ Unanswered(world) => parents.missing = {}
      /\ ~Unanswered(world) => parents = [answer |-> IF Lacking(world) = {} THEN "yes" ELSE "no", missing |-> Lacking(world)]
  BY FirstInspection
<1>4. ASSUME ~Unanswered(world), ~world.builtin, Lacking(world) # {}
      PROVE  shown = Lacking(world)
  <2>1. parents.answer = "no" /\ parents.missing = Lacking(world)
    BY <1>3, <1>4
  <2>2. can = "no"
    BY <1>4, <2>1 DEF Schedules!can_schedule
  <2>3. Schedules!manage_holders(world, Lacking(world)) = "grants"
    BY <1>4 DEF Schedules!manage_holders
  <2>4. QED
    BY <1>1, <1>4, <2>1, <2>2, <2>3 DEF Schedules!Reported, Schedules!Failures
<1>5. QED
  BY <1>2, <1>3, <1>4

(* Statements an administrator could run leave nothing to list, and what is   *)
(* listed is held by nobody else in a way that counts.                        *)
LEMMA StatementsRepair ==
  ASSUME NEW world \in Schedules!World, NEW allowed \in BOOLEAN,
         NEW result, result = Schedules!apply_missing_grants(world, allowed)
  PROVE  /\ allowed => result.after.missing = {}
         /\ \A q \in result.before.missing : world.usage[q[1]][q[2]] \in {"none", "group"}
PROOF
<1> DEFINE before == Schedules!Preflight(world, Schedules!Fresh)
           usage == [p \in Schedules!Principals |-> [l \in Schedules!Levels |->
                       IF allowed /\ <<p, l>> \in before.missing THEN "direct" ELSE world.usage[p][l]]]
           applied == [world EXCEPT !.usage = usage]
<1>1. /\ world.warehouse \in {"up", "down", "denies", "unset"}
      /\ world.usage \in [Schedules!Principals -> [Schedules!Levels -> Schedules!Holdings]]
      /\ "usage" \in DOMAIN world
  BY WorldsAreTyped DEF Schedules!World
<1>2. result.before = before /\ result.after = Schedules!Preflight(applied, Schedules!Fresh)
  BY <1>1 DEF Schedules!apply_missing_grants, Schedules!AfterGrants, Schedules!clear_caches
<1>3. /\ applied.usage = usage /\ applied.warehouse = world.warehouse /\ applied.appKnown = world.appKnown
      /\ applied.runner = world.runner /\ applied.builtin = world.builtin /\ applied.effective = world.effective
      /\ applied.directory = world.directory /\ applied.ownersOfParents = world.ownersOfParents
  BY <1>1 DEF Schedules!World
<1> HIDE DEF applied, before
<1>4. LevelsOf(applied) = LevelsOf(world) /\ \A q \in LevelsOf(world) : q[1] \in Schedules!Principals /\ q[2] \in Schedules!Levels /\ q = <<q[1], q[2]>>
  BY <1>3 DEF LevelsOf, Schedules!Runner, Schedules!Principals
<1>5. ASSUME NEW p \in Schedules!Principals, NEW l \in Schedules!Levels, ~(allowed /\ <<p, l>> \in before.missing)
      PROVE  GrantAnswer(applied, p, l) = GrantAnswer(world, p, l)
  <2>1. applied.usage[p][l] = world.usage[p][l]
    BY <1>3, <1>5
  <2>2. Schedules!_show_grants(applied) = Schedules!_show_grants(world)
    BY <1>3 DEF Schedules!_show_grants
  <2>3. \A held : Schedules!_scheduler_principals(applied, held) = Schedules!_scheduler_principals(world, held)
    BY <1>3 DEF Schedules!_scheduler_principals
  <2>4. Schedules!_parent_privileges(applied, p, l) = Schedules!_parent_privileges(world, p, l)
    BY <1>3, <2>1, <2>2, <2>3, Zenon DEF Schedules!_parent_privileges
  <2>5. Schedules!_parent_owner(applied, p, l) = Schedules!_parent_owner(world, p, l)
    BY <1>3, <2>1, <2>3, Zenon DEF Schedules!_parent_owner
  <2>6. QED
    BY <2>4, <2>5 DEF GrantAnswer
<1>6. /\ before.missing \subseteq Lacking(world)
      /\ before.missing # {} => ~Unanswered(world) /\ ~world.builtin
      /\ ~Unanswered(world) /\ ~world.builtin => before.missing = Lacking(world)
  BY <1>1, WhatPreflightsList DEF before
<1>7. /\ result.after.missing \subseteq Lacking(applied)
      /\ result.after.missing # {} => ~Unanswered(applied) /\ ~world.builtin
  BY <1>1, <1>2, <1>3, WhatPreflightsList
<1>8. ASSUME allowed, NEW q \in result.after.missing
      PROVE  FALSE
  <2>1. q \in LevelsOf(world) /\ GrantAnswer(applied, q[1], q[2]) = "no" /\ q[1] \in Schedules!Principals /\ q[2] \in Schedules!Levels /\ q = <<q[1], q[2]>>
    BY <1>4, <1>7, <1>8 DEF Lacking
  <2>2. CASE q \in before.missing
    <3>1. applied.usage[q[1]][q[2]] = "direct"
      BY <1>3, <1>8, <2>1, <2>2
    <3>2. QED
      BY <1>1, <1>3, <2>1, <3>1, DirectGrantsAreSeen
  <2>3. CASE q \notin before.missing
    <3>1. GrantAnswer(world, q[1], q[2]) = "no"
      BY <1>5, <2>1, <2>3
    <3>2. q \in Lacking(world)
      BY <2>1, <3>1 DEF Lacking
    <3>3. Unanswered(world)
      BY <1>6, <1>7, <1>8, <2>3, <3>2
    <3>4. before.missing = {}
      BY <1>6, <3>3
    <3>5. \A x \in LevelsOf(world) : GrantAnswer(applied, x[1], x[2]) = GrantAnswer(world, x[1], x[2])
      BY <1>4, <1>5, <3>4
    <3>6. Unanswered(applied)
      BY <1>3, <1>4, <3>3, <3>5 DEF Unanswered
    <3>7. QED
      BY <1>7, <1>8, <3>6
  <2>4. QED
    BY <2>2, <2>3
<1>9. ASSUME NEW q \in result.before.missing
      PROVE  world.usage[q[1]][q[2]] \in {"none", "group"}
  <2>1. q \in LevelsOf(world) /\ GrantAnswer(world, q[1], q[2]) = "no"
    BY <1>2, <1>6, <1>9 DEF Lacking
  <2>2. world.usage[q[1]][q[2]] \notin {"direct", "owner", "group_owner"}
    BY <1>1, <2>1, AnswersAreTrue
  <2>3. world.usage[q[1]][q[2]] \in Schedules!Holdings
    BY <1>1, <1>4, <2>1
  <2>4. QED
    BY <2>2, <2>3 DEF Schedules!Holdings
<1>10. QED
  BY <1>8, <1>9

\* What is asked stays what it was; nothing has been answered yet, or what
\* holds of answers does.
SchedulesInv ==
  /\ input \in Schedules!World
  /\ output.kind = "none" \/ (Schedules!PassedTablesAreReadable /\ Schedules!RepairsHelp)

(* A table that may be put on a schedule can be read by the app and by the task
   runner once it has taken its grants, which it does while the warehouse
   answers (preflight, grant_select_precleared); and the statements a preflight
   lists repair what they are about (apply_missing_grants). *)
THEOREM SchedulesCanRead ==
  Schedules!Spec => [](Schedules!PassedTablesAreReadable /\ Schedules!RepairsHelp)
PROOF
<1>1. Schedules!Init => SchedulesInv
  BY DEF Schedules!Init, SchedulesInv
<1>2. SchedulesInv /\ [Schedules!Next]_Schedules!schedulesVars => SchedulesInv'
  <2> SUFFICES ASSUME SchedulesInv, [Schedules!Next]_Schedules!schedulesVars
               PROVE  SchedulesInv'
    OBVIOUS
  <2>1. CASE Schedules!Schedule
    <3>1. /\ input' = input /\ output'.kind = "schedule" /\ output'.preflight = Schedules!Preflight(input, Schedules!Fresh)
          /\ output'.preflight.can_manage => output'.grant = Schedules!grant_select_precleared(input, Schedules!Remembered(input, Schedules!Fresh))
      BY <2>1 DEF Schedules!Schedule
    <3>2. Schedules!PassedTablesAreReadable'
      BY <3>1, PassedTablesTakeTheirGrants DEF SchedulesInv, Schedules!PassedTablesAreReadable
    <3>3. Schedules!RepairsHelp'
      BY <3>1 DEF Schedules!RepairsHelp
    <3>4. QED
      BY <3>1, <3>2, <3>3 DEF SchedulesInv
  <2>2. CASE Schedules!Repair
    <3>1. PICK allowed \in BOOLEAN :
                 output' = [kind |-> "repair", allowed |-> allowed, before |-> Schedules!apply_missing_grants(input, allowed).before,
                            after |-> Schedules!apply_missing_grants(input, allowed).after]
      BY <2>2 DEF Schedules!Repair
    <3>2. input' = input
      BY <2>2 DEF Schedules!Repair
    <3>3. /\ output'.kind = "repair" /\ output'.allowed = allowed
          /\ output'.before = Schedules!apply_missing_grants(input, allowed).before
          /\ output'.after = Schedules!apply_missing_grants(input, allowed).after
      BY <3>1
    <3>4. Schedules!RepairsHelp'
      BY <3>2, <3>3, StatementsRepair DEF SchedulesInv, Schedules!RepairsHelp
    <3>5. Schedules!PassedTablesAreReadable'
      BY <3>3 DEF Schedules!PassedTablesAreReadable
    <3>6. QED
      BY <3>2, <3>4, <3>5 DEF SchedulesInv
  <2>3. CASE UNCHANGED Schedules!schedulesVars
    BY <2>3 DEF Schedules!schedulesVars, SchedulesInv, Schedules!PassedTablesAreReadable, Schedules!RepairsHelp
  <2>4. QED
    BY <2>1, <2>2, <2>3 DEF Schedules!Next
<1>3. SchedulesInv => Schedules!PassedTablesAreReadable /\ Schedules!RepairsHelp
  BY DEF SchedulesInv, Schedules!PassedTablesAreReadable, Schedules!RepairsHelp
<1>4. QED
  BY <1>1, <1>2, <1>3, PTL DEF Schedules!Spec

-----------------------------------------------------------------------------
(* AiDrafts: whatever the model answers.  The checks of the generator go by    *)
(* the shape of an answer, so that the proof does too.                         *)

CONSTANTS Drafters, Columns, Limit, _RATE_LIMIT_WINDOW, MaxTicks, MaxCalls
VARIABLES drafting, draft, slighted, drawn, clock

Drafts == INSTANCE AiDrafts WITH MaxTime <- MaxTicks, Requests <- Drafters, request <- drafting, calls <- drawn

\* None is no draft.
DraftRules == [mode : Drafts!Modes, slots : SUBSET (Columns \cup {1, 2}), definition : Drafts!Definitions]
DraftAssumption == None \notin DraftRules

DraftInv ==
  /\ draft \in [Drafters -> DraftRules \cup {None}] /\ slighted = FALSE
  /\ \A r \in Drafters : draft[r] # None => Drafts!Bindable(draft[r])

(* The counting of slots. *)
LEMMA SlotsAreCounted ==
  Drafts!Cardinality({1}) = 1 /\ Drafts!Cardinality({1, 2}) = 2
PROOF
<1>1. Drafts!Cardinality({1}) = Cardinality({1}) /\ Drafts!Cardinality({1, 2}) = Cardinality({1, 2})
  BY Zenon DEF Drafts!Cardinality, Cardinality
<1>2. Cardinality({1}) = 1
  BY FS_Singleton
<1>3. IsFiniteSet({1})
  BY FS_Singleton
<1>4. {1, 2} = {1} \cup {2} /\ 2 \notin {1}
  OBVIOUS
<1>5. Cardinality({1} \cup {2}) = Cardinality({1}) + 1
  BY <1>3, <1>4, FS_AddElement
<1>6. QED
  BY <1>1, <1>2, <1>4, <1>5

(* What one mode makes of an answer: nothing, or a draft that can be bound, and
   nothing only of answers that are not fit (_validate_and_repair_proposal,
   _validate_lowcode_proposal). *)
LEMMA AnswersAreJudged ==
  ASSUME DraftAssumption, NEW mode, NEW answer \in Drafts!Answers
  PROVE  /\ Drafts!_generate_in_mode(mode, answer) \in DraftRules \cup {None}
         /\ Drafts!_generate_in_mode(mode, answer) # None => Drafts!Bindable(Drafts!_generate_in_mode(mode, answer))
         /\ Drafts!Sound(mode, answer) => Drafts!_generate_in_mode(mode, answer) # None
PROOF
<1> DEFINE rule == Drafts!_generate_in_mode(mode, answer)
<1>1. CASE answer \in {[shape |-> "unparsable"], [shape |-> "decline"]}
  <2>1. answer.shape \in {"unparsable", "decline"}
    BY <1>1
  <2>2. rule = None /\ ~Drafts!Sound(mode, answer)
    BY <2>1 DEF Drafts!_generate_in_mode, Drafts!Sound
  <2>3. QED
    BY <2>2
<1>2. CASE answer \in [shape : {"function"}, valid : BOOLEAN, takes : {"one", "two", "list"}, value : Drafts!Texts]
  <2> DEFINE slots == Drafts!_derive_native_slots(answer)
  <2>1. answer.shape = "function" /\ answer.takes \in {"one", "two", "list"}
    BY <1>2
  <2>2. /\ answer.takes = "one" => slots = {1} /\ Drafts!Cardinality(slots) = 1
        /\ answer.takes # "one" => slots = {1, 2} /\ Drafts!Cardinality(slots) = 2
    BY SlotsAreCounted DEF Drafts!_derive_native_slots
  <2>3. rule = IF mode = "lowcode" \/ ~answer.valid \/ Drafts!_native_needs_extra_columns(answer) THEN None
               ELSE Drafts!Rule("dqx_native", slots, answer)
    BY <2>1 DEF Drafts!_generate_in_mode, Drafts!_validate_lowcode_proposal, Drafts!_validate_and_repair_proposal
  <2>4. Drafts!_native_needs_extra_columns(answer) <=> answer.takes = "two" \/ answer.value \in {"placeholder", "declared"}
    BY <2>1, <2>2 DEF Drafts!_native_needs_extra_columns, Drafts!Recognised
  <2>5. Drafts!Rule("dqx_native", slots, answer) \in DraftRules
    BY <1>2, <2>2 DEF Drafts!Rule, DraftRules, Drafts!Modes, Drafts!Definitions
  <2>6. Drafts!Rule("dqx_native", slots, answer).definition = answer /\ Drafts!Rule("dqx_native", slots, answer).slots = slots
    BY DEF Drafts!Rule
  <2> HIDE DEF slots, rule
  <2>7. Drafts!Sound(mode, answer) => mode # "lowcode" /\ answer.valid /\ answer.value = "literal" /\ answer.takes # "two"
    BY <2>1 DEF Drafts!Sound
  <2>8. CASE mode = "lowcode" \/ ~answer.valid \/ Drafts!_native_needs_extra_columns(answer)
    BY <2>3, <2>4, <2>7, <2>8 DEF rule
  <2>9. CASE ~(mode = "lowcode" \/ ~answer.valid \/ Drafts!_native_needs_extra_columns(answer))
    <3>1. rule = Drafts!Rule("dqx_native", slots, answer)
      BY <2>3, <2>9
    <3>2. answer.valid /\ answer.value \notin {"placeholder", "declared"} /\ answer.takes \in {"one", "list"}
      BY <2>1, <2>4, <2>9
    <3>3. Drafts!Bindable(rule)
      BY <2>1, <2>2, <2>6, <3>1, <3>2 DEF Drafts!Bindable
    <3>4. QED
      BY <2>5, <3>1, <3>3 DEF rule, DraftAssumption
  <2>10. QED
    BY <2>8, <2>9
<1>3. CASE answer \in [shape : {"sql_query"}, safe : BOOLEAN, refs : SUBSET Columns, braced : SUBSET Columns, declared : SUBSET Columns]
  <2> DEFINE repaired == Drafts!brace_bare_slot_refs(answer)
  <2>1. answer.shape = "sql_query"
    BY <1>3
  <2>2. rule = IF mode = "lowcode" \/ ~answer.safe THEN None ELSE Drafts!Rule("sql", repaired.braced, repaired)
    BY <2>1 DEF Drafts!_generate_in_mode, Drafts!_validate_lowcode_proposal, Drafts!_validate_and_repair_proposal
  <2>3. /\ repaired \in [shape : {"sql_query"}, safe : BOOLEAN, refs : SUBSET Columns, braced : SUBSET Columns, declared : SUBSET Columns]
        /\ repaired.safe = answer.safe /\ repaired.refs \cap repaired.declared \subseteq repaired.braced
    BY <1>3 DEF Drafts!brace_bare_slot_refs
  <2> HIDE DEF repaired
  <2>4. Drafts!Rule("sql", repaired.braced, repaired) \in DraftRules
    BY <2>3 DEF Drafts!Rule, DraftRules, Drafts!Modes, Drafts!Definitions
  <2>5. Drafts!Rule("sql", repaired.braced, repaired).definition = repaired /\ Drafts!Rule("sql", repaired.braced, repaired).slots = repaired.braced
    BY DEF Drafts!Rule
  <2> HIDE DEF rule
  <2>6. Drafts!Sound(mode, answer) => mode # "lowcode" /\ answer.safe
    BY <2>1 DEF Drafts!Sound
  <2>7. CASE mode = "lowcode" \/ ~answer.safe
    BY <2>2, <2>6, <2>7 DEF rule
  <2>8. CASE ~(mode = "lowcode" \/ ~answer.safe)
    <3>1. rule = Drafts!Rule("sql", repaired.braced, repaired)
      BY <2>2, <2>8
    <3>2. repaired.shape = "sql_query" /\ repaired.safe
      BY <2>3, <2>8
    <3>3. Drafts!Bindable(rule)
      BY <2>3, <2>5, <3>1, <3>2 DEF Drafts!Bindable
    <3>4. QED
      BY <2>4, <3>1, <3>3 DEF rule, DraftAssumption
  <2>9. QED
    BY <2>7, <2>8
<1>4. CASE answer \in [shape : {"lowcode_ast"}, usable : BOOLEAN, safe : BOOLEAN, refs : SUBSET Columns]
  <2>1. answer.shape = "lowcode_ast"
    BY <1>4
  <2>2. rule = IF mode # "lowcode" \/ ~answer.usable \/ ~answer.safe THEN None ELSE Drafts!Rule("lowcode", answer.refs, answer)
    BY <2>1 DEF Drafts!_generate_in_mode, Drafts!_validate_lowcode_proposal, Drafts!_validate_and_repair_proposal
  <2>3. Drafts!Rule("lowcode", answer.refs, answer) \in DraftRules
    BY <1>4 DEF Drafts!Rule, DraftRules, Drafts!Modes, Drafts!Definitions
  <2>4. Drafts!Rule("lowcode", answer.refs, answer).definition = answer /\ Drafts!Rule("lowcode", answer.refs, answer).slots = answer.refs
    BY DEF Drafts!Rule
  <2> HIDE DEF rule
  <2>5. Drafts!Sound(mode, answer) => mode = "lowcode" /\ answer.safe /\ answer.usable
    BY <2>1 DEF Drafts!Sound
  <2>6. CASE mode # "lowcode" \/ ~answer.usable \/ ~answer.safe
    BY <2>2, <2>5, <2>6 DEF rule
  <2>7. CASE ~(mode # "lowcode" \/ ~answer.usable \/ ~answer.safe)
    <3>1. rule = Drafts!Rule("lowcode", answer.refs, answer)
      BY <2>2, <2>7
    <3>2. Drafts!Bindable(rule)
      BY <2>1, <2>4, <2>7, <3>1 DEF Drafts!Bindable
    <3>3. QED
      BY <2>3, <3>1, <3>2 DEF rule, DraftAssumption
  <2>8. QED
    BY <2>6, <2>7
<1>5. QED
  BY <1>1, <1>2, <1>3, <1>4 DEF Drafts!Answers, Drafts!Definitions

(* DraftsCanBeBound: a draft that is handed out can be stored and bound to the
   columns it declares, and no sound answer is turned down, whatever the model
   answers in whichever mode and however many requests there are.  A bare column
   that is not declared passes for a literal, as in the code (generate,
   _validate_and_repair_proposal, _native_needs_extra_columns). *)
THEOREM DraftsAreBindable ==
  ASSUME DraftAssumption
  PROVE  Drafts!draftsInit /\ [][Drafts!draftsNext]_(Drafts!draftVars) => []Drafts!DraftsCanBeBound
PROOF
<1>1. Drafts!draftsInit => DraftInv
  BY DEF Drafts!draftsInit, DraftInv
<1>2. DraftInv /\ [Drafts!draftsNext]_(Drafts!draftVars) => DraftInv'
  <2> SUFFICES ASSUME DraftInv, [Drafts!draftsNext]_(Drafts!draftVars)
               PROVE  DraftInv'
    OBVIOUS
  <2>1. ASSUME NEW r \in Drafters, NEW answer \in Drafts!Answers, Drafts!Ask(r, answer)
        PROVE  DraftInv'
    <3>1. PICK mode : draft' = [draft EXCEPT ![r] = Drafts!_generate_in_mode(mode, answer)]
                 /\ slighted' = (slighted \/ (Drafts!_generate_in_mode(mode, answer) = None /\ Drafts!Sound(mode, answer)))
      BY <2>1 DEF Drafts!Ask
    <3>2. PICK rule \in DraftRules \cup {None} : rule = Drafts!_generate_in_mode(mode, answer)
      BY AnswersAreJudged
    <3>3. rule # None => Drafts!Bindable(rule)
      BY <3>2, AnswersAreJudged
    <3>4. slighted' = FALSE
      BY <3>1, AnswersAreJudged DEF DraftInv
    <3>5. draft' = [draft EXCEPT ![r] = rule]
      BY <3>1, <3>2
    <3>6. QED
      BY <3>3, <3>4, <3>5 DEF DraftInv, Drafts!Bindable
  <2>2. CASE UNCHANGED <<draft, slighted>>
    BY <2>2 DEF DraftInv, Drafts!Bindable
  <2>3. QED
    BY <2>1, <2>2 DEF Drafts!draftsNext, Drafts!draftVars, Drafts!Begin, Drafts!Fails, Drafts!Tick
<1>3. DraftInv => Drafts!DraftsCanBeBound
  BY DEF DraftInv, Drafts!DraftsCanBeBound
<1>4. QED
  BY <1>1, <1>2, <1>3, PTL
=============================================================================
