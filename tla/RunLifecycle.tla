---------------------------- MODULE RunLifecycle ----------------------------
(***************************************************************************)
(* The life of a validation run of DQX Studio, from the request that       *)
(* submits it to the last clean-up of what it left behind.                 *)
(*                                                                         *)
(* A run is known in four places that no transaction spans: a temporary    *)
(* view in Unity Catalog, a job of the task runner, rows of                *)
(* dq_validation_runs, and a run set in the OLTP store.  The request       *)
(* creates the view, stages a large configuration, starts the job, inserts *)
(* a RUNNING placeholder and joins a run set, in that order.  The task runner reads the view, then   *)
(* APPENDS a terminal row next to the placeholder, then reads the view     *)
(* again to persist quarantine and metrics.  Status polls, cancellations,  *)
(* the history listing and three clean-up jobs act on the same rows and    *)
(* views at any moment.                                                    *)
(***************************************************************************)
EXTENDS Integers, FiniteSets

CONSTANTS
  Runs,          \* app-level run ids
  BindingRuns,   \* submitted by BindingRunService: these join a run set
  PreviewRuns,   \* skip_history dry runs: no placeholder, no quarantine
  DirectRuns,    \* scheduled runs over a source that is itself a view: no temporary view
  LargeRuns,     \* their configuration exceeds JOB_PARAMETERS_CHAR_LIMIT
  CancelRuns,    \* runs that users may cancel, once each
  FaultKinds,    \* which faults may happen, any number of times
  MaxReconcile,  \* _MAX_RECONCILE_PER_CALL
  MaxSweep       \* _TMP_VIEW_SWEEP_MAX_RUNS

AllFaults ==
  {"view", "stage", "submit", "placeholder", "run_set", "rollback", "cleanup", "app_crash",
   "config", "checks", "persist", "error_row", "kill", "jobs_api", "jobs_down", "update", "gc_read"}

ASSUME RunAssumption ==
  /\ BindingRuns \subseteq Runs /\ PreviewRuns \subseteq Runs /\ DirectRuns \subseteq Runs
  /\ BindingRuns \cap PreviewRuns = {} /\ BindingRuns \cap DirectRuns = {}
  /\ PreviewRuns \cap DirectRuns = {} /\ LargeRuns \subseteq Runs \ DirectRuns
  /\ CancelRuns \subseteq Runs
  /\ FaultKinds \subseteq AllFaults
  /\ MaxReconcile \in Nat /\ MaxSweep \in Nat

VARIABLES
  pc,      \* pc[r]: how far the request that submits r has come
  view,    \* view[r]: the view the job reads exists
  staged,  \* staged[r]: dq_run_configs holds the configuration of r
  job,     \* job[r]: state of the task-runner job
  start,   \* start[r]: instant at which the runner started r
  cancel,  \* cancel[r]: progress of a cancellation request
  rows,    \* the table dq_validation_runs
  runSet,  \* runSet[r]: r's request minted a dq_run_sets row
  member,  \* member[r]: dq_run_set_members has a row for r
  age,     \* age[r]: 0, 1 from _STALE_RUNNING_MAX_AGE_HOURS, 2 from _GC_AGE_HOURS
  now      \* the warehouse clock: one instant per time stamp

request == <<pc, runSet, member>>
vars == <<pc, view, staged, job, start, cancel, rows, runSet, member, age, now>>

Stale == 1
Old == 2
Active == {"queued", "running", "persisting"}
Ended == {"success", "failed", "canceled", "internal"}
Terminal == {"SUCCESS", "FAILED", "CANCELED"}
Row == [run : Runs, by : {"app", "runner"}, status : Terminal \cup {"RUNNING"}, created : Nat]
MidRequest == {"viewed", "staged", "submitted", "recorded", "minted"}

\* Whether a call that can fail with a fault of kind k fails.
May(k) == IF k \in FaultKinds THEN BOOLEAN ELSE {FALSE}

\* Which of the lookups S the Jobs API leaves unanswered: some, or all.
Silences(S) ==
  IF "jobs_down" \in FaultKinds THEN {S}
  ELSE IF "jobs_api" \in FaultKinds THEN SUBSET S ELSE {{}}

Init ==
  /\ pc = [r \in Runs |-> "new"]
  /\ view = [r \in Runs |-> r \in DirectRuns]
  /\ staged = [r \in Runs |-> FALSE]
  /\ job = [r \in Runs |-> "none"]
  /\ start = [r \in Runs |-> 0]
  /\ cancel = [r \in Runs |-> "none"]
  /\ rows = {}
  /\ runSet = [r \in Runs |-> FALSE]
  /\ member = [r \in Runs |-> FALSE]
  /\ age = [r \in Runs |-> 0]
  /\ now = 0

-----------------------------------------------------------------------------
(* Reading dq_validation_runs.                                             *)

RowsOf(r) == {w \in rows : w.run = r}

\* Mutant: the newest row wins, whatever its status.
PrecedesByAge(w, v) == w.created >= v.created

\* Mutant: the oldest terminal row wins.
PrecedesOldest(w, v) ==
  \/ w.status # "RUNNING" /\ v.status = "RUNNING"
  \/ (w.status = "RUNNING") = (v.status = "RUNNING") /\ w.created <= v.created

\* ORDER BY CASE WHEN status = 'RUNNING' THEN 1 ELSE 0 END ASC, created_at DESC
Precedes(w, v) ==
  \/ w.status # "RUNNING" /\ v.status = "RUNNING"
  \/ (w.status = "RUNNING") = (v.status = "RUNNING") /\ w.created >= v.created

\* The status every listing and every run set shows for r.
Shown(r) ==
  IF RowsOf(r) = {} THEN "NONE"
  ELSE (CHOOSE w \in RowsOf(r) : \A v \in RowsOf(r) : Precedes(w, v)).status

RunningRows == {w \in rows : w.status = "RUNNING"}
HasTerminalRow(r) == \E w \in RowsOf(r) : w.status # "RUNNING"

\* The runs of the n newest RUNNING rows among the runs S.
Newest(S, n) ==
  LET Candidates == {w \in RunningRows : w.run \in S}
  IN {w.run : w \in {v \in Candidates : Cardinality({u \in Candidates : u.created > v.created}) < n}}

\* UPDATE ... SET status = verdict[run] WHERE run_id IN verdict AND status = 'RUNNING'
Marked(verdict) ==
  {IF w.run \in DOMAIN verdict /\ w.status = "RUNNING"
     THEN [w EXCEPT !.status = verdict[w.run]] ELSE w : w \in rows}

\* update_run_status, whose failure is only logged.
UpdateRunStatus(verdict) ==
  \E lost \in May("update") : rows' = IF lost THEN rows ELSE Marked(verdict)

\* Mutant: the lifecycle state is written as it comes.
JobVerdictVerbatim(j) ==
  IF j = "failed" THEN "FAILED" ELSE IF j = "canceled" THEN "CANCELED"
  ELSE IF j = "internal" THEN "INTERNAL_ERROR" ELSE "RUNNING"

\* What the Jobs API says a row should be; a success is left to the runner.
JobVerdict(j) ==
  IF j \in {"failed", "internal"} THEN "FAILED"
  ELSE IF j = "canceled" THEN "CANCELED" ELSE "RUNNING"

\* The views of S are dropped, but for those whose drop fails and is only logged.
DropViews(S) ==
  \E kept \in SUBSET S :
    /\ kept # {} => "cleanup" \in FaultKinds
    /\ view' = [r \in Runs |-> view[r] /\ r \notin S \ kept]

-----------------------------------------------------------------------------
(* The request that submits a run.                                         *)

CreateView(r) ==
  /\ pc[r] = "new" /\ r \notin DirectRuns
  /\ \E fails \in May("view") :
       /\ view' = [view EXCEPT ![r] = ~fails]
       /\ pc' = [pc EXCEPT ![r] = IF fails THEN "failed" ELSE "viewed"]
  /\ UNCHANGED <<staged, job, start, cancel, rows, runSet, member, age, now>>

\* stage_config_to_table, for a configuration that is too large for the job's
\* parameters; where the upsert raises, the view is removed.
StageConfig(r) ==
  /\ pc[r] = "viewed" /\ r \in LargeRuns
  /\ \/ /\ pc' = [pc EXCEPT ![r] = "staged"]
        /\ staged' = [staged EXCEPT ![r] = TRUE]
        /\ UNCHANGED view
     \/ /\ "stage" \in FaultKinds
        /\ pc' = [pc EXCEPT ![r] = "failed"]
        /\ DropViews({r})
        /\ UNCHANGED staged
  /\ UNCHANGED <<job, start, cancel, rows, runSet, member, age, now>>

\* The configuration is where the job will look for it.
Prepared(r) == pc[r] = IF r \in LargeRuns THEN "staged" ELSE "viewed"

\* Mutant: the run set is joined before the placeholder is inserted.
SubmitRunUnrecorded(r) ==
  /\ Prepared(r)
  /\ pc' = [pc EXCEPT ![r] = IF r \in BindingRuns THEN "recorded" ELSE "submitted"]
  /\ job' = [job EXCEPT ![r] = "queued"]
  /\ UNCHANGED <<view, staged, start, cancel, rows, runSet, member, age, now>>

\* submit_run: run_now starts the job.
SubmitRun(r) ==
  /\ Prepared(r)
  /\ pc' = [pc EXCEPT ![r] = IF r \in PreviewRuns THEN "done" ELSE "submitted"]
  /\ job' = [job EXCEPT ![r] = "queued"]
  /\ UNCHANGED <<view, staged, start, cancel, rows, runSet, member, age, now>>

\* Mutant: the configuration stays behind when run_now raises.
SubmitFailsKeepsConfig(r) ==
  /\ Prepared(r) /\ "submit" \in FaultKinds
  /\ pc' = [pc EXCEPT ![r] = "failed"]
  /\ DropViews({r})
  /\ UNCHANGED <<staged, job, start, cancel, rows, runSet, member, age, now>>

\* run_now raises: the staged configuration and the view are removed.
SubmitFails(r) ==
  /\ Prepared(r) /\ "submit" \in FaultKinds
  /\ pc' = [pc EXCEPT ![r] = "failed"]
  /\ DropViews({r})
  /\ \E kept \in May("cleanup") : staged' = [staged EXCEPT ![r] = kept /\ staged[r]]
  /\ UNCHANGED <<job, start, cancel, rows, runSet, member, age, now>>

\* The scheduler starts a scope-config run on the source itself.
SubmitDirect(r) ==
  /\ pc[r] = "new" /\ r \in DirectRuns
  /\ pc' = [pc EXCEPT ![r] = "done"]
  /\ job' = [job EXCEPT ![r] = "queued"]
  /\ UNCHANGED <<view, staged, start, cancel, rows, runSet, member, age, now>>

\* The placeholder is inserted, or the failure of the insert is logged.
RecordDryrunStarted(r) ==
  /\ pc[r] = "submitted"
  /\ pc' = [pc EXCEPT ![r] = IF r \in BindingRuns THEN "recorded" ELSE "done"]
  /\ now' = now + 1
  /\ \E lost \in May("placeholder") :
       rows' = IF lost THEN rows
               ELSE rows \cup {[run |-> r, by |-> "app", status |-> "RUNNING", created |-> now']}
  /\ UNCHANGED <<view, staged, job, start, cancel, runSet, member, age>>

\* The request is told that the run set could not be minted; the run lives on.
CreateRunSet(r) ==
  /\ pc[r] = "recorded"
  /\ \E fails \in May("run_set") :
       /\ pc' = [pc EXCEPT ![r] = IF fails THEN "failed" ELSE "minted"]
       /\ runSet' = [runSet EXCEPT ![r] = ~fails]
  /\ UNCHANGED <<view, staged, job, start, cancel, rows, member, age, now>>

AddMember(r) ==
  /\ pc[r] = "minted"
  /\ pc' = [pc EXCEPT ![r] = "done"]
  /\ member' = [member EXCEPT ![r] = TRUE]
  /\ UNCHANGED <<view, staged, job, start, cancel, rows, runSet, age, now>>

\* Mutant: the run set is left behind.
AddMemberFailsOnly(r) ==
  /\ pc[r] = "minted" /\ "run_set" \in FaultKinds
  /\ pc' = [pc EXCEPT ![r] = "failed"]
  /\ UNCHANGED <<view, staged, job, start, cancel, rows, runSet, member, age, now>>

\* add_member raises: the run set just minted is rolled back.
AddMemberFails(r) ==
  /\ pc[r] = "minted" /\ "run_set" \in FaultKinds
  /\ pc' = [pc EXCEPT ![r] = "failed"]
  /\ \E kept \in May("rollback") : runSet' = [runSet EXCEPT ![r] = kept]
  /\ UNCHANGED <<view, staged, job, start, cancel, rows, member, age, now>>

\* The application dies in the middle of the request; nothing resumes it.
AppCrash(r) ==
  /\ pc[r] \in MidRequest /\ "app_crash" \in FaultKinds
  /\ pc' = [pc EXCEPT ![r] = "crashed"]
  /\ UNCHANGED <<view, staged, job, start, cancel, rows, runSet, member, age, now>>

-----------------------------------------------------------------------------
(* The task runner.                                                        *)

\* The job reads its configuration, staged if it is large, and starts the run.
JobStarts(r) ==
  /\ job[r] = "queued" /\ (r \in LargeRuns => staged[r])
  /\ job' = [job EXCEPT ![r] = "running"]
  /\ now' = now + 1
  /\ start' = [start EXCEPT ![r] = now']
  /\ UNCHANGED <<view, staged, cancel, rows, age, request>>

\* The checks have run over the view: the SUCCESS row is appended, its
\* created_at dated back to the start.
AppendResult(r) ==
  /\ job[r] = "running" /\ view[r]
  /\ job' = [job EXCEPT ![r] = "persisting"]
  /\ rows' = rows \cup {[run |-> r, by |-> "runner", status |-> "SUCCESS", created |-> start[r]]}
  /\ UNCHANGED <<view, staged, start, cancel, age, now, request>>

\* The finally block: the staged configuration, had it been read (main sets
\* config_cleanup then), and the temporary view are removed as the runner's
\* principal, which may lack the right to.
RunnerExit(r) ==
  /\ \E kept \in May("cleanup") : staged' = [staged EXCEPT ![r] = staged[r] /\ (kept \/ job[r] = "queued")]
  /\ \E denied \in BOOLEAN :
       view' = [view EXCEPT ![r] = view[r] /\ (denied \/ r \in DirectRuns)]

\* Quarantine and metrics are written, from a second read of the view.
PersistResult(r) ==
  /\ job[r] = "persisting" /\ (view[r] \/ r \in PreviewRuns)
  /\ job' = [job EXCEPT ![r] = "success"]
  /\ RunnerExit(r)
  /\ UNCHANGED <<start, cancel, rows, age, now, request>>

CannotGoOn(r) ==
  \/ job[r] = "queued" /\ r \in LargeRuns /\ (~staged[r] \/ "config" \in FaultKinds)
  \/ job[r] = "running" /\ (~view[r] \/ "checks" \in FaultKinds)
  \/ job[r] = "persisting" /\ r \notin PreviewRuns /\ (~view[r] \/ "persist" \in FaultKinds)

\* An exception: a FAILED row is appended, unless that fails too.
RunnerFails(r) ==
  /\ CannotGoOn(r)
  /\ job' = [job EXCEPT ![r] = "failed"]
  /\ now' = now + 1
  /\ \E lost \in May("error_row") :
       rows' = IF lost THEN rows
               ELSE rows \cup {[run |-> r, by |-> "runner", status |-> "FAILED", created |-> now']}
  /\ RunnerExit(r)
  /\ UNCHANGED <<start, cancel, age, request>>

\* The job dies without reaching its except and finally blocks: killed,
\* skipped, canceled in the workspace, or canceled through the application.
JobStops(r) ==
  /\ job[r] \in Active
  /\ \E end \in {"internal", "canceled"} :
       /\ "kill" \in FaultKinds \/ (end = "canceled" /\ cancel[r] # "none")
       /\ job' = [job EXCEPT ![r] = end]
  /\ UNCHANGED <<view, staged, start, cancel, rows, age, now, request>>

-----------------------------------------------------------------------------
(* The routes that act on a submitted run.                                 *)

\* A status poll that sees the job ended: the view is dropped, a row still
\* RUNNING is corrected.  Previews are polled by job id and have no row.
GetDryRunStatus(r) ==
  /\ job[r] \in Ended /\ (RowsOf(r) # {} \/ r \in PreviewRuns)
  /\ IF r \in DirectRuns THEN view' = view ELSE DropViews({r})
  /\ IF r \in PreviewRuns \/ job[r] = "success" THEN rows' = rows
     ELSE UpdateRunStatus([q \in {r} |-> JobVerdict(job[r])])
  /\ UNCHANGED <<staged, job, start, cancel, age, now, request>>

\* The job is asked to stop ...
CancelDryRun(r) ==
  /\ r \in CancelRuns /\ job[r] # "none" /\ cancel[r] = "none"
  /\ (RowsOf(r) # {} \/ r \in PreviewRuns)
  /\ cancel' = [cancel EXCEPT ![r] = IF r \in PreviewRuns THEN "marked" ELSE "requested"]
  /\ UNCHANGED <<view, staged, job, start, rows, age, now, request>>

\* ... and the row is marked without waiting for it.
MarkCanceled(r) ==
  /\ cancel[r] = "requested"
  /\ cancel' = [cancel EXCEPT ![r] = "marked"]
  /\ UpdateRunStatus([q \in {r} |-> "CANCELED"])
  /\ UNCHANGED <<view, staged, job, start, age, now, request>>

\* The runs a listing shows as RUNNING, and those it asks the Jobs API about.
Pending == {r \in Runs \ PreviewRuns : Shown(r) = "RUNNING"}
Lookups == Newest(Pending, MaxReconcile)

\* Mutant: no fallback on the age of the row.
VerdictOfJob(r, answered) == IF answered THEN JobVerdict(job[r]) ELSE "RUNNING"

\* Without an answer only the age of the row decides.
Verdict(r, answered) ==
  IF answered THEN JobVerdict(job[r])
  ELSE IF age[r] >= Stale THEN "FAILED" ELSE "RUNNING"

\* The history listing, which first reconciles the rows it shows as RUNNING.
ListValidationRuns ==
  \E silent \in Silences(Lookups) :
    /\ UpdateRunStatus([r \in Pending |-> Verdict(r, r \in Lookups \ silent)])
    /\ UNCHANGED <<view, staged, job, start, cancel, age, now, request>>

-----------------------------------------------------------------------------
(* Clean-up by the scheduler.                                              *)

\* The score refresh drops the view of a run whose job is no longer listed as
\* active, or of any run with a terminal row while the Jobs API is silent.
DropCompletedRunView(r) ==
  /\ member[r] /\ HasTerminalRow(r)
  /\ job[r] \in Ended \/ {"jobs_api", "jobs_down"} \cap FaultKinds # {}
  /\ DropViews({r})
  /\ UNCHANGED <<staged, job, start, cancel, rows, age, now, request>>

\* Mutant: only TERMINATED counts as ended, not INTERNAL_ERROR and SKIPPED.
AbandonedTerminated(silent) ==
  {r \in Newest(Runs, MaxSweep) \ silent : job[r] \in Ended \ {"internal"}}

\* Rows still RUNNING whose job has ended, among the newest such rows.
Abandoned(silent) ==
  {r \in Newest(Runs, MaxSweep) \ silent : job[r] \in Ended}

\* What the daily sweep drops: every view named by a terminal row, and those
\* of the abandoned runs.
SweepTargets(silent) == {r \in Runs : HasTerminalRow(r)} \cup Abandoned(silent)

SweepStaleTmpViews ==
  \E silent \in Silences(Newest(Runs, MaxSweep)) :
    /\ DropViews(SweepTargets(silent))
    /\ UpdateRunStatus([r \in Abandoned(silent) |-> JobVerdict(job[r])])
    /\ UNCHANGED <<staged, job, start, cancel, age, now, request>>

\* Mutant: the age of the view alone decides.
InUseUnchecked(unreadable) == {}

\* Views a RUNNING row still names; unknown when the rows cannot be read.
InUse(unreadable) == IF unreadable THEN {} ELSE {w.run : w \in RunningRows}

\* What the weekly collection of old temporary views drops.
GcTargets(unreadable) ==
  {r \in Runs \ DirectRuns : view[r] /\ age[r] = Old} \ InUse(unreadable)

GcOrphanViews ==
  /\ \E unreadable \in May("gc_read") : DropViews(GcTargets(unreadable))
  /\ UNCHANGED <<staged, job, start, cancel, rows, age, now, request>>

\* Time passes the next threshold; requests are long over by then.
HoursPass ==
  /\ \A r \in Runs : pc[r] \notin MidRequest /\ cancel[r] # "requested"
  /\ \E r \in Runs : pc[r] # "new" /\ age[r] < Old
  /\ age' = [r \in Runs |-> IF pc[r] # "new" /\ age[r] < Old THEN age[r] + 1 ELSE age[r]]
  /\ UNCHANGED <<view, staged, job, start, cancel, rows, now, request>>

-----------------------------------------------------------------------------
Request(r) ==
  \/ CreateView(r) \/ StageConfig(r) \/ SubmitRun(r) \/ SubmitFails(r) \/ SubmitDirect(r)
  \/ RecordDryrunStarted(r) \/ CreateRunSet(r) \/ AddMember(r) \/ AddMemberFails(r)

Runner(r) == JobStarts(r) \/ AppendResult(r) \/ PersistResult(r) \/ RunnerFails(r)

Next ==
  \/ \E r \in Runs :
       \/ Request(r) \/ AppCrash(r) \/ Runner(r) \/ JobStops(r)
       \/ GetDryRunStatus(r) \/ CancelDryRun(r) \/ MarkCanceled(r)
       \/ DropCompletedRunView(r)
  \/ ListValidationRuns \/ SweepStaleTmpViews \/ GcOrphanViews \/ HoursPass

Spec == Init /\ [][Next]_vars

\* Requests and jobs make progress, and time passes.
Progress ==
  /\ \A r \in Runs : WF_vars(Request(r)) /\ WF_vars(MarkCanceled(r)) /\ WF_vars(Runner(r))
  /\ WF_vars(HoursPass)

\* Somebody keeps looking at the run history.
WatchedSpec == Spec /\ Progress /\ WF_vars(ListValidationRuns)

\* Nobody does: only the scheduler's own clean-up keeps running.
UnattendedSpec == Spec /\ Progress /\ WF_vars(SweepStaleTmpViews) /\ WF_vars(GcOrphanViews)
-----------------------------------------------------------------------------
(* Properties.                                                             *)

\* Requests, views, jobs, rows and ages have their types.
TypeOK ==
  /\ pc \in [Runs -> MidRequest \cup {"new", "done", "failed", "crashed"}]
  /\ view \in [Runs -> BOOLEAN] /\ staged \in [Runs -> BOOLEAN]
  /\ job \in [Runs -> Active \cup Ended \cup {"none"}]
  /\ start \in [Runs -> Nat] /\ now \in Nat
  /\ cancel \in [Runs -> {"none", "requested", "marked"}]
  /\ rows \subseteq Row
  /\ runSet \in [Runs -> BOOLEAN] /\ member \in [Runs -> BOOLEAN]
  /\ age \in [Runs -> 0..Old]

\* A run that the history shows as finished is never shown as running again,
\* although its placeholder may be inserted after the runner's own row and
\* stays RUNNING next to it (_list_deduplicated_rows, _fetch_validation_rows).
TerminalStaysTerminal ==
  [][\A r \in Runs : Shown(r) \in Terminal => Shown(r)' \in Terminal]_vars

\* A run whose job succeeded is shown as SUCCESS, whatever cancellations,
\* polls, listings and sweeps did to its placeholder meanwhile, provided the
\* placeholder was inserted before the job started (the dating back of
\* _stamp_run_provenance against ORDER BY created_at DESC).
SuccessIsShown ==
  \A r \in Runs :
    /\ job[r] = "success"
    /\ \A w \in RowsOf(r) : w.by = "app" => w.created < start[r]
    => Shown(r) = "SUCCESS"

\* While a job is active and has reported nothing, and the application knows
\* of it, nobody drops the view it reads: not a failed run-set insert, not a
\* poll, not the sweep, not the garbage collection ("nothing after this point
\* may drop the view", run_binding).
LiveViewIsKept ==
  \A r \in Runs \ PreviewRuns :
    /\ job[r] \in Active /\ ~HasTerminalRow(r)
    /\ RowsOf(r) # {} \/ pc[r] = "submitted"
    => view[r]

\* "A run-set member row must never be persisted unless it can point at an
\* existing dq_validation_runs row" (run_binding).
MemberHasRow == \A r \in Runs : member[r] => RowsOf(r) # {}

\* Every run set that was minted has its member, or its request is still about
\* to add it: a failed insert leaves no empty set, which would aggregate as a
\* success (RunSetService.delete_empty); only a crash in between does.
NoEmptyRunSet == \A r \in Runs : runSet[r] => member[r] \/ pc[r] \in {"minted", "crashed"}

\* A large configuration is there for as long as its job may read it, and it
\* outlives the run only if the application died before the job was started, or
\* the job was stopped before its finally block or could not read it; a
\* submission that failed leaves none (submit_run, main).
StagedConfigIsNeeded ==
  \A r \in Runs :
    /\ job[r] = "queued" /\ r \in LargeRuns => staged[r]
    /\ staged[r] =>
         \/ job[r] \in Active \cup {"internal", "canceled"}
         \/ job[r] = "failed" /\ start[r] = 0
         \/ job[r] = "none" /\ pc[r] \in {"staged", "crashed"}

\* A run whose job has ended does not stay RUNNING in a history that somebody
\* reads, also when the Jobs API never answers (reconcile_running_rows).
EndedRunIsReported ==
  \A r \in Runs : (job[r] \in Ended /\ Shown(r) = "RUNNING") ~> (Shown(r) # "RUNNING")

\* The temporary view of a run that has ended is dropped, even if nobody polls
\* it ("drop tmp views whose runs finished but were never polled to cleanup",
\* _maybe_sweep_stale_tmp_views).
AbandonedViewIsReaped ==
  \A r \in Runs \ DirectRuns : (job[r] \in Ended /\ view[r]) ~> ~view[r]

\* The object a scheduled run reads directly "must never be dropped"
\* (_drop_completed_run_views).
SourceIsKept == \A r \in DirectRuns : view[r]

=============================================================================
