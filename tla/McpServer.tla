------------------------------ MODULE McpServer ------------------------------
(***************************************************************************)
(* The MCP server (mcp-server/server) and its runner job: a tool call      *)
(* prepares what its job reads, as its caller, and submits the job as the  *)
(* app; the caller comes back with the id of the run until the result is   *)
(* there.  Views, staged files and results that are left over are swept by *)
(* later calls.                                                            *)
(***************************************************************************)
EXTENDS Naturals, FiniteSets

CONSTANTS
  Users, None,                 \* None: a request without an identity
  Calls,                       \* tool calls that submit a job
  _VIEW_TTL_SECONDS, _RESULT_TTL_SECONDS, _STAGED_TTL_SECONDS, _SWEEP_INTERVAL_SECONDS,  \* in ticks
  MaxTime, MaxFaults           \* bounds

McpAssumption == {_VIEW_TTL_SECONDS, _RESULT_TTL_SECONDS, _STAGED_TTL_SECONDS, _SWEEP_INTERVAL_SECONDS, MaxTime} \subseteq Nat

VARIABLES
  calls,       \* per call its step, its caller, what its job reads and since when; the run it submitted
  runs,        \* per call the runner's run of it, as the workspace shows it
  views,       \* the temporary views there are, by the call that made them
  files,       \* the results volume: <<"staged" or "result", call, time of writing>>
  _last_sweep_at,
  clock, faults

mcpVars == <<calls, runs, views, files, _last_sweep_at, clock, faults>>

Kinds == {"view", "staged", "plain"}   \* plain: all the job needs is in its parameters
Fault == faults < MaxFaults /\ faults' = faults + 1

\* A sweep was done longer ago than the time of any request.
Never == MaxTime + 1

Init ==
  /\ calls = [c \in Calls |-> [step |-> "none", user |-> None, kind |-> "plain", at |-> 0, lost |-> FALSE]]
  /\ runs = [c \in Calls |-> [life |-> "none", result |-> "none", user |-> None, starved |-> FALSE, at |-> 0]]
  /\ views = {} /\ files = {}
  /\ _last_sweep_at = Never /\ clock = 0 /\ faults = 0

-----------------------------------------------------------------------------
(* The tools *)

\* create_temp_view and stage_bytes_to_results_volume.  A statement whose reply
\* does not come in time may still have made its view.
Prepare(c, u, kind) ==
  /\ calls[c].step = "none"
  /\ kind = "view" => u # None                      \* get_obo_client needs the caller's token
  /\ \E step \in {"prepared", "failed"} :
       /\ IF step = "failed" THEN kind # "plain" /\ Fault ELSE UNCHANGED faults
       /\ calls' = [calls EXCEPT ![c] = [@ EXCEPT !.step = step, !.user = u, !.kind = kind, !.at = clock]]
       /\ \/ step = "failed" /\ UNCHANGED <<views, files>>
          \/ views' = (IF kind = "view" THEN views \cup {c} ELSE views)
             /\ files' = (IF kind = "staged" THEN files \cup {<<"staged", c, clock>>} ELSE files)
  /\ UNCHANGED <<runs, _last_sweep_at, clock>>

SweepDue == _last_sweep_at = Never \/ clock - _last_sweep_at >= _SWEEP_INTERVAL_SECONDS

StaleViews == {c \in views : clock - calls[c].at > _VIEW_TTL_SECONDS}

\* A bug: inputs are swept as early as results.
OneTTL(kind) == _RESULT_TTL_SECONDS

TTLOf(kind) == IF kind = "staged" THEN _STAGED_TTL_SECONDS ELSE _RESULT_TTL_SECONDS
StaleFiles == {f \in files : clock - f[3] > TTLOf(f[1])}

\* sweep_stale_views, sweep_stale_result_files: what cannot be dropped stays.
_maybe_sweep_stale_views(keptViews, keptFiles) ==
  IF SweepDue
    THEN /\ _last_sweep_at' = clock
         /\ views' = (views \ StaleViews) \cup (StaleViews \cap keptViews)
         /\ files' = (files \ StaleFiles) \cup (StaleFiles \cap keptFiles)
    ELSE UNCHANGED <<_last_sweep_at, views, files>>

Sweep == /\ SweepDue => \E kept \in {FALSE, TRUE} : IF kept THEN Fault ELSE UNCHANGED faults
         /\ ~SweepDue => UNCHANGED faults
         /\ _maybe_sweep_stale_views(IF faults' # faults THEN views ELSE {}, IF faults' # faults THEN files ELSE {})

\* submit_job_async: the sweep comes first, at the expense of the call.
SweepFirst(c) ==
  /\ calls[c].step = "prepared" /\ Sweep
  /\ calls' = [calls EXCEPT ![c].step = "swept"]
  /\ UNCHANGED <<runs, clock>>

Run(c) == [life |-> "QUEUED", result |-> "none", user |-> calls[c].user, starved |-> FALSE, at |-> clock]

\* _submit_or_drop_view: a job that cannot be submitted takes its view with it; the
\* answer may be lost although the job was submitted.
SubmitJob(c) ==
  /\ calls[c].step = "swept"
  /\ \/ /\ runs' = [runs EXCEPT ![c] = Run(c)]
        /\ calls' = [calls EXCEPT ![c].step = "submitted"]
        /\ UNCHANGED <<views, faults>>
     \/ /\ Fault /\ views' = views \ {c}
        /\ \/ runs' = [runs EXCEPT ![c] = Run(c)] /\ calls' = [calls EXCEPT ![c].step = "failed", ![c].lost = TRUE]
           \/ runs' = runs /\ calls' = [calls EXCEPT ![c].step = "failed"]
  /\ UNCHANGED <<files, _last_sweep_at, clock>>

-----------------------------------------------------------------------------
(* The runner *)

Has(c) == CASE calls[c].kind = "view" -> c \in views
            [] calls[c].kind = "staged" -> \E f \in files : f[1] = "staged" /\ f[2] = c
            [] OTHER -> TRUE

\* main: the operation reads its input; whether it fails or not, the view is dropped.
Operate(c) ==
  /\ runs[c].life = "QUEUED"
  /\ \E ok \in BOOLEAN : /\ ok => Has(c)
                         /\ runs' = [runs EXCEPT ![c].life = IF ok THEN "RUNNING" ELSE "TERMINATED",
                                                 ![c].result = IF ok THEN "none" ELSE "FAILED",
                                                 ![c].starved = ~Has(c), ![c].at = clock]
  /\ \/ views' = views \ {c} /\ UNCHANGED faults
     \/ c \in views /\ Fault /\ UNCHANGED views          \* _drop_view_safe
  /\ UNCHANGED <<calls, files, _last_sweep_at, clock>>

\* A run that is killed drops nothing.
Killed(c) ==
  /\ runs[c].life \in {"QUEUED", "RUNNING"} /\ Fault
  /\ runs' = [runs EXCEPT ![c].life = "TERMINATED", ![c].result = "CANCELED", ![c].at = clock]
  /\ UNCHANGED <<calls, views, files, _last_sweep_at, clock>>

\* _write_result, then the end of the process and of the run.
WriteResult(c) ==
  /\ runs[c].life = "RUNNING"
  /\ runs' = [runs EXCEPT ![c].life = "TERMINATED", ![c].result = "SUCCESS", ![c].at = clock]
  /\ files' = files \cup {<<"result", c, clock>>}
  /\ UNCHANGED <<calls, views, _last_sweep_at, clock, faults>>

-----------------------------------------------------------------------------
(* get_run_result *)

\* The submitter the run was started with must be the caller.
MayRead(c, u) == u # None /\ runs[c].user # None /\ u = runs[c].user

StillRunning == {"PENDING", "RUNNING", "QUEUED", "BLOCKED"}

_get_run_status_once(c, u) ==
  CASE runs[c].life = "none" \/ ~MayRead(c, u) -> "not_found"
    [] runs[c].life \in StillRunning /\ MayRead(c, u) -> "running"
    [] OTHER -> IF runs[c].result = "SUCCESS" /\ \E f \in files : f[1] = "result" /\ f[2] = c
                  THEN "completed"
                  ELSE "failed"

Tick == clock < MaxTime /\ clock' = clock + 1
        /\ UNCHANGED <<calls, runs, views, files, _last_sweep_at, faults>>

Next ==
  \/ \E c \in Calls :
       \/ \E u \in Users \cup {None} : \E kind \in Kinds : Prepare(c, u, kind)
       \/ SweepFirst(c) \/ SubmitJob(c) \/ Operate(c) \/ Killed(c) \/ WriteResult(c)
  \/ Tick

Spec == Init /\ [][Next]_mcpVars

-----------------------------------------------------------------------------
(* Properties: get_run_status reads and changes nothing, so they are about *)
(* what it would say in a state, to whom.                                  *)

\* Only the user a run was submitted for learns that there is such a run.
RunsArePrivate ==
  \A c \in Calls, u \in Users \cup {None} :
    _get_run_status_once(c, u) # "not_found" => u # None /\ u = calls[c].user

\* A job does not find its input gone unless it waited longer than the input is
\* kept, or its caller was told that it had not been submitted.
InputsOutliveTheQueue ==
  \A c \in Calls : runs[c].starved =>
    \/ calls[c].lost
    \/ runs[c].at - calls[c].at > (IF calls[c].kind = "view" THEN _VIEW_TTL_SECONDS ELSE _STAGED_TTL_SECONDS)

\* Whoever asks for the result of their run in time is told of its end as it was.
ResultsAreThereInTime ==
  \A c \in Calls, u \in Users :
    LET status == _get_run_status_once(c, u) IN
    /\ status = "completed" => runs[c].result = "SUCCESS"
    /\ status = "failed" /\ clock - runs[c].at <= _RESULT_TTL_SECONDS => runs[c].result \in {"FAILED", "CANCELED"}

McpKeepsItsWord == RunsArePrivate /\ InputsOutliveTheQueue /\ ResultsAreThereInTime
==============================================================================
