------------------------------ MODULE Scheduler ------------------------------
(***************************************************************************)
(* The background scheduler of DQX Studio (SchedulerService) and the       *)
(* tracker table dq_schedule_runs it keeps its memory in.                  *)
(*                                                                         *)
(* One scheduler loop wakes up, reads the clock once, and walks three      *)
(* sources of due work in order: scope configs, data products, monitored   *)
(* tables.  For every schedule it reads the tracker row, seeds or realigns *)
(* next_run_at, asks the Jobs API (once per tick) what is in flight, and   *)
(* fires, skips or defers.  Users edit and pause schedules and start runs  *)
(* by hand at any moment; jobs finish at any moment; the process crashes   *)
(* and loses everything but the tracker.                                   *)
(*                                                                         *)
(* Time is counted in minutes: every timestamp the scheduler compares is   *)
(* either an occurrence, which lies on a minute, or a tick's now.          *)
(***************************************************************************)
EXTENDS Integers, FiniteSetsExt

CONSTANTS
  Configs,             \* scope-config schedules   (dq_schedule_configs)
  Products,            \* data-product schedules   ("product:<id>")
  TableScheds,         \* monitored-table schedules ("table:<id>")
  Tables,              \* source tables
  Scope,               \* Scope[s]: the tables schedule s runs on
  Kind,                \* Kind[s]: schedule_kind of a product or table schedule
  Cadences,            \* schedule expressions: a frequency dict or cron + zone
  NoCadence,           \* "manual" frequency, a NULL cron or a deleted schedule
  Occurs,              \* Occurs[c]: the minutes at which cadence c occurs
  NoSchedule,          \* launched by a user, not by a schedule
  FailureBackoff,      \* _FAILURE_BACKOFF
  InFlightMaxAge,      \* _IN_FLIGHT_MAX_AGE
  ForeignOverlapGrace, \* _FOREIGN_OVERLAP_GRACE
  FaultKinds,          \* which faults may happen
  MaxFaults, MaxUserOps, MaxTime   \* bounds on the environment

Schedules == Configs \cup Products \cup TableScheds
CronSchedules == Products \cup TableScheds
NoTime == -1                       \* a NULL timestamp
Times == Nat \cup {NoTime}
MintedId == 0                      \* a run_id that names no job
ScheduleKinds == {"dq_only", "profiling_only", "profiling_and_dq"}
KindsWithDq == {"dq_only", "profiling_and_dq"}
KindsWithProfiling == {"profiling_only", "profiling_and_dq"}
AllFaults == {"crash", "jobs_api", "tracker_write", "submit", "bookkeeping", "load"}

ASSUME ScheduleAssumption ==
  /\ Configs \cap CronSchedules = {} /\ Products \cap TableScheds = {}
  /\ NoSchedule \notin Schedules /\ NoCadence \notin Cadences
  /\ Scope \in [Schedules -> SUBSET Tables]
  /\ Kind \in [CronSchedules -> ScheduleKinds]
  /\ Occurs \in [Cadences -> SUBSET Nat]

ASSUME BoundAssumption ==
  /\ FailureBackoff \in Nat \ {0} /\ InFlightMaxAge \in Nat /\ ForeignOverlapGrace \in Nat
  /\ FaultKinds \subseteq AllFaults
  /\ MaxFaults \in Nat /\ MaxUserOps \in Nat /\ MaxTime \in Nat

VARIABLES
  \* the world
  clock, jobs, nRuns, faults, userOps,
  pausedAt, resumedAt,  \* when a schedule was last paused and resumed (history)
  \* the OLTP store: schedule rows and tracker rows
  cadence, paused, next, last, lastIds, status,
  \* process memory: reload() flag, a request between commit and notify,
  \* _foreign_overlap_since
  forceRecalc, notifyPending, foreignSince,
  \* the tick in progress
  phase, loaded, tickNow, tickBefore, tickRecalc, seenState, seenJobs, todo, row,
  \* the schedule being processed and its firing
  stage, cur, subs, ids, anyOk, anyFailed

world == <<clock, jobs, nRuns, faults, userOps>>
rows == <<cadence, paused, pausedAt, resumedAt>>
tracker == <<next, last, lastIds, status>>
memory == <<forceRecalc, notifyPending, foreignSince>>
tickVars == <<phase, loaded, tickNow, tickBefore, tickRecalc, todo, row>>
seenVars == <<seenState, seenJobs>>
firing == <<subs, ids, anyOk, anyFailed>>
vars == <<world, rows, tracker, memory, tickVars, seenVars, stage, cur, firing>>

Job == [id: Nat, sched: Schedules \cup {NoSchedule}, table: Tables,
        type: {"dq", "profile", "preview"}, start: Nat]
SubRun == {"dq", "profile"} \X Tables
Statuses == {"none", "pending", "success", "partial_failure", "failed", "skipped"}

(***************************************************************************)
(* The next occurrence strictly after a minute; NoTime stands for the      *)
(* ValueError of a cron that does not parse or never matches.              *)
(***************************************************************************)
NextRun(c, after) ==
  LET later == {t \in Occurs[c] : t > after}
  IN  IF later = {} THEN NoTime ELSE Min(later)

(* Seeded fault: the occurrence of the current minute counts as the next one. *)
NextOrBackoffInclusive(c) ==
  IF NextRun(c, tickNow - 1) = NoTime THEN tickNow + FailureBackoff ELSE NextRun(c, tickNow - 1)

NextOrBackoff(c) ==
  IF NextRun(c, tickNow) = NoTime THEN tickNow + FailureBackoff ELSE NextRun(c, tickNow)

(* _is_stale_in_flight: hung jobs stop blocking. *)
Fresh(t) == tickNow - t <= InFlightMaxAge

Fault(k) ==
  /\ k \in FaultKinds
  /\ faults < MaxFaults
  /\ faults' = faults + 1

NoFault == UNCHANGED faults

(***************************************************************************)
(* Environment: time, jobs, users.                                         *)
(***************************************************************************)
Advance ==
  /\ clock < MaxTime
  /\ clock' = clock + 1
  /\ UNCHANGED <<jobs, nRuns, faults, userOps, rows, tracker, memory, tickVars, seenVars, stage, cur, firing>>

JobEnds(j) ==
  /\ j \in jobs
  /\ jobs' = jobs \ {j}
  /\ UNCHANGED <<clock, nRuns, faults, userOps, rows, tracker, memory, tickVars, seenVars, stage, cur, firing>>

(* A user starts a run or an ad-hoc preview on a table. *)
ManualRun(t, ty) ==
  /\ userOps < MaxUserOps
  /\ userOps' = userOps + 1
  /\ nRuns' = nRuns + 1
  /\ jobs' = jobs \cup {[id |-> nRuns + 1, sched |-> NoSchedule, table |-> t, type |-> ty, start |-> clock]}
  /\ UNCHANGED <<clock, faults, rows, tracker, memory, tickVars, seenVars, stage, cur, firing>>

(* A route commits an edited schedule.  notify_scheduler() comes after, except
   for an edited product or a cleared table schedule. *)
EditCadence(s, c) ==
  /\ userOps < MaxUserOps /\ ~notifyPending
  /\ c # cadence[s]
  /\ userOps' = userOps + 1
  /\ cadence' = [cadence EXCEPT ![s] = c]
  /\ notifyPending' = (s \in Configs \/ (s \in TableScheds /\ c # NoCadence))
  /\ UNCHANGED <<clock, jobs, nRuns, faults, paused, pausedAt, resumedAt, tracker, forceRecalc, foreignSince, tickVars, seenVars, stage, cur, firing>>

(* Pause or resume: the config JSON's flag or set_tracker_paused. *)
SetPaused(s, p) ==
  /\ userOps < MaxUserOps /\ ~notifyPending
  /\ p # paused[s]
  /\ userOps' = userOps + 1
  /\ paused' = [paused EXCEPT ![s] = p]
  /\ pausedAt' = IF p THEN [pausedAt EXCEPT ![s] = clock] ELSE pausedAt
  /\ resumedAt' = IF p THEN resumedAt ELSE [resumedAt EXCEPT ![s] = clock]
  /\ notifyPending' = TRUE
  /\ UNCHANGED <<clock, jobs, nRuns, faults, cadence, tracker, forceRecalc, foreignSince, tickVars, seenVars, stage, cur, firing>>

(* notify_scheduler() -> reload() *)
Notify ==
  /\ notifyPending
  /\ notifyPending' = FALSE
  /\ forceRecalc' = TRUE
  /\ UNCHANGED <<world, rows, tracker, foreignSince, tickVars, seenVars, stage, cur, firing>>

(***************************************************************************)
(* The loop.                                                               *)
(***************************************************************************)
BeginTick ==
  /\ phase = "asleep"
  /\ phase' = "configs"
  /\ loaded' = FALSE
  /\ tickNow' = clock
  /\ tickBefore' \in {clock - 1, clock}   \* the minute of now - 1 second
  /\ tickRecalc' = forceRecalc
  /\ forceRecalc' = FALSE
  /\ seenState' = "unread" /\ seenJobs' = {}
  /\ UNCHANGED <<world, rows, tracker, notifyPending, foreignSince, todo, row, stage, cur, firing>>

(* Seeded fault: the query forgets "schedule_cron IS NOT NULL". *)
PhaseSchedulesUnfiltered ==
  CASE phase = "configs" -> Configs
    [] phase = "products" -> Products
    [] phase = "tables" -> TableScheds

PhaseSchedules ==
  CASE phase = "configs" -> {s \in Configs : cadence[s] # NoCadence /\ ~paused[s]}
    [] phase = "products" -> {s \in Products : cadence[s] # NoCadence}
    [] phase = "tables" -> {s \in TableScheds : cadence[s] # NoCadence}

(* _load_schedule_configs, _load_scheduled_products, _load_scheduled_tables:
   a failing query reads as "nothing scheduled". *)
LoadRows ==
  /\ phase # "asleep" /\ ~loaded
  /\ loaded' = TRUE
  /\ row' = cadence
  /\ \/ NoFault /\ todo' = PhaseSchedules
     \/ Fault("load") /\ todo' = {}
  /\ UNCHANGED <<clock, jobs, nRuns, userOps, rows, tracker, memory, phase, tickNow, tickBefore, tickRecalc, seenVars, stage, cur, firing>>

EndPhase ==
  /\ loaded /\ todo = {} /\ stage = "pick"
  /\ phase' = CASE phase = "configs" -> "products"
                [] phase = "products" -> "tables"
                [] phase = "tables" -> "asleep"
  /\ loaded' = FALSE
  /\ row' = [s \in Schedules |-> NoCadence]
  /\ tickRecalc' = FALSE
  /\ seenState' = IF phase = "tables" THEN "unread" ELSE seenState
  /\ seenJobs' = IF phase = "tables" THEN {} ELSE seenJobs
  /\ UNCHANGED <<world, rows, tracker, memory, tickNow, tickBefore, todo, stage, cur, firing>>
(***************************************************************************)
(* One schedule of the tick.                                               *)
(***************************************************************************)
Drop(s) ==
  /\ todo' = todo \ {s}
  /\ UNCHANGED <<phase, loaded, tickNow, tickBefore, tickRecalc, row>>

(* _upsert_tracker *)
Upsert(s, l, n, i, st) ==
  /\ last' = [last EXCEPT ![s] = l]
  /\ next' = [next EXCEPT ![s] = n]
  /\ lastIds' = [lastIds EXCEPT ![s] = i]
  /\ status' = [status EXCEPT ![s] = st]

(* A paused product or table schedule is left alone. *)
PassPaused(s) ==
  /\ stage = "pick" /\ s \in todo \cap CronSchedules
  /\ paused[s]
  /\ Drop(s)
  /\ UNCHANGED <<world, rows, tracker, memory, seenVars, stage, cur, firing>>

Reseeds(s) == next[s] = NoTime \/ (s \in Configs /\ tickRecalc)

(* Seeded fault: a due next_run_at is realigned like any other. *)
TargetRealignsDue(s) ==
  IF Reseeds(s) THEN NextRun(row[s], tickBefore)
  ELSE NextRun(row[s], IF last[s] = NoTime THEN tickNow ELSE last[s])

(* The next_run_at the handler goes on with: seeded from now - 1s,
   recalculated, realigned to the live cron by _realign_next_run, or the one
   stored.  NoTime: a scope config whose expression raises. *)
Target(s) ==
  LET seed == NextRun(row[s], tickBefore)
      expected == NextRun(row[s], IF last[s] = NoTime THEN tickBefore ELSE last[s])
  IN  CASE Reseeds(s) /\ (s \in Configs \/ seed # NoTime) -> seed
        [] Reseeds(s) /\ s \in CronSchedules /\ seed = NoTime -> tickNow + FailureBackoff
        [] ~Reseeds(s) /\ (s \in Configs \/ next[s] <= tickNow \/ expected = NoTime) -> next[s]
        [] OTHER -> expected

TargetStatus(s) ==
  IF Reseeds(s) \/ status[s] = "none" THEN "pending" ELSE status[s]

(* Seed, recalculate or realign next_run_at; go on only if that is due.  A
   scope config whose _resolve_scope raises stays due for the next tick. *)
Align(s) ==
  LET n == Target(s)
      writes == n # NoTime /\ (Reseeds(s) \/ n # next[s])
      due == n # NoTime /\ n <= tickNow
      Persist == IF writes THEN Upsert(s, last[s], n, lastIds[s], TargetStatus(s))
                           ELSE UNCHANGED tracker
  IN  /\ stage = "pick" /\ s \in todo
      /\ s \in CronSchedules => ~paused[s]
      /\ \/ /\ NoFault /\ due
            /\ Persist
            /\ stage' = "due" /\ cur' = s
            /\ UNCHANGED tickVars
         \/ /\ \/ NoFault /\ ~due
               \/ Fault("load") /\ due /\ s \in Configs
            /\ Persist
            /\ Drop(s)
            /\ UNCHANGED <<stage, cur>>
         \/ /\ writes /\ Fault("tracker_write")
            /\ Drop(s)
            /\ UNCHANGED <<tracker, stage, cur>>
      /\ UNCHANGED <<clock, jobs, nRuns, userOps, rows, memory, seenVars, firing>>

(* _active_task_runner_runs: asked once per tick, the answer is reused. *)
ReadActiveRuns ==
  /\ stage = "due" /\ seenState = "unread"
  /\ \/ NoFault /\ seenState' = "listed" /\ seenJobs' = jobs
     \/ Fault("jobs_api") /\ seenState' = "unknown" /\ seenJobs' = {}
  /\ UNCHANGED <<clock, jobs, nRuns, userOps, rows, tracker, memory, tickVars, stage, cur, firing>>

(* _overlap_decision over the tables the overlap check was given. *)
FirstSeen(s) == IF foreignSince[s] = NoTime THEN tickNow ELSE foreignSince[s]

(* Seeded fault: only the run ids in the tracker are looked for. *)
OverlapDecisionOwnIdsOnly(s, tables) ==
  IF \E j \in seenJobs : Fresh(j.start) /\ j.id \in lastIds[s] THEN "skip" ELSE "fire"

OverlapDecision(s, tables) ==
  LET inFlight == {j \in seenJobs : Fresh(j.start)}
      own == \E j \in inFlight : j.id \in lastIds[s]
      foreign == \E j \in inFlight : j.type = "dq" /\ j.table \in tables
      recent == lastIds[s] # {} /\ last[s] # NoTime /\ Fresh(last[s])
  IN  CASE seenState = "unknown" -> IF recent THEN "skip" ELSE "fire"
        [] seenState # "unknown" /\ own -> "skip"
        [] seenState # "unknown" /\ ~own /\ ~foreign -> "fire"
        [] OTHER -> IF tickNow - FirstSeen(s) < ForeignOverlapGrace THEN "defer" ELSE "skip"

LeaveSchedule(s) ==
  /\ Drop(s)
  /\ stage' = "pick" /\ cur' = NoSchedule

Defer(s) ==
  /\ stage = "due" /\ cur = s /\ seenState # "unread"
  /\ OverlapDecision(s, Scope[s]) = "defer"
  /\ foreignSince' = [foreignSince EXCEPT ![s] = FirstSeen(s)]
  /\ LeaveSchedule(s)
  /\ UNCHANGED <<world, rows, tracker, forceRecalc, notifyPending, seenVars, firing>>

(* _record_skip: only next_run_at and the status move. *)
Skip(s) ==
  /\ stage = "due" /\ cur = s /\ seenState # "unread"
  /\ OverlapDecision(s, Scope[s]) = "skip"
  /\ foreignSince' = [foreignSince EXCEPT ![s] = NoTime]
  /\ \/ NoFault /\ Upsert(s, last[s], NextOrBackoff(row[s]), lastIds[s], "skipped")
     \/ Fault("tracker_write") /\ UNCHANGED tracker
  /\ LeaveSchedule(s)
  /\ UNCHANGED <<clock, jobs, nRuns, userOps, rows, forceRecalc, notifyPending, seenVars, firing>>

(* The sub-runs of one firing: DQ and/or profiling per table. *)
DqSubRuns(s) == IF s \in Configs \/ Kind[s] \in KindsWithDq THEN {"dq"} \X Scope[s] ELSE {}
ProfileSubRuns(s) == IF s \in CronSchedules /\ Kind[s] \in KindsWithProfiling THEN {"profile"} \X Scope[s] ELSE {}

(* DataProductService.run returned: the firing counts as a success whatever
   became of the members. *)
FanOutReturns(s) == s \in Products /\ DqSubRuns(s) # {}

(* A product whose members cannot be listed is checked against no table. *)
StartFiring(s) ==
  /\ stage = "due" /\ cur = s /\ seenState # "unread"
  /\ foreignSince' = [foreignSince EXCEPT ![s] = NoTime]
  /\ stage' = "firing"
  /\ ids' = {}
  /\ \/ /\ \/ NoFault /\ OverlapDecision(s, Scope[s]) = "fire"
           \/ s \in Products /\ Fault("load") /\ OverlapDecision(s, {}) = "fire"
        /\ subs' = DqSubRuns(s) \cup ProfileSubRuns(s)
        /\ anyOk' = FanOutReturns(s)
        /\ anyFailed' = (Scope[s] = {})
     \/ /\ OverlapDecision(s, Scope[s]) = "fire"
        /\ s \in CronSchedules /\ DqSubRuns(s) # {}   \* the DQ trigger raises
        /\ Fault("submit")
        /\ subs' = ProfileSubRuns(s)
        /\ anyOk' = FALSE
        /\ anyFailed' = TRUE
  /\ UNCHANGED <<clock, jobs, nRuns, userOps, rows, tracker, forceRecalc, notifyPending, tickVars, seenVars, cur>>

(* _trigger_run raises before it submits anything: _advance_after_failure. *)
TriggerFails(s) ==
  /\ stage = "due" /\ cur = s /\ seenState # "unread" /\ s \in Configs
  /\ OverlapDecision(s, Scope[s]) = "fire"
  /\ foreignSince' = [foreignSince EXCEPT ![s] = NoTime]
  /\ Fault("submit")
  /\ Upsert(s, tickNow, NextOrBackoff(row[s]), {MintedId}, "failed")
  /\ LeaveSchedule(s)
  /\ UNCHANGED <<clock, jobs, nRuns, userOps, rows, forceRecalc, notifyPending, seenVars, firing>>

NewJob(s, ty, t) ==
  /\ nRuns' = nRuns + 1
  /\ jobs' = jobs \cup {[id |-> nRuns + 1, sched |-> s, table |-> t, type |-> ty, start |-> clock]}

(* One sub-run.  Its job may start and its bookkeeping still raise, in which
   case the firing does not learn the run id. *)
Submit(ty, t) ==
  /\ stage = "firing" /\ <<ty, t>> \in subs
  /\ ty = "profile" => \A u \in Tables : <<"dq", u>> \notin subs
  /\ subs' = subs \ {<<ty, t>>}
  /\ \/ /\ NoFault
        /\ NewJob(cur, ty, t)
        /\ ids' = ids \cup {nRuns + 1}
        /\ anyOk' = TRUE
        /\ UNCHANGED anyFailed
     \/ /\ Fault("submit")
        /\ anyFailed' = TRUE
        /\ UNCHANGED <<jobs, nRuns, ids, anyOk>>
     \/ /\ Fault("bookkeeping")
        /\ NewJob(cur, ty, t)
        /\ anyFailed' = TRUE
        /\ UNCHANGED <<ids, anyOk>>
  /\ UNCHANGED <<clock, userOps, rows, tracker, memory, tickVars, seenVars, stage, cur>>

FiringStatus(s) ==
  CASE ~anyFailed -> "success"
    [] anyFailed /\ (anyOk \/ s \in Configs) -> "partial_failure"
    [] OTHER -> "failed"

RecordedIds == IF ids = {} THEN {MintedId} ELSE ids

EndFiring ==
  /\ subs' = {} /\ ids' = {} /\ anyOk' = FALSE /\ anyFailed' = FALSE

(* _finish_schedule_firing, and the end of the scope-config branch of _tick,
   where a failed write is retried once through _advance_after_failure. *)
Finish(s) ==
  LET raises == s \in Configs /\ NextRun(row[s], tickNow) = NoTime
  IN  /\ stage = "firing" /\ cur = s /\ subs = {}
      /\ \/ /\ NoFault /\ ~raises
            /\ Upsert(s, tickNow, NextOrBackoff(row[s]), RecordedIds, FiringStatus(s))
         \/ /\ \/ NoFault /\ raises
               \/ Fault("tracker_write") /\ s \in Configs
            /\ Upsert(s, tickNow, NextOrBackoff(row[s]), {MintedId}, "failed")
         \/ /\ Fault("tracker_write")
            /\ UNCHANGED tracker
      /\ EndFiring
      /\ LeaveSchedule(s)
      /\ UNCHANGED <<clock, jobs, nRuns, userOps, rows, memory, seenVars>>

(* The process dies and restarts: only the store and the jobs survive. *)
Crash ==
  /\ Fault("crash")
  /\ forceRecalc' = FALSE /\ notifyPending' = FALSE
  /\ foreignSince' = [s \in Schedules |-> NoTime]
  /\ phase' = "asleep" /\ loaded' = FALSE /\ tickRecalc' = FALSE
  /\ todo' = {} /\ row' = [s \in Schedules |-> NoCadence]
  /\ seenState' = "unread" /\ seenJobs' = {}
  /\ stage' = "pick" /\ cur' = NoSchedule
  /\ EndFiring
  /\ UNCHANGED <<clock, jobs, nRuns, userOps, rows, tracker, tickNow, tickBefore>>

-----------------------------------------------------------------------------
Init ==
  /\ clock = 0 /\ jobs = {} /\ nRuns = 0 /\ faults = 0 /\ userOps = 0
  /\ cadence \in [Schedules -> Cadences]
  /\ paused = [s \in Schedules |-> FALSE]
  /\ pausedAt = [s \in Schedules |-> NoTime] /\ resumedAt = [s \in Schedules |-> NoTime]
  /\ next = [s \in Schedules |-> NoTime]
  /\ last = [s \in Schedules |-> NoTime]
  /\ lastIds = [s \in Schedules |-> {}]
  /\ status = [s \in Schedules |-> "none"]
  /\ forceRecalc = FALSE /\ notifyPending = FALSE
  /\ foreignSince = [s \in Schedules |-> NoTime]
  /\ phase = "asleep" /\ loaded = FALSE /\ tickNow = 0 /\ tickBefore = 0 /\ tickRecalc = FALSE
  /\ seenState = "unread" /\ seenJobs = {}
  /\ todo = {} /\ row = [s \in Schedules |-> NoCadence]
  /\ stage = "pick" /\ cur = NoSchedule
  /\ subs = {} /\ ids = {} /\ anyOk = FALSE /\ anyFailed = FALSE

SchedulerStep ==
  \/ BeginTick
  \/ LoadRows
  \/ EndPhase
  \/ \E s \in Schedules :
       \/ PassPaused(s)
       \/ Align(s)
       \/ Defer(s)
       \/ Skip(s)
       \/ StartFiring(s)
       \/ TriggerFails(s)
       \/ Finish(s)
  \/ ReadActiveRuns
  \/ \E ty \in {"dq", "profile"}, t \in Tables : Submit(ty, t)

UserStep ==
  \/ \E t \in Tables, ty \in {"dq", "preview"} : ManualRun(t, ty)
  \/ \E s \in Schedules, c \in Cadences \cup {NoCadence} : EditCadence(s, c)
  \/ \E s \in Schedules, p \in BOOLEAN : SetPaused(s, p)
  \/ Notify

Next ==
  \/ Advance
  \/ \E j \in jobs : JobEnds(j)
  \/ UserStep
  \/ SchedulerStep
  \/ Crash

Spec == Init /\ [][Next]_vars

(* The loop keeps running, jobs end (the job has a timeout) and time passes. *)
FairSpec ==
  /\ Spec
  /\ WF_vars(SchedulerStep)
  /\ WF_vars(\E j \in jobs : JobEnds(j))
  /\ WF_vars(Advance)
-----------------------------------------------------------------------------
WorldOK ==
  /\ clock \in Nat /\ jobs \subseteq Job /\ nRuns \in Nat /\ faults \in Nat /\ userOps \in Nat

RowsOK ==
  /\ cadence \in [Schedules -> Cadences \cup {NoCadence}]
  /\ paused \in [Schedules -> BOOLEAN]
  /\ pausedAt \in [Schedules -> Times] /\ resumedAt \in [Schedules -> Times]

TrackerOK ==
  /\ next \in [Schedules -> Times] /\ last \in [Schedules -> Times]
  /\ lastIds \in [Schedules -> SUBSET Nat]
  /\ status \in [Schedules -> Statuses]

MemoryOK ==
  /\ forceRecalc \in BOOLEAN /\ notifyPending \in BOOLEAN
  /\ foreignSince \in [Schedules -> Times]

TickOK ==
  /\ phase \in {"asleep", "configs", "products", "tables"} /\ loaded \in BOOLEAN
  /\ tickNow \in Nat /\ tickBefore \in {tickNow - 1, tickNow} /\ tickRecalc \in BOOLEAN
  /\ seenState \in {"unread", "unknown", "listed"} /\ seenJobs \subseteq Job
  /\ row \in [Schedules -> Cadences \cup {NoCadence}]
  /\ todo \subseteq {s \in Schedules : row[s] # NoCadence}

FiringOK ==
  /\ stage \in {"pick", "due", "firing"}
  /\ cur \in IF stage = "pick" THEN {NoSchedule} ELSE todo
  /\ subs \subseteq SubRun /\ ids \subseteq Nat /\ anyOk \in BOOLEAN /\ anyFailed \in BOOLEAN

(* Every variable keeps its type: the tracker rows of dq_schedule_runs, the
   jobs the Jobs API knows, the scheduler's own memory; and a schedule the tick
   works on has a cadence to compute its next run from. *)
TypeOK == WorldOK /\ RowsOK /\ TrackerOK /\ MemoryOK /\ TickOK /\ FiringOK

(* A scheduled DQ job that is not yet old enough to be ignored as hung. *)
LiveDq(s) == {j \in jobs : j.sched = s /\ j.type = "dq" /\ clock - j.start <= InFlightMaxAge}

(* "overlapping scheduled runs cannot interleave results": two live DQ jobs of
   the same schedule never work on the same table, although the process may
   crash between a submission and the tracker write, the write itself may fail,
   and a run may be live although its bookkeeping raised. *)
NoSelfOverlap ==
  \A s \in Schedules : \A i, j \in LiveDq(s) : i.table = j.table => i = j

(* The same across schedules: no two live scheduled DQ jobs share a table. *)
NoScheduledOverlap ==
  \A s, r \in Schedules : \A i \in LiveDq(s), j \in LiveDq(r) : i.table = j.table => i = j

(* A firing is never repeated for the occurrence that was already fired:
   next_run_at of a product or table schedule stays strictly after
   last_run_at, whatever is edited, skipped, realigned or failed in between,
   so "a deterministic failure never becomes an every-tick retry loop".  For a
   scope config a reload() within the second of the firing may name the same
   minute again, never an earlier one. *)
NextAfterLast ==
  \A s \in Schedules : last[s] # NoTime =>
    /\ next[s] >= last[s]
    /\ s \in CronSchedules => next[s] > last[s]

StartsFiring(s) == stage = "due" /\ cur = s /\ stage' = "firing"

(* A firing of a product or table schedule always answers a next_run_at that
   has come due and that is later than the previous recorded firing. *)
FiringIsOwed ==
  [][\A s \in CronSchedules : StartsFiring(s) => last[s] < next[s] /\ next[s] <= tickNow]_vars

(* Only a firing or a recorded skip of the schedule itself takes a due
   next_run_at away ("One that has come due is the caller's to fire"). *)
Consumes(s) == cur = s /\ stage \in {"due", "firing"} /\ status'[s] # "pending"

LosesOwed(s) ==
  /\ phase # "asleep" /\ next[s] # NoTime /\ next[s] <= tickNow /\ next'[s] > tickNow
  /\ ~Consumes(s)

OwedRunIsNotLost == [][\A s \in CronSchedules : ~LosesOwed(s)]_vars

(* A recorded skip stands: the next tick does not take next_run_at back below
   the occurrence the skip advanced to (as long as the cron is not edited). *)
SkipStands ==
  [][\A s \in CronSchedules : status[s] = "skipped" => next'[s] >= next[s]]_vars

(* A resumed scope config does not fire for an occurrence that passed while it
   was paused ("resuming it does not retroactively fire any missed runs"). *)
MissedWhilePaused(s) == pausedAt[s] # NoTime /\ pausedAt[s] < next[s] /\ next[s] < resumedAt[s]

NoRetroactiveFiring ==
  [][\A s \in Configs : StartsFiring(s) /\ tickNow >= resumedAt[s] => ~MissedWhilePaused(s)]_vars

(* An owed run is eventually fired or skipped and the schedule moves on, after
   finitely many faults and edits. *)
Eligible(s) == cadence[s] # NoCadence /\ ~paused[s]

OwedRunIsHandled ==
  \A s \in CronSchedules :
    (Eligible(s) /\ next[s] # NoTime /\ next[s] <= clock)
      ~> (~Eligible(s) \/ (next[s] > clock /\ status[s] # "pending"))

-----------------------------------------------------------------------------
(* For small instances. *)

\* Every schedule runs on every table of the instance.
AllTables == [s \in Schedules |-> Tables]

\* Product and table schedules run validation only, or profile as well.
DqOnly == [s \in CronSchedules |-> "dq_only"]
ProfilingAndDq == [s \in CronSchedules |-> "profiling_and_dq"]

\* "every2" and "every3" occur every two and three minutes, to well beyond the
\* horizon; "broken" is a cron that never matches.
Period == [every2 |-> 2, every3 |-> 3]
OccursAt ==
  [c \in Cadences |->
     IF c = "broken" THEN {} ELSE {t \in 0..(2 * MaxTime + 6) : t % Period[c] = 0}]
=============================================================================
